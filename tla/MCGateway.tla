----------------------------- MODULE MCGateway -----------------------------
(* Two requests, of two keys of one tenant and of another tenant.  The     *)
(* lines of a stream are a piece of an answer with one thing changed at a  *)
(* time, so that every test of the decoders is met on both sides.          *)
EXTENDS Gateway, TLC

CONSTANTS r1, r2, r3, k1, k2, k3, ann, bob, old, hi

Turn(who, text) ==
  <<Message("user", text), Message("assistant", <<who, 1>>)>>
MCHistories ==
  {Turn(old, <<hi, 0>>), Turn(old, <<old, 0>>) \o Turn(hi, <<old, 0>>)}

Ask(key, owner, thread) == [key |-> key, owner |-> owner, thread |-> thread]
MCAsks ==
  {Ask(k1, ann, old), Ask(k2, ann, old), Ask(k1, ann, NoThread), Ask(k3, bob, old)}
MCSays == {<<hi, 0>>}

Symmetry == Permutations({r1, r2})

Mark(json) == [Delta EXCEPT !.json = json]
Finish == [Delta EXCEPT !.finish = "stop"]
MCLines ==
  {Mark(json) : json \in {"none", "bad", "other", "end", "drop"}}
  \cup {Delta, Finish,
        [Delta EXCEPT !.head = FALSE], [Delta EXCEPT !.role = FALSE],
        [Delta EXCEPT !.finish = "bad"], [Delta EXCEPT !.usage = "bad"],
        [Delta EXCEPT !.choices = "empty"],
        [Delta EXCEPT !.content = "absent"], [Delta EXCEPT !.content = "null"],
        [Finish EXCEPT !.content = "absent"],
        [Finish EXCEPT !.content = "empty", !.usage = "counts", !.counts = Counts(1, 1)],
        [Finish EXCEPT !.content = "null", !.refusal = "text"],
        [Delta EXCEPT !.choices = "empty", !.usage = "counts", !.counts = Counts(1, 1)],
        [Delta EXCEPT !.choices = "empty", !.usage = "counts", !.counts = Counts(1, NoTokens)]}
=============================================================================
