------------------------------- MODULE Lists -------------------------------
(***************************************************************************)
(* What loops over a list compute: written as functions of the position,   *)
(* so that the proofs can reason about them turn by turn.                  *)
(***************************************************************************)
EXTENDS Naturals, Sequences, FiniteSets

(* The members of a sequence that are in S, in its order.                  *)
Among(s, S) ==
  LET kept[i \in 0..Len(s)] ==
        IF i = 0 THEN <<>>
        ELSE IF s[i] \in S THEN Append(kept[i - 1], s[i])
        ELSE kept[i - 1]
  IN  kept[Len(s)]

(* The sum of a sequence of numbers.                                       *)
Total(s) ==
  LET sum[i \in 0..Len(s)] == IF i = 0 THEN 0 ELSE sum[i - 1] + s[i]
  IN  sum[Len(s)]

(* The members of a finite set in the order Before, a set of pairs, of any *)
(* two members one: as many are before a member as its place says.         *)
Sorted(S, Before) ==
  [i \in 1..Cardinality(S) |->
     CHOOSE c \in S : Cardinality({d \in S : <<d, c>> \in Before}) = i - 1]
=============================================================================
