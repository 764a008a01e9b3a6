---------------------------- MODULE ChatExchange ----------------------------
(***************************************************************************)
(* What the chat endpoints promise of one exchange, whatever happens to    *)
(* the provider, the database and the client: an answer is declared        *)
(* complete, and remembered, only once its tokens are on record and its    *)
(* reservation is given back; tokens are recorded at most once; and a      *)
(* reservation that ends without a record of usage is released, never      *)
(* settled.                                                                *)
(***************************************************************************)
EXTENDS Naturals

CONSTANT Requests

VARIABLES
  hold,      \* the reservation: "none", "held", "settled" or "released"
  charged,   \* rows of usage
  told,      \* what the client has: "nothing", "part" or "all" of an answer
  saved      \* the roles of the messages of this turn in the thread

vars == <<hold, charged, told, saved>>

Init ==
  /\ hold = [r \in Requests |-> "none"]
  /\ charged = [r \in Requests |-> 0]
  /\ told = [r \in Requests |-> "nothing"]
  /\ saved = [r \in Requests |-> {}]

Reserve(r) ==
  /\ hold[r] = "none" /\ charged[r] = 0
  /\ hold' = [hold EXCEPT ![r] = "held"]
  /\ UNCHANGED <<charged, told, saved>>

Tell(r) ==
  /\ told[r] = "nothing" /\ charged[r] = 0
  /\ told' = [told EXCEPT ![r] = "part"]
  /\ UNCHANGED <<hold, charged, saved>>

(* The tokens are recorded while the reservation still covers them.        *)
Charge(r) ==
  /\ charged[r] = 0 /\ hold[r] \in {"held", "none"}
  /\ charged' = [charged EXCEPT ![r] = 1]
  /\ UNCHANGED <<hold, told, saved>>

Settle(r) ==
  /\ hold[r] = "held" /\ charged[r] = 1
  /\ hold' = [hold EXCEPT ![r] = "settled"]
  /\ UNCHANGED <<charged, told, saved>>

Release(r) ==
  /\ hold[r] = "held" /\ told[r] # "all"
  /\ hold' = [hold EXCEPT ![r] = "released"]
  /\ UNCHANGED <<charged, told, saved>>

(* The client leaves, and the way out is taken as far as it gets.          *)
Leave(r) ==
  /\ told[r] # "all"
  /\ charged' \in {charged, [charged EXCEPT ![r] = 1]}
  /\ hold[r] = "held" /\ hold' = [hold EXCEPT ![r] = "released"]
  /\ UNCHANGED <<told, saved>>

Earned(r) == charged[r] = 1 /\ hold[r] \in {"settled", "none"}

Complete(r) ==
  /\ Earned(r)
  /\ told' = [told EXCEPT ![r] = "all"]
  /\ UNCHANGED <<hold, charged, saved>>

Save(r, role) ==
  /\ Earned(r) /\ role \notin saved[r]
  /\ role = "assistant" => "user" \in saved[r]
  /\ saved' = [saved EXCEPT ![r] = @ \cup {role}]
  /\ UNCHANGED <<hold, charged, told>>

Next ==
  \E r \in Requests :
    \/ Reserve(r) \/ Tell(r) \/ Charge(r) \/ Settle(r) \/ Release(r) \/ Leave(r)
    \/ Complete(r)
    \/ \E role \in {"user", "assistant"} : Save(r, role)

Spec == Init /\ [][Next]_vars
=============================================================================
