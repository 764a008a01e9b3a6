--------------------------- MODULE GatewayProofs ---------------------------
(***************************************************************************)
(* The chat endpoints implement ChatExchange, for any number of requests,  *)
(* whatever the model servers send and whenever clients leave.             *)
(*                                                                         *)
(* The promise speaks of the reservation, the rows of usage, what the      *)
(* client has and what was saved; the code keeps to it by the order of its *)
(* steps.  The invariant says what a request has by the step it is at.     *)
(*                                                                         *)
(* EarnedInv follows the decoder to the row of usage; TalkInv says what of *)
(* a request is in its thread, beside what others save there meanwhile.    *)
(***************************************************************************)
EXTENDS Gateway, FiniteSetTheorems, WellFoundedInduction, TLAPS

(* Before the tokens are recorded, and until the stream is whole.          *)
Early    == {"idle", "thread", "history", "reserve"}
Asking   == {"start", "call", "read", "record", "recordFailed"}
Saving   == {"saveUser", "saveAssistant", "respond"}

(* What request r has by the step it is at.                                *)
Standing(r) ==
  /\ pc[r] \in Early => lease[r] = "none" /\ told[r] = "nothing"
  /\ pc[r] \in Early \cup Asking => usage[r] = <<>> /\ saved[r] = {}
  /\ pc[r] \in Asking \cup {"release", "settle"} =>
       lease[r] \in {"none", "held"} /\ told[r] \in {"nothing", "part"}
  /\ pc[r] \in {"release", "settle", "finish", "saveUser"} => saved[r] = {}
  /\ pc[r] \in {"settle", "finish"} \cup Saving => Len(usage[r]) = 1
  /\ pc[r] \in {"finish"} \cup Saving => lease[r] \in {"none", "settled"}
  /\ pc[r] = "finish" => told[r] \in {"nothing", "part"}
  /\ pc[r] = "saveAssistant" => saved[r] = {"user"}

ExchangeInv ==
  /\ DOMAIN pc = Requests /\ DOMAIN usage = Requests /\ DOMAIN call = Requests
  /\ lease \in [Requests -> {"none", "held", "settled", "released"}]
  /\ told \in [Requests -> {"nothing", "part", "all"}]
  /\ saved \in [Requests -> SUBSET {"user", "assistant"}]
  /\ \A r \in Requests : pc[r] \in Early \cup Asking \cup Saving
                                     \cup {"release", "settle", "finish", "done"}
  /\ \A r \in Requests : Standing(r)

(* What a step of r leaves alone.                                          *)
Frame(r) ==
  /\ DOMAIN pc' = Requests /\ DOMAIN usage' = Requests /\ DOMAIN call' = Requests
  /\ \A q \in Requests \ {r} :
       pc'[q] = pc[q] /\ usage'[q] = usage[q] /\ lease'[q] = lease[q]
         /\ told'[q] = told[q] /\ saved'[q] = saved[q]

(* The rows of usage, as ChatExchange counts them.                         *)
Charged == [r \in Requests |-> Len(usage[r])]

-----------------------------------------------------------------------------

LEMMA OneRow == ASSUME NEW x PROVE Len(Append(<<>>, x)) = 1 /\ Len(<<>>) = 0
OBVIOUS

LEMMA StandingKept ==
  ASSUME ExchangeInv, NEW r \in Requests, Frame(r),
         lease' \in [Requests -> {"none", "held", "settled", "released"}],
         told' \in [Requests -> {"nothing", "part", "all"}],
         saved' \in [Requests -> SUBSET {"user", "assistant"}],
         pc'[r] \in Early \cup Asking \cup Saving \cup {"release", "settle", "finish", "done"},
         Standing(r)'
  PROVE  ExchangeInv'
<1>1. ASSUME NEW q \in Requests \ {r}
      PROVE  Standing(q)' /\ pc'[q] \in Early \cup Asking \cup Saving
                                         \cup {"release", "settle", "finish", "done"}
  BY <1>1 DEF ExchangeInv, Frame, Standing
<1> QED
  BY <1>1 DEF ExchangeInv, Frame

(* A request that only moves on keeps what it has.                         *)
LEMMA MovesOn ==
  ASSUME ExchangeInv, NEW r \in Requests, NEW step, Goto(r, step),
         DOMAIN call' = Requests,
         UNCHANGED <<lease, usage, told, saved>>,
         step \in Early \cup Asking \cup Saving \cup {"release", "settle", "finish", "done"},
         Standing(r)'
  PROVE  ExchangeInv' /\ UNCHANGED Exchange!vars
<1>1. Frame(r) /\ pc'[r] = step
  BY DEF ExchangeInv, Goto, Frame
<1>2. ExchangeInv'
  BY <1>1, StandingKept DEF ExchangeInv
<1> QED
  BY <1>2 DEF Exchange!vars

(* End is a move to "done".                                                *)
LEMMA Ends ==
  ASSUME ExchangeInv, NEW r \in Requests, End(r)
  PROVE  /\ Goto(r, "done") /\ pc'[r] = "done" /\ Standing(r)'
         /\ DOMAIN call' = Requests
<1>1. Goto(r, "done") /\ pc'[r] = "done" /\ DOMAIN call' = Requests
  BY DEF ExchangeInv, End, Goto
<1> QED
  BY <1>1 DEF Standing, Early, Asking, Saving

-----------------------------------------------------------------------------
(* The steps that ChatExchange does not see.                               *)

LEMMA BeginStep ==
  ASSUME ExchangeInv, NEW r \in Requests, NEW streams, Begin(r, streams)
  PROVE  ExchangeInv' /\ UNCHANGED Exchange!vars
<1>1. UNCHANGED <<lease, usage, told, saved>> /\ pc[r] = "idle"
  BY DEF Begin
<1>2. DOMAIN call' = Requests
  BY DEF Begin, ExchangeInv
<1>3. PICK step \in {"thread", "done"} : Goto(r, step)
  BY DEF Begin
<1>4. pc'[r] = step
  BY <1>3 DEF Goto, ExchangeInv
<1>5. Standing(r)'
  BY <1>1, <1>3, <1>4 DEF Standing, ExchangeInv, Early, Asking, Saving
<1>6. step \in Early \cup Asking \cup Saving \cup {"release", "settle", "finish", "done"}
  BY <1>3 DEF Early
<1> QED
  BY <1>1, <1>2, <1>3, <1>5, <1>6, MovesOn

LEMMA ThreadStep ==
  ASSUME ExchangeInv, NEW r \in Requests, ResolveThread(r)
  PROVE  ExchangeInv' /\ UNCHANGED Exchange!vars
<1>1. UNCHANGED <<lease, usage, told, saved>> /\ pc[r] = "thread"
  BY DEF ResolveThread
<1>2. DOMAIN call' = Requests
  BY DEF ResolveThread, ExchangeInv, End
<1>3. PICK step \in {"history", "done"} : Goto(r, step)
  BY DEF ResolveThread, End, Goto
<1>4. pc'[r] = step
  BY <1>3 DEF Goto, ExchangeInv
<1>5. Standing(r)'
  BY <1>1, <1>3, <1>4 DEF Standing, ExchangeInv, Early, Asking, Saving
<1>6. step \in Early \cup Asking \cup Saving \cup {"release", "settle", "finish", "done"}
  BY <1>3 DEF Early
<1> QED
  BY <1>1, <1>2, <1>3, <1>5, <1>6, MovesOn

LEMMA PrepareStep ==
  ASSUME ExchangeInv, NEW r \in Requests, PrepareThread(r)
  PROVE  ExchangeInv' /\ UNCHANGED Exchange!vars
<1>1. UNCHANGED <<lease, usage, told, saved, call>> /\ pc[r] = "history" /\ Goto(r, "reserve")
  BY DEF PrepareThread
<1>2. pc'[r] = "reserve" /\ DOMAIN call' = Requests
  BY <1>1 DEF Goto, ExchangeInv
<1>3. Standing(r)'
  BY <1>1, <1>2 DEF Standing, ExchangeInv, Early, Asking, Saving
<1>4. "reserve" \in Early \cup Asking \cup Saving \cup {"release", "settle", "finish", "done"}
  BY DEF Early
<1> QED
  BY <1>1, <1>2, <1>3, <1>4, MovesOn

LEMMA AskStep ==
  ASSUME ExchangeInv, NEW r \in Requests,
         ServiceChat(r) \/ StartStream(r) \/ RenewalFails(r)
  PROVE  ExchangeInv' /\ UNCHANGED Exchange!vars
<1>1. UNCHANGED <<lease, usage, told, saved>> /\ pc[r] \in {"call", "start", "read"}
  BY DEF ServiceChat, StartStream, RenewalFails
<1>2. DOMAIN call' = Requests
  BY DEF ServiceChat, StartStream, RenewalFails, Unwind, ExchangeInv
<1>3. PICK step \in {"record", "release", "read", "recordFailed"} : Goto(r, step)
  BY DEF ServiceChat, StartStream, RenewalFails
<1>4. pc'[r] = step
  BY <1>3 DEF Goto, ExchangeInv
<1>5. Standing(r)'
  BY <1>1, <1>3, <1>4 DEF Standing, ExchangeInv, Early, Asking, Saving
<1>6. step \in Early \cup Asking \cup Saving \cup {"release", "settle", "finish", "done"}
  BY <1>3 DEF Asking
<1> QED
  BY <1>1, <1>2, <1>3, <1>5, <1>6, MovesOn

-----------------------------------------------------------------------------
(* The steps that it does.                                                 *)

LEMMA ReserveStep ==
  ASSUME ExchangeInv, NEW r \in Requests, Reserve(r)
  PROVE  ExchangeInv' /\ [Exchange!Next]_Exchange!vars
<1>1. pc[r] = "reserve" /\ UNCHANGED <<usage, told, saved>>
  BY DEF Reserve
<1>2. lease[r] = "none" /\ told[r] = "nothing" /\ usage[r] = <<>> /\ saved[r] = {}
  BY <1>1 DEF ExchangeInv, Standing, Early
<1>3. CASE End(r) /\ UNCHANGED lease
  BY <1>1, <1>3, Ends, MovesOn
<1>4. CASE /\ lease' = [lease EXCEPT ![r] = IF enabled THEN "held" ELSE @]
           /\ Goto(r, IF Streams(r) THEN "start" ELSE "call")
           /\ UNCHANGED <<call, prompt>>
  <2>1. Frame(r) /\ pc'[r] \in {"start", "call"}
    BY <1>1, <1>4 DEF Frame, ExchangeInv, Goto
  <2>2. lease' \in [Requests -> {"none", "held", "settled", "released"}]
        /\ lease'[r] \in {"none", "held"}
    BY <1>2, <1>4 DEF ExchangeInv
  <2>3. Standing(r)'
    BY <1>1, <1>2, <2>1, <2>2 DEF Standing, Early, Asking, Saving
  <2>4. ExchangeInv'
    BY <1>1, <2>1, <2>2, <2>3, StandingKept DEF ExchangeInv, Asking
  <2>5. CASE enabled
    <3>1. lease' = [lease EXCEPT ![r] = "held"]
      BY <1>4, <2>5
    <3>2. Charged[r] = 0
      BY <1>2, OneRow DEF Charged
    <3>3. Exchange!Reserve(r)
      BY <1>1, <1>2, <3>1, <3>2 DEF Exchange!Reserve, Charged
    <3> QED
      BY <2>4, <3>3 DEF Exchange!Next
  <2>6. CASE ~enabled
    BY <1>1, <1>4, <2>4, <2>6 DEF Exchange!vars, ExchangeInv
  <2> QED
    BY <2>5, <2>6
<1> QED
  BY <1>3, <1>4 DEF Reserve

LEMMA ReadStep ==
  ASSUME ExchangeInv, NEW r \in Requests, ReadLine(r)
  PROVE  ExchangeInv' /\ [Exchange!Next]_Exchange!vars
<1>1. pc[r] = "read" /\ UNCHANGED <<lease, usage, saved>>
  BY DEF ReadLine
<1>2. /\ lease[r] \in {"none", "held"} /\ told[r] \in {"nothing", "part"}
      /\ usage[r] = <<>> /\ saved[r] = {}
  BY <1>1 DEF ExchangeInv, Standing, Asking
<1>3. told' \in {told, [told EXCEPT ![r] = "part"]}
  BY DEF ReadLine, SendFrame
<1>4. /\ DOMAIN call' = Requests
      /\ pc' \in {pc, [pc EXCEPT ![r] = "record"], [pc EXCEPT ![r] = "recordFailed"]}
  BY DEF ReadLine, SendFrame, Unwind, Goto, ExchangeInv
<1>5. Frame(r) /\ pc'[r] \in {"read", "record", "recordFailed"}
  BY <1>1, <1>3, <1>4 DEF Frame, ExchangeInv
<1>6. told' \in [Requests -> {"nothing", "part", "all"}] /\ told'[r] \in {"nothing", "part"}
  BY <1>2, <1>3 DEF ExchangeInv
<1>7. Standing(r)'
  BY <1>1, <1>2, <1>5, <1>6 DEF Standing, Early, Asking, Saving
<1>8. ExchangeInv'
  BY <1>1, <1>5, <1>6, <1>7, StandingKept DEF ExchangeInv, Asking
<1>9. CASE told' = told
  BY <1>1, <1>8, <1>9 DEF Exchange!vars
<1>10. CASE told' # told
  <2>1. told' = [told EXCEPT ![r] = "part"] /\ told[r] = "nothing"
    BY <1>2, <1>3, <1>10 DEF ExchangeInv
  <2>2. Charged[r] = 0
    BY <1>2, OneRow DEF Charged
  <2>3. Exchange!Tell(r)
    BY <1>1, <2>1, <2>2 DEF Exchange!Tell, Charged
  <2> QED
    BY <1>8, <2>3 DEF Exchange!Next
<1> QED
  BY <1>9, <1>10

(* The one row of usage is what ChatExchange charges.                      *)
LEMMA RowIsCharge ==
  ASSUME ExchangeInv, NEW r \in Requests, usage[r] = <<>>, WriteUsage(r)
  PROVE  /\ Charged[r] = 0 /\ Charged' = [Charged EXCEPT ![r] = 1]
         /\ Len(usage'[r]) = 1 /\ DOMAIN usage' = Requests
         /\ \A q \in Requests \ {r} : usage'[q] = usage[q]
<1>1. /\ usage'[r] = Append(<<>>, call[r].counts) /\ DOMAIN usage' = Requests
      /\ \A q \in Requests \ {r} : usage'[q] = usage[q]
  BY DEF WriteUsage, ExchangeInv
<1>2. Len(usage'[r]) = 1 /\ Len(usage[r]) = 0
  BY <1>1, OneRow
<1> QED
  BY <1>1, <1>2 DEF Charged

LEMMA RecordStep ==
  ASSUME ExchangeInv, NEW r \in Requests, RecordUsage(r) \/ RecordFailed(r)
  PROVE  ExchangeInv' /\ [Exchange!Next]_Exchange!vars
<1>1. /\ pc[r] \in {"record", "recordFailed"}
      /\ UNCHANGED <<lease, told, saved, call>>
  BY DEF RecordUsage, RecordFailed
<1>2. /\ lease[r] \in {"none", "held"} /\ told[r] \in {"nothing", "part"}
      /\ usage[r] = <<>> /\ saved[r] = {}
  BY <1>1 DEF ExchangeInv, Standing, Asking
<1>3. CASE UNCHANGED usage /\ Goto(r, "release")
  <2>1. pc'[r] = "release"
    BY <1>3 DEF Goto, ExchangeInv
  <2>2. Standing(r)'
    BY <1>1, <1>2, <1>3, <2>1 DEF Standing, Early, Asking, Saving
  <2> QED
    BY <1>1, <1>3, <2>2, MovesOn DEF ExchangeInv
<1>4. CASE WriteUsage(r) /\ (Goto(r, "settle") \/ Goto(r, "release"))
  <2>1. Frame(r) /\ pc'[r] \in {"settle", "release"} /\ Len(usage'[r]) = 1
    BY <1>1, <1>2, <1>4, RowIsCharge DEF Frame, ExchangeInv, Goto
  <2>2. Standing(r)'
    BY <1>1, <1>2, <2>1 DEF Standing, Early, Asking, Saving
  <2>3. ExchangeInv'
    BY <1>1, <2>1, <2>2, StandingKept DEF ExchangeInv
  <2>4. Exchange!Charge(r)
    BY <1>1, <1>2, <1>4, RowIsCharge DEF Exchange!Charge, Charged
  <2> QED
    BY <2>3, <2>4 DEF Exchange!Next
<1> QED
  BY <1>3, <1>4 DEF RecordUsage, RecordFailed

LEMMA SettleStep ==
  ASSUME ExchangeInv, NEW r \in Requests, Settle(r)
  PROVE  ExchangeInv' /\ [Exchange!Next]_Exchange!vars
<1>1. pc[r] = "settle" /\ UNCHANGED <<call, usage, told, saved>>
  BY DEF Settle
<1>2. /\ lease[r] \in {"none", "held"} /\ told[r] \in {"nothing", "part"}
      /\ Len(usage[r]) = 1 /\ saved[r] = {}
  BY <1>1 DEF ExchangeInv, Standing
<1>3. CASE UNCHANGED lease /\ Goto(r, "release")
  <2>1. pc'[r] = "release"
    BY <1>3 DEF Goto, ExchangeInv
  <2>2. Standing(r)'
    BY <1>1, <1>2, <1>3, <2>1 DEF Standing, Early, Asking, Saving
  <2> QED
    BY <1>1, <1>3, <2>2, MovesOn DEF ExchangeInv
<1>4. CASE /\ lease' = [lease EXCEPT ![r] = IF @ = "held" THEN "settled" ELSE @]
           /\ Goto(r, IF Streams(r) THEN "finish" ELSE "saveUser")
  <2>1. Frame(r) /\ pc'[r] \in {"finish", "saveUser"}
    BY <1>1, <1>4 DEF Frame, ExchangeInv, Goto
  <2>2. lease' \in [Requests -> {"none", "held", "settled", "released"}]
        /\ lease'[r] \in {"none", "settled"}
    BY <1>2, <1>4 DEF ExchangeInv
  <2>3. Standing(r)'
    BY <1>1, <1>2, <2>1, <2>2 DEF Standing, Early, Asking, Saving
  <2>4. ExchangeInv'
    BY <1>1, <2>1, <2>2, <2>3, StandingKept DEF ExchangeInv, Saving
  <2>5. CASE lease[r] = "held"
    <3>1. lease' = [lease EXCEPT ![r] = "settled"]
      BY <1>4, <2>5
    <3>2. Exchange!Settle(r)
      BY <1>1, <1>2, <2>5, <3>1 DEF Exchange!Settle
    <3> QED
      BY <2>4, <3>2 DEF Exchange!Next
  <2>6. CASE lease[r] # "held"
    BY <1>1, <1>4, <2>4, <2>6 DEF Exchange!vars, ExchangeInv
  <2> QED
    BY <2>5, <2>6
<1> QED
  BY <1>3, <1>4 DEF Settle

LEMMA ReleaseStep ==
  ASSUME ExchangeInv, NEW r \in Requests, Release(r)
  PROVE  ExchangeInv' /\ [Exchange!Next]_Exchange!vars
<1>1. pc[r] = "release" /\ UNCHANGED <<usage, told, saved>> /\ End(r)
  BY DEF Release
<1>2. lease[r] \in {"none", "held"} /\ told[r] \in {"nothing", "part"}
  BY <1>1 DEF ExchangeInv, Standing
<1>3. CASE UNCHANGED lease
  BY <1>1, <1>3, Ends, MovesOn
<1>4. CASE lease' # lease
  <2>1. lease[r] = "held" /\ lease' = [lease EXCEPT ![r] = "released"]
    BY <1>4 DEF Release, ExchangeInv
  <2>2. lease' \in [Requests -> {"none", "held", "settled", "released"}]
    BY <2>1 DEF ExchangeInv
  <2>3. Frame(r)
    BY <1>1, <2>1, Ends DEF Frame, ExchangeInv, Goto
  <2>4. ExchangeInv'
    BY <1>1, <2>2, <2>3, Ends, StandingKept DEF ExchangeInv
  <2>5. Exchange!Release(r)
    BY <1>1, <1>2, <2>1 DEF Exchange!Release
  <2> QED
    BY <2>4, <2>5 DEF Exchange!Next
<1> QED
  BY <1>3, <1>4

LEMMA CompleteStep ==
  ASSUME ExchangeInv, NEW r \in Requests, SendDone(r) \/ Respond(r)
  PROVE  ExchangeInv' /\ [Exchange!Next]_Exchange!vars
<1>1. /\ UNCHANGED <<lease, usage, saved>> /\ told' = [told EXCEPT ![r] = "all"]
      /\ \/ pc[r] = "finish" /\ Goto(r, "saveUser") /\ UNCHANGED call
         \/ pc[r] = "respond" /\ End(r)
  BY DEF SendDone, Respond
<1>2. lease[r] \in {"none", "settled"} /\ Len(usage[r]) = 1
  BY <1>1 DEF ExchangeInv, Standing, Saving
<1>3. pc[r] = "finish" => saved[r] = {}
  BY DEF ExchangeInv, Standing
<1>4. Frame(r) /\ (pc'[r] = "done" \/ (pc[r] = "finish" /\ pc'[r] = "saveUser"))
  BY <1>1, Ends DEF Frame, ExchangeInv, Goto
<1>5. Standing(r)'
  BY <1>1, <1>2, <1>3, <1>4 DEF Standing, Early, Asking, Saving
<1>6. told' \in [Requests -> {"nothing", "part", "all"}]
  BY <1>1 DEF ExchangeInv
<1>7. ExchangeInv'
  BY <1>1, <1>4, <1>5, <1>6, StandingKept DEF ExchangeInv, Saving
<1>8. Exchange!Complete(r)
  BY <1>1, <1>2 DEF Exchange!Complete, Exchange!Earned
<1> QED
  BY <1>7, <1>8 DEF Exchange!Next

LEMMA SaveStep ==
  ASSUME ExchangeInv, NEW r \in Requests, SaveUser(r) \/ SaveAssistant(r)
  PROVE  ExchangeInv' /\ [Exchange!Next]_Exchange!vars
<1>1. /\ UNCHANGED <<call, lease, usage, told>>
      /\ pc[r] \in {"saveUser", "saveAssistant"}
  BY DEF SaveUser, SaveAssistant
<1>2. lease[r] \in {"none", "settled"} /\ Len(usage[r]) = 1
  BY <1>1 DEF ExchangeInv, Standing, Saving
<1>3. /\ pc[r] = "saveUser" => saved[r] = {}
      /\ pc[r] = "saveAssistant" => saved[r] = {"user"}
  BY DEF ExchangeInv, Standing
<1>4. CASE Goto(r, "respond") /\ UNCHANGED saved
  <2>1. pc'[r] = "respond"
    BY <1>4 DEF Goto, ExchangeInv
  <2>2. Standing(r)'
    BY <1>1, <1>2, <1>4, <2>1 DEF Standing, Early, Asking, Saving
  <2>3. "respond" \in Saving
    BY DEF Saving
  <2> QED
    BY <1>1, <1>4, <2>2, <2>3, MovesOn DEF ExchangeInv
<1>5. CASE /\ pc[r] = "saveUser" /\ saved' = [saved EXCEPT ![r] = @ \cup {"user"}]
           /\ Goto(r, IF call[r].pieces > 0 THEN "saveAssistant" ELSE "respond")
  <2>1. Frame(r) /\ pc'[r] \in {"saveAssistant", "respond"} /\ saved'[r] = {"user"}
    BY <1>1, <1>3, <1>5 DEF Frame, ExchangeInv, Goto
  <2>2. Standing(r)'
    BY <1>1, <1>2, <2>1 DEF Standing, Early, Asking, Saving
  <2>3. saved' \in [Requests -> SUBSET {"user", "assistant"}]
    BY <1>5 DEF ExchangeInv
  <2>4. ExchangeInv'
    BY <1>1, <2>1, <2>2, <2>3, StandingKept DEF ExchangeInv, Saving
  <2>5. Exchange!Save(r, "user")
    BY <1>1, <1>2, <1>3, <1>5 DEF Exchange!Save, Exchange!Earned
  <2> QED
    BY <2>4, <2>5 DEF Exchange!Next
<1>6. CASE /\ pc[r] = "saveAssistant" /\ saved' = [saved EXCEPT ![r] = @ \cup {"assistant"}]
           /\ Goto(r, "respond")
  <2>1. Frame(r) /\ pc'[r] = "respond"
    BY <1>1, <1>6 DEF Frame, ExchangeInv, Goto
  <2>2. Standing(r)'
    BY <1>1, <1>2, <2>1 DEF Standing, Early, Asking, Saving
  <2>3. saved' \in [Requests -> SUBSET {"user", "assistant"}]
    BY <1>6 DEF ExchangeInv
  <2>4. ExchangeInv'
    BY <1>1, <2>1, <2>2, <2>3, StandingKept DEF ExchangeInv, Saving
  <2>5. Exchange!Save(r, "assistant")
    BY <1>1, <1>2, <1>3, <1>6 DEF Exchange!Save, Exchange!Earned
  <2> QED
    BY <2>4, <2>5 DEF Exchange!Next
<1> QED
  BY <1>4, <1>5, <1>6 DEF SaveUser, SaveAssistant

(* Whichever step the client leaves at, ChatExchange allows what is left   *)
(* behind.                                                                 *)
LEMMA DisconnectStep ==
  ASSUME ExchangeInv, NEW r \in Requests, Disconnect(r)
  PROVE  ExchangeInv' /\ [Exchange!Next]_Exchange!vars
<1>1. UNCHANGED <<told, saved>> /\ End(r)
  BY DEF Disconnect
<1>2. \/ UNCHANGED usage
      \/ pc[r] \in {"read", "record", "recordFailed"} /\ WriteUsage(r)
  BY DEF Disconnect
<1>3. \/ UNCHANGED lease
      \/ lease[r] = "held" /\ lease' = [lease EXCEPT ![r] = "released"]
      \/ pc[r] = "settle" /\ lease[r] = "held" /\ lease' = [lease EXCEPT ![r] = "settled"]
  BY DEF Disconnect
<1>4. pc[r] \in {"read", "record", "recordFailed"} =>
        usage[r] = <<>> /\ lease[r] \in {"none", "held"}
  BY DEF ExchangeInv, Standing, Asking
<1>5. pc[r] = "settle" => Len(usage[r]) = 1
  BY DEF ExchangeInv, Standing
<1>6. lease[r] = "held" => told[r] # "all"
  BY DEF Disconnect, ExchangeInv, Standing, Asking, Saving
<1>7. lease' \in [Requests -> {"none", "held", "settled", "released"}]
  BY <1>3 DEF ExchangeInv
<1>8. Frame(r)
  <2>1. /\ DOMAIN usage' = Requests
        /\ \A q \in Requests \ {r} : usage'[q] = usage[q]
    BY <1>2, <1>4, RowIsCharge DEF ExchangeInv
  <2>2. \A q \in Requests \ {r} : lease'[q] = lease[q]
    BY <1>3 DEF ExchangeInv
  <2> QED
    BY <1>1, <2>1, <2>2, Ends DEF Frame, ExchangeInv, Goto
<1>9. ExchangeInv'
  BY <1>1, <1>7, <1>8, Ends, StandingKept DEF ExchangeInv
<1>10. CASE UNCHANGED <<usage, lease>>
  BY <1>1, <1>9, <1>10 DEF Exchange!vars
<1>11. CASE UNCHANGED lease /\ WriteUsage(r) /\ pc[r] \in {"read", "record", "recordFailed"}
  <2>1. Exchange!Charge(r)
    BY <1>1, <1>4, <1>11, RowIsCharge DEF Exchange!Charge, Charged
  <2> QED
    BY <1>9, <2>1 DEF Exchange!Next
<1>12. CASE lease[r] = "held" /\ lease' = [lease EXCEPT ![r] = "released"]
  <2>1. Charged' \in {Charged, [Charged EXCEPT ![r] = 1]}
    BY <1>2, <1>4, RowIsCharge DEF Charged
  <2>2. Exchange!Leave(r)
    BY <1>1, <1>6, <1>12, <2>1 DEF Exchange!Leave, Charged
  <2> QED
    BY <1>9, <2>2 DEF Exchange!Next
<1>13. CASE /\ pc[r] = "settle" /\ lease[r] = "held" /\ UNCHANGED usage
            /\ lease' = [lease EXCEPT ![r] = "settled"]
  <2>1. Exchange!Settle(r)
    BY <1>1, <1>5, <1>13 DEF Exchange!Settle
  <2> QED
    BY <1>9, <2>1 DEF Exchange!Next
<1> QED
  BY <1>2, <1>3, <1>10, <1>11, <1>12, <1>13

-----------------------------------------------------------------------------

LEMMA ExchangeInit == Init => ExchangeInv /\ Exchange!Init
<1> SUFFICES ASSUME Init PROVE ExchangeInv /\ Exchange!Init
  OBVIOUS
<1>1. ExchangeInv
  BY DEF Init, ExchangeInv, Standing, Early, Asking, Saving
<1>2. \A r \in Requests : Len(usage[r]) = 0
  BY OneRow DEF Init
<1>3. Exchange!Init
  BY <1>2 DEF Init, Exchange!Init
<1> QED
  BY <1>1, <1>3

LEMMA ExchangeStep ==
  ASSUME ExchangeInv, [Next]_vars
  PROVE  ExchangeInv' /\ [Exchange!Next]_Exchange!vars
<1>1. CASE UNCHANGED <<threads, serving>>
  <2>1. UNCHANGED <<pc, call, lease, usage, told, saved>>
    BY <1>1 DEF serving
  <2>2. ExchangeInv'
    BY <2>1 DEF ExchangeInv, Standing
  <2> QED
    BY <2>1, <2>2 DEF Exchange!vars
<1>2. ASSUME NEW r \in Requests,
             CreateChatCompletion(r) \/ CreateChatCompletions(r) \/ Serve(r) \/ Disconnect(r)
      PROVE  ExchangeInv' /\ [Exchange!Next]_Exchange!vars
  <2>1. CASE CreateChatCompletion(r) \/ CreateChatCompletions(r)
    BY <2>1, BeginStep DEF CreateChatCompletion, CreateChatCompletions
  <2>2. CASE Serve(r)
    BY <2>2, ThreadStep, PrepareStep, ReserveStep, AskStep, ReadStep, RecordStep, SettleStep,
       ReleaseStep, CompleteStep, SaveStep DEF Serve
  <2>3. CASE Disconnect(r)
    BY <2>3, DisconnectStep
  <2> QED
    BY <1>2, <2>1, <2>2, <2>3
<1> QED
  BY <1>1, <1>2 DEF Next, vars, TimePasses

(* The endpoints implement ChatExchange: no answer is declared complete or *)
(* remembered before its tokens are on record and its reservation is       *)
(* settled, tokens are recorded at most once, and what ends without a      *)
(* record is released.                                                     *)
THEOREM Refinement == Spec => ExchangeKept
<1>1. Init => ExchangeInv /\ Exchange!Init
  BY ExchangeInit
<1>2. ExchangeInv /\ [Next]_vars => ExchangeInv' /\ [Exchange!Next]_Exchange!vars
  BY ExchangeStep
<1> QED
  BY <1>1, <1>2, PTL DEF Spec, ExchangeKept, Exchange!Spec

-----------------------------------------------------------------------------
(* What the client is told, and what the model said: the locals of the     *)
(* generators, by the step a request is at.                                *)

Decoders == [terminal : {"no", "text", "empty"}, counts : TokenCounts]
Call(c) ==
  /\ DOMAIN c = {"streams", "owner", "thread", "text", "provider", "decoder", "counts",
                 "pieces", "lines", "ended"}
  /\ c.owner \in Owners /\ c.thread \in Threads \cup {NoThread} /\ c.text \in Says
  /\ c.provider \in {"openai", "default"}
  /\ c.decoder \in Decoders /\ c.counts \in TokenCounts
  /\ c.pieces \in Nat /\ c.lines \in Nat /\ c.ended \in {"no", "last", "stop"}

(* The steps of a request that has not been answered and of one that has.  *)
Open     == {"thread", "history", "reserve", "start", "read"}
Answered == {"settle", "finish"} \cup Saving

Earned(r) ==
  /\ pc[r] \in {"idle", "done"} => call[r] = NoCall
  /\ pc[r] \notin {"idle", "done"} => Call(call[r])
  /\ pc[r] \in {"start", "read"} => Streams(r)
  /\ pc[r] = "call" => ~ Streams(r)
  /\ pc[r] \notin {"idle", "done"} /\ call[r].provider = "openai" =>
       /\ pc[r] \in Open => call[r].counts = NoCounts
       /\ pc[r] \in {"record"} \cup Answered =>
            /\ call[r].ended = "last"
            /\ Streams(r) => call[r].counts = call[r].decoder.counts
       /\ pc[r] \in Answered => usage[r] = <<call[r].counts>>

EarnedInv == \A r \in Requests : Earned(r)

(* What the openai decoder makes of a line.                                *)
LEMMA OpenAILine ==
  ASSUME NEW d \in Decoders, NEW m \in LineShapes
  PROVE  LET result == OpenAIChatStream(d, m)
         IN  /\ result.decoder \in Decoders /\ result.counts \in TokenCounts
             /\ result.action \in {"skip", "yield", "last", "raise"}
             /\ result.action \in {"skip", "yield"} => result.counts = NoCounts
             /\ result.action = "last" => result.counts = d.counts /\ result.decoder = d
<1>1. NoCounts \in TokenCounts /\ m.counts \in TokenCounts /\ d.counts \in TokenCounts
  BY DEF NoCounts, Counts, TokenCounts, LineShapes, Decoders
<1>2. ExtractUsage(m).counts \in TokenCounts
  BY <1>1 DEF ExtractUsage
<1>3. LaterOf(d.counts, ExtractUsage(m).counts) \in TokenCounts
  BY <1>1, <1>2 DEF LaterOf, Counts, TokenCounts
<1>4. TranslateStreamEvent(m) \in {"text", "empty", "raise"}
  BY DEF TranslateStreamEvent, ExtractText, LineShapes, Texts
<1> DEFINE result == OpenAIChatStream(d, m)
           Right(res) == /\ res.decoder \in Decoders /\ res.counts \in TokenCounts
                         /\ res.action \in {"skip", "yield", "last", "raise"}
                         /\ res.action \in {"skip", "yield"} => res.counts = NoCounts
                         /\ res.action = "last" => res.counts = d.counts /\ res.decoder = d
<1>5. Right(Skip(d)) /\ Right(Fails(d))
  BY <1>1 DEF Skip, Fails, Result
<1>6. Right(UsageEvent(d, m))
  <2>1. [d EXCEPT !.counts = m.counts] \in Decoders
    BY <1>1 DEF Decoders
  <2> QED
    BY <1>1, <1>5, <2>1 DEF UsageEvent, Skip, Fails, Result
<1>7. Right(ChoiceEvent(d, m))
  <2> DEFINE later == [d EXCEPT !.counts = LaterOf(@, ExtractUsage(m).counts)]
  <2>1. later \in Decoders
    BY <1>3 DEF Decoders
  <2>2. TranslateStreamEvent(m) # "raise" =>
          [later EXCEPT !.terminal = TranslateStreamEvent(m)] \in Decoders
    <3> HIDE DEF later
    <3> QED BY <1>4, <2>1 DEF Decoders
  <2> QED
    <3> HIDE DEF later
    <3>1. ChoiceEvent(d, m) =
            IF d.terminal # "no" \/ ~ExtractUsage(m).valid \/ TranslateStreamEvent(m) = "raise"
            THEN Fails(d)
            ELSE IF m.finish = "stop" THEN Skip([later EXCEPT !.terminal = TranslateStreamEvent(m)])
            ELSE Result("yield", later, TranslateStreamEvent(m), NoCounts)
      BY DEF ChoiceEvent, later
    <3> QED BY <1>1, <1>5, <2>1, <2>2, <3>1 DEF Skip, Fails, Result
<1>8. Right(Result("last", d, d.terminal, d.counts))
  BY <1>1 DEF Result
<1>9. result \in {Skip(d), Fails(d), UsageEvent(d, m), ChoiceEvent(d, m),
                  Result("last", d, d.terminal, d.counts)}
  BY DEF OpenAIChatStream, LineShapes
<1> QED
  BY <1>5, <1>6, <1>7, <1>8, <1>9

(* What the Ollama decoder makes of one.                                   *)
LEMMA OllamaLine ==
  ASSUME NEW d \in Decoders, NEW m \in LineShapes
  PROVE  LET result == OllamaChatStream(d, m)
         IN  result.decoder \in Decoders /\ result.counts \in TokenCounts
<1>1. NoCounts \in TokenCounts /\ m.counts \in TokenCounts
  BY DEF NoCounts, Counts, TokenCounts, LineShapes
<1> QED
  BY <1>1 DEF OllamaChatStream, LineShapes, Skip, Fails, Result

(* Counts after none are the later ones.                                   *)
LEMMA LaterCounts ==
  /\ \A c \in TokenCounts : LaterOf(NoCounts, c) = c
  /\ \A c, e \in TokenCounts : LaterOf(c, e) \in TokenCounts
  BY DEF LaterOf, NoCounts, Counts, TokenCounts

(* What the other requests keep.                                           *)
Aside(r) ==
  \A q \in Requests \ {r} : pc'[q] = pc[q] /\ usage'[q] = usage[q] /\ call'[q] = call[q]

LEMMA EarnedKept ==
  ASSUME EarnedInv, NEW r \in Requests, Aside(r), Earned(r)'
  PROVE  EarnedInv'
<1>1. ASSUME NEW q \in Requests \ {r} PROVE Earned(q)'
  BY DEF EarnedInv, Earned, Aside, Streams
<1> QED
  BY <1>1 DEF EarnedInv

(* A request that ends has nothing left.                                   *)
LEMMA EarnedEnd ==
  ASSUME ExchangeInv, EarnedInv, NEW r \in Requests, End(r),
         UNCHANGED usage \/ WriteUsage(r)
  PROVE  EarnedInv'
<1>1. pc'[r] = "done" /\ call'[r] = NoCall /\ Aside(r)
  BY DEF End, WriteUsage, ExchangeInv, Aside
<1>2. Earned(r)'
  BY <1>1 DEF Earned, Open, Answered, Saving
<1> QED
  BY <1>1, <1>2, EarnedKept

(* A request that moves on with its locals as they are.                    *)
LEMMA EarnedMove ==
  ASSUME ExchangeInv, EarnedInv, NEW r \in Requests, NEW step, Goto(r, step),
         call'[r] = call[r], Aside(r), step \notin {"idle", "done"},
         pc[r] \notin {"idle", "done"},
         step \in {"start", "read"} => Streams(r), step = "call" => ~ Streams(r),
         step \in Open => pc[r] \in Open,
         step \in {"record"} \cup Answered => pc[r] \in {"record"} \cup Answered,
         step \in Answered => usage'[r] = <<call[r].counts>>
                              \/ (pc[r] \in Answered /\ usage'[r] = usage[r])
  PROVE  EarnedInv'
<1>1. pc'[r] = step
  BY DEF Goto, ExchangeInv
<1>2. Earned(r)
  BY DEF EarnedInv
<1>3. Earned(r)'
  BY <1>1, <1>2 DEF Earned, Streams
<1> QED
  BY <1>3, EarnedKept

LEMMA EarnedBegin ==
  ASSUME ExchangeInv, EarnedInv, NEW r \in Requests, NEW streams, Begin(r, streams)
  PROVE  EarnedInv'
<1>1. PICK ask \in Asks, allowed \in BOOLEAN, text \in Says, model \in Models :
        /\ call' = [call EXCEPT ![r] = IF allowed
                      THEN NewCall(streams, ask.owner, ask.thread, text, model) ELSE NoCall]
        /\ Goto(r, IF allowed THEN "thread" ELSE "done")
        /\ UNCHANGED usage
  BY DEF Begin
<1>2. Aside(r)
  BY <1>1 DEF Aside, ExchangeInv, Goto
<1>3. CASE ~ allowed
  <2>1. pc'[r] = "done" /\ call'[r] = NoCall
    BY <1>1, <1>3 DEF ExchangeInv, Goto
  <2>2. Earned(r)'
    BY <2>1 DEF Earned, Open, Answered, Saving
  <2> QED
    BY <1>2, <2>2, EarnedKept
<1>4. CASE allowed
  <2> DEFINE c == NewCall(streams, ask.owner, ask.thread, text, model)
  <2>1. pc'[r] = "thread" /\ call'[r] = c
    BY <1>1, <1>4 DEF ExchangeInv, Goto
  <2>2. NoCounts \in TokenCounts /\ NewDecoder \in Decoders
    BY DEF NewDecoder, Decoders, NoCounts, Counts, TokenCounts
  <2>3. ask.owner \in Owners /\ ask.thread \in Threads \cup {NoThread}
    BY GatewayAssumption
  <2>4. ProviderForPayload(model) \in {"openai", "default"}
    BY DEF ProviderForPayload, RouteProvider
  <2>5. Call(c) /\ c.counts = NoCounts
    BY <2>2, <2>3, <2>4 DEF NewCall, Call
  <2>6. Earned(r)'
    BY <2>1, <2>5 DEF Earned, Open, Answered, Saving
  <2> QED
    BY <1>2, <2>6, EarnedKept
<1> QED
  BY <1>3, <1>4

LEMMA EarnedThread ==
  ASSUME ExchangeInv, EarnedInv, NEW r \in Requests, ResolveThread(r)
  PROVE  EarnedInv'
<1>1. pc[r] = "thread" /\ UNCHANGED usage
  BY DEF ResolveThread
<1>2. CASE End(r)
  BY <1>1, <1>2, EarnedEnd
<1>3. CASE Goto(r, "history") /\ UNCHANGED call
  <2>1. Aside(r)
    BY <1>1, <1>3 DEF Aside, ExchangeInv, Goto
  <2> QED
    BY <1>1, <1>3, <2>1, EarnedMove DEF Open, Answered, Saving
<1>4. CASE Goto(r, "history") /\ call' = [call EXCEPT ![r].thread = r]
  <2>1. Aside(r) /\ pc'[r] = "history" /\ call'[r] = [call[r] EXCEPT !.thread = r]
    BY <1>1, <1>4 DEF Aside, ExchangeInv, Goto
  <2>2. Call(call[r]) /\ (call[r].provider = "openai" => call[r].counts = NoCounts)
    BY <1>1 DEF EarnedInv, Earned, Open
  <2>3. r \in Threads
    BY GatewayAssumption
  <2>4. /\ Call(call'[r]) /\ call'[r].provider = call[r].provider
        /\ call'[r].counts = call[r].counts
    BY <2>1, <2>2, <2>3 DEF Call
  <2>5. Earned(r)'
    BY <2>1, <2>2, <2>4 DEF Earned, Open, Answered, Saving
  <2> QED
    BY <2>1, <2>5, EarnedKept
<1> QED
  BY <1>2, <1>3, <1>4 DEF ResolveThread

LEMMA EarnedReserve ==
  ASSUME ExchangeInv, EarnedInv, NEW r \in Requests, PrepareThread(r) \/ Reserve(r)
  PROVE  EarnedInv'
<1>1. pc[r] \in {"history", "reserve"} /\ UNCHANGED usage
  BY DEF PrepareThread, Reserve
<1>2. CASE End(r)
  BY <1>1, <1>2, EarnedEnd
<1>3. CASE UNCHANGED call /\ Goto(r, "reserve")
  <2>1. Aside(r)
    BY <1>1, <1>3 DEF Aside, ExchangeInv, Goto
  <2> QED
    BY <1>1, <1>3, <2>1, EarnedMove DEF Open, Answered, Saving
<1>4. CASE UNCHANGED call /\ Goto(r, IF Streams(r) THEN "start" ELSE "call")
  <2>1. Aside(r)
    BY <1>1, <1>4 DEF Aside, ExchangeInv, Goto
  <2>2. CASE Streams(r)
    <3>1. Goto(r, "start")
      BY <1>4, <2>2
    <3> QED
      BY <1>1, <1>4, <2>1, <2>2, <3>1, EarnedMove DEF Open, Answered, Saving
  <2>3. CASE ~ Streams(r)
    <3>1. Goto(r, "call")
      BY <1>4, <2>3
    <3> QED
      BY <1>1, <1>4, <2>1, <2>3, <3>1, EarnedMove DEF Open, Answered, Saving
  <2> QED
    BY <2>2, <2>3
<1> QED
  BY <1>2, <1>3, <1>4 DEF PrepareThread, Reserve

LEMMA EarnedChat ==
  ASSUME ExchangeInv, EarnedInv, NEW r \in Requests, ServiceChat(r)
  PROVE  EarnedInv'
<1>1. pc[r] = "call" /\ UNCHANGED usage /\ Call(call[r]) /\ ~ Streams(r)
  BY DEF ServiceChat, EarnedInv, Earned
<1>2. CASE UNCHANGED call /\ Goto(r, "release")
  <2>1. Aside(r)
    BY <1>1, <1>2 DEF Aside, ExchangeInv, Goto
  <2> QED
    BY <1>1, <1>2, <2>1, EarnedMove DEF Open, Answered, Saving
<1>3. ASSUME NEW m \in Lines, Goto(r, "record"),
             call' = [call EXCEPT ![r].counts = ExtractUsage(m).counts,
                                  ![r].pieces = IF m.content = "empty" THEN 0 ELSE 1,
                                  ![r].ended = "last"]
      PROVE  EarnedInv'
  <2>1. m.counts \in TokenCounts /\ NoCounts \in TokenCounts
    BY LinesAssumption DEF LineShapes, NoCounts, Counts, TokenCounts
  <2>2. ExtractUsage(m).counts \in TokenCounts
    BY <2>1 DEF ExtractUsage
  <2>3. /\ Aside(r) /\ pc'[r] = "record"
        /\ call'[r] = [call[r] EXCEPT !.counts = ExtractUsage(m).counts,
                                      !.pieces = IF m.content = "empty" THEN 0 ELSE 1,
                                      !.ended = "last"]
    BY <1>1, <1>3 DEF Aside, ExchangeInv, Goto
  <2>5. Call(call'[r]) /\ call'[r].ended = "last" /\ call'[r].streams = call[r].streams
    BY <1>1, <2>2, <2>3 DEF Call
  <2>6. Earned(r)'
    BY <1>1, <2>3, <2>5 DEF Earned, Streams, Open, Answered, Saving
  <2> QED
    BY <2>3, <2>6, EarnedKept
<1> QED
  BY <1>2, <1>3 DEF ServiceChat

(* What Unwind leaves has no part in what the client is told.              *)
LEMMA EarnedUnwind ==
  ASSUME ExchangeInv, EarnedInv, NEW r \in Requests, pc[r] = "read",
         Unwind(r), Goto(r, "recordFailed"), UNCHANGED usage
  PROVE  EarnedInv'
<1>1. Call(call[r])
  BY DEF EarnedInv, Earned
<1>2. /\ Aside(r) /\ pc'[r] = "recordFailed"
      /\ call'[r] = [call[r] EXCEPT !.decoder = NewDecoder, !.pieces = 0, !.lines = 0]
  BY DEF Aside, ExchangeInv, Goto, Unwind
<1>3. NewDecoder \in Decoders
  BY DEF NewDecoder, Decoders, NoCounts, Counts, TokenCounts
<1>4. Call(call'[r])
  BY <1>1, <1>2, <1>3 DEF Call
<1>5. Earned(r)'
  BY <1>2, <1>4 DEF Earned, Open, Answered, Saving
<1> QED
  BY <1>2, <1>5, EarnedKept

LEMMA EarnedStart ==
  ASSUME ExchangeInv, EarnedInv, NEW r \in Requests, StartStream(r) \/ RenewalFails(r)
  PROVE  EarnedInv'
<1>1. CASE RenewalFails(r)
  BY <1>1, EarnedUnwind DEF RenewalFails
<1>2. CASE StartStream(r)
  <2>1. /\ pc[r] = "start" /\ UNCHANGED <<usage, call>>
        /\ Goto(r, "read") \/ Goto(r, "recordFailed")
    BY <1>2 DEF StartStream
  <2>2. Aside(r) /\ Streams(r)
    BY <2>1 DEF Aside, ExchangeInv, Goto, EarnedInv, Earned
  <2>3. CASE Goto(r, "read")
    BY <2>1, <2>2, <2>3, EarnedMove DEF Open, Answered, Saving
  <2>4. CASE Goto(r, "recordFailed")
    BY <2>1, <2>2, <2>4, EarnedMove DEF Open, Answered, Saving
  <2> QED
    BY <2>1, <2>3, <2>4
<1> QED
  BY <1>1, <1>2

(* The locals after a frame has been sent.                                 *)
LEMMA FrameSent ==
  ASSUME ExchangeInv, NEW r \in Requests, Call(call[r]), NEW result,
         result.decoder \in Decoders, result.counts \in TokenCounts, SendFrame(r, result)
  PROVE  /\ Call(call'[r]) /\ \A q \in Requests \ {r} : call'[q] = call[q]
         /\ call'[r].provider = call[r].provider /\ call'[r].thread = call[r].thread
         /\ call'[r].counts = LaterOf(call[r].counts, result.counts)
         /\ call'[r].decoder.counts = result.decoder.counts
         /\ result.action = "last" => call'[r].ended = "last"
         /\ Streams(r)' <=> Streams(r)
<1> DEFINE decoder == [result.decoder EXCEPT
                         !.terminal = IF result.action = "last" THEN "no" ELSE @]
           counts == RecordStream(call[r], result.counts)
<1>1. decoder \in Decoders /\ decoder.counts = result.decoder.counts
  BY DEF Decoders
<1>2. counts \in TokenCounts /\ counts = LaterOf(call[r].counts, result.counts)
  BY LaterCounts DEF RecordStream, Call
<1> HIDE DEF decoder, counts
<1>3. /\ \A q \in Requests \ {r} : call'[q] = call[q]
      /\ call'[r] = [call[r] EXCEPT !.decoder = decoder, !.counts = counts,
                       !.pieces = IF result.text = "text" THEN @ + 1 ELSE @,
                       !.lines = IF result.action = "last" THEN 0 ELSE @ + 1,
                       !.ended = IF result.action = "last" THEN "last" ELSE @]
  BY DEF SendFrame, ExchangeInv, decoder, counts
<1>4. /\ Call(call'[r]) /\ call'[r].provider = call[r].provider
      /\ call'[r].thread = call[r].thread
      /\ call'[r].counts = counts /\ call'[r].decoder = decoder
      /\ result.action = "last" => call'[r].ended = "last"
      /\ call'[r].streams = call[r].streams
  BY <1>1, <1>2, <1>3 DEF Call
<1> QED
  BY <1>1, <1>2, <1>3, <1>4 DEF Streams

LEMMA EarnedRead ==
  ASSUME ExchangeInv, EarnedInv, NEW r \in Requests, ReadLine(r)
  PROVE  EarnedInv'
<1> DEFINE c == call[r]
<1>1. /\ pc[r] = "read" /\ UNCHANGED usage /\ Call(c) /\ Streams(r)
      /\ c.provider = "openai" => c.counts = NoCounts
  BY DEF ReadLine, EarnedInv, Earned, Open
<1>2. PICK m \in Lines :
        LET result == ChatStream(c.provider, c.decoder, m)
        IN  \/ /\ result.action = "skip" /\ UNCHANGED pc
               /\ call' = [call EXCEPT ![r].decoder = result.decoder, ![r].lines = @ + 1]
            \/ result.action = "yield" /\ SendFrame(r, result) /\ UNCHANGED pc
            \/ result.action = "last" /\ SendFrame(r, result) /\ Goto(r, "record")
            \/ /\ result.action = "stop" /\ Goto(r, "record")
               /\ call' = [call EXCEPT ![r].ended = "stop", ![r].lines = 0]
            \/ result.action = "raise" /\ Unwind(r) /\ Goto(r, "recordFailed")
  BY DEF ReadLine
<1> DEFINE result == ChatStream(c.provider, c.decoder, m)
<1>3. m \in LineShapes /\ c.decoder \in Decoders
  BY <1>1, LinesAssumption DEF Call
<1>4. result.decoder \in Decoders /\ result.counts \in TokenCounts
  BY <1>3, OpenAILine, OllamaLine DEF ChatStream
<1>5. c.provider = "openai" =>
        /\ result.action # "stop"
        /\ result.action = "yield" => result.counts = NoCounts
        /\ result.action = "last" => result.counts = c.decoder.counts
                                     /\ result.decoder = c.decoder
  BY <1>3, OpenAILine DEF ChatStream
<1>6. NoCounts \in TokenCounts /\ c.decoder.counts \in TokenCounts
  BY <1>3 DEF NoCounts, Counts, TokenCounts, Decoders
<1>7. CASE /\ result.action = "skip" /\ UNCHANGED pc
           /\ call' = [call EXCEPT ![r].decoder = result.decoder, ![r].lines = @ + 1]
  <2>1. Aside(r) /\ call'[r] = [c EXCEPT !.decoder = result.decoder, !.lines = @ + 1]
    BY <1>1, <1>7 DEF Aside, ExchangeInv
  <2> HIDE DEF result
  <2>2. /\ Call(call'[r]) /\ call'[r].provider = c.provider /\ call'[r].counts = c.counts
        /\ call'[r].streams = c.streams
    BY <1>1, <1>4, <2>1 DEF Call
  <2>3. Earned(r)'
    BY <1>1, <1>7, <2>2 DEF Earned, Streams, Open, Answered, Saving
  <2> QED
    BY <2>1, <2>3, EarnedKept
<1>8. CASE result.action = "yield" /\ SendFrame(r, result) /\ UNCHANGED pc
  <2> HIDE DEF result
  <2>1. /\ Call(call'[r]) /\ call'[r].provider = c.provider /\ Aside(r)
        /\ call'[r].counts = LaterOf(c.counts, result.counts)
        /\ Streams(r)' <=> Streams(r)
    BY <1>1, <1>4, <1>8, FrameSent DEF Aside
  <2>2. call'[r].provider = "openai" => call'[r].counts = NoCounts
    BY <1>1, <1>5, <1>6, <1>8, <2>1, LaterCounts
  <2>3. Earned(r)'
    BY <1>1, <1>8, <2>1, <2>2 DEF Earned, Open, Answered, Saving
  <2> QED
    BY <2>1, <2>3, EarnedKept
<1>9. CASE result.action = "last" /\ SendFrame(r, result) /\ Goto(r, "record")
  <2> HIDE DEF result
  <2>1. /\ Call(call'[r]) /\ call'[r].provider = c.provider
        /\ call'[r].counts = LaterOf(c.counts, result.counts)
        /\ call'[r].decoder.counts = result.decoder.counts
        /\ call'[r].ended = "last"
        /\ \A q \in Requests \ {r} : call'[q] = call[q]
    BY <1>1, <1>4, <1>9, FrameSent
  <2>2. pc'[r] = "record" /\ Aside(r)
    BY <1>1, <1>9, <2>1 DEF Aside, ExchangeInv, Goto
  <2>3. call'[r].provider = "openai" => call'[r].counts = call'[r].decoder.counts
    BY <1>1, <1>5, <1>6, <1>9, <2>1, LaterCounts
  <2>4. Earned(r)'
    BY <2>1, <2>2, <2>3 DEF Earned, Open, Answered, Saving
  <2> QED
    BY <2>2, <2>4, EarnedKept
<1>10. CASE /\ result.action = "stop" /\ Goto(r, "record")
            /\ call' = [call EXCEPT ![r].ended = "stop", ![r].lines = 0]
  <2>1. /\ Aside(r) /\ pc'[r] = "record"
        /\ call'[r] = [c EXCEPT !.ended = "stop", !.lines = 0]
    BY <1>1, <1>10 DEF Aside, ExchangeInv, Goto
  <2>2. Call(call'[r]) /\ call'[r].provider = c.provider
    BY <1>1, <2>1 DEF Call
  <2>3. Earned(r)'
    BY <1>5, <1>10, <2>1, <2>2 DEF Earned, Open, Answered, Saving
  <2> QED
    BY <2>1, <2>3, EarnedKept
<1>11. CASE result.action = "raise" /\ Unwind(r) /\ Goto(r, "recordFailed")
  BY <1>1, <1>11, EarnedUnwind
<1> QED
  BY <1>2, <1>7, <1>8, <1>9, <1>10, <1>11

(* The way out: the row of usage is the counts of the call.                *)
LEMMA EarnedRecord ==
  ASSUME ExchangeInv, EarnedInv, NEW r \in Requests, RecordUsage(r) \/ RecordFailed(r)
  PROVE  EarnedInv'
<1>1. /\ pc[r] \in {"record", "recordFailed"} /\ UNCHANGED call /\ usage[r] = <<>>
  BY DEF RecordUsage, RecordFailed, ExchangeInv, Standing, Asking
<1>2. CASE Goto(r, "release") /\ (UNCHANGED usage \/ WriteUsage(r))
  <2>1. Aside(r)
    BY <1>1, <1>2 DEF Aside, ExchangeInv, Goto, WriteUsage
  <2> QED
    BY <1>1, <1>2, <2>1, EarnedMove DEF Open, Answered, Saving
<1>3. CASE pc[r] = "record" /\ Goto(r, "settle") /\ WriteUsage(r)
  <2>1. Aside(r) /\ usage'[r] = Append(usage[r], call[r].counts)
    BY <1>1, <1>3 DEF Aside, ExchangeInv, Goto, WriteUsage
  <2>2. usage'[r] = <<call[r].counts>>
    BY <1>1, <2>1
  <2> QED
    BY <1>1, <1>3, <2>1, <2>2, EarnedMove DEF Open, Answered, Saving
<1> QED
  BY <1>2, <1>3 DEF RecordUsage, RecordFailed

LEMMA EarnedSettle ==
  ASSUME ExchangeInv, EarnedInv, NEW r \in Requests,
         Settle(r) \/ SendDone(r) \/ SaveUser(r) \/ SaveAssistant(r)
  PROVE  EarnedInv'
<1>1. /\ UNCHANGED <<call, usage>> /\ pc[r] \in Answered
  BY DEF Settle, SendDone, SaveUser, SaveAssistant, Answered, Saving
<1>2. PICK step \in {"release", "finish"} \cup Saving : Goto(r, step)
  BY DEF Settle, SendDone, SaveUser, SaveAssistant, Saving
<1>3. Aside(r)
  BY <1>1, <1>2 DEF Aside, ExchangeInv, Goto
<1>4. step \notin Open \cup {"idle", "done", "call"} /\ pc[r] \notin {"idle", "done"}
  BY <1>1, <1>2 DEF Open, Saving, Answered
<1>5. step \notin {"start", "read"} /\ step # "call"
  BY <1>4 DEF Open
<1> QED
  BY <1>1, <1>2, <1>3, <1>4, <1>5, EarnedMove DEF Answered

LEMMA EarnedInit == Init => EarnedInv
  BY DEF Init, EarnedInv, Earned, Open, Answered, Saving

LEMMA EarnedStep ==
  ASSUME ExchangeInv, EarnedInv, [Next]_vars
  PROVE  EarnedInv'
<1>1. CASE UNCHANGED <<threads, serving>>
  BY <1>1 DEF serving, EarnedInv, Earned, Streams
<1>2. ASSUME NEW r \in Requests,
             CreateChatCompletion(r) \/ CreateChatCompletions(r) \/ Serve(r) \/ Disconnect(r)
      PROVE  EarnedInv'
  <2>1. CASE CreateChatCompletion(r) \/ CreateChatCompletions(r)
    BY <2>1, EarnedBegin DEF CreateChatCompletion, CreateChatCompletions
  <2>2. CASE Release(r) \/ Respond(r) \/ Disconnect(r)
    BY <2>2, EarnedEnd DEF Release, Respond, Disconnect
  <2>3. CASE Serve(r)
    BY <2>2, <2>3, EarnedThread, EarnedReserve, EarnedChat, EarnedStart, EarnedRead,
       EarnedRecord, EarnedSettle DEF Serve
  <2> QED
    BY <1>2, <2>1, <2>2, <2>3
<1> QED
  BY <1>1, <1>2 DEF Next, vars, TimePasses

(* What a request has by the step it is at, whatever the others do.        *)
THEOREM EarnedInvariant == Spec => [](ExchangeInv /\ EarnedInv)
<1>1. Init => ExchangeInv /\ EarnedInv
  BY ExchangeInit, EarnedInit
<1>2. ExchangeInv /\ EarnedInv /\ [Next]_vars => (ExchangeInv /\ EarnedInv)'
  BY ExchangeStep, EarnedStep
<1> QED
  BY <1>1, <1>2, PTL DEF Spec

(* [DONE] and the stored turn mean that an OpenAI model finished, and that *)
(* the row of usage holds the last token counts it sent: chat_stream holds *)
(* the terminal chunk back for them and raises when there is none.         *)
THEOREM DoneMeansFinished == Spec => []DoneIsEarned
<1>1. ExchangeInv /\ EarnedInv => DoneIsEarned
  <2> SUFFICES ASSUME ExchangeInv, EarnedInv, NEW r \in Requests, told[r] = "all",
                      call[r] # NoCall, call[r].provider = "openai"
               PROVE  /\ call[r].ended = "last"
                      /\ Streams(r) => usage[r] = <<call[r].decoder.counts>>
    BY DEF DoneIsEarned
  <2>1. pc[r] \in Saving
    BY DEF ExchangeInv, EarnedInv, Standing, Earned, Early, Asking
  <2> QED
    BY <2>1 DEF EarnedInv, Earned, Answered, Saving
<1> QED
  BY <1>1, EarnedInvariant, PTL

-----------------------------------------------------------------------------
(* The conversations.  Requests of one thread interleave between the two   *)
(* transactions of persist_turn, so what is counted are the answers that   *)
(* are stored and those that are on their way: together they are never     *)
(* more than the questions that are stored.                                *)

(* The requests whose question is in thread t and whose answer is not yet. *)
Pending(t) == {r \in Requests : pc[r] = "saveAssistant" /\ call[r].thread = t}

Balanced(t) ==
  LET ms == threads[t].messages
  IN  /\ \A i \in DOMAIN ms : Upto(ms, i, "assistant") <= Upto(ms, i, "user")
      /\ Upto(ms, Len(ms), "assistant") + Cardinality(Pending(t)) <= Upto(ms, Len(ms), "user")

(* What thread t holds of the answer of r.                                 *)
Own(t, r) ==
  LET ms == threads[t].messages
  IN  \A i \in DOMAIN ms : ms[i].text[1] = r =>
        /\ pc[r] \in {"respond", "done"}
        /\ call[r] # NoCall => ms[i].text[2] = call[r].pieces
        /\ \A j \in DOMAIN ms : ms[j].text[1] = r => j = i

(* A request has its thread once it has passed resolve_thread, and the     *)
(* thread that it may create is not there before.                          *)
HasThread(r) ==
  /\ pc[r] \in {"idle", "thread"} => threads[r] = NoThread
  /\ pc[r] \notin {"idle", "thread", "done"} =>
       call[r].thread \in Threads /\ threads[call[r].thread] # NoThread

TalkInv ==
  /\ threads \in [Threads -> Rows \cup {NoThread}]
  /\ \A r \in Requests : HasThread(r)
  /\ \A t \in Threads : threads[t] # NoThread =>
       Balanced(t) /\ \A r \in Requests : Own(t, r)

PromptInv ==
  /\ DOMAIN prompt = Requests
  /\ \A r \in Requests : prompt[r] # NoCall =>
       /\ prompt[r].merged \in Seq(Spoken)
       /\ prompt[r].context = BuildShortTermContext(prompt[r].merged)

LEMMA UptoType ==
  ASSUME NEW ms, NEW i \in Nat, NEW role
  PROVE  /\ IsFiniteSet({j \in 1..i : ms[j].role = role}) /\ Upto(ms, i, role) \in Nat
         /\ i = 0 => Upto(ms, i, role) = 0
<1>1. IsFiniteSet(1..i)
  BY FS_Interval
<1>2. {j \in 1..i : ms[j].role = role} \in SUBSET (1..i)
  OBVIOUS
<1>3. IsFiniteSet({j \in 1..i : ms[j].role = role})
  BY <1>1, <1>2, FS_Subset
<1>4. i = 0 => {j \in 1..i : ms[j].role = role} = {}
  OBVIOUS
<1> QED
  BY <1>3, <1>4, FS_CardinalityType, FS_EmptySet DEF Upto

(* One more message.                                                       *)
LEMMA UptoAppend ==
  ASSUME NEW M, NEW ms \in Seq(M), NEW m \in M, NEW role
  PROVE  LET longer == Append(ms, m)
         IN  /\ \A i \in 0..Len(ms) : Upto(longer, i, role) = Upto(ms, i, role)
             /\ Upto(longer, Len(ms) + 1, role) =
                  Upto(ms, Len(ms), role) + (IF m.role = role THEN 1 ELSE 0)
<1> DEFINE longer == Append(ms, m)
           n == Len(ms)
           S == {j \in 1..n : ms[j].role = role}
           L == {j \in 1..(n + 1) : longer[j].role = role}
<1>1. n \in Nat /\ longer[n + 1] = m /\ \A j \in 1..n : longer[j] = ms[j]
  OBVIOUS
<1> HIDE DEF longer, n
<1>2. ASSUME NEW i \in 0..n PROVE Upto(longer, i, role) = Upto(ms, i, role)
  <2>1. {j \in 1..i : longer[j].role = role} = {j \in 1..i : ms[j].role = role}
    BY <1>1
  <2> QED
    BY <2>1 DEF Upto
<1>3. IsFiniteSet(S) /\ Cardinality(S) \in Nat
  BY <1>1, UptoType DEF Upto
<1>4. CASE m.role = role
  <2>1. L = S \cup {n + 1} /\ n + 1 \notin S
    BY <1>1, <1>4
  <2>2. Cardinality(L) = Cardinality(S) + 1
    <3> HIDE DEF L, S
    <3> QED BY <1>3, <2>1, FS_AddElement
  <2> QED
    BY <1>2, <1>4, <2>2 DEF Upto, longer, n
<1>5. CASE m.role # role
  <2>1. L = S
    BY <1>1, <1>5
  <2>2. Cardinality(L) = Cardinality(S) + 0
    <3> HIDE DEF L, S
    <3> QED BY <1>3, <2>1
  <2> QED
    BY <1>2, <1>5, <2>2 DEF Upto, longer, n
<1> QED
  BY <1>4, <1>5

LEMMA PendingFinite ==
  \A t : /\ IsFiniteSet(Pending(t)) /\ Cardinality(Pending(t)) \in Nat
        /\ IsFiniteSet(Pending(t)') /\ Cardinality(Pending(t)') \in Nat
<1> TAKE t
<1>1. Pending(t) \in SUBSET Requests /\ Pending(t)' \in SUBSET Requests
  BY DEF Pending
<1> QED
  BY <1>1, GatewayAssumption, FS_Subset, FS_CardinalityType

(* Fewer answers on their way.                                             *)
LEMMA FewerPending ==
  ASSUME TalkInv, NEW t \in Threads, threads[t] # NoThread, threads'[t] = threads[t],
         Pending(t)' \subseteq Pending(t)
  PROVE  Balanced(t)'
<1> DEFINE ms == threads[t].messages
<1>1. ms \in Seq(Spoken) /\ Balanced(t)
  BY DEF TalkInv, Rows
<1>2. /\ Cardinality(Pending(t)') <= Cardinality(Pending(t))
      /\ Cardinality(Pending(t)') \in Nat /\ Cardinality(Pending(t)) \in Nat
  BY PendingFinite, FS_Subset, FS_CardinalityType
<1>3. /\ Upto(ms, Len(ms), "assistant") \in Nat /\ Upto(ms, Len(ms), "user") \in Nat
      /\ Upto(ms, Len(ms), "assistant") + Cardinality(Pending(t)) <= Upto(ms, Len(ms), "user")
  <2>1. Len(ms) \in Nat
    BY <1>1
  <2> QED
    BY <1>1, <2>1, UptoType DEF Balanced
<1>4. Upto(ms, Len(ms), "assistant") + Cardinality(Pending(t)') <= Upto(ms, Len(ms), "user")
  BY <1>2, <1>3
<1>5. \A i \in DOMAIN ms : Upto(ms, i, "assistant") <= Upto(ms, i, "user")
  BY <1>1 DEF Balanced
<1> QED
  BY <1>4, <1>5 DEF Balanced

(* A step of r that stores nothing.                                        *)
LEMMA TalkQuiet ==
  ASSUME TalkInv, NEW r \in Requests, UNCHANGED threads, Aside(r), HasThread(r)',
         pc'[r] # "saveAssistant",
         pc[r] \notin {"respond", "done"} \/ (pc'[r] = "done" /\ call'[r] = NoCall)
  PROVE  TalkInv'
<1>1. \A q \in Requests : HasThread(q)'
  BY DEF TalkInv, HasThread, Aside
<1>2. ASSUME NEW t \in Threads, threads[t] # NoThread
      PROVE  Balanced(t)' /\ \A q \in Requests : Own(t, q)'
  <2>1. Pending(t)' \subseteq Pending(t)
    BY DEF Pending, Aside
  <2>2. Balanced(t)'
    BY <1>2, <2>1, FewerPending
  <2>3. ASSUME NEW q \in Requests PROVE Own(t, q)'
    BY <1>2 DEF TalkInv, Own, Aside
  <2> QED
    BY <2>2, <2>3
<1> QED
  BY <1>1, <1>2 DEF TalkInv

(* A message of r is stored in its thread.                                 *)
LEMMA MessageAdded ==
  ASSUME TalkInv, NEW t \in Threads, NEW owner, NEW m \in Spoken, AddMessage(t, owner, m)
  PROVE  /\ threads[t] # NoThread /\ threads[t].messages \in Seq(Spoken)
         /\ threads' \in [Threads -> Rows \cup {NoThread}]
         /\ threads'[t] # NoThread
         /\ threads'[t].messages = Append(threads[t].messages, m)
         /\ \A u \in Threads \ {t} : threads'[u] = threads[u]
<1>1. threads[t] \in Rows /\ threads[t] # NoThread
  BY DEF TalkInv, AddMessage, GetThread
<1>2. /\ threads'[t] = [threads[t] EXCEPT !.messages = Append(threads[t].messages, m)]
      /\ DOMAIN threads' = Threads /\ \A u \in Threads \ {t} : threads'[u] = threads[u]
      /\ threads' = [u \in Threads |-> threads'[u]]
  BY DEF TalkInv, AddMessage
<1>3. /\ threads[t].messages \in Seq(Spoken)
      /\ Append(threads[t].messages, m) \in Seq(Spoken)
  BY <1>1 DEF Rows
<1>4. threads'[t] \in Rows /\ threads'[t].messages = Append(threads[t].messages, m)
  BY <1>1, <1>2, <1>3 DEF Rows
<1>5. threads'[t] # NoThread
  BY <1>4, NoRowAssumption
<1>6. \A u \in Threads : threads'[u] \in Rows \cup {NoThread}
  BY <1>2, <1>4 DEF TalkInv
<1> QED
  BY <1>1, <1>2, <1>3, <1>4, <1>5, <1>6

(* The questions and answers that are counted after it.                    *)
LEMMA BalancedAfter ==
  ASSUME TalkInv, NEW t \in Threads, threads[t] # NoThread, NEW m \in Spoken,
         threads[t].messages \in Seq(Spoken),
         threads'[t].messages = Append(threads[t].messages, m),
         m.role \in {"user", "assistant"},
         m.role = "user" => Cardinality(Pending(t)') <= Cardinality(Pending(t)) + 1,
         m.role = "assistant" => Cardinality(Pending(t)') + 1 <= Cardinality(Pending(t))
  PROVE  Balanced(t)'
<1> DEFINE ms == threads[t].messages
           longer == Append(ms, m)
           n == Len(ms)
<1>1. n \in Nat /\ Len(longer) = n + 1 /\ DOMAIN longer = 1..(n + 1) /\ DOMAIN ms = 1..n
  OBVIOUS
<1>2. /\ Cardinality(Pending(t)) \in Nat /\ Cardinality(Pending(t)') \in Nat
  BY PendingFinite
<1>3. /\ Upto(ms, n, "assistant") \in Nat /\ Upto(ms, n, "user") \in Nat
      /\ Upto(ms, n, "assistant") + Cardinality(Pending(t)) <= Upto(ms, n, "user")
  BY <1>1, UptoType DEF TalkInv, Balanced
<1>4. /\ \A i \in 0..n : Upto(longer, i, "assistant") = Upto(ms, i, "assistant")
      /\ Upto(longer, n + 1, "assistant") =
           Upto(ms, n, "assistant") + (IF m.role = "assistant" THEN 1 ELSE 0)
      /\ \A i \in 0..n : Upto(longer, i, "user") = Upto(ms, i, "user")
      /\ Upto(longer, n + 1, "user") = Upto(ms, n, "user") + (IF m.role = "user" THEN 1 ELSE 0)
  <2>1. ms \in Seq(Spoken)
    OBVIOUS
  <2> HIDE DEF ms
  <2>2. \A role : /\ \A i \in 0..n : Upto(longer, i, role) = Upto(ms, i, role)
                  /\ Upto(longer, n + 1, role) =
                       Upto(ms, n, role) + (IF m.role = role THEN 1 ELSE 0)
    BY <2>1, UptoAppend
  <2> QED
    BY <2>2
<1>5. \A i \in 1..n : Upto(ms, i, "assistant") <= Upto(ms, i, "user")
  BY <1>1 DEF TalkInv, Balanced
<1> HIDE DEF ms, longer, n
<1>6. Upto(longer, n + 1, "assistant") + Cardinality(Pending(t)')
        <= Upto(longer, n + 1, "user")
  BY <1>2, <1>3, <1>4
<1>7. Upto(longer, n + 1, "assistant") <= Upto(longer, n + 1, "user")
  BY <1>2, <1>3, <1>4, <1>6
<1>8. ASSUME NEW i \in 1..(n + 1)
      PROVE  Upto(longer, i, "assistant") <= Upto(longer, i, "user")
  <2>1. CASE i = n + 1
    BY <1>7, <2>1
  <2>2. CASE i \in 1..n
    BY <1>4, <1>5, <2>2
  <2> QED
    BY <1>1, <2>1, <2>2
<1>9. threads'[t].messages = longer
  BY DEF longer, ms
<1> QED
  BY <1>1, <1>6, <1>8, <1>9 DEF Balanced

LEMMA TalkSaveUser ==
  ASSUME ExchangeInv, EarnedInv, TalkInv, NEW r \in Requests, SaveUser(r)
  PROVE  TalkInv'
<1> DEFINE m == Message("user", call[r].text)
<1>1. pc[r] = "saveUser" /\ UNCHANGED <<call, usage>> /\ Call(call[r])
  BY DEF SaveUser, EarnedInv, Earned
<1>2. PICK step \in {"saveAssistant", "respond"} : Goto(r, step)
  BY DEF SaveUser
<1>3. pc'[r] = step /\ Aside(r)
  BY <1>1, <1>2 DEF Aside, ExchangeInv, Goto
<1>4. PICK t \in Threads : t = call[r].thread /\ threads[t] # NoThread
  BY <1>1 DEF TalkInv, HasThread
<1>5. CASE UNCHANGED threads /\ Goto(r, "respond")
  <2>1. pc'[r] = "respond"
    BY <1>5 DEF ExchangeInv, Goto
  <2>2. HasThread(r)'
    BY <1>1, <1>4, <1>5, <2>1 DEF HasThread
  <2> QED
    BY <1>1, <1>3, <1>5, <2>1, <2>2, TalkQuiet
<1>6. CASE AddMessage(t, call[r].owner, m)
  <2>1. m \in Spoken /\ m.role = "user" /\ m.text[1] \notin Requests
    BY <1>1, TextsAssumption DEF Call, Spoken, Message
  <2>0. PICK k \in Spoken : k = m
    BY <2>1
  <2>2. /\ threads[t].messages \in Seq(Spoken)
        /\ threads' \in [Threads -> Rows \cup {NoThread}] /\ threads'[t] # NoThread
        /\ threads'[t].messages = Append(threads[t].messages, k)
        /\ \A u \in Threads \ {t} : threads'[u] = threads[u]
    BY <1>4, <1>6, <2>0, MessageAdded
  <2>3. Pending(t)' \subseteq Pending(t) \cup {r} /\ r \notin Pending(t)
    BY <1>1, <1>3 DEF Pending, Aside
  <2>4. Cardinality(Pending(t)') <= Cardinality(Pending(t)) + 1
    <3>1. /\ IsFiniteSet(Pending(t) \cup {r})
          /\ Cardinality(Pending(t) \cup {r}) = Cardinality(Pending(t)) + 1
      BY <2>3, PendingFinite, FS_AddElement
    <3> QED
      BY <2>3, <3>1, FS_Subset
  <2>5. Balanced(t)'
    BY <1>4, <2>0, <2>1, <2>2, <2>4, BalancedAfter
  <2>6. ASSUME NEW q \in Requests PROVE Own(t, q)'
    <3> DEFINE ms == threads[t].messages
               n == Len(ms)
    <3>0. ms \in Seq(Spoken)
      BY <2>2
    <3>1. /\ n \in Nat /\ DOMAIN ms = 1..n /\ DOMAIN Append(ms, k) = 1..(n + 1)
          /\ Append(ms, k)[n + 1] = k /\ \A i \in 1..n : Append(ms, k)[i] = ms[i]
      <4> HIDE DEF ms
      <4> QED BY <3>0
    <3>2. \A i \in DOMAIN Append(ms, k) : Append(ms, k)[i].text[1] = q =>
            i \in DOMAIN ms /\ Append(ms, k)[i] = ms[i]
      BY <2>0, <2>1, <3>1
    <3>3. Own(t, q)
      BY <1>4 DEF TalkInv
    <3>4. pc[q] \in {"respond", "done"} => pc'[q] = pc[q]
      BY <1>1, <1>3 DEF Aside
    <3> HIDE DEF ms
    <3> QED
      BY <1>1, <2>2, <3>2, <3>3, <3>4 DEF Own, ms
  <2>7. ASSUME NEW u \in Threads \ {t}, threads'[u] # NoThread
        PROVE  Balanced(u)' /\ \A q \in Requests : Own(u, q)'
    <3>1. threads'[u] = threads[u] /\ threads[u] # NoThread
      BY <2>2, <2>7
    <3>2. Pending(u)' \subseteq Pending(u)
      BY <1>1, <1>3, <1>4 DEF Pending, Aside
    <3>3. Balanced(u)'
      BY <3>1, <3>2, FewerPending
    <3>4. ASSUME NEW q \in Requests PROVE Own(u, q)'
      BY <1>1, <1>3, <3>1 DEF TalkInv, Own, Aside
    <3> QED
      BY <3>3, <3>4
  <2>8. ASSUME NEW q \in Requests PROVE HasThread(q)'
    <3>1. HasThread(q)
      BY DEF TalkInv
    <3>2. \A u \in Threads : threads[u] # NoThread => threads'[u] # NoThread
      BY <2>2
    <3>3. CASE q = r
      BY <1>1, <1>3, <1>4, <2>2, <3>3 DEF HasThread
    <3>4. CASE q # r
      <4>1. pc'[q] = pc[q] /\ call'[q] = call[q]
        BY <1>3, <3>4 DEF Aside
      <4>2. pc[q] \in {"idle", "thread"} => q # t /\ q \in Threads
        BY <1>4, <3>1, GatewayAssumption DEF HasThread
      <4> QED
        BY <2>2, <3>1, <3>2, <4>1, <4>2 DEF HasThread
    <3> QED
      BY <3>3, <3>4
  <2> QED
    BY <2>2, <2>5, <2>6, <2>7, <2>8 DEF TalkInv
<1> QED
  BY <1>4, <1>5, <1>6 DEF SaveUser

LEMMA TalkSaveAssistant ==
  ASSUME ExchangeInv, EarnedInv, TalkInv, NEW r \in Requests, SaveAssistant(r)
  PROVE  TalkInv'
<1> DEFINE m == Message("assistant", <<r, call[r].pieces>>)
<1>1. /\ pc[r] = "saveAssistant" /\ UNCHANGED <<call, usage>> /\ Call(call[r])
      /\ Goto(r, "respond")
  BY DEF SaveAssistant, EarnedInv, Earned
<1>2. pc'[r] = "respond" /\ Aside(r)
  BY <1>1 DEF Aside, ExchangeInv, Goto
<1>3. PICK t \in Threads : t = call[r].thread /\ threads[t] # NoThread
  BY <1>1 DEF TalkInv, HasThread
<1>4. CASE UNCHANGED threads
  <2>1. HasThread(r)'
    BY <1>1, <1>2, <1>3, <1>4 DEF HasThread
  <2> QED
    BY <1>1, <1>2, <1>4, <2>1, TalkQuiet
<1>5. CASE AddMessage(t, call[r].owner, m)
  <2>1. m \in Spoken /\ m.role = "assistant" /\ m.text[1] = r /\ m.text[2] = call[r].pieces
    BY <1>1 DEF Call, Spoken, Message
  <2>2. PICK k \in Spoken : k = m
    BY <2>1
  <2>3. /\ threads[t].messages \in Seq(Spoken)
        /\ threads' \in [Threads -> Rows \cup {NoThread}] /\ threads'[t] # NoThread
        /\ threads'[t].messages = Append(threads[t].messages, k)
        /\ \A u \in Threads \ {t} : threads'[u] = threads[u]
    BY <1>3, <1>5, <2>2, MessageAdded
  <2>4. Pending(t)' = Pending(t) \ {r} /\ r \in Pending(t)
    BY <1>1, <1>2, <1>3 DEF Pending, Aside
  <2>5. Cardinality(Pending(t)') + 1 <= Cardinality(Pending(t))
    <3>1. Cardinality(Pending(t)') = Cardinality(Pending(t)) - 1
      BY <2>4, PendingFinite, FS_RemoveElement
    <3> QED
      BY <3>1, PendingFinite
  <2>6. Balanced(t)'
    BY <1>3, <2>1, <2>2, <2>3, <2>5, BalancedAfter
  <2>7. ASSUME NEW u \in Threads, threads[u] # NoThread, NEW i \in DOMAIN threads[u].messages
        PROVE  threads[u].messages[i].text[1] # r
    BY <1>1, <2>7 DEF TalkInv, Own
  <2>8. ASSUME NEW q \in Requests PROVE Own(t, q)'
    <3> DEFINE ms == threads[t].messages
               n == Len(ms)
    <3>1. ms \in Seq(Spoken)
      BY <2>3
    <3>2. /\ n \in Nat /\ DOMAIN ms = 1..n /\ DOMAIN Append(ms, k) = 1..(n + 1)
          /\ Append(ms, k)[n + 1] = k /\ \A i \in 1..n : Append(ms, k)[i] = ms[i]
      <4> HIDE DEF ms
      <4> QED BY <3>1
    <3>3. CASE q = r
      <4>1. \A i \in DOMAIN Append(ms, k) : Append(ms, k)[i].text[1] = r =>
              i = n + 1 /\ Append(ms, k)[i].text[2] = call[r].pieces
        <5>1. \A i \in DOMAIN ms : ms[i].text[1] # r
          BY <1>3, <2>7
        <5> HIDE DEF ms, n
        <5>2. k.text[1] = r /\ k.text[2] = call[r].pieces
          BY <2>1, <2>2
        <5>3. \A i \in 1..(n + 1) : i \in 1..n \/ i = n + 1
          BY <3>2
        <5> QED
          BY <3>2, <5>1, <5>2, <5>3
      <4> HIDE DEF ms, n
      <4> QED
        BY <1>1, <1>2, <2>3, <3>3, <4>1 DEF Own, ms
    <3>4. CASE q # r
      <4>1. \A i \in DOMAIN Append(ms, k) : Append(ms, k)[i].text[1] = q =>
              i \in DOMAIN ms /\ Append(ms, k)[i] = ms[i]
        BY <2>1, <2>2, <3>2, <3>4
      <4>2. Own(t, q) /\ pc'[q] = pc[q]
        BY <1>2, <1>3, <3>4 DEF TalkInv, Aside
      <4> HIDE DEF ms
      <4> QED
        BY <1>1, <2>3, <4>1, <4>2 DEF Own, ms
    <3> QED
      BY <3>3, <3>4
  <2>9. ASSUME NEW u \in Threads \ {t}, threads'[u] # NoThread
        PROVE  Balanced(u)' /\ \A q \in Requests : Own(u, q)'
    <3>1. threads'[u] = threads[u] /\ threads[u] # NoThread
      BY <2>3, <2>9
    <3>2. Pending(u)' \subseteq Pending(u)
      BY <1>1, <1>2 DEF Pending, Aside
    <3>3. Balanced(u)'
      BY <3>1, <3>2, FewerPending
    <3>4. ASSUME NEW q \in Requests PROVE Own(u, q)'
      BY <1>1, <1>2, <3>1 DEF TalkInv, Own, Aside
    <3> QED
      BY <3>3, <3>4
  <2>10. ASSUME NEW q \in Requests PROVE HasThread(q)'
    <3>1. HasThread(q)
      BY DEF TalkInv
    <3>2. \A u \in Threads : threads[u] # NoThread => threads'[u] # NoThread
      BY <2>3
    <3>3. CASE q = r
      BY <1>1, <1>2, <1>3, <2>3, <3>3 DEF HasThread
    <3>4. CASE q # r
      <4>1. pc'[q] = pc[q] /\ call'[q] = call[q]
        BY <1>2, <3>4 DEF Aside
      <4>2. pc[q] \in {"idle", "thread"} => q # t /\ q \in Threads
        BY <1>3, <3>1, GatewayAssumption DEF HasThread
      <4> QED
        BY <2>3, <3>1, <3>2, <4>1, <4>2 DEF HasThread
    <3> QED
      BY <3>3, <3>4
  <2> QED
    BY <2>3, <2>6, <2>8, <2>9, <2>10 DEF TalkInv
<1> QED
  BY <1>3, <1>4, <1>5 DEF SaveAssistant

(* The thread of a request: a new one is empty, and nobody has it.         *)
LEMMA TalkResolve ==
  ASSUME ExchangeInv, EarnedInv, TalkInv, NEW r \in Requests, ResolveThread(r)
  PROVE  TalkInv'
<1>1. /\ pc[r] = "thread" /\ UNCHANGED usage /\ Call(call[r]) /\ threads[r] = NoThread
      /\ r \in Threads
  BY GatewayAssumption DEF ResolveThread, EarnedInv, Earned, TalkInv, HasThread
<1>2. CASE UNCHANGED threads /\ End(r)
  <2>1. pc'[r] = "done" /\ call'[r] = NoCall /\ Aside(r)
    BY <1>1, <1>2 DEF End, ExchangeInv, Aside
  <2> QED
    BY <1>1, <1>2, <2>1, TalkQuiet DEF HasThread
<1>3. CASE /\ UNCHANGED <<threads, call>> /\ Goto(r, "history")
           /\ call[r].thread # NoThread /\ GetThread(call[r].thread, call[r].owner)
  <2>1. pc'[r] = "history" /\ Aside(r)
    BY <1>1, <1>3 DEF Goto, ExchangeInv, Aside
  <2>2. call[r].thread \in Threads /\ threads[call[r].thread] # NoThread
    BY <1>1, <1>3 DEF Call, GetThread
  <2>3. HasThread(r)'
    BY <1>3, <2>1, <2>2 DEF HasThread
  <2> QED
    BY <1>1, <1>3, <2>1, <2>3, TalkQuiet
<1>4. CASE /\ CreateThread(r, call[r].owner) /\ Goto(r, "history")
           /\ call' = [call EXCEPT ![r].thread = r]
  <2>1. pc'[r] = "history" /\ Aside(r) /\ call'[r] = [call[r] EXCEPT !.thread = r]
    BY <1>1, <1>4 DEF Goto, ExchangeInv, Aside
  <2>2. call'[r].thread = r
    BY <1>1, <2>1 DEF Call
  <2> DEFINE row == [owner |-> call[r].owner, messages |-> <<>>]
  <2>3. row \in Rows /\ row # NoThread
    <3>1. call[r].owner \in Owners /\ <<>> \in Seq(Spoken)
      BY <1>1 DEF Call
    <3>2. row \in Rows
      BY <3>1 DEF Rows
    <3> HIDE DEF row
    <3> QED
      BY <3>2, NoRowAssumption
  <2>4. /\ threads' \in [Threads -> Rows \cup {NoThread}] /\ threads'[r] = row
        /\ \A u \in Threads \ {r} : threads'[u] = threads[u]
    BY <1>1, <1>4, <2>3 DEF TalkInv, CreateThread
  <2>5. threads'[r] # NoThread /\ threads'[r].messages = <<>>
    BY <2>3, <2>4
  <2> HIDE DEF row
  <2>6. Balanced(r)' /\ \A q \in Requests : Own(r, q)'
    <3>1. Pending(r)' = {}
      BY <1>1, <2>1 DEF Pending, Aside, TalkInv, HasThread
    <3>2. Cardinality(Pending(r)') = 0
      BY <3>1, FS_EmptySet
    <3>3. Upto(<<>>, 0, "assistant") = 0 /\ Upto(<<>>, 0, "user") = 0 /\ Len(<<>>) = 0
      BY UptoType
    <3>4. DOMAIN <<>> = {}
      OBVIOUS
    <3> QED
      BY <2>5, <3>2, <3>3, <3>4 DEF Balanced, Own
  <2>7. ASSUME NEW u \in Threads \ {r}, threads'[u] # NoThread
        PROVE  Balanced(u)' /\ \A q \in Requests : Own(u, q)'
    <3>1. threads'[u] = threads[u] /\ threads[u] # NoThread
      BY <2>4, <2>7
    <3>2. Pending(u)' \subseteq Pending(u)
      BY <1>1, <2>1 DEF Pending, Aside
    <3>3. Balanced(u)'
      BY <3>1, <3>2, FewerPending
    <3>4. ASSUME NEW q \in Requests PROVE Own(u, q)'
      BY <1>1, <2>1, <3>1 DEF TalkInv, Own, Aside
    <3> QED
      BY <3>3, <3>4
  <2>8. ASSUME NEW q \in Requests PROVE HasThread(q)'
    <3>1. HasThread(q)
      BY DEF TalkInv
    <3>2. CASE q = r
      BY <1>1, <2>1, <2>2, <2>5, <3>2 DEF HasThread
    <3>3. CASE q # r
      <4>1. pc'[q] = pc[q] /\ call'[q] = call[q] /\ q \in Threads
        BY <2>1, <3>3, GatewayAssumption DEF Aside
      <4> QED
        BY <2>4, <2>5, <3>1, <3>3, <4>1 DEF HasThread
    <3> QED
      BY <3>2, <3>3
  <2> QED
    BY <2>4, <2>6, <2>7, <2>8 DEF TalkInv
<1> QED
  BY <1>2, <1>3, <1>4 DEF ResolveThread

-----------------------------------------------------------------------------
(* The prompt of a turn.                                                   *)

(* The most of finitely many numbers.                                      *)
LEMMA Largest ==
  ASSUME NEW most \in Nat, NEW S \in SUBSET (0..most), S # {}
  PROVE  \E n \in S : \A m \in S : m <= n
<1> DEFINE T == {most - n : n \in S}
           R == OpToRel(<, Nat)
<1>0. \A n \in S : n \in Nat /\ most - n \in Nat
  OBVIOUS
<1>1. T \subseteq Nat /\ T # {}
  BY <1>0
<1>2. \E x \in T : \A y \in T : ~ (<<y, x>> \in R)
  BY <1>1, WFMin, NatLessThanWellFounded
<1>3. PICK x \in T : \A y \in T : ~ (<<y, x>> \in R)
  BY <1>2
<1>4. \A y \in T : x <= y
  <2> TAKE y \in T
  <2>1. <<y, x>> \notin R
    BY <1>3
  <2>2. x \in Nat /\ y \in Nat
    BY <1>1
  <2> QED
    BY <2>1, <2>2 DEF OpToRel
<1>5. PICK n \in S : x = most - n
  OBVIOUS
<1>6. \A m \in S : m <= n
  <2> TAKE m \in S
  <2>1. most - m \in T
    OBVIOUS
  <2>2. most - n <= most - m
    BY <1>4, <1>5, <2>1
  <2>3. n \in Nat /\ m \in Nat
    BY <1>0
  <2> QED
    BY <2>2, <2>3
<1> QED
  BY <1>6

(* What is kept is the end of the conversation.                            *)
LEMMA KeptIsSuffix ==
  ASSUME NEW M, NEW h \in Seq(M), NEW n \in 0..Len(h)
  PROVE  LET kept == SubSeq(h, Len(h) - n + 1, Len(h))
         IN  kept \in Seq(M) /\ Len(kept) = n /\ IsSuffix(kept, h)
<1> DEFINE kept == SubSeq(h, Len(h) - n + 1, Len(h))
<1>1. kept \in Seq(M) /\ Len(kept) = n
  OBVIOUS
<1>2. \A i \in 1..n : kept[i] = h[Len(h) - n + i]
  OBVIOUS
<1> HIDE DEF kept
<1>3. /\ Reverse(kept) \in Seq(M) /\ Len(Reverse(kept)) = n
      /\ Reverse(h) \in Seq(M) /\ Len(Reverse(h)) = Len(h)
      /\ \A i \in 1..n : Reverse(kept)[i] = Reverse(h)[i]
  BY <1>1, <1>2 DEF Reverse
<1>4. SubSeq(Reverse(kept), 1, n) = SubSeq(Reverse(h), 1, n)
  BY <1>3
<1>5. IsSuffix(kept, h)
  BY <1>3, <1>4 DEF IsSuffix, IsPrefix
<1> QED
  BY <1>1, <1>5 DEF kept

(* Every message that is not kept is among the dropped ones.               *)
LEMMA DroppedAll ==
  ASSUME NEW M, NEW h \in Seq(M), NEW n \in 0..Len(h), n <= ContextLimit
  PROVE  /\ Dropped(h, n) \in Seq(M) /\ Len(Dropped(h, n)) = Len(h) - n
         /\ \A i \in 1..(Len(h) - n) : Contains(Dropped(h, n), h[i])
<1> DEFINE first == IF Len(h) > ContextLimit THEN Len(h) - ContextLimit ELSE 0
           mid == SubSeq(h, first + 1, Len(h) - n)
           old == SubSeq(h, 1, first)
           len == Len(h) - n - first
<1>1. first \in 0..(Len(h) - n) /\ len \in Nat
  BY ContextAssumption
<1>2. mid \in Seq(M) /\ Len(mid) = len /\ \A i \in 1..len : mid[i] = h[first + i]
  BY <1>1
<1>3. old \in Seq(M) /\ Len(old) = first /\ \A i \in 1..first : old[i] = h[i]
  BY <1>1
<1>0. Dropped(h, n) = Reverse(mid) \o old
  BY DEF Dropped
<1>9. len + first = Len(h) - n /\ len \in Nat /\ first \in Nat
  BY <1>1
<1> HIDE DEF mid, old, first, len
<1>4. /\ Reverse(mid) \in Seq(M) /\ Len(Reverse(mid)) = len
      /\ \A i \in 1..len : Reverse(mid)[i] = h[first + len - i + 1]
  <2>1. \A i \in 1..len : len - i + 1 \in 1..len /\ first + (len - i + 1) = first + len - i + 1
    BY <1>9
  <2>2. /\ Reverse(mid) \in Seq(M) /\ Len(Reverse(mid)) = len
        /\ \A i \in 1..len : Reverse(mid)[i] = mid[len - i + 1]
    BY <1>2 DEF Reverse
  <2> QED
    BY <1>2, <2>1, <2>2
<1>6. /\ Dropped(h, n) \in Seq(M) /\ Len(Dropped(h, n)) = len + first
      /\ \A i \in 1..len : Dropped(h, n)[i] = h[first + len - i + 1]
      /\ \A i \in 1..first : Dropped(h, n)[len + i] = h[i]
  <2> DEFINE new == Reverse(mid)
  <2> HIDE DEF new
  <2>1. new \in Seq(M) /\ Len(new) = len /\ \A i \in 1..len : new[i] = h[first + len - i + 1]
    BY <1>4 DEF new
  <2>2. Dropped(h, n) = new \o old
    BY <1>0 DEF new
  <2>3. new \o old \in Seq(M) /\ Len(new \o old) = len + first
    <3>1. new \in Seq(M) /\ old \in Seq(M) /\ Len(new) = len /\ Len(old) = first
      BY <1>3, <2>1
    <3> QED
      BY <3>1
  <2>4. \A i \in 1..len : (new \o old)[i] = new[i]
    BY <1>9, <1>3, <2>1
  <2>5. ASSUME NEW i \in 1..first PROVE (new \o old)[len + i] = old[i]
    <3>1. len + i \in 1..(Len(new) + Len(old)) /\ ~(len + i <= Len(new)) /\ len + i - Len(new) = i
      BY <1>9, <1>3, <2>1
    <3> QED
      BY <1>3, <2>1, <3>1
  <2> QED
    BY <1>3, <2>1, <2>2, <2>3, <2>4, <2>5
<1>7. ASSUME NEW i \in 1..(Len(h) - n) PROVE Contains(Dropped(h, n), h[i])
  <2>1. CASE i <= first
    <3>1. len + i \in 1..Len(Dropped(h, n)) /\ Dropped(h, n)[len + i] = h[i]
      BY <1>6, <1>9, <2>1
    <3> QED
      BY <3>1 DEF Contains
  <2>2. CASE i > first
    <3> DEFINE k == first + len - i + 1
    <3>1. k \in 1..len /\ first + len - k + 1 = i
      BY <1>9, <2>2
    <3>2. k \in 1..Len(Dropped(h, n)) /\ Dropped(h, n)[k] = h[i]
      BY <1>6, <1>9, <3>1
    <3> QED
      BY <3>2 DEF Contains
  <2> QED
    BY <1>9, <2>1, <2>2
<1> QED
  BY <1>9, <1>6, <1>7

(* A summary that is not full has a line for each of them.                 *)
LEMMA Summaries ==
  ASSUME NEW M, NEW d \in Seq(M)
  PROVE  /\ BuildSummary(d) \in Seq(M)
         /\ Len(BuildSummary(d)) = SummaryRoom \/ BuildSummary(d) = d
  BY ContextAssumption DEF BuildSummary

(* PromptIsWhole of one prompt.                                            *)
Whole(merged, context) ==
  /\ IsSuffix(context.history, merged)
  /\ Len(context.history) <= ContextLimit
  /\ ContextFits(context.summary, context.history)
  /\ \/ Len(context.summary) \in {SummaryRoom, ContextBudget}
     \/ \A i \in 1..(Len(merged) - Len(context.history)) :
          Contains(context.summary, merged[i])

(* build_short_term_context, for every conversation.                       *)
LEMMA ContextWhole ==
  ASSUME NEW M, NEW h \in Seq(M)
  PROVE  Whole(h, BuildShortTermContext(h))
<1> DEFINE most == IF Len(h) < ContextLimit THEN Len(h) ELSE ContextLimit
           Keep(n) == SubSeq(h, Len(h) - n + 1, Len(h))
           Summary(n) == BuildSummary(Dropped(h, n))
           fits == {n \in 0..most : ContextFits(Summary(n), Keep(n))}
<1>1. most \in Nat /\ most <= Len(h) /\ most <= ContextLimit /\ Len(h) \in Nat
  BY ContextAssumption
<1>2. ASSUME NEW n \in 0..most
      PROVE  /\ Keep(n) \in Seq(M) /\ Len(Keep(n)) = n /\ IsSuffix(Keep(n), h)
             /\ n <= ContextLimit /\ Summary(n) \in Seq(M)
             /\ \/ Len(Summary(n)) = SummaryRoom
                \/ \A i \in 1..(Len(h) - n) : Contains(Summary(n), h[i])
  <2>1. n \in 0..Len(h) /\ n <= ContextLimit
    BY <1>1, ContextAssumption
  <2>2. Keep(n) \in Seq(M) /\ Len(Keep(n)) = n /\ IsSuffix(Keep(n), h)
    BY <2>1, KeptIsSuffix
  <2>3. /\ Dropped(h, n) \in Seq(M)
        /\ \A i \in 1..(Len(h) - n) : Contains(Dropped(h, n), h[i])
    BY <2>1, DroppedAll
  <2> QED
    BY <2>1, <2>2, <2>3, Summaries
<1>3. CASE fits # {}
  <2> DEFINE n == CHOOSE n \in fits : \A m \in fits : m <= n
  <2>1. fits \in SUBSET (0..most)
    OBVIOUS
  <2>2. \E k \in fits : \A m \in fits : m <= k
    <3> HIDE DEF fits
    <3> QED
      BY <1>1, <1>3, <2>1, Largest
  <2>3. n \in fits
    <3> HIDE DEF fits
    <3> QED
      BY <2>2
  <2>4. BuildShortTermContext(h) = [history |-> Keep(n), summary |-> Summary(n)]
    BY <1>3 DEF BuildShortTermContext
  <2>5. n \in 0..most /\ ContextFits(Summary(n), Keep(n))
    BY <2>3
  <2> HIDE DEF n, Keep, Summary
  <2> QED
    BY <1>2, <2>4, <2>5 DEF Whole
<1>4. CASE fits = {}
  <2> DEFINE summary == TruncateSummaryToBudget(Summary(0))
  <2>1. BuildShortTermContext(h) = [history |-> <<>>, summary |-> summary]
    BY <1>4 DEF BuildShortTermContext
  <2>2. 0 \in 0..most /\ Summary(0) \in Seq(M) /\ Len(Keep(0)) = 0
    BY <1>1, <1>2
  <2>3. ~ ContextFits(Summary(0), Keep(0))
    BY <1>4, <2>2
  <2> HIDE DEF Keep, Summary
  <2>4. Len(Summary(0)) > ContextBudget
    BY <2>2, <2>3, ContextAssumption DEF ContextFits
  <2>5. summary \in Seq(M) /\ Len(summary) = ContextBudget
    BY <2>2, <2>4, ContextAssumption DEF TruncateSummaryToBudget
  <2>6. IsSuffix(<<>>, h)
    <3>1. Keep(0) = <<>>
      BY <1>1 DEF Keep
    <3> QED
      BY <1>2, <2>2, <3>1
  <2> HIDE DEF summary
  <2> QED
    BY <2>1, <2>5, <2>6, ContextAssumption DEF Whole, ContextFits
<1> QED
  BY <1>3, <1>4

(* merge_history makes one conversation of what is stored and what the     *)
(* client sends.                                                           *)
LEMMA MergedIsSpoken ==
  ASSUME NEW M, NEW server \in Seq(M), NEW client \in Seq(M), Len(client) <= 1, NEW text
  PROVE  MergeHistory(server, client, text) \in Seq(M)
<1>1. NotStored(server, client) \in Seq(M)
  <2> DEFINE new == {i \in DOMAIN client : ~ Contains(server, client[i])}
             Nth(k) == CHOOSE i \in new : Cardinality({j \in new : j <= i}) = k
  <2>1. NotStored(server, client) = [k \in 1..Cardinality(new) |-> client[Nth(k)]]
    BY DEF NotStored
  <2>2. new = {} \/ new = {1}
    OBVIOUS
  <2>3. CASE new = {}
    <3>1. Cardinality(new) = 0
      BY <2>3, FS_EmptySet
    <3> HIDE DEF new, Nth
    <3> QED
      BY <2>1, <3>1
  <2>4. CASE new = {1}
    <3>1. Cardinality(new) = 1
      BY <2>4, FS_Singleton
    <3>2. {j \in new : j <= 1} = {1}
      BY <2>4
    <3>3. Nth(1) = 1 /\ client[1] \in M
      <4>1. Cardinality({j \in new : j <= 1}) = 1
        BY <3>2, FS_Singleton
      <4>2. client[1] \in M
        BY <2>4
      <4> HIDE DEF new
      <4> QED
        BY <2>4, <4>1, <4>2
    <3> HIDE DEF new, Nth
    <3> QED
      BY <2>1, <3>1, <3>3
  <2> QED
    BY <2>2, <2>3, <2>4
<1> DEFINE merged == server \o NotStored(server, client)
           said == {i \in DOMAIN merged : merged[i].role = "user"}
           last == {i \in said : \A j \in said : j <= i}
<1>2. merged \in Seq(M)
  BY <1>1
<1>3. MergeHistory(server, client, text) =
        IF \E i \in last : merged[i].text = text
        THEN SubSeq(merged, 1, (CHOOSE i \in last : TRUE) - 1) ELSE merged
  BY DEF MergeHistory, DropRetriedTurn
<1> HIDE DEF merged
<1>4. CASE last # {}
  <2>1. PICK i \in 1..Len(merged) : i = CHOOSE k \in last : TRUE
    BY <1>2, <1>4
  <2>2. SubSeq(merged, 1, i - 1) \in Seq(M)
    BY <1>2
  <2> HIDE DEF last
  <2> QED
    BY <1>2, <1>3, <2>1, <2>2
<1>5. CASE last = {}
  BY <1>2, <1>3, <1>5
<1> QED
  BY <1>4, <1>5

LEMMA PromptPrepare ==
  ASSUME ExchangeInv, EarnedInv, TalkInv, PromptInv, NEW r \in Requests, PrepareThread(r)
  PROVE  PromptInv'
<1>1. Call(call[r]) /\ pc[r] = "history"
  BY DEF PrepareThread, EarnedInv, Earned
<1> DEFINE c == call[r]
           server == ListMessages(c.thread, c.owner)
<1>2. c.thread \in Threads /\ threads[c.thread] # NoThread
  BY <1>1 DEF TalkInv, HasThread
<1>3. server \in Seq(Spoken)
  BY <1>2 DEF ListMessages, TalkInv, Rows
<1>4. PICK client \in {<<>>, <<Message("user", c.text)>>} :
        prompt' = [prompt EXCEPT ![r] =
                     [merged |-> MergeHistory(server, client, c.text),
                      context |-> BuildShortTermContext(MergeHistory(server, client, c.text))]]
  BY DEF PrepareThread
<1>5. client \in Seq(Spoken) /\ Len(client) <= 1
  <2>1. Message("user", c.text) \in Spoken
    BY <1>1 DEF Call, Spoken
  <2>2. \A m \in Spoken : <<m>> \in Seq(Spoken) /\ Len(<<m>>) = 1
    OBVIOUS
  <2>3. <<>> \in Seq(Spoken) /\ Len(<<>>) = 0
    OBVIOUS
  <2>4. CASE client = <<>>
    BY <2>3, <2>4
  <2>5. CASE client = <<Message("user", c.text)>>
    <3>1. PICK m \in Spoken : m = Message("user", c.text)
      BY <2>1
    <3> QED
      BY <2>2, <2>5, <3>1
  <2> QED
    BY <1>4, <2>4, <2>5
<1> DEFINE merged == MergeHistory(server, client, c.text)
<1>6. merged \in Seq(Spoken)
  BY <1>3, <1>5, MergedIsSpoken
<1> HIDE DEF merged
<1>7. prompt' = [prompt EXCEPT ![r] = [merged |-> merged,
                                       context |-> BuildShortTermContext(merged)]]
  BY <1>4 DEF merged
<1> QED
  BY <1>6, <1>7 DEF PromptInv

LEMMA PromptStep ==
  ASSUME ExchangeInv, EarnedInv, TalkInv, PromptInv, [Next]_vars
  PROVE  PromptInv'
<1>1. CASE UNCHANGED prompt
  BY <1>1 DEF PromptInv
<1>2. ASSUME NEW r \in Requests, prompt' = [prompt EXCEPT ![r] = NoCall]
      PROVE  PromptInv'
  BY <1>2 DEF PromptInv
<1>3. ASSUME NEW r \in Requests,
             CreateChatCompletion(r) \/ CreateChatCompletions(r) \/ Serve(r) \/ Disconnect(r)
      PROVE  PromptInv'
  <2>1. CASE PrepareThread(r)
    BY <2>1, PromptPrepare
  <2>2. CASE ~ PrepareThread(r)
    <3>1. UNCHANGED prompt \/ prompt' = [prompt EXCEPT ![r] = NoCall]
      BY <1>3, <2>2 DEF CreateChatCompletion, CreateChatCompletions, Begin, Serve,
         ResolveThread, Reserve, ServiceChat, StartStream, ReadLine, RenewalFails,
         RecordUsage, RecordFailed, Settle, Release, SendDone, SaveUser, SaveAssistant,
         Respond, Disconnect, End
    <3> QED
      BY <1>1, <1>2, <3>1
  <2> QED
    BY <2>1, <2>2
<1> QED
  BY <1>1, <1>3 DEF Next, vars, serving, TimePasses

-----------------------------------------------------------------------------

LEMMA TalkBegin ==
  ASSUME ExchangeInv, EarnedInv, TalkInv, NEW r \in Requests, NEW streams, Begin(r, streams)
  PROVE  TalkInv'
<1>1. pc[r] = "idle" /\ UNCHANGED <<threads, usage>> /\ threads[r] = NoThread
  BY DEF Begin, TalkInv, HasThread
<1>2. Aside(r) /\ pc'[r] \in {"thread", "done"}
  BY <1>1 DEF Begin, Goto, ExchangeInv, Aside
<1>3. HasThread(r)'
  BY <1>1, <1>2 DEF HasThread
<1> QED
  BY <1>1, <1>2, <1>3, TalkQuiet

LEMMA TalkEnd ==
  ASSUME ExchangeInv, TalkInv, NEW r \in Requests, End(r), UNCHANGED threads,
         UNCHANGED usage \/ WriteUsage(r)
  PROVE  TalkInv'
<1>1. pc'[r] = "done" /\ call'[r] = NoCall /\ Aside(r)
  BY DEF End, WriteUsage, ExchangeInv, Aside
<1>2. HasThread(r)'
  BY <1>1 DEF HasThread
<1> QED
  BY <1>1, <1>2, TalkQuiet

(* A step on the way that stores nothing and keeps its thread.             *)
LEMMA TalkMove ==
  ASSUME ExchangeInv, TalkInv, NEW r \in Requests, UNCHANGED threads, Aside(r),
         pc[r] \notin {"idle", "thread", "respond", "done"},
         pc'[r] \notin {"idle", "thread", "saveAssistant", "done"},
         call'[r].thread = call[r].thread
  PROVE  TalkInv'
<1>1. HasThread(r)'
  BY DEF TalkInv, HasThread
<1> QED
  BY <1>1, TalkQuiet

LEMMA TalkServe ==
  ASSUME ExchangeInv, EarnedInv, TalkInv, NEW r \in Requests,
         PrepareThread(r) \/ (Reserve(r) /\ ~ End(r)) \/ ServiceChat(r) \/ StartStream(r)
           \/ ReadLine(r) \/ RenewalFails(r) \/ RecordUsage(r) \/ RecordFailed(r)
           \/ Settle(r) \/ SendDone(r)
  PROVE  TalkInv'
<1>1. /\ UNCHANGED threads
      /\ pc[r] \notin {"idle", "thread", "saveUser", "saveAssistant", "respond", "done"}
  BY DEF PrepareThread, Reserve, ServiceChat, StartStream, ReadLine, RenewalFails,
     RecordUsage, RecordFailed, Settle, SendDone
<1>2. UNCHANGED usage \/ WriteUsage(r)
  BY DEF PrepareThread, Reserve, ServiceChat, StartStream, ReadLine, RenewalFails,
     RecordUsage, RecordFailed, Settle, SendDone
<1>3. Call(call[r])
  BY <1>1 DEF EarnedInv, Earned
<1>4. UNCHANGED pc \/ \E next \in {"reserve", "start", "call", "release", "record", "read",
                                  "recordFailed", "settle", "finish", "saveUser"} :
                       Goto(r, next)
  BY DEF PrepareThread, Reserve, ServiceChat, StartStream, ReadLine, RenewalFails,
     RecordUsage, RecordFailed, Settle, SendDone
<1>5. /\ \A q \in Requests \ {r} : call'[q] = call[q]
      /\ call'[r].thread = call[r].thread
  <2>1. CASE UNCHANGED call
    BY <2>1
  <2>2. CASE ServiceChat(r)
    <3>1. ASSUME NEW m, call' = [call EXCEPT ![r].counts = ExtractUsage(m).counts,
                                            ![r].pieces = IF m.content = "empty" THEN 0 ELSE 1,
                                            ![r].ended = "last"]
          PROVE  /\ \A q \in Requests \ {r} : call'[q] = call[q]
                 /\ call'[r].thread = call[r].thread
      <4>1. call'[r] = [call[r] EXCEPT !.counts = ExtractUsage(m).counts,
                                       !.pieces = IF m.content = "empty" THEN 0 ELSE 1,
                                       !.ended = "last"]
        BY <3>1 DEF ExchangeInv
      <4> QED
        BY <1>3, <3>1, <4>1 DEF ExchangeInv, Call
    <3> QED
      BY <2>1, <2>2, <3>1 DEF ServiceChat
  <2>3. ASSUME Unwind(r)
        PROVE  /\ \A q \in Requests \ {r} : call'[q] = call[q]
               /\ call'[r].thread = call[r].thread
    BY <1>3, <2>3 DEF Unwind, ExchangeInv, Call
  <2>4. CASE ReadLine(r)
    <3> DEFINE Decoded(m) == ChatStream(call[r].provider, call[r].decoder, m)
    <3>1. PICK m \in Lines :
            \/ call' = [call EXCEPT ![r].decoder = Decoded(m).decoder, ![r].lines = @ + 1]
            \/ SendFrame(r, Decoded(m))
            \/ call' = [call EXCEPT ![r].ended = "stop", ![r].lines = 0]
            \/ Unwind(r)
      BY <2>4 DEF ReadLine
    <3>2. Decoded(m).decoder \in Decoders /\ Decoded(m).counts \in TokenCounts
      BY <1>3, LinesAssumption, OpenAILine, OllamaLine DEF ChatStream, Call
    <3> HIDE DEF Decoded
    <3>3. CASE SendFrame(r, Decoded(m))
      BY <1>3, <3>2, <3>3, FrameSent
    <3>4. CASE call' = [call EXCEPT ![r].decoder = Decoded(m).decoder, ![r].lines = @ + 1]
      BY <1>3, <3>4 DEF ExchangeInv, Call
    <3>5. CASE call' = [call EXCEPT ![r].ended = "stop", ![r].lines = 0]
      BY <1>3, <3>5 DEF ExchangeInv, Call
    <3> QED
      BY <2>3, <3>1, <3>3, <3>4, <3>5
  <2> QED
    BY <2>1, <2>2, <2>3, <2>4 DEF PrepareThread, Reserve, StartStream, RenewalFails,
       RecordUsage, RecordFailed, Settle, SendDone
<1>6. Aside(r) /\ pc'[r] \notin {"idle", "thread", "saveAssistant", "done"}
  <2>1. \A q \in Requests \ {r} : usage'[q] = usage[q]
    BY <1>2 DEF WriteUsage, ExchangeInv
  <2>2. CASE UNCHANGED pc
    BY <1>1, <1>5, <2>1, <2>2 DEF Aside
  <2>3. ASSUME NEW next \in {"reserve", "start", "call", "release", "record", "read",
                             "recordFailed", "settle", "finish", "saveUser"},
               Goto(r, next)
        PROVE  Aside(r) /\ pc'[r] \notin {"idle", "thread", "saveAssistant", "done"}
    BY <1>5, <2>1, <2>3 DEF Aside, Goto, ExchangeInv
  <2> QED
    BY <1>4, <2>2, <2>3
<1> QED
  BY <1>1, <1>5, <1>6, TalkMove

LEMMA TalkInit == Init => TalkInv /\ PromptInv
<1> SUFFICES ASSUME Init PROVE TalkInv /\ PromptInv
  OBVIOUS
<1>1. PICK h \in Histories :
        threads = [t \in Threads |-> IF t = OldThread
                                     THEN [owner |-> OldOwner, messages |-> h] ELSE NoThread]
  BY DEF Init
<1> DEFINE row == [owner |-> OldOwner, messages |-> h]
<1>2. /\ h \in Seq({h[i] : i \in DOMAIN h})
      /\ \A i \in DOMAIN h : /\ h[i].text[1] \notin Requests
                             /\ Upto(h, i, "assistant") <= Upto(h, i, "user")
  BY TextsAssumption
<1>3. h \in Seq(Spoken)
  <2>1. \A i \in DOMAIN h : h[i] \in Spoken
    BY DEF Spoken
  <2>2. {h[i] : i \in DOMAIN h} \subseteq Spoken
    BY <2>1
  <2> QED
    BY <1>2, <2>2
<1>4. row \in Rows
  BY <1>3, GatewayAssumption DEF Rows
<1>5. threads \in [Threads -> Rows \cup {NoThread}]
  BY <1>1, <1>4
<1>6. \A r \in Requests : HasThread(r)
  BY <1>1, GatewayAssumption DEF Init, HasThread
<1>7. ASSUME NEW t \in Threads, threads[t] # NoThread
      PROVE  Balanced(t) /\ \A r \in Requests : Own(t, r)
  <2>1. threads[t].messages = h
    BY <1>1, <1>7
  <2>2. Cardinality(Pending(t)) = 0
    <3>1. Pending(t) = {}
      BY DEF Pending, Init
    <3> QED
      BY <3>1, FS_EmptySet
  <2>3. Len(h) \in Nat /\ DOMAIN h = 1..Len(h)
    BY <1>3
  <2>4. Upto(h, Len(h), "assistant") \in Nat /\ Upto(h, Len(h), "user") \in Nat
    BY <2>3, UptoType
  <2>5. Upto(h, Len(h), "assistant") <= Upto(h, Len(h), "user")
    <3>1. CASE Len(h) = 0
      <4>1. Upto(h, Len(h), "assistant") = 0 /\ Upto(h, Len(h), "user") = 0
        BY <2>3, <3>1, UptoType
      <4> QED
        BY <4>1
    <3>2. CASE Len(h) # 0
      BY <1>2, <2>3, <3>2
    <3> QED
      BY <3>1, <3>2
  <2>6. Upto(h, Len(h), "assistant") + 0 <= Upto(h, Len(h), "user")
    BY <2>4, <2>5
  <2> QED
    BY <1>2, <2>1, <2>2, <2>6 DEF Balanced, Own
<1> QED
  BY <1>5, <1>6, <1>7 DEF TalkInv, PromptInv, Init

LEMMA TalkStep ==
  ASSUME ExchangeInv, EarnedInv, TalkInv, [Next]_vars
  PROVE  TalkInv'
<1>1. CASE UNCHANGED <<threads, serving>>
  <2>1. UNCHANGED <<threads, pc, call>>
    BY <1>1 DEF serving
  <2>2. \A r \in Requests : HasThread(r)'
    BY <2>1 DEF TalkInv, HasThread
  <2>3. ASSUME NEW t \in Threads, threads'[t] # NoThread
        PROVE  Balanced(t)' /\ \A r \in Requests : Own(t, r)'
    <3>1. Pending(t)' \subseteq Pending(t)
      BY <2>1 DEF Pending
    <3>2. Balanced(t)'
      BY <2>1, <2>3, <3>1, FewerPending
    <3>3. \A r \in Requests : Own(t, r)'
      BY <2>1, <2>3 DEF TalkInv, Own
    <3> QED
      BY <3>2, <3>3
  <2> QED
    BY <2>1, <2>2, <2>3 DEF TalkInv
<1>2. ASSUME NEW r \in Requests,
             CreateChatCompletion(r) \/ CreateChatCompletions(r) \/ Serve(r) \/ Disconnect(r)
      PROVE  TalkInv'
  <2>1. CASE CreateChatCompletion(r) \/ CreateChatCompletions(r)
    BY <2>1, TalkBegin DEF CreateChatCompletion, CreateChatCompletions
  <2>2. CASE (Reserve(r) /\ End(r)) \/ Release(r) \/ Respond(r) \/ Disconnect(r)
    BY <2>2, TalkEnd DEF Reserve, Release, Respond, Disconnect
  <2>3. CASE ResolveThread(r) \/ SaveUser(r) \/ SaveAssistant(r)
    BY <2>3, TalkResolve, TalkSaveUser, TalkSaveAssistant
  <2>4. CASE Serve(r)
    BY <2>2, <2>3, <2>4, TalkServe DEF Serve
  <2> QED
    BY <1>2, <2>1, <2>2, <2>4
<1> QED
  BY <1>1, <1>2 DEF Next, vars, TimePasses

(* Everything the endpoints keep about requests, threads and prompts.      *)
THEOREM TalkInvariant == Spec => [](ExchangeInv /\ EarnedInv /\ TalkInv /\ PromptInv)
<1>1. Init => ExchangeInv /\ EarnedInv /\ TalkInv /\ PromptInv
  BY ExchangeInit, EarnedInit, TalkInit
<1>2. ExchangeInv /\ EarnedInv /\ TalkInv /\ PromptInv /\ [Next]_vars =>
        (ExchangeInv /\ EarnedInv /\ TalkInv /\ PromptInv)'
  BY ExchangeStep, EarnedStep, TalkStep, PromptStep
<1> QED
  BY <1>1, <1>2, PTL DEF Spec

(* However the turns of persist_turn interleave, no thread has at any      *)
(* point more answers than questions, an answer is stored once and with    *)
(* all the pieces that were sent, and what build_short_term_context leaves *)
(* out of a prompt is in its summary unless the summary is full.           *)
THEOREM ConversationsAreKept == Spec => []ConversationKept
<1>1. TalkInv => AnswersFollowQuestions
  <2> SUFFICES ASSUME TalkInv, NEW t \in Threads, threads[t] # NoThread, NEW r \in Requests
               PROVE  LET ms == threads[t].messages
                          answers == {i \in DOMAIN ms : ms[i].text[1] = r}
                      IN  /\ Cardinality(answers) <= 1
                          /\ \A i \in answers : call[r] # NoCall => ms[i].text[2] = call[r].pieces
                          /\ \A i \in DOMAIN ms : Upto(ms, i, "assistant") <= Upto(ms, i, "user")
    BY DEF AnswersFollowQuestions, TalkInv, Balanced
  <2> DEFINE ms == threads[t].messages
             answers == {i \in DOMAIN ms : ms[i].text[1] = r}
  <2>1. Own(t, r) /\ Balanced(t)
    BY DEF TalkInv
  <2>2. Cardinality(answers) <= 1
    <3>1. CASE answers = {}
      BY <3>1, FS_EmptySet
    <3>2. CASE answers # {}
      <4>1. PICK i : i \in answers
        BY <3>2
      <4>2. answers = {i}
        BY <2>1, <4>1 DEF Own
      <4>3. Cardinality(answers) = 1
        BY <4>2, FS_Singleton
      <4> QED
        BY <4>3
    <3> QED
      BY <3>1, <3>2
  <2> QED
    BY <2>1, <2>2 DEF Own, Balanced
<1>2. PromptInv => PromptIsWhole
  <2> SUFFICES ASSUME PromptInv, NEW r \in Requests, prompt[r] # NoCall
               PROVE  Whole(prompt[r].merged, prompt[r].context)
    BY DEF PromptIsWhole, Whole
  <2> QED
    BY ContextWhole DEF PromptInv
<1> QED
  BY <1>1, <1>2, TalkInvariant, PTL DEF ConversationKept
=============================================================================
