-------------------------- MODULE AgentRuntimeProofs --------------------------
(* Proofs about AgentRuntime, for every set of calls and every bound.      *)
EXTENDS AgentRuntime, TLAPS

(* The events of a run that goes on.                                       *)
Open(e) ==
  /\ e \in Events /\ e.stopped = 0 /\ ~e.after /\ e.completed \subseteq e.started

(* Publishing keeps a run's events in order while it goes on.              *)
LEMMA PublishFacts ==
  ASSUME NEW e, Open(e)
  PROVE  /\ Publish(e) = e
         /\ RunStarted(e) = [e EXCEPT !.begun = TRUE]
         /\ AnswerDelta(e) = [e EXCEPT !.deltas = TRUE]
         /\ Answer(e) = [e EXCEPT !.answers = @ + 1]
<1>1. Publish(e) = [e EXCEPT !.after = FALSE]
  <2>1. ~(e.after \/ e.stopped > 0)  BY DEF Open, Events
  <2>2. (e.after \/ e.stopped > 0) = FALSE  BY <2>1, Zenon
  <2> QED BY <2>2, Zenon DEF Publish
<1>2. Publish(e) = e
  BY <1>1 DEF Open, Events
<1> QED BY <1>2 DEF RunStarted, AnswerDelta, Answer

(* What _finish leaves: all steps closed, one terminal event, and one form *)
(* of answer if it is given one at most.                                   *)
LEMMA FinishFacts ==
  ASSUME NEW e, Open(e), NEW why, Finish(why, e)
  PROVE  /\ pc' = "ended" /\ outcome' = why
         /\ ev' \in Events /\ ev'.stopped = 1 /\ ~ev'.after
         /\ ev'.started = e.started /\ ev'.completed = e.started
         /\ ev'.begun = e.begun /\ ev'.deltas = e.deltas
         /\ why = "direct_answer" /\ e.answers \in {0, 1} /\ (e.deltas => e.answers = 0)
              => IF e.deltas THEN ev'.answers = 0 ELSE ev'.answers = 1
<1> DEFINE closed == CompleteOpenSteps(e)
           told == IF why = "direct_answer" THEN AnswerIfUnseen(closed) ELSE closed
<1>1. closed = [e EXCEPT !.completed = e.started]
  <2>1. CASE e.started \subseteq e.completed
    <3>1. e.completed = e.started  BY <2>1 DEF Open
    <3> QED BY <2>1, <3>1 DEF CompleteOpenSteps, Open, Events
  <2>2. CASE ~(e.started \subseteq e.completed)
    <3>1. e.completed \cup e.started = e.started  BY DEF Open
    <3>2. closed = [e EXCEPT !.completed = e.completed \cup e.started]
      BY <2>2, PublishFacts DEF CompleteOpenSteps
    <3> QED BY <3>1, <3>2
  <2> QED BY <2>1, <2>2
<1>2. Open(closed) /\ closed.started = e.started /\ closed.completed = e.started
       /\ closed.begun = e.begun /\ closed.deltas = e.deltas /\ closed.answers = e.answers
  BY <1>1 DEF Open, Events
<1> HIDE DEF closed
<1>3. /\ Open(told) /\ told.started = e.started /\ told.completed = e.started
      /\ told.begun = e.begun /\ told.deltas = e.deltas
      /\ why = "direct_answer" /\ e.answers \in {0, 1} /\ (e.deltas => e.answers = 0)
           => IF e.deltas THEN told.answers = 0 ELSE told.answers = 1
  <2>1. AnswerIfUnseen(closed) = IF closed.answers = 0 /\ ~closed.deltas
                                 THEN [closed EXCEPT !.answers = @ + 1] ELSE closed
    BY <1>2, PublishFacts DEF AnswerIfUnseen
  <2> QED BY <1>2, <2>1 DEF Open, Events
<1>4. ev' = RunStopped(told) /\ pc' = "ended" /\ outcome' = why
  BY DEF Finish, closed
<1> HIDE DEF told
<1>5. ev' = [told EXCEPT !.stopped = @ + 1]
  BY <1>3, <1>4, PublishFacts DEF RunStopped
<1> QED BY <1>3, <1>4, <1>5 DEF Open, Events

-----------------------------------------------------------------------------
(* Type facts about the parts of an action.                                *)

MeterType == [prompt : Nat, completion : Nat, prompted : BOOLEAN, completed : BOOLEAN]

(* The cost of a response.                                                 *)
LEMMA SpendTypes ==
  ASSUME DataOK, NEW c \in Costs, NEW known \in Reports, Spend(c, known)
  PROVE  /\ spent' \in Nat /\ reported' \in Nat
         /\ spent' = spent + c.prompt + c.completion
         /\ c.prompt \in 1..MaxPrompt /\ c.completion \in 1..MaxCompletion
<1>1. c.prompt \in 1..MaxPrompt /\ c.completion \in 1..MaxCompletion
  BY DEF Costs
<1>2. Total(c) \in Nat /\ Total(c) = c.prompt + c.completion
  BY <1>1, BoundsAssumption DEF Total
<1>3. spent \in Nat /\ reported \in Nat  BY DEF DataOK
<1>4. spent' = spent + Total(c) /\ reported' \in {reported + Total(c), reported}
  BY DEF Spend
<1>5. spent' = spent + (c.prompt + c.completion)  BY <1>2, <1>4
<1>6. c.prompt \in Int /\ c.completion \in Int  BY <1>1
<1> HIDE DEF Total
<1> QED BY <1>1, <1>2, <1>3, <1>4, <1>5, <1>6

(* The meter keeps its type when a response is added.                      *)
LEMMA MeteredTypes ==
  ASSUME NEW m \in MeterType, NEW c \in Costs, NEW known \in Reports
  PROVE  Metered(m, c, known) \in MeterType
<1>1. c.prompt \in 1..MaxPrompt /\ c.completion \in 1..MaxCompletion /\ known \in BOOLEAN
  BY ReportsAssumption DEF Costs
<1>2. /\ (IF known /\ m.prompted THEN m.prompt + c.prompt ELSE 0) \in Nat
      /\ (IF known /\ m.completed THEN m.completion + c.completion ELSE 0) \in Nat
  BY <1>1, BoundsAssumption DEF MeterType
<1>3. (m.prompted /\ known) \in BOOLEAN /\ (m.completed /\ known) \in BOOLEAN
  BY <1>1 DEF MeterType
<1> QED BY <1>2, <1>3 DEF Metered, MeterType

LEMMA ChargeTypes ==
  ASSUME DataOK, NEW c \in Costs, NEW known \in Reports, Charge(c, known)
  PROVE  /\ meter' \in MeterType /\ spent' \in Nat /\ reported' \in Nat
         /\ spent' = spent + c.prompt + c.completion
         /\ c.prompt \in 1..MaxPrompt /\ c.completion \in 1..MaxCompletion
<1>1. meter \in MeterType  BY DEF DataOK, MeterType
<1>2. meter' \in MeterType  BY <1>1, MeteredTypes DEF Charge
<1> QED BY <1>2, SpendTypes DEF Charge

(* A cut meter is incomplete.                                              *)
LEMMA CutTypes ==
  ASSUME NEW m \in MeterType
  PROVE  Cut(m) \in MeterType /\ ~Complete(Cut(m))
<1>1. (m.prompted /\ m.prompt # 0) \in BOOLEAN  BY DEF MeterType
<1> QED BY <1>1 DEF Cut, MeterType, Complete

(* An abandoned operation keeps the types.                                 *)
LEMMA AbandonTypes ==
  ASSUME DataOK, Abandon
  PROVE  meter' \in MeterType /\ spent' \in Nat /\ reported' \in Nat /\ heard' \in BOOLEAN
<1>1. meter \in MeterType /\ spent \in Nat /\ reported \in Nat /\ heard \in BOOLEAN
  BY DEF DataOK, MeterType
<1>2. CASE UNCHANGED <<meter, spent, reported, heard>>  BY <1>1, <1>2
<1>3. CASE UNCHANGED heard /\ \E c \in Costs, known \in Reports : Charge(c, known)
  BY <1>1, <1>3, ChargeTypes
<1>4. CASE meter' = Cut(meter) /\ UNCHANGED <<spent, reported, heard>>
  BY <1>1, <1>4, CutTypes
<1>5. CASE /\ heard' = TRUE
           /\ \E c \in Costs, known \in Reports :
                meter' = Cut(Metered(meter, c, known)) /\ Spend(c, known)
  BY <1>1, <1>5, CutTypes, MeteredTypes, SpendTypes
<1> QED BY <1>2, <1>3, <1>4, <1>5 DEF Abandon

(* Closing the step that is running.                                       *)
LEMMA StepFacts ==
  ASSUME NEW e, Open(e), NEW n, n \in e.started
  PROVE  /\ Open(StepCompleted(e, n))
         /\ StepCompleted(e, n) = [e EXCEPT !.completed = @ \cup {n}]
         /\ StepCompleted(e, n).started = e.started
         /\ StepCompleted(e, n).deltas = e.deltas
         /\ StepCompleted(e, n).answers = e.answers
         /\ StepCompleted(e, n).begun = e.begun
BY PublishFacts DEF StepCompleted, Open, Events

(* A run that ends through _finish satisfies the invariant.                *)
LEMMA Over ==
  ASSUME DataOK', phase' # "admit", NEW e, Open(e),
         e.answers \in {0, 1}, e.deltas => e.answers = 0,
         NEW why \in Reasons, Finish(why, e)
  PROVE  RunInv'
<1>1. /\ pc' = "ended" /\ outcome' = why /\ ev' \in Events /\ ev'.stopped = 1
      /\ ~ev'.after /\ ev'.started = ev'.completed
      /\ why = "direct_answer" => IF ev'.deltas THEN ev'.answers = 0 ELSE ev'.answers = 1
  BY FinishFacts
<1>2. TypeOK'  BY <1>1 DEF TypeOK, Ended, Reasons
<1>3. RunsInside'  BY <1>1 DEF RunsInside, Ended
<1>4. Published'  BY <1>1 DEF Published, Ended, Awaiting
<1>5. OneTerminal' /\ StepsClosed'  BY <1>1 DEF OneTerminal, StepsClosed
<1>6. ev'.deltas \in BOOLEAN  BY <1>1 DEF Events
<1>7. AnsweredOnce'  BY <1>1, <1>6 DEF AnsweredOnce
<1> QED BY <1>2, <1>3, <1>4, <1>5, <1>7 DEF RunInv

(* The events of a run in progress are open.                               *)
LEMMA InProgress ==
  ASSUME RunInv, pc \notin Ended
  PROVE  /\ Open(ev) /\ ev.answers = 0 /\ (ev.deltas => pc = "streaming")
         /\ (pc # "idle" => phase = "running")
BY DEF RunInv, TypeOK, Published, OneTerminal, Open, RunsInside, Ended

LEMMA RunInit == Init => RunInv
<1> SUFFICES ASSUME Init PROVE RunInv  OBVIOUS
<1>1. DataOK
  <2>1. tool \in [todo : Seq(Calls), calc : BOOLEAN, ok : BOOLEAN,
                  reused : BOOLEAN, got : SUBSET Calls]
    BY DEF Init, NoTool
  <2>2. consumer \in {"absent", "reading", "finishing", "closed"}  BY DEF Init
  <2>3. steps \in 0..MaxSteps  BY BoundsAssumption DEF Init
  <2> QED BY <2>1, <2>2, <2>3 DEF Init, DataOK, Phases
<1>2. TypeOK  BY <1>1 DEF Init, TypeOK, Events
<1> QED BY <1>2 DEF Init, RunInv, RunsInside, Published, OneTerminal, StepsClosed,
                    AnsweredOnce, Ended, Awaiting, Complete

(* Every step of the run and of its surroundings keeps the invariant.      *)
LEMMA RunNext == RunInv /\ [Next]_vars => RunInv'
<1> SUFFICES ASSUME RunInv, [Next]_vars PROVE RunInv'  OBVIOUS
<1> USE DEF service, client, history, loop
<1>0. /\ TypeOK /\ DataOK /\ RunsInside /\ Published /\ OneTerminal /\ StepsClosed
      /\ AnsweredOnce
  BY DEF RunInv, TypeOK
<1>1. CASE UNCHANGED vars
  <2>1. DataOK'  BY <1>0, <1>1 DEF vars, DataOK
  <2> QED BY <1>0, <1>1, <2>1 DEF vars, RunInv, TypeOK, RunsInside, Published,
                OneTerminal, StepsClosed, AnsweredOnce, Complete
<1>2. CASE Begin
  <2>1. Open(ev) /\ ev' = [ev EXCEPT !.begun = TRUE]
    BY <1>2, InProgress, PublishFacts DEF Begin, Ended
  <2>2. DataOK'  BY <1>0, <1>2 DEF Begin, DataOK
  <2>3. TypeOK'  BY <1>0, <1>2, <2>1, <2>2 DEF Begin, TypeOK, Events, Working
  <2> QED BY <1>0, <1>2, <2>1, <2>3 DEF Begin, RunInv, RunsInside, Published, Open,
                OneTerminal, StepsClosed, AnsweredOnce, Ended, Awaiting, Events
<1>3. CASE Check
  <2>1. Open(ev) /\ ev.answers = 0 /\ ~ev.deltas /\ phase = "running"
    BY <1>3, InProgress DEF Check, Ended
  <2>2. DataOK'
    BY <1>0, <1>3 DEF Check, DataOK
  <2>3. CASE \E why \in Reasons : Finish(why, ev)
    BY <1>3, <2>1, <2>2, <2>3, Over DEF Check
  <2>4. CASE /\ steps < MaxSteps /\ pc' = "deciding"
             /\ ev' = StepStarted(ev, steps + 1) /\ UNCHANGED outcome
    <3>1. ev' = [ev EXCEPT !.started = @ \cup {steps + 1}]
      BY <2>1, <2>4, PublishFacts DEF StepStarted
    <3>2. steps + 1 \in 1..MaxSteps  BY <1>0, <2>4, BoundsAssumption DEF DataOK
    <3>3. ev' \in Events /\ Open(ev') /\ steps + 1 \in ev'.started /\ ev'.answers = 0
            /\ ~ev'.deltas
      BY <2>1, <3>1, <3>2 DEF Open, Events
    <3>4. TypeOK'  BY <1>0, <2>2, <2>4, <3>3 DEF TypeOK, Awaiting
    <3> QED BY <1>0, <1>3, <2>1, <2>4, <3>3, <3>4 DEF Check, RunInv, RunsInside, Published,
                  Open, OneTerminal, StepsClosed, AnsweredOnce, Ended, Awaiting
  <2> QED BY <1>3, <2>3, <2>4 DEF Check, StopReason, Reasons
<1>4. CASE StopAwaiting
  <2>1. Open(ev) /\ ev.answers = 0 /\ phase = "running"
    BY <1>4, InProgress DEF StopAwaiting, Ended, Awaiting
  <2>2. DataOK'  BY <1>0, <1>4, AbandonTypes DEF StopAwaiting, DataOK, MeterType
  <2> QED BY <1>4, <2>1, <2>2, Over DEF StopAwaiting, StopReason, Reasons
<1>5. CASE DecideFails
  <2>1. Open(ev) /\ ev.answers = 0 /\ phase = "running"
    BY <1>5, InProgress DEF DecideFails, Ended
  <2>2. /\ meter' \in [prompt : Nat, completion : Nat, prompted : BOOLEAN,
                       completed : BOOLEAN]
        /\ spent' \in Nat /\ reported' \in Nat
    BY <1>0, <1>5, ChargeTypes DEF DecideFails, DataOK, MeterType
  <2>3. DataOK'  BY <1>0, <1>5, <2>2 DEF DecideFails, DataOK
  <2> QED BY <1>5, <2>1, <2>3, Over DEF DecideFails, Reasons, Failures
<1>6. CASE Decide
  <2> PICK c \in Costs, known \in Reports :
         DecideInvalid(c, known) \/ DecideOverBudget(c, known)
           \/ DecideAnswer(c, known) \/ DecideTools(c, known)
    BY <1>6 DEF Decide
  <2>1. Response(c, known)
    BY DEF DecideInvalid, DecideOverBudget, DecideAnswer, DecideTools
  <2>2. /\ Open(ev) /\ ev.answers = 0 /\ phase = "running" /\ pc = "deciding" /\ ~ev.deltas
        /\ Publish(ev) = ev /\ steps < MaxSteps /\ steps + 1 \in ev.started
    BY <1>0, <2>1, InProgress, PublishFacts DEF Response, Ended, Published, Awaiting
  <2>3. /\ meter' \in [prompt : Nat, completion : Nat, prompted : BOOLEAN,
                       completed : BOOLEAN]
        /\ spent' \in Nat /\ reported' \in Nat
    BY <1>0, <2>1, ChargeTypes DEF Response, MeterType
  <2>4. Total(c) \in Nat /\ NewUsage(c, known) \in Nat
    BY <1>0, BoundsAssumption DEF Total, Costs, NewUsage, DataOK
  <2>5. steps + 1 \in 0..MaxSteps  BY <1>0, <2>2, BoundsAssumption DEF DataOK
  <2>6. CASE DecideInvalid(c, known)
    <3>1. DataOK'  BY <1>0, <2>1, <2>3, <2>6 DEF DecideInvalid, Response, DataOK
    <3> QED BY <2>1, <2>2, <2>6, <3>1, Over DEF DecideInvalid, Response, Reasons, Failures
  <2>7. CASE DecideOverBudget(c, known)
    <3>0. /\ usage' \in Nat /\ steps' \in 0..MaxSteps /\ arithmetic' \in BOOLEAN
          /\ UNCHANGED <<cancel, tool>>
      BY <2>4, <2>5, <2>7 DEF DecideOverBudget
    <3>1. DataOK'  BY <1>0, <2>1, <2>3, <3>0 DEF Response, DataOK
    <3> DEFINE e == StepCompleted(ev, steps + 1)
    <3>2. Open(e) /\ e.answers = 0  BY <2>2, StepFacts
    <3>3. Finish("token_budget_exceeded", e)  BY <2>2, <2>7 DEF DecideOverBudget
    <3> HIDE DEF e
    <3> QED BY <2>1, <2>2, <3>1, <3>2, <3>3, Over DEF Response, Reasons
  <2>8. CASE DecideAnswer(c, known)
    <3>1. /\ usage' \in Nat /\ arithmetic' \in BOOLEAN /\ steps' \in 0..MaxSteps
          /\ UNCHANGED tool
      BY <1>0, <2>4, <2>5, <2>8 DEF DecideAnswer, DataOK
    <3>2. cancel' \in {"clear", "set", "noticed"}
      BY <1>0, <2>8 DEF DecideAnswer, AwaitAgain, DataOK
    <3>3. DataOK'
      BY <1>0, <2>1, <2>3, <3>1, <3>2 DEF Response, DataOK
    <3>4. CASE ~streaming
      <4> DEFINE a == Answer(ev)  e == StepCompleted(a, steps + 1)
      <4>1. Open(a) /\ a.answers = 1 /\ ~a.deltas /\ steps + 1 \in a.started
        BY <2>2, PublishFacts DEF Open, Events
      <4> HIDE DEF a
      <4>2. Open(e) /\ e.answers = 1 /\ ~e.deltas  BY <4>1, StepFacts
      <4>3. Finish("direct_answer", e)  BY <2>2, <2>8, <3>4 DEF DecideAnswer, a
      <4> HIDE DEF e
      <4> QED BY <2>1, <2>2, <3>3, <4>2, <4>3, Over DEF Response, Reasons
    <3>5. CASE streaming
      <4>1. pc' = "streaming" /\ ev' = ev /\ UNCHANGED <<steps, outcome, phase>>
        BY <2>1, <2>2, <2>8, <3>5 DEF DecideAnswer, Response
      <4> QED BY <1>0, <2>2, <3>3, <4>1 DEF RunInv, TypeOK, RunsInside, Published,
                    OneTerminal, StepsClosed, AnsweredOnce, Ended, Awaiting
    <3> QED BY <1>0, <3>4, <3>5 DEF DataOK
  <2>9. CASE DecideTools(c, known)
    <3> PICK calls \in CallLists :
         \/ /\ ~Complete(meter') /\ steps' = steps + 1 /\ arithmetic' = FALSE
            /\ Finish("token_budget_exceeded", Publish(ev))
            /\ UNCHANGED tool
         \/ /\ Complete(meter') /\ pc' = "tools" /\ ev' = Publish(ev)
            /\ tool' = [NoTool EXCEPT !.todo = calls,
                          !.calc = \A i \in 1..Len(calls) : calls[i] \in Calculator]
            /\ UNCHANGED <<steps, arithmetic, outcome>>
      BY <2>9 DEF DecideTools
    <3>1. usage' \in Nat /\ steps' \in {steps, steps + 1} /\ arithmetic' \in BOOLEAN
            /\ UNCHANGED cancel
      BY <1>0, <2>4, <2>9 DEF DecideTools, DataOK
    <3>2. calls \in Seq(Calls)  BY DEF CallLists
    <3>3. (\A i \in 1..Len(calls) : calls[i] \in Calculator) \in BOOLEAN  OBVIOUS
    <3>4. tool' \in [todo : Seq(Calls), calc : BOOLEAN, ok : BOOLEAN,
                     reused : BOOLEAN, got : SUBSET Calls]
      BY <1>0, <3>2, <3>3 DEF DataOK, NoTool
    <3>5. DataOK'
      BY <1>0, <2>1, <2>3, <2>5, <3>1, <3>4 DEF Response, DataOK
    <3>6. CASE Finish("token_budget_exceeded", Publish(ev))
      BY <2>1, <2>2, <3>5, <3>6, Over DEF Response, Reasons
    <3>7. CASE pc' = "tools" /\ ev' = Publish(ev) /\ UNCHANGED <<steps, outcome>>
      BY <1>0, <2>1, <2>2, <3>5, <3>7 DEF Response, RunInv, TypeOK, RunsInside, Published,
                    OneTerminal, StepsClosed, AnsweredOnce, Ended, Awaiting, Working
    <3> QED BY <3>6, <3>7
  <2> QED BY <2>6, <2>7, <2>8, <2>9
<1>7. CASE StreamChunk
  <2>1. Open(ev) /\ ev.answers = 0 /\ phase = "running" /\ pc = "streaming"
    BY <1>7, InProgress DEF StreamChunk, Ended
  <2>2. ev' \in {ev, [ev EXCEPT !.deltas = TRUE]}
    BY <1>7, <2>1, PublishFacts DEF StreamChunk
  <2>3. /\ meter' \in [prompt : Nat, completion : Nat, prompted : BOOLEAN,
                       completed : BOOLEAN]
        /\ spent' \in Nat /\ reported' \in Nat /\ heard' \in BOOLEAN
        /\ cancel' \in {"clear", "set", "noticed"}
    BY <1>0, <1>7, ChargeTypes DEF StreamChunk, DataOK, MeterType, AwaitAgain
  <2>4. DataOK'  BY <1>0, <1>7, <2>3 DEF StreamChunk, DataOK
  <2>5. /\ ev' \in Events /\ ev'.answers = 0 /\ ev'.stopped = 0 /\ ~ev'.after
        /\ ev'.started = ev.started /\ ev'.completed = ev.completed
        /\ UNCHANGED <<pc, steps, outcome, phase>>
    BY <1>7, <2>1, <2>2 DEF StreamChunk, Open, Events
  <2> QED BY <1>0, <2>1, <2>4, <2>5 DEF RunInv, TypeOK, RunsInside, Published,
                OneTerminal, StepsClosed, AnsweredOnce, Ended, Awaiting
<1>8. CASE StreamEnds
  <2>1. /\ Open(ev) /\ ev.answers = 0 /\ phase = "running" /\ phase' = phase
        /\ steps < MaxSteps /\ steps + 1 \in ev.started
    BY <1>0, <1>8, InProgress DEF StreamEnds, Ended, Published, Awaiting
  <2>2. steps' \in 0..MaxSteps
    BY <1>0, <1>8, <2>1, BoundsAssumption DEF StreamEnds, Finish, DataOK
  <2>3. DataOK'  BY <1>0, <1>8, <2>2, CutTypes DEF StreamEnds, DataOK, MeterType
  <2> DEFINE e == StepCompleted(ev, steps + 1)
  <2>4. Open(e) /\ e.answers = 0  BY <2>1, StepFacts
  <2>5. \/ Finish("direct_answer", e)
        \/ Finish("model_error", ev)
    BY <1>8 DEF StreamEnds
  <2> HIDE DEF e
  <2> QED BY <2>1, <2>3, <2>4, <2>5, Over DEF Reasons, Failures
<1>9. CASE StreamFails
  <2>1. Open(ev) /\ ev.answers = 0 /\ phase = "running" /\ phase' = phase
    BY <1>9, InProgress DEF StreamFails, Ended
  <2>2. DataOK'  BY <1>0, <1>9, CutTypes DEF StreamFails, DataOK, MeterType
  <2> QED BY <1>9, <2>1, <2>2, Over DEF StreamFails, Reasons, Failures
<1>10. CASE StepEnds
  <2>1. /\ Open(ev) /\ ev.answers = 0 /\ ~ev.deltas /\ phase = "running" /\ phase' = phase
        /\ steps < MaxSteps /\ steps + 1 \in ev.started
    BY <1>0, <1>10, InProgress DEF StepEnds, Ended, Published
  <2>2. steps' \in 0..MaxSteps /\ cache' \subseteq Calls /\ arithmetic' \in BOOLEAN
    BY <1>0, <1>10, <2>1, BoundsAssumption DEF StepEnds, DataOK
  <2>3. DataOK'  BY <1>0, <1>10, <2>2 DEF StepEnds, DataOK
  <2> DEFINE e == StepCompleted(ev, steps + 1)
  <2>4. Open(e) /\ e.answers = 0 /\ ~e.deltas  BY <2>1, StepFacts
  <2>5. \/ Finish("direct_answer", e)
        \/ pc' = "check" /\ ev' = e /\ UNCHANGED outcome
    BY <1>10 DEF StepEnds
  <2> HIDE DEF e
  <2>6. CASE Finish("direct_answer", e)
    BY <2>1, <2>3, <2>4, <2>6, Over DEF Reasons
  <2>7. CASE pc' = "check" /\ ev' = e /\ UNCHANGED outcome
    BY <1>0, <1>10, <2>1, <2>3, <2>4, <2>7 DEF StepEnds, RunInv, TypeOK, RunsInside, Published, Open,
                  OneTerminal, StepsClosed, AnsweredOnce, Ended, Awaiting, Working
  <2> QED BY <2>5, <2>6, <2>7
<1>11. CASE StopTools
  <2>1. Open(ev) /\ ev.answers = 0 /\ phase = "running" /\ phase' = phase
    BY <1>11, InProgress DEF StopTools, Ended
  <2>2. DataOK'  BY <1>0, <1>11 DEF StopTools, DataOK
  <2> QED BY <1>11, <2>1, <2>2, Over DEF StopTools, StopReason, Reasons
<1>12. CASE StartTool \/ StartToolTooLate \/ ToolReturns
  <2>1. /\ Open(ev) /\ ev.answers = 0 /\ ~ev.deltas /\ phase = "running" /\ phase' = phase
        /\ pc \in {"tools", "executing"} /\ Publish(ev) = ev
        /\ steps < MaxSteps /\ steps + 1 \in ev.started
    BY <1>0, <1>12, InProgress, PublishFacts DEF StartTool, StartToolTooLate, ToolReturns,
         Ended, Published, Awaiting
  <2>2. /\ ev' = ev /\ pc' \in {"tools", "executing", "escaped"}
        /\ UNCHANGED <<steps, outcome>>
    BY <1>12, <2>1 DEF StartTool, StartToolTooLate, ToolReturns, ToolResult
  <2>3. tool.todo # << >>
    BY <1>0, <1>12 DEF StartTool, StartToolTooLate, ToolReturns, RunsInside
  <2>4. tool' \in [todo : Seq(Calls), calc : BOOLEAN, ok : BOOLEAN,
                   reused : BOOLEAN, got : SUBSET Calls]
    <3>1. tool \in [todo : Seq(Calls), calc : BOOLEAN, ok : BOOLEAN,
                    reused : BOOLEAN, got : SUBSET Calls]
      BY <1>0 DEF DataOK
    <3>2. CASE tool' = tool  BY <3>1, <3>2
    <3>3. ASSUME NEW ok \in BOOLEAN, NEW reused \in BOOLEAN, ToolResult(ev, ok, reused)
          PROVE  tool' \in [todo : Seq(Calls), calc : BOOLEAN, ok : BOOLEAN,
                            reused : BOOLEAN, got : SUBSET Calls]
      <4>1. Tail(tool.todo) \in Seq(Calls) /\ Head(tool.todo) \in Calls  BY <2>3, <3>1
      <4>2. (tool.ok /\ ok) \in BOOLEAN /\ (tool.reused \/ reused) \in BOOLEAN  OBVIOUS
      <4>3. (IF ok THEN tool.got \cup {Head(tool.todo)} ELSE tool.got) \in SUBSET Calls
        BY <3>1, <4>1
      <4> QED BY <3>1, <3>3, <4>1, <4>2, <4>3 DEF ToolResult
    <3>4. CASE StartTool
      <4>1. CASE Cached(Head(tool.todo))
        <5>1. (Head(tool.todo) \in Calculator) \in BOOLEAN  OBVIOUS
        <5>2. ToolResult(ev, TRUE, Head(tool.todo) \in Calculator)
          BY <2>1, <3>4, <4>1 DEF StartTool
        <5> QED BY <3>3, <5>1, <5>2
      <4> QED BY <3>2, <3>4, <4>1 DEF StartTool
    <3> QED BY <1>12, <3>2, <3>3, <3>4 DEF StartToolTooLate, ToolReturns
  <2>5. /\ effects' \subseteq (1..MaxSteps) \X Calls /\ late' \in BOOLEAN
        /\ UNCHANGED <<streaming, service, client, spent, reported, steps, cache,
                       arithmetic, usage, heard, meter, outcome>>
    <3>1. steps + 1 \in 1..MaxSteps /\ Head(tool.todo) \in Calls
      BY <1>0, <2>1, <2>3, BoundsAssumption DEF DataOK
    <3>2. <<steps + 1, Head(tool.todo)>> \in (1..MaxSteps) \X Calls  BY <3>1
    <3>3. /\ effects' \in {effects, effects \cup {<<steps + 1, Head(tool.todo)>>}}
          /\ late' \in {TRUE, late}
      BY <1>12 DEF StartTool, StartToolTooLate, ToolReturns
    <3>4. effects \subseteq (1..MaxSteps) \X Calls /\ late \in BOOLEAN  BY <1>0 DEF DataOK
    <3>5. effects' \subseteq (1..MaxSteps) \X Calls /\ late' \in BOOLEAN
      BY <3>2, <3>3, <3>4
    <3> QED BY <1>12, <3>5 DEF StartTool, StartToolTooLate, ToolReturns
  <2>6. DataOK'  BY <1>0, <2>4, <2>5 DEF DataOK
  <2>7. pc' = "executing" => tool'.todo # << >>
    BY <1>12, <2>3 DEF StartTool, StartToolTooLate, ToolReturns, ToolResult
  <2> QED BY <1>0, <2>1, <2>2, <2>6, <2>7 DEF RunInv, TypeOK, RunsInside, Published, Open,
                OneTerminal, StepsClosed, AnsweredOnce, Ended, Awaiting, Working
<1>13. CASE Reserve \/ RunReturns \/ RecordUsage \/ Finalize \/ Unwind
  <2>1. UNCHANGED <<ev, loop, client, history, streaming, late, killed>>
    BY <1>13 DEF Reserve, RunReturns, RecordUsage, Finalize, Unwind
  <2>2. /\ phase' \in Phases /\ (phase' # "running" => pc \in Ended \cup {"idle"})
        /\ phase' # "admit"
        /\ reservation' \in {"none", "held", "lost", "settled", "released"}
    BY <1>0, <1>13 DEF Reserve, RunReturns, RecordUsage, Finalize, Unwind, Phases, Reported,
         Closing, DataOK, RunsInside
  <2>3. row' \in [present : BOOLEAN, tokens : Nat, exact : BOOLEAN]
    <3>1. Complete(meter) \in BOOLEAN /\ meter.prompt + meter.completion \in Nat
      BY <1>0 DEF Complete, DataOK
    <3>2. row' \in {row, [present |-> TRUE, tokens |-> meter.prompt + meter.completion,
                          exact |-> Complete(meter)]}
      BY <1>13 DEF Reserve, RunReturns, RecordUsage, Finalize, Unwind
    <3>3. row \in [present : BOOLEAN, tokens : Nat, exact : BOOLEAN]  BY <1>0 DEF DataOK
    <3>4. ASSUME NEW n \in Nat, NEW b \in BOOLEAN
          PROVE  [present |-> TRUE, tokens |-> n, exact |-> b]
                   \in [present : BOOLEAN, tokens : Nat, exact : BOOLEAN]
      OBVIOUS
    <3>5. [present |-> TRUE, tokens |-> meter.prompt + meter.completion,
           exact |-> Complete(meter)] \in [present : BOOLEAN, tokens : Nat, exact : BOOLEAN]
      BY <3>1, <3>4, Zenon
    <3> QED BY <3>2, <3>3, <3>5, Zenon
  <2>4. DataOK'  BY <1>0, <2>1, <2>2, <2>3 DEF DataOK
  <2> QED BY <1>0, <2>1, <2>2, <2>4 DEF RunInv, TypeOK, RunsInside, Published, OneTerminal,
                StepsClosed, AnsweredOnce, Complete
<1>14. CASE RenewalFails
  <2>1. phase = "running" /\ phase' = phase  BY <1>14 DEF RenewalFails
  <2>2. DataOK'  BY <1>0, <1>14, AbandonTypes DEF RenewalFails, DataOK, MeterType
  <2>3. CASE pc \in Awaiting /\ Finish("quota_failure", ev)
    <3>1. Open(ev) /\ ev.answers = 0  BY <2>3, InProgress DEF Ended, Awaiting
    <3> QED BY <2>1, <2>2, <2>3, <3>1, Over DEF Reasons, Failures
  <2>4. CASE UNCHANGED <<pc, outcome, ev, meter, spent>> /\ pc \in Ended
    BY <1>0, <1>14, <2>1, <2>2, <2>4 DEF RenewalFails, RunInv, TypeOK, RunsInside, Published,
         OneTerminal, StepsClosed, AnsweredOnce, Complete
  <2> QED BY <1>14, <2>3, <2>4 DEF RenewalFails
<1>15. CASE Kill
  <2>k. killed' \in BOOLEAN /\ phase' \in Phases
    <3>1. CASE UNCHANGED <<killed, phase>>  BY <1>0, <3>1 DEF DataOK
    <3>2. CASE killed' = TRUE /\ phase' = "unwinding"  BY <3>2 DEF Phases
    <3> QED BY <1>15, <3>1, <3>2 DEF Kill
  <2>1. DataOK'  BY <1>0, <1>15, <2>k, AbandonTypes DEF Kill, DataOK, MeterType
  <2>2. CASE pc \in Awaiting /\ Finish("external_cancelled", ev)
    <3>1. Open(ev) /\ ev.answers = 0  BY <2>2, InProgress DEF Ended, Awaiting
    <3> QED BY <1>15, <2>1, <2>2, <3>1, Over DEF Kill, Reasons
  <2>3. CASE UNCHANGED <<pc, outcome, ev, meter, spent>> /\ pc \in Ended \cup {"idle"}
    BY <1>0, <1>15, <2>1, <2>3 DEF Kill, RunInv, TypeOK, RunsInside, Published, OneTerminal,
         StepsClosed, AnsweredOnce, Complete
  <2> QED BY <1>0, <1>15, <2>2, <2>3 DEF Kill, RunsInside
<1>16. CASE CallerEnds
  <2>1. pc \in Ended \cup {"idle"} /\ phase # "admit" /\ phase' = "done"
          /\ UNCHANGED <<pc, steps, outcome, spent, usage, effects, meter, tool>>
    BY <1>0, <1>16 DEF CallerEnds, RunsInside
  <2>2. DataOK'  BY <1>0, <1>16 DEF CallerEnds, DataOK, Phases
  <2>3. CASE ev.stopped > 0 \/ ~ev.begun
    <3>1. ev' = ev \/ ev' = [ev EXCEPT !.closed = TRUE]
      BY <1>0, <1>16, <2>3 DEF CallerEnds, FailUnexpected, TypeOK, Events
    <3>2. /\ ev' \in Events /\ ev'.begun = ev.begun /\ ev'.stopped = ev.stopped
          /\ ev'.answers = ev.answers /\ ev'.deltas = ev.deltas /\ ev'.after = ev.after
          /\ ev'.started = ev.started /\ ev'.completed = ev.completed
      BY <1>0, <3>1 DEF TypeOK, Events
    <3> QED BY <1>0, <2>1, <2>2, <3>2 DEF RunInv, TypeOK, RunsInside, Published, OneTerminal,
                  StepsClosed, AnsweredOnce, Complete, Ended, Awaiting
  <2>4. CASE ev.stopped = 0 /\ ev.begun
    <3>1. pc = "escaped"  BY <1>0, <2>1, <2>4 DEF Published, StepsClosed, Ended
    <3>2. Open(ev) /\ Publish(ev) = ev
      BY <1>0, <2>4, PublishFacts DEF Open, TypeOK, OneTerminal, Published
    <3>3. \/ ev' = ev \/ ev' = [ev EXCEPT !.closed = TRUE]
          \/ ev' = [[ev EXCEPT !.stopped = @ + 1] EXCEPT !.closed = TRUE]
      BY <1>16, <2>4, <3>2 DEF CallerEnds, FailUnexpected, RunStopped
    <3>a. [ev EXCEPT !.stopped = @ + 1] = [ev EXCEPT !.stopped = 1]  BY <3>2 DEF Open
    <3>b. \E n \in {0, 1}, b \in BOOLEAN :
             ev' = [ev EXCEPT !.stopped = n, !.closed = b]
      <4>1. ev = [ev EXCEPT !.stopped = 0, !.closed = ev.closed]
        BY <3>2 DEF Open, Events
      <4>2. [ev EXCEPT !.closed = TRUE] = [ev EXCEPT !.stopped = 0, !.closed = TRUE]
        BY <3>2 DEF Open, Events
      <4>3. ev.closed \in BOOLEAN  BY <3>2 DEF Open, Events
      <4> QED BY <3>3, <3>a, <4>1, <4>2, <4>3
    <3>4. /\ ev' \in Events /\ ev'.stopped <= 1 /\ ~ev'.after
          /\ ev'.started = ev.started /\ ev'.completed = ev.completed
      <4> PICK n \in {0, 1}, b \in BOOLEAN : ev' = [ev EXCEPT !.stopped = n, !.closed = b]
        BY <3>b
      <4>0. ASSUME NEW e \in Events, NEW k \in Nat, NEW x \in BOOLEAN
            PROVE  [e EXCEPT !.stopped = k, !.closed = x] \in Events
        BY DEF Events
      <4>a. n \in Nat /\ ev \in Events  BY <3>2 DEF Open
      <4>1. ev' \in Events  BY <4>0, <4>a, Zenon
      <4>2. ev'.stopped = n  BY <3>2 DEF Open, Events
      <4>3. ev'.after = ev.after  BY <3>2 DEF Open, Events
      <4>4. ev'.started = ev.started /\ ev'.completed = ev.completed  BY <3>2 DEF Open, Events
      <4>5. ~ev.after  BY <3>2 DEF Open
      <4> QED BY <4>1, <4>2, <4>3, <4>4, <4>5
    <3>5. outcome = "none"  BY <1>0, <3>1 DEF Published
    <3> QED BY <1>0, <2>1, <2>2, <3>1, <3>4, <3>5 DEF RunInv, TypeOK, RunsInside, Published,
                  OneTerminal, StepsClosed, AnsweredOnce, Complete, Ended, Awaiting
  <2> QED BY <1>0, <2>3, <2>4 DEF TypeOK, Events
<1>17. CASE Receive \/ Disconnect \/ ConsumerEnds \/ Tick
  <2>1. /\ cancel' \in {"clear", "set", "noticed"} /\ late' \in BOOLEAN /\ UNCHANGED streaming
        /\ consumer' \in {"absent", "reading", "finishing", "closed"}
    BY <1>0, <1>17 DEF Receive, Disconnect, ConsumerEnds, Tick, DataOK
  <2>2. UNCHANGED <<ev, service, loop, history>>
    BY <1>17 DEF Receive, Disconnect, ConsumerEnds, Tick
  <2>3. DataOK'  BY <1>0, <2>1, <2>2 DEF DataOK
  <2> QED BY <1>0, <2>2, <2>3 DEF RunInv, TypeOK, RunsInside, Published, OneTerminal,
                StepsClosed, AnsweredOnce, Complete
<1> QED BY <1>1, <1>2, <1>3, <1>4, <1>5, <1>6, <1>7, <1>8, <1>9, <1>10, <1>11, <1>12, <1>13,
           <1>14, <1>15, <1>16, <1>17
        DEF Next, RuntimeStep, ServiceStep, ConsumerStep

(* Every run keeps the invariant of its events: types, one terminal event  *)
(* in last place, closed steps, one form of answer.                        *)
THEOREM RunInvariant == Spec => []RunInv
BY RunInit, RunNext, PTL DEF Spec

(* The stream of a run carries at most one terminal event, and it is last. *)
THEOREM TerminalOnce == Spec => []OneTerminal
<1>1. RunInv => OneTerminal  BY DEF RunInv
<1> QED BY <1>1, RunInvariant, PTL

(* A run that returns a result has closed the steps it started.            *)
THEOREM ResultClosesSteps == Spec => []StepsClosed
<1>1. RunInv => StepsClosed  BY DEF RunInv
<1> QED BY <1>1, RunInvariant, PTL

(* A completed run has told its answer in exactly one form.                *)
THEOREM OneAnswer == Spec => []AnsweredOnce
<1>1. RunInv => AnsweredOnce  BY DEF RunInv
<1> QED BY <1>1, RunInvariant, PTL

-----------------------------------------------------------------------------
(* Tokens: what is counted, charged and recorded.                          *)

(* A response moves the meter and the charge together.                     *)
LEMMA ChargeFacts ==
  ASSUME DataOK, NEW c \in Costs, NEW known \in Reports, Charge(c, known),
         Complete(meter) => meter.prompt + meter.completion = spent
  PROVE  /\ Complete(meter') => meter'.prompt + meter'.completion = spent'
         /\ spent' <= spent + OneCall /\ spent' \in Nat
         /\ Complete(meter') <=> Complete(meter) /\ known
         /\ known => NewUsage(c, known) = usage + (spent' - spent)
         /\ ~known => NewUsage(c, known) = usage
<1>1. /\ spent' = spent + c.prompt + c.completion /\ spent' \in Nat
      /\ c.prompt \in 1..MaxPrompt /\ c.completion \in 1..MaxCompletion
  BY ChargeTypes
<1>2. known \in BOOLEAN  BY ReportsAssumption
<1>3. /\ meter'.prompted = (meter.prompted /\ known)
      /\ meter'.completed = (meter.completed /\ known)
      /\ meter'.prompt = IF known /\ meter.prompted THEN meter.prompt + c.prompt ELSE 0
      /\ meter'.completion = IF known /\ meter.completed THEN meter.completion + c.completion
                             ELSE 0
  BY DEF Charge, Metered
<1>4. Complete(meter') <=> Complete(meter) /\ known  BY <1>2, <1>3 DEF Complete
<1>5. Complete(meter') => meter'.prompt + meter'.completion = spent'
  BY <1>1, <1>2, <1>3, <1>4, BoundsAssumption DEF Complete, DataOK
<1>6. spent' <= spent + OneCall  BY <1>1, BoundsAssumption DEF OneCall, DataOK
<1>7. /\ known => NewUsage(c, known) = usage + (spent' - spent)
      /\ ~known => NewUsage(c, known) = usage
  <2>1. usage \in Nat /\ spent \in Nat  BY DEF DataOK
  <2>2. c.prompt \in Nat /\ c.completion \in Nat  BY <1>1, BoundsAssumption
  <2>3. Total(c) = spent' - spent  BY <1>1, <2>1, <2>2 DEF Total
  <2> QED BY <2>3 DEF NewUsage
<1> QED BY <1>1, <1>4, <1>5, <1>6, <1>7

(* What an abandoned operation may still have cost.                        *)
LEMMA AbandonFacts ==
  ASSUME DataOK, Abandon,
         Complete(meter) => meter.prompt + meter.completion = spent
  PROVE  /\ Complete(meter') => meter'.prompt + meter'.completion = spent'
         /\ \/ spent' = spent
            \/ spent' <= spent + OneCall /\ pc = "deciding"
            \/ spent' <= spent + OneCall /\ pc = "streaming" /\ ~heard
<1>1. meter \in MeterType  BY DEF DataOK, MeterType
<1>2. CASE UNCHANGED <<meter, spent, reported, heard>>  BY <1>2 DEF Complete
<1>3. CASE pc = "deciding" /\ \E c \in Costs, known \in Reports : Charge(c, known)
  BY <1>3, ChargeFacts
<1>4. CASE meter' = Cut(meter) /\ UNCHANGED <<spent, reported, heard>>
  BY <1>1, <1>4, CutTypes DEF Complete
<1>5. CASE /\ pc = "streaming" /\ ~heard
           /\ \E c \in Costs, known \in Reports :
                meter' = Cut(Metered(meter, c, known)) /\ Spend(c, known)
  <2> PICK c \in Costs, known \in Reports :
         meter' = Cut(Metered(meter, c, known)) /\ Spend(c, known)
    BY <1>5
  <2>1. ~Complete(meter')  BY <1>1, CutTypes, MeteredTypes DEF Complete
  <2>2. spent' <= spent + OneCall
    BY SpendTypes, BoundsAssumption DEF OneCall, DataOK
  <2> QED BY <1>5, <2>1, <2>2
<1> QED BY <1>2, <1>3, <1>4, <1>5 DEF Abandon

LEMMA ChargeInit == Init => ChargeInv
BY BoundsAssumption DEF Init, ChargeInv, Counting, Recording, ChargedBeforeSettled,
     OverrunBounded, OneCall, Complete, Working

LEMMA ChargeNext == RunInv /\ RunInv' /\ ChargeInv /\ [Next]_vars => ChargeInv'
<1> SUFFICES ASSUME RunInv, RunInv', ChargeInv, [Next]_vars PROVE ChargeInv'  OBVIOUS
<1> USE DEF service, client, history, loop
<1>0. /\ DataOK /\ DataOK' /\ RunsInside /\ RunsInside' /\ Published
      /\ Counting /\ Recording /\ ChargedBeforeSettled /\ OverrunBounded
  BY DEF RunInv, TypeOK, ChargeInv
<1>a. /\ Budget \in Nat /\ OneCall \in Nat \ {0} /\ spent \in Nat /\ spent' \in Nat
      /\ usage \in Nat /\ usage' \in Nat /\ streaming \in BOOLEAN
  BY <1>0, BoundsAssumption DEF OneCall, DataOK
<1>b. streaming' = streaming  BY DEF Next, vars, RuntimeStep, ServiceStep, ConsumerStep, Begin,
        Check, StopAwaiting, StepEnds, StopTools, StartTool, DecideFails, Decide, StreamChunk,
        StreamEnds, StreamFails, StartToolTooLate, ToolReturns, Reserve, RunReturns,
        RecordUsage, Finalize, Unwind, CallerEnds, RenewalFails, Kill, Receive, ConsumerEnds,
        Disconnect, Tick, DecideInvalid, DecideOverBudget, DecideAnswer, DecideTools, Response
(* A run that ends here: nothing is recorded yet.                          *)
<1>c. ASSUME pc \notin Ended, pc' = "ended", row' = row, reservation' = reservation,
             phase' \in {phase, "unwinding"},
             Complete(meter') => meter'.prompt + meter'.completion = spent',
             OverrunBounded'
      PROVE  ChargeInv'
  <2>1. ~row.present /\ phase \notin {"finalizing", "returned"}
    BY <1>0, <1>c DEF Recording, Ended
  <2> QED BY <1>0, <1>c, <2>1 DEF ChargeInv, Counting, Recording, ChargedBeforeSettled,
                Working, Ended
<1>d. ~Complete(Cut(meter))  BY <1>0, CutTypes DEF DataOK, MeterType
(* An await that is given up.                                              *)
<1>e. ASSUME Abandon, pc \in Awaiting, UNCHANGED <<usage, streaming>>
      PROVE  /\ Complete(meter') => meter'.prompt + meter'.completion = spent'
             /\ OverrunBounded'
  <2>1. /\ Complete(meter') => meter'.prompt + meter'.completion = spent'
        /\ \/ spent' = spent
           \/ spent' <= spent + OneCall /\ pc = "deciding"
           \/ spent' <= spent + OneCall /\ pc = "streaming" /\ ~heard
    BY <1>0, <1>e, AbandonFacts DEF Counting
  <2>2. CASE spent' = spent  BY <1>0, <1>e, <2>1, <2>2 DEF OverrunBounded
  <2>3. CASE spent' <= spent + OneCall /\ pc = "deciding"
    BY <1>0, <1>a, <1>e, <2>1, <2>3 DEF OverrunBounded, Counting
  <2>4. CASE spent' <= spent + OneCall /\ pc = "streaming" /\ ~heard
    BY <1>0, <1>a, <1>e, <2>1, <2>4 DEF OverrunBounded, Counting
  <2> QED BY <2>1, <2>2, <2>3, <2>4
<1>1. CASE UNCHANGED vars
  BY <1>0, <1>1 DEF vars, ChargeInv, Counting, Recording, ChargedBeforeSettled,
       OverrunBounded, Complete
<1>2. CASE Begin
  BY <1>0, <1>2, <1>a DEF Begin, ChargeInv, Counting, Recording, ChargedBeforeSettled,
       OverrunBounded, Complete, Working, RunsInside
<1>3. CASE Check
  <2>1. UNCHANGED <<meter, spent, usage, row, reservation, phase, streaming>> /\ pc \notin Ended
    BY <1>3 DEF Check, Ended
  <2>2. OverrunBounded'  BY <1>0, <2>1 DEF OverrunBounded
  <2>3. CASE pc' = "ended"  BY <1>0, <1>c, <2>1, <2>2, <2>3 DEF Counting, Complete
  <2>4. CASE pc' = "deciding" /\ ~OverBudget
    BY <1>0, <1>3, <1>a, <2>1, <2>2, <2>4 DEF Check, ChargeInv, Counting, Recording,
         ChargedBeforeSettled, Complete, Working, OverBudget
  <2> QED BY <1>3, <2>3, <2>4 DEF Check, Finish
<1>4. CASE StreamEnds \/ StreamFails \/ StopTools
  <2>1. /\ UNCHANGED <<spent, usage, row, phase, streaming, reservation>> /\ pc \notin Ended
        /\ pc' = "ended" /\ meter' \in {meter, Cut(meter)}
    BY <1>4 DEF StreamEnds, StreamFails, StopTools, Finish, Ended
  <2>2. OverrunBounded'  BY <1>0, <2>1 DEF OverrunBounded
  <2>3. Complete(meter') => meter' = meter  BY <1>d, <2>1 DEF Complete
  <2>4. Complete(meter') => meter'.prompt + meter'.completion = spent'
    BY <1>0, <2>1, <2>3 DEF Counting, Complete
  <2> QED BY <1>c, <2>1, <2>2, <2>4
<1>12. CASE StopAwaiting
  <2>1. /\ UNCHANGED <<usage, row, phase, streaming, reservation>> /\ pc \in Awaiting
        /\ pc' = "ended" /\ Abandon
    BY <1>12 DEF StopAwaiting, Finish
  <2> QED BY <1>c, <1>e, <2>1 DEF Awaiting, Ended
<1>13. CASE RenewalFails
  <2>1. UNCHANGED <<usage, row, phase, streaming>> /\ reservation' \in {"held", "lost"}
    BY <1>13 DEF RenewalFails
  <2>2. CASE pc \in Awaiting /\ pc' = "ended" /\ Abandon
    <3>1. OverrunBounded' /\ (Complete(meter') => meter'.prompt + meter'.completion = spent')
      BY <1>e, <2>1, <2>2
    <3> QED BY <1>0, <2>1, <2>2, <3>1 DEF ChargeInv, Counting, Recording,
                  ChargedBeforeSettled, Working, Ended, Awaiting
  <2>3. CASE UNCHANGED <<pc, meter, spent>> /\ pc \in Ended
    BY <1>0, <2>1, <2>3 DEF ChargeInv, Counting, Recording, ChargedBeforeSettled,
         OverrunBounded, Complete, Working, Ended
  <2> QED BY <1>13, <2>2, <2>3 DEF RenewalFails, Finish
<1>5. CASE DecideFails
  <2>1. /\ UNCHANGED <<row, phase, reservation, streaming, usage>> /\ pc = "deciding"
        /\ pc' = "ended" /\ Complete(meter) /\ usage = spent
        /\ (Budget > 0 => spent < Budget)
    BY <1>0, <1>5 DEF DecideFails, Finish, Counting
  <2>2. /\ Complete(meter') => meter'.prompt + meter'.completion = spent'
        /\ spent' <= spent + OneCall
    <3>1. CASE UNCHANGED <<meter, spent>>
      BY <1>0, <1>a, <3>1 DEF Counting, Complete
    <3>2. CASE \E c \in Costs, known \in Reports : Charge(c, known)
      BY <1>0, <3>2, ChargeFacts DEF Counting
    <3> QED BY <1>5, <3>1, <3>2 DEF DecideFails
  <2>3. OverrunBounded'  BY <1>a, <2>1, <2>2 DEF OverrunBounded
  <2> QED BY <1>c, <2>1, <2>2, <2>3 DEF Ended
<1>6. CASE Decide
  <2> PICK c \in Costs, known \in Reports :
         DecideInvalid(c, known) \/ DecideOverBudget(c, known)
           \/ DecideAnswer(c, known) \/ DecideTools(c, known)
    BY <1>6 DEF Decide
  <2>1. Response(c, known)
    BY DEF DecideInvalid, DecideOverBudget, DecideAnswer, DecideTools
  <2>2. /\ UNCHANGED <<row, phase, reservation, streaming, heard>> /\ pc = "deciding"
        /\ Complete(meter) /\ usage = spent /\ (Budget > 0 => spent < Budget)
    BY <1>0, <2>1 DEF Response, Counting
  <2>3. /\ Complete(meter') => meter'.prompt + meter'.completion = spent'
        /\ spent' <= spent + OneCall
        /\ Complete(meter') => NewUsage(c, known) = spent'
    BY <1>0, <1>a, <2>1, <2>2, ChargeFacts DEF Response, Counting
  <2>4. OverrunBounded'  BY <1>a, <2>2, <2>3 DEF OverrunBounded
  <2>5. CASE pc' = "ended"  BY <1>c, <2>2, <2>3, <2>4, <2>5 DEF Ended
  <2>6. CASE DecideAnswer(c, known) /\ pc' = "streaming"
    <3>1. Budget > 0 => spent' < Budget + OneCall  BY <1>a, <2>2, <2>3
    <3>2. streaming  BY <2>6 DEF DecideAnswer, Finish
    <3> QED BY <1>0, <2>2, <2>3, <2>4, <2>6, <3>1, <3>2 DEF ChargeInv, Counting, Recording,
                  ChargedBeforeSettled, Working, Ended
  <2>7. CASE DecideTools(c, known) /\ pc' = "tools"
    <3>1. Complete(meter') /\ usage' = spent' /\ usage' <= Budget
      BY <2>3, <2>7 DEF DecideTools, Finish
    <3> QED BY <1>0, <2>2, <2>3, <2>4, <2>7, <3>1 DEF ChargeInv, Counting, Recording,
                  ChargedBeforeSettled, Working, Ended
  <2> QED BY <2>5, <2>6, <2>7 DEF DecideInvalid, DecideOverBudget, DecideAnswer, DecideTools,
               Finish
<1>7. CASE StreamChunk
  <2>1. UNCHANGED <<row, phase, reservation, streaming, pc, usage>> /\ pc = "streaming"
          /\ streaming /\ ~row.present
    BY <1>0, <1>7 DEF StreamChunk, Counting, Recording
  <2>2. CASE UNCHANGED <<heard, meter, spent>>
    BY <1>0, <2>1, <2>2 DEF ChargeInv, Counting, Recording, ChargedBeforeSettled,
         OverrunBounded, Complete, Working
  <2>3. CASE /\ ~heard /\ heard' = TRUE
             /\ \E c \in Costs, known \in Reports : Charge(c, known)
    <3>1. /\ Complete(meter') => meter'.prompt + meter'.completion = spent'
          /\ spent' <= spent + OneCall
      BY <1>0, <2>3, ChargeFacts DEF Counting
    <3>2. Budget > 0 => spent < Budget + OneCall  BY <1>0, <2>1, <2>3 DEF Counting
    <3>3. OverrunBounded'  BY <1>a, <2>1, <3>1, <3>2 DEF OverrunBounded
    <3> QED BY <1>0, <2>1, <2>3, <3>1, <3>3 DEF ChargeInv, Counting, Recording,
                  ChargedBeforeSettled, Working
  <2> QED BY <1>7, <2>2, <2>3 DEF StreamChunk
<1>8. CASE StepEnds \/ StartTool \/ StartToolTooLate \/ ToolReturns
  <2>1. /\ UNCHANGED <<row, phase, reservation, streaming, usage, meter, spent>>
        /\ pc \in {"tools", "executing"}
        /\ pc' \in {"check", "ended", "tools", "executing", "escaped"}
    BY <1>8 DEF StepEnds, StartTool, StartToolTooLate, ToolReturns, ToolResult, Finish
  <2> QED BY <1>0, <2>1 DEF ChargeInv, Counting, Recording, ChargedBeforeSettled,
                OverrunBounded, Complete, Working, Ended
<1>9. CASE ServiceStep
  <2>1. UNCHANGED <<pc, usage, meter, spent, streaming, heard>>
    BY <1>9 DEF ServiceStep, Reserve, RunReturns, RecordUsage, Finalize, Unwind, CallerEnds
  <2>2. Counting' /\ OverrunBounded'
    BY <1>0, <2>1 DEF Counting, OverrunBounded, Complete
  <2>3. Recording' /\ ChargedBeforeSettled'
    <3>1. CASE RecordUsage
      <4>1. CASE row' = [present |-> TRUE, tokens |-> meter.prompt + meter.completion,
                         exact |-> Complete(meter)] /\ phase' = "finalizing"
        <5>1. row'.present /\ row'.tokens = meter.prompt + meter.completion
                /\ row'.exact = Complete(meter)
          BY <4>1
        <5>2. pc = "ended" /\ reservation' = reservation
          BY <1>0, <3>1 DEF RecordUsage, Recording
        <5> QED BY <1>0, <2>1, <4>1, <5>1, <5>2 DEF Recording, ChargedBeforeSettled, Counting
      <4>2. CASE phase' = "unwinding" /\ UNCHANGED row
        BY <1>0, <2>1, <3>1, <4>2 DEF RecordUsage, Recording, ChargedBeforeSettled
      <4> QED BY <3>1, <4>1, <4>2 DEF RecordUsage
    <3>2. CASE Reserve \/ RunReturns \/ Finalize \/ Unwind \/ CallerEnds
      BY <1>0, <2>1, <3>2 DEF Reserve, RunReturns, Finalize, Unwind, CallerEnds, Recording,
           ChargedBeforeSettled, Closing, Reported, RunsInside, Ended
    <3> QED BY <1>9, <3>1, <3>2 DEF ServiceStep
  <2> QED BY <2>2, <2>3 DEF ChargeInv
<1>10. CASE Kill
  <2>1. UNCHANGED <<row, reservation, streaming, usage>> /\ phase \notin {"admit"}
    BY <1>10 DEF Kill
  <2>2. CASE pc \in Awaiting /\ pc' = "ended" /\ Abandon /\ phase' \in {phase, "unwinding"}
    BY <1>c, <1>e, <2>1, <2>2 DEF Awaiting, Ended
  <2>3. CASE UNCHANGED <<pc, meter, spent>> /\ pc \in Ended \cup {"idle"} /\ phase' = "unwinding"
    BY <1>0, <2>1, <2>3 DEF ChargeInv, Counting, Recording, ChargedBeforeSettled,
         OverrunBounded, Complete, Working, Ended
  <2> QED BY <1>0, <1>10, <2>2, <2>3 DEF Kill, Finish, RunsInside
<1>11. CASE ConsumerStep \/ Disconnect \/ Tick
  <2>1. UNCHANGED <<row, reservation, streaming, spent, usage, phase, pc, meter, heard>>
    BY <1>11 DEF ConsumerStep, Receive, ConsumerEnds, Disconnect, Tick
  <2> QED BY <1>0, <2>1 DEF ChargeInv, Counting, Recording, ChargedBeforeSettled,
                OverrunBounded, Complete
<1> QED BY <1>1, <1>2, <1>3, <1>4, <1>5, <1>6, <1>7, <1>8, <1>9, <1>10, <1>11, <1>12, <1>13
        DEF Next, RuntimeStep

(* Whatever a run costs is recorded before its reservation is settled.     *)
THEOREM ChargeInvariant == Spec => [](RunInv /\ ChargeInv)
<1>1. RunInv /\ ChargeInv /\ [Next]_vars => (RunInv /\ ChargeInv)'
  BY RunNext, ChargeNext
<1> QED BY <1>1, RunInit, ChargeInit, PTL DEF Spec

(* A settled reservation is replaced by its usage record.                  *)
THEOREM SettledIsCharged == Spec => []ChargedBeforeSettled
<1>1. ChargeInv => ChargedBeforeSettled  BY DEF ChargeInv
<1> QED BY <1>1, ChargeInvariant, PTL

(* No run costs more than its budget and one call, or two if it streams.   *)
THEOREM BoundedOverrun == Spec => []OverrunBounded
<1>1. ChargeInv => OverrunBounded  BY DEF ChargeInv
<1> QED BY <1>1, ChargeInvariant, PTL

-----------------------------------------------------------------------------
(* Tools and cancellation.                                                 *)

LEMMA ToolInit == Init => ToolInv
BY DEF Init, ToolInv, CancelSeen, Executions, OncePerRun

LEMMA ToolNext == RunInv /\ RunInv' /\ ToolInv /\ [Next]_vars => ToolInv'
<1> SUFFICES ASSUME RunInv, RunInv', ToolInv, [Next]_vars PROVE ToolInv'  OBVIOUS
<1> USE DEF service, client, history, loop
<1>0. /\ DataOK /\ DataOK' /\ RunsInside /\ Published /\ CancelSeen /\ Executions /\ OncePerRun
  BY DEF RunInv, TypeOK, ToolInv
<1>a. steps \in Nat /\ \A x \in effects : x[1] \in Nat
  BY <1>0, BoundsAssumption DEF DataOK
(* Only ToolReturns adds an execution.                                     *)
<1>1. ASSUME ~ToolReturns PROVE effects' = effects
  BY <1>1 DEF Next, vars, RuntimeStep, ServiceStep, ConsumerStep, Begin,
        Check, StopAwaiting, StepEnds, StopTools, StartTool, DecideFails, Decide, StreamChunk,
        StreamEnds, StreamFails, StartToolTooLate, Reserve, RunReturns,
        RecordUsage, Finalize, Unwind, CallerEnds, RenewalFails, Kill, Receive, ConsumerEnds,
        Disconnect, Tick, DecideInvalid, DecideOverBudget, DecideAnswer, DecideTools, Response
<1>2. CASE ~ToolReturns /\ pc' \in Ended
  BY <1>0, <1>1, <1>2 DEF ToolInv, CancelSeen, Executions, OncePerRun, Ended
<1>3. CASE /\ UNCHANGED <<pc, steps, cache, tool, effects>>
           /\ cancel' = "noticed" => cancel = "noticed" \/ pc = "streaming"
  BY <1>0, <1>3 DEF ToolInv, CancelSeen, Executions, OncePerRun
<1>4. CASE Begin
  BY <1>0, <1>4 DEF Begin, ToolInv, CancelSeen, Executions, OncePerRun, Ended, RunsInside
<1>5. CASE Check /\ pc' = "deciding"
  BY <1>0, <1>5 DEF Check, ToolInv, CancelSeen, Executions, OncePerRun, Ended, Cancelled, Finish
<1>6. CASE Decide /\ pc' \notin Ended
  <2> PICK c \in Costs, known \in Reports :
         DecideInvalid(c, known) \/ DecideOverBudget(c, known)
           \/ DecideAnswer(c, known) \/ DecideTools(c, known)
    BY <1>6 DEF Decide
  <2>1. /\ pc = "deciding" /\ cancel # "noticed"
        /\ pc' = "streaming" \/ (pc' = "tools" /\ cancel' = cancel)
        /\ UNCHANGED <<effects, cache, steps>>
    BY <1>6 DEF DecideInvalid, DecideOverBudget, DecideAnswer, DecideTools, Response, Finish,
         Ended, Resumed
  <2> QED BY <1>0, <2>1 DEF ToolInv, CancelSeen, Executions, OncePerRun, Ended, Cancelled
<1>7. CASE StepEnds /\ pc' = "check"
  <2>1. /\ pc = "tools" /\ steps' = steps + 1 /\ cache' = cache \cup tool.got
        /\ UNCHANGED <<effects, cancel>>
    BY <1>7 DEF StepEnds
  <2> QED BY <1>0, <1>7, <1>a, <2>1 DEF ToolInv, CancelSeen, Executions, OncePerRun, Ended, Cancelled
<1>8. CASE StartTool
  <2>1. /\ pc = "tools" /\ ~Cancelled /\ UNCHANGED <<effects, cancel, cache, steps>>
        /\ pc' \in {"tools", "executing"} /\ tool.got \subseteq tool'.got
        /\ (pc' = "executing" => tool' = tool /\ Head(tool.todo) \notin cache)
    <3>1. CASE Cached(Head(tool.todo))
      <4>1. tool'.got = tool.got \cup {Head(tool.todo)} /\ pc' = "tools"
        BY <1>0, <1>8, <3>1 DEF StartTool, ToolResult, DataOK
      <4> QED BY <1>8, <4>1 DEF StartTool, Interrupted
    <3>2. CASE ~Cached(Head(tool.todo))
      BY <1>8, <3>2 DEF StartTool, Interrupted, Cached
    <3> QED BY <3>1, <3>2
  <2> QED BY <1>0, <2>1 DEF ToolInv, CancelSeen, Executions, OncePerRun, Ended, Cancelled
<1>9. CASE ToolReturns
  <2> DEFINE h == Head(tool.todo)
  <2>1. /\ pc = "executing" /\ pc' = "tools" /\ cancel # "noticed" /\ h \notin cache
        /\ UNCHANGED <<cancel, cache, steps>>
    BY <1>0, <1>9 DEF ToolReturns, ToolResult, Executions, Resumed
  <2>2. /\ tool.got \subseteq tool'.got
        /\ effects' = effects \/ (effects' = effects \cup {<<steps + 1, h>>} /\ h \in tool'.got)
    <3> PICK ok \in BOOLEAN :
         /\ ToolResult(ev, ok, FALSE)
         /\ effects' = IF ok THEN effects \cup {<<steps + 1, Head(tool.todo)>>} ELSE effects
      BY <1>9 DEF ToolReturns
    <3>1. tool'.got = IF ok THEN tool.got \cup {h} ELSE tool.got
      BY <1>0 DEF ToolResult, DataOK
    <3> QED BY <3>1
  <2> HIDE DEF h
  <2>3. \A x \in effects : \/ x[1] <= steps /\ x[2] \in cache
                           \/ x[1] = steps + 1 /\ x[2] \in tool.got
    BY <1>0, <2>1 DEF Executions
  <2>4. Executions'
    BY <1>a, <2>1, <2>2, <2>3 DEF Executions
  <2>5. OncePerRun'
    BY <1>0, <1>a, <2>1, <2>2, <2>3 DEF OncePerRun
  <2> QED BY <2>1, <2>4, <2>5 DEF ToolInv, CancelSeen
<1>10. CASE StartToolTooLate
  BY <1>2, <1>10 DEF StartToolTooLate, ToolReturns, Ended
<1> QED
  <2>1. \/ pc' \in Ended \/ Begin \/ (Check /\ pc' = "deciding") \/ (Decide /\ pc' \notin Ended)
        \/ (StepEnds /\ pc' = "check") \/ StartTool \/ ToolReturns \/ StartToolTooLate
        \/ /\ UNCHANGED <<pc, steps, cache, tool, effects>>
           /\ cancel' = "noticed" => cancel = "noticed" \/ pc = "streaming"
    BY DEF Next, vars, RuntimeStep, ServiceStep, ConsumerStep,
        Check, StopAwaiting, StepEnds, StopTools, DecideFails, StreamChunk,
        StreamEnds, StreamFails, Reserve, RunReturns,
        RecordUsage, Finalize, Unwind, CallerEnds, RenewalFails, Kill, Receive, ConsumerEnds,
        Disconnect, Tick, Finish, Ended
  <2> QED BY <1>2, <1>3, <1>4, <1>5, <1>6, <1>7, <1>8, <1>9, <1>10, <2>1

(* Every run keeps the invariant of its tool calls and its cancel event.   *)
THEOREM ToolInvariant == Spec => [](RunInv /\ ToolInv)
<1>1. RunInv /\ ToolInv /\ [Next]_vars => (RunInv /\ ToolInv)'
  BY RunNext, ToolNext
<1> QED BY <1>1, RunInit, ToolInit, PTL DEF Spec

(* A call that succeeded is never executed again in a later step.          *)
THEOREM NoRepeatedCall == Spec => []OncePerRun
<1>1. ToolInv => OncePerRun  BY DEF ToolInv
<1> QED BY <1>1, ToolInvariant, PTL

(* A cancel event that was set before the last operation began is never    *)
(* answered with a completed run.                                          *)
THEOREM CancellationWins == Spec => CancelWins
<1>1. ASSUME RunInv, ToolInv, [Next]_vars, outcome' = "direct_answer",
             outcome # "direct_answer"
      PROVE  cancel # "noticed"
  <2> USE DEF service, client, history, loop
  <2>0. CancelSeen  BY <1>1 DEF ToolInv
  <2>1. Check \/ Decide \/ StreamEnds \/ StepEnds
    BY <1>1 DEF Next, vars, RuntimeStep, ServiceStep, ConsumerStep, Begin,
        StopAwaiting, StopTools, StartTool, DecideFails, StreamChunk,
        StreamFails, StartToolTooLate, ToolReturns, Reserve, RunReturns,
        RecordUsage, Finalize, Unwind, CallerEnds, RenewalFails, Kill, Receive, ConsumerEnds,
        Disconnect, Tick, Finish, StopReason
  <2>2. CASE Check  BY <2>0, <2>2 DEF Check, CancelSeen, Ended
  <2>3. CASE Decide
    BY <2>3 DEF Decide, DecideInvalid, DecideOverBudget, DecideAnswer, DecideTools, Response,
         Resumed
  <2>4. CASE StreamEnds  BY <2>4 DEF StreamEnds, Resumed
  <2>5. CASE StepEnds  BY <2>0, <2>5 DEF StepEnds, CancelSeen, Ended
  <2> QED BY <2>1, <2>2, <2>3, <2>4, <2>5
<1>2. RunInv /\ ToolInv /\ [Next]_vars
        => [outcome' = "direct_answer" /\ outcome # "direct_answer"
              => cancel # "noticed"]_vars
  BY <1>1
<1> QED BY <1>2, ToolInvariant, PTL DEF Spec, CancelWins

(* The promise of the stream, of every run.                                *)
THEOREM ContractKept == Spec => []StreamContract
<1>1. RunInv => StreamContract  BY DEF RunInv, StreamContract
<1> QED BY <1>1, RunInvariant, PTL

(* Usage is charged before the settlement and bounded, of every run.       *)
THEOREM BudgetIsKept == Spec => []BudgetKept
<1>1. ChargeInv => BudgetKept  BY DEF ChargeInv, BudgetKept
<1> QED BY <1>1, ChargeInvariant, PTL
=============================================================================
