----------------------------- MODULE AgentRuntime -----------------------------
(***************************************************************************)
(* One Agent run: AgentRuntime.run with its model/tool loop, the           *)
(* AgentService call around it that reserves quota, records usage and      *)
(* settles, the ReservationLifecycle that may interrupt it, and the SSE    *)
(* producer and consumer of the streaming endpoint.                        *)
(*                                                                         *)
(* All of it runs on one event loop: another task moves only while the     *)
(* runtime awaits, and time passes anywhere.  The events are kept as what  *)
(* the contract of the stream tells apart (ev), state.steps as its length, *)
(* its successful calls (cache) and whether the last step was arithmetic.  *)
(***************************************************************************)
EXTENDS Integers, Sequences, FiniteSets

CONSTANTS
  Calls,          \* tool calls, identified by _tool_call_fingerprint
  Calculator,     \* those of the calculator tool
  MaxCalls,       \* tool calls in one decision
  MaxSteps,       \* max_steps
  Budget,         \* token_budget
  MaxPrompt,      \* prompt tokens of one provider call
  MaxCompletion,  \* completion tokens of one provider call
  Reports         \* {TRUE}: the provider reports usage; BOOLEAN: it may not

ASSUME CallsAssumption == IsFiniteSet(Calls) /\ Calculator \subseteq Calls
ASSUME BoundsAssumption ==
  /\ MaxCalls \in Nat \ {0} /\ MaxSteps \in Nat \ {0} /\ Budget \in Nat
  /\ MaxPrompt \in Nat \ {0} /\ MaxCompletion \in Nat \ {0}
ASSUME ReportsAssumption == Reports \subseteq BOOLEAN

VARIABLES
  streaming,    \* stream_answer, the observer and the cancel event are given
  phase,        \* AgentService._run and the task that called it
  pc,           \* where AgentRuntime.run is
  steps,        \* len(state.steps), also the count of loop passes
  cache,        \* calls with a successful result in state.steps
  arithmetic,   \* the last step was all successful calculator calls
  usage,        \* state.token_usage
  tool,         \* the tool calls of the current decision
  heard,        \* the answer stream has sent its done chunk
  meter,        \* prompt_tokens and completion_tokens of the model adapter
  late,         \* the deadline has passed
  cancel,       \* cancel_event: clear, set, or set before the current await
  killed,       \* the calling task was cancelled and unwinds
  outcome,      \* why the run stopped
  reservation,  \* the quota reservation
  row,          \* the usage record
  ev,           \* the events published so far
  consumer,     \* _stream_events
  spent,        \* history: tokens of the provider's answers
  reported,     \* history: of those, the reported ones
  effects       \* history: <<step, call>> of successes the run has seen

service == <<phase, killed, reservation, row>>
client == <<cancel, consumer>>
history == <<spent, reported, effects>>
loop == <<pc, steps, cache, arithmetic, usage, tool, heard, meter, outcome>>
vars == <<streaming, late, ev, service, client, history, loop>>

Awaiting == {"deciding", "streaming", "executing"}
Working == {"check", "tools"}
Ended == {"ended", "escaped"}
Failures == {"model_error", "invalid_decision", "quota_failure"}
Reasons == {"direct_answer", "max_steps", "token_budget_exceeded",
            "deadline_exceeded", "external_cancelled"} \cup Failures
Phases == {"admit", "running", "recording", "finalizing", "unwinding",
           "returned", "raised", "done"}

Costs == [prompt : 1..MaxPrompt, completion : 1..MaxCompletion]
Total(c) == c.prompt + c.completion
CallLists == UNION {[1..n -> Calls] : n \in 1..MaxCalls}
Events == [begun : BOOLEAN, started : SUBSET (1..MaxSteps),
           completed : SUBSET (1..MaxSteps), deltas : BOOLEAN, answers : Nat,
           stopped : Nat, after : BOOLEAN, closed : BOOLEAN]
NoTool == [todo |-> << >>, calc |-> TRUE, ok |-> TRUE, reused |-> FALSE, got |-> {}]

Init ==
  /\ streaming \in BOOLEAN
  /\ phase = "admit" /\ pc = "idle" /\ outcome = "none"
  /\ steps = 0 /\ cache = {} /\ arithmetic = FALSE /\ usage = 0
  /\ tool = NoTool /\ heard = FALSE
  /\ meter = [prompt |-> 0, completion |-> 0, prompted |-> TRUE, completed |-> TRUE]
  /\ late = FALSE /\ cancel = "clear" /\ killed = FALSE
  /\ reservation = "none"
  /\ row = [present |-> FALSE, tokens |-> 0, exact |-> FALSE]
  /\ ev = [begun |-> FALSE, started |-> {}, completed |-> {}, deltas |-> FALSE,
           answers |-> 0, stopped |-> 0, after |-> FALSE, closed |-> FALSE]
  /\ consumer = IF streaming THEN "reading" ELSE "absent"
  /\ spent = 0 /\ reported = 0 /\ effects = {}

-----------------------------------------------------------------------------
(* Events.  Publish is _append_event: every event of the run passes it.    *)
Publish(e) == [e EXCEPT !.after = @ \/ e.stopped > 0]
RunStarted(e) == [Publish(e) EXCEPT !.begun = TRUE]
StepStarted(e, n) == [Publish(e) EXCEPT !.started = @ \cup {n}]
StepCompleted(e, n) == [Publish(e) EXCEPT !.completed = @ \cup {n}]
AnswerDelta(e) == [Publish(e) EXCEPT !.deltas = TRUE]
Answer(e) == [Publish(e) EXCEPT !.answers = @ + 1]
RunStopped(e) == [Publish(e) EXCEPT !.stopped = @ + 1]

(* Mutation: an open step is left open.                                    *)
KeepOpenSteps(e) == e

(* _complete_open_steps                                                    *)
CompleteOpenSteps(e) ==
  IF e.started \subseteq e.completed THEN e
  ELSE [Publish(e) EXCEPT !.completed = @ \cup e.started]

(* The answer a completed run has not published yet.                       *)
AnswerIfUnseen(e) == IF e.answers = 0 /\ ~e.deltas THEN Answer(e) ELSE e

(* _finish, with the events published so far.                              *)
Finish(why, e) ==
  LET closed == CompleteOpenSteps(e)
      told == IF why = "direct_answer" THEN AnswerIfUnseen(closed) ELSE closed
  IN /\ pc' = "ended" /\ outcome' = why /\ ev' = RunStopped(told)

(* _check_stop and the waiters of _await_controlled: the cancel event is   *)
(* looked at before the clock.                                             *)
Cancelled == cancel # "clear"
StopReason == IF Cancelled THEN "external_cancelled" ELSE "deadline_exceeded"

-----------------------------------------------------------------------------
(* AgentRuntime.run                                                        *)

Begin ==
  /\ phase = "running" /\ pc = "idle"
  /\ pc' = "check" /\ ev' = RunStarted(ev)
  /\ UNCHANGED <<streaming, late, service, client, history, steps, cache,
                 arithmetic, usage, tool, heard, meter, outcome>>

OverBudget == Budget > 0 /\ usage >= Budget

(* The top of a loop pass, and the end of the loop.                        *)
Check ==
  /\ pc = "check"
  /\ \/ /\ steps = MaxSteps
        /\ Finish(IF arithmetic THEN "direct_answer" ELSE "max_steps", ev)
     \/ /\ steps < MaxSteps /\ (Cancelled \/ late)
        /\ Finish(StopReason, ev)
     \/ /\ steps < MaxSteps /\ ~Cancelled /\ ~late /\ OverBudget
        /\ Finish("token_budget_exceeded", ev)
     \/ /\ steps < MaxSteps /\ ~Cancelled /\ ~late /\ ~OverBudget
        /\ pc' = "deciding" /\ ev' = StepStarted(ev, steps + 1)
        /\ UNCHANGED outcome
  /\ UNCHANGED <<streaming, late, service, client, spent, reported, effects,
                 steps, cache, arithmetic, usage, tool, heard, meter>>

(* _await_controlled raises _RuntimeStop; the operation is cancelled.      *)
Interrupted == Cancelled \/ late

(* Mutation: the event that was set is not looked at.                      *)
ResumedAnyway == TRUE

(* Its result is used.  An event that was set before the await always      *)
(* comes first; one set during it may come after the operation is done.    *)
(* The clock is not looked at.                                             *)
Resumed == cancel # "noticed"
(* Another await begins.                                                   *)
AwaitAgain == cancel' = IF Cancelled THEN "noticed" ELSE cancel

(* The adapter adds up what a response reports; a missing number stays     *)
(* missing and counts as zero.                                             *)
Metered(m, c, known) ==
  [prompt |-> IF known /\ m.prompted THEN m.prompt + c.prompt ELSE 0,
   completion |-> IF known /\ m.completed THEN m.completion + c.completion ELSE 0,
   prompted |-> m.prompted /\ known,
   completed |-> m.completed /\ known]

(* What the provider's answer has cost.                                    *)
Spend(c, known) ==
  /\ spent' = spent + Total(c)
  /\ reported' = IF known THEN reported + Total(c) ELSE reported

Charge(c, known) == meter' = Metered(meter, c, known) /\ Spend(c, known)

(* _mark_answer_stream_usage_incomplete                                    *)
Cut(m) == [m EXCEPT !.completion = 0, !.completed = FALSE,
                    !.prompted = @ /\ m.prompt # 0]

(* The answer stream may still be waiting for its prompt reservation.      *)
NotBegun == ~ev.deltas /\ ~heard

(* An operation is given up.  A response may have come in the same pass of *)
(* the event loop; a stream that has begun is cut.                         *)
Abandon ==
  \/ /\ pc = "streaming" => NotBegun
     /\ UNCHANGED <<meter, spent, reported, heard>>
  \/ /\ pc = "deciding" /\ UNCHANGED heard
     /\ \E c \in Costs, known \in Reports : Charge(c, known)
  \/ /\ pc = "streaming" /\ meter' = Cut(meter)
     /\ UNCHANGED <<spent, reported, heard>>
  \/ /\ pc = "streaming" /\ ~heard /\ heard' = TRUE
     /\ \E c \in Costs, known \in Reports :
          meter' = Cut(Metered(meter, c, known)) /\ Spend(c, known)

StopAwaiting ==
  /\ pc \in Awaiting /\ Interrupted
  /\ Finish(StopReason, ev) /\ Abandon
  /\ UNCHANGED <<streaming, late, service, client, effects, steps, cache,
                 arithmetic, usage, tool>>

(* decide raises: the prompt reservation is refused before the call, the   *)
(* call fails, or its text is no decision.                                 *)
DecideFails ==
  /\ pc = "deciding" /\ Resumed
  /\ \/ /\ reservation # "none" /\ Finish("quota_failure", ev)
        /\ UNCHANGED <<meter, spent, reported>>
     \/ Finish("model_error", ev) /\ UNCHANGED <<meter, spent, reported>>
     \/ /\ \E c \in Costs, known \in Reports : Charge(c, known)
        /\ Finish("model_error", ev)
  /\ UNCHANGED <<streaming, late, service, client, effects, steps,
                 cache, arithmetic, usage, tool, heard>>

Complete(m) == m.prompted /\ m.completed
NewUsage(c, known) == IF known THEN usage + Total(c) ELSE usage

(* The parts every valid or invalid decision has in common.                *)
Response(c, known) ==
  /\ pc = "deciding" /\ Resumed
  /\ Charge(c, known)
  /\ UNCHANGED <<streaming, late, service, consumer, effects, cache, heard>>

(* Both an answer and calls, neither, an empty answer: the usage is not    *)
(* added to the run's.                                                     *)
DecideInvalid(c, known) ==
  /\ Response(c, known)
  /\ Finish("invalid_decision", Publish(ev))
  /\ UNCHANGED <<cancel, steps, arithmetic, usage, tool>>

DecideOverBudget(c, known) ==
  /\ Response(c, known)
  /\ NewUsage(c, known) > Budget
  /\ usage' = NewUsage(c, known) /\ steps' = steps + 1 /\ arithmetic' = FALSE
  /\ Finish("token_budget_exceeded", StepCompleted(Publish(ev), steps + 1))
  /\ UNCHANGED <<cancel, tool>>

DecideAnswer(c, known) ==
  /\ Response(c, known)
  /\ NewUsage(c, known) <= Budget
  /\ usage' = NewUsage(c, known) /\ arithmetic' = FALSE
  /\ \/ /\ ~streaming /\ steps' = steps + 1
        /\ Finish("direct_answer", StepCompleted(Answer(Publish(ev)), steps + 1))
        /\ UNCHANGED cancel
     \/ /\ streaming /\ pc' = "streaming" /\ ev' = Publish(ev)
        /\ AwaitAgain
        /\ UNCHANGED <<steps, outcome>>
  /\ UNCHANGED tool

DecideTools(c, known) ==
  /\ Response(c, known)
  /\ NewUsage(c, known) <= Budget
  /\ usage' = NewUsage(c, known)
  /\ \E calls \in CallLists :
       \/ /\ ~Complete(meter') /\ steps' = steps + 1 /\ arithmetic' = FALSE
          /\ Finish("token_budget_exceeded", Publish(ev))
          /\ UNCHANGED tool
       \/ /\ Complete(meter') /\ pc' = "tools" /\ ev' = Publish(ev)
          /\ tool' = [NoTool EXCEPT !.todo = calls,
                        !.calc = \A i \in 1..Len(calls) : calls[i] \in Calculator]
          /\ UNCHANGED <<steps, arithmetic, outcome>>
  /\ UNCHANGED cancel

Decide ==
  \E c \in Costs, known \in Reports :
    DecideInvalid(c, known) \/ DecideOverBudget(c, known)
      \/ DecideAnswer(c, known) \/ DecideTools(c, known)

-----------------------------------------------------------------------------
(* _consume_answer_stream over the adapter's stream_answer.                *)

(* A chunk with text, and possibly the done chunk with the usage.          *)
StreamChunk ==
  /\ pc = "streaming" /\ Resumed
  /\ \/ /\ ev' = AnswerDelta(ev)
        /\ UNCHANGED <<heard, meter, spent, reported>>
     \/ /\ ~heard /\ heard' = TRUE
        /\ \E c \in Costs, known \in Reports : Charge(c, known)
        /\ ev' \in {ev, AnswerDelta(ev)}
  /\ AwaitAgain
  /\ UNCHANGED <<streaming, late, service, consumer, effects, pc, steps,
                 cache, arithmetic, usage, tool, outcome>>

(* The stream ends.  A stream without text is an error.                    *)
StreamEnds ==
  /\ pc = "streaming" /\ Resumed
  /\ meter' = IF heard THEN meter ELSE Cut(meter)
  /\ \/ /\ ev.deltas /\ steps' = steps + 1
        /\ Finish("direct_answer", StepCompleted(ev, steps + 1))
     \/ ~ev.deltas /\ Finish("model_error", ev) /\ UNCHANGED steps
  /\ UNCHANGED <<streaming, late, service, client, history, cache, arithmetic,
                 usage, tool, heard>>

(* The prompt reservation is refused or fails before the stream began, or  *)
(* the stream breaks.                                                      *)
StreamFails ==
  /\ pc = "streaming" /\ Resumed
  /\ \/ /\ reservation # "none" /\ NotBegun
        /\ Finish("quota_failure", ev) /\ UNCHANGED meter
     \/ NotBegun /\ Finish("model_error", ev) /\ UNCHANGED meter
     \/ Finish("model_error", ev) /\ meter' = Cut(meter)
  /\ UNCHANGED <<streaming, late, service, client, history, steps, cache,
                 arithmetic, usage, tool, heard>>

-----------------------------------------------------------------------------
(* The tool calls of a decision.                                           *)

(* One result: a tool message, TOOL_COMPLETED or TOOL_FAILED, the next     *)
(* call.                                                                   *)
ToolResult(e, ok, reused) ==
  /\ tool' = [tool EXCEPT !.todo = Tail(@), !.ok = @ /\ ok,
                          !.reused = @ \/ reused,
                          !.got = IF ok THEN @ \cup {Head(tool.todo)} ELSE @]
  /\ ev' = Publish(e) /\ pc' = "tools"

(* Mutation: nothing is found.                                             *)
CachedNever(c) == FALSE

(* _find_cached_tool_result                                                *)
Cached(c) == c \in cache

(* All calls have their result: the step is appended to state.steps.       *)
StepEnds ==
  /\ pc = "tools" /\ tool.todo = << >>
  /\ steps' = steps + 1 /\ cache' = cache \cup tool.got
  /\ arithmetic' = (tool.calc /\ tool.ok)
  /\ LET e == StepCompleted(ev, steps + 1)
     IN IF tool.reused /\ tool.calc
        THEN Finish("direct_answer", e)
        ELSE pc' = "check" /\ ev' = e /\ UNCHANGED outcome
  /\ UNCHANGED <<streaming, late, service, client, history, usage, tool, heard,
                 meter>>

StopTools ==
  /\ pc = "tools" /\ tool.todo # << >> /\ Interrupted
  /\ Finish(StopReason, ev)
  /\ UNCHANGED <<streaming, late, service, client, history, steps, cache,
                 arithmetic, usage, tool, heard, meter>>

StartTool ==
  /\ pc = "tools" /\ tool.todo # << >> /\ ~Interrupted
  /\ IF Cached(Head(tool.todo))
     THEN ToolResult(Publish(ev), TRUE, Head(tool.todo) \in Calculator)
     ELSE pc' = "executing" /\ ev' = Publish(ev) /\ UNCHANGED tool
  /\ UNCHANGED <<streaming, late, service, client, history, steps, cache,
                 arithmetic, usage, heard, meter, outcome>>

(* The deadline passes between _check_stop and _remaining: the executor    *)
(* refuses a timeout of zero with a ValueError that run does not catch.    *)
StartToolTooLate ==
  /\ pc = "tools" /\ tool.todo # << >> /\ ~Interrupted
  /\ ~Cached(Head(tool.todo))
  /\ late' = TRUE /\ pc' = "escaped" /\ ev' = Publish(ev)
  /\ UNCHANGED <<streaming, service, client, history, steps, cache, arithmetic,
                 usage, tool, heard, meter, outcome>>

ToolReturns ==
  /\ pc = "executing" /\ Resumed
  /\ \E ok \in BOOLEAN :
       /\ ToolResult(ev, ok, FALSE)
       /\ effects' = IF ok THEN effects \cup {<<steps + 1, Head(tool.todo)>>}
                     ELSE effects
  /\ UNCHANGED <<streaming, late, service, client, spent, reported,
                 steps, cache, arithmetic, usage, heard, meter, outcome>>

-----------------------------------------------------------------------------
(* AgentService._run and ReservationLifecycle                              *)

(* The reservation is refused, granted, or not needed: nothing limits the  *)
(* caller.                                                                 *)
Reserve ==
  /\ phase = "admit"
  /\ \/ phase' = "raised" /\ UNCHANGED reservation
     \/ phase' = "running" /\ reservation' \in {"none", "held"}
  /\ UNCHANGED <<streaming, late, ev, client, history, loop, killed, row>>

(* The renewal task reports that the lease is lost, or fails: lifecycle.run *)
(* cancels the run with that message, or returns the result of one that is *)
(* over.                                                                   *)
RenewalFails ==
  /\ phase = "running" /\ reservation = "held"
  /\ reservation' \in {"held", "lost"}
  /\ \/ pc \in Awaiting /\ Finish("quota_failure", ev) /\ Abandon
     \/ pc \in Ended /\ UNCHANGED <<pc, outcome, ev, meter, spent, reported, heard>>
  /\ UNCHANGED <<streaming, late, phase, killed, row, client, effects, steps,
                 cache, arithmetic, usage, tool>>

(* lifecycle.run returns the result, or the run's exception.               *)
RunReturns ==
  /\ phase = "running" /\ pc \in Ended
  /\ phase' = IF pc = "ended" THEN "recording" ELSE "unwinding"
  /\ UNCHANGED <<streaming, late, ev, client, history, loop, killed, reservation, row>>

(* Mutation: the tokens the run has counted are recorded, not those charged.*)
RecordRunUsage ==
  /\ phase = "recording"
  /\ phase' = "finalizing"
  /\ row' = [present |-> TRUE, tokens |-> usage, exact |-> Complete(meter)]
  /\ UNCHANGED <<streaming, late, ev, client, history, loop, killed, reservation>>

RecordUsage ==
  /\ phase = "recording"
  /\ \/ /\ phase' = "finalizing"
        /\ row' = [present |-> TRUE, tokens |-> meter.prompt + meter.completion,
                   exact |-> Complete(meter)]
     \/ phase' = "unwinding" /\ UNCHANGED row
  /\ UNCHANGED <<streaming, late, ev, client, history, loop, killed, reservation>>

(* What the caller of _run gets: a failed run and, without an observer, a  *)
(* quota failure are exceptions.                                           *)
Reported == IF outcome \in Failures \ {"quota_failure"} THEN "raised"
            ELSE IF outcome = "quota_failure" /\ ~streaming THEN "raised"
            ELSE "returned"

Closing(how) == IF reservation = "held" THEN how ELSE reservation

(* release after a quota failure, settle otherwise; a database error       *)
(* leaves it to __aexit__.                                                 *)
Finalize ==
  /\ phase = "finalizing"
  /\ \/ /\ reservation' = Closing(IF outcome = "quota_failure" THEN "released"
                                  ELSE "settled")
        /\ phase' = Reported
     \/ phase' = "unwinding" /\ UNCHANGED reservation
  /\ UNCHANGED <<streaming, late, ev, client, history, loop, killed, row>>

(* __aexit__ on an exception: release, which may fail too.                 *)
Unwind ==
  /\ phase = "unwinding"
  /\ reservation' \in {Closing("released"), reservation}
  /\ phase' = "raised"
  /\ UNCHANGED <<streaming, late, ev, client, history, loop, killed, row>>

(* The task is cancelled: the request's own, or the producer when the      *)
(* consumer that waits for it is cancelled.  A run in progress is          *)
(* cancelled and reports so.  Under a reservation its result is dropped;   *)
(* without one the run itself is awaited and takes the cancellation, and   *)
(* the caller goes on with its result.                                     *)
Kill ==
  /\ ~killed /\ (streaming => consumer = "finishing")
  /\ \/ /\ phase = "running" /\ pc \in Awaiting
        /\ Finish("external_cancelled", ev) /\ Abandon
        /\ \/ reservation = "none" /\ UNCHANGED <<killed, phase>>
           \/ reservation # "none" /\ killed' = TRUE /\ phase' = "unwinding"
     \/ /\ phase \in {"recording", "finalizing"} \/ (phase = "running" /\ pc \in Ended \cup {"idle"})
        /\ UNCHANGED <<pc, outcome, ev, meter, spent, reported, heard>>
        /\ killed' = TRUE /\ phase' = "unwinding"
  /\ UNCHANGED <<streaming, late, reservation, row, client, effects, steps,
                 cache, arithmetic, usage, tool>>

-----------------------------------------------------------------------------
(* The callers of AgentService.run                                         *)

(* Mutation: the stream is not ended.                                      *)
FailSilently(e) == e

(* AgentEventStream.fail_unexpected                                        *)
FailUnexpected(e) ==
  [(IF e.begun /\ e.stopped = 0 THEN RunStopped(e) ELSE e) EXCEPT !.closed = TRUE]

(* create_agent_run returns or raises; produce stores the run and the      *)
(* conversation turn, which may fail, and closes the stream.               *)
CallerEnds ==
  /\ phase \in {"returned", "raised"}
  /\ phase' = "done"
  /\ IF ~streaming THEN UNCHANGED ev
     ELSE \/ /\ ~killed
             /\ ev' = FailUnexpected(ev)
          \/ /\ killed \/ phase = "returned"
             /\ ev' = IF ev.stopped > 0 THEN ev ELSE [ev EXCEPT !.closed = TRUE]
  /\ UNCHANGED <<streaming, late, client, history, loop, killed, reservation, row>>

(* _stream_events forwards until the terminal event or the closing item.   *)
Receive ==
  /\ consumer = "reading" /\ (ev.stopped > 0 \/ ev.closed)
  /\ consumer' = "finishing"
  /\ cancel' = IF phase # "done" THEN "set" ELSE cancel
  /\ pc \notin Working
  /\ UNCHANGED <<streaming, late, ev, service, history, loop>>

Disconnect ==
  /\ consumer = "reading" /\ pc \notin Working
  /\ consumer' = "finishing" /\ cancel' = "set"
  /\ UNCHANGED <<streaming, late, ev, service, history, loop>>

ConsumerEnds ==
  /\ consumer = "finishing" /\ phase = "done"
  /\ consumer' = "closed"
  /\ UNCHANGED <<streaming, late, ev, service, history, loop, cancel>>

(* The deadline of a run.                                                  *)
Tick ==
  /\ ~late /\ pc # "idle" /\ pc \notin Ended
  /\ late' = TRUE
  /\ UNCHANGED <<streaming, ev, service, client, history, loop>>

RuntimeStep ==
  Begin \/ Check \/ StopAwaiting \/ StepEnds \/ StopTools \/ StartTool
ServiceStep == Reserve \/ RunReturns \/ RecordUsage \/ Finalize \/ Unwind \/ CallerEnds
ConsumerStep == Receive \/ ConsumerEnds

Next ==
  \/ RuntimeStep \/ DecideFails \/ Decide
  \/ StreamChunk \/ StreamEnds \/ StreamFails
  \/ StartToolTooLate \/ ToolReturns
  \/ ServiceStep \/ RenewalFails \/ Kill
  \/ ConsumerStep \/ Disconnect \/ Tick

Spec == Init /\ [][Next]_vars

(* The runtime's own steps, the database and the deadline make progress;   *)
(* the provider and the tools need not.                                    *)
FairSpec ==
  /\ Spec
  /\ WF_vars(RuntimeStep) /\ WF_vars(ServiceStep) /\ WF_vars(ConsumerStep)
  /\ WF_vars(Tick)

-----------------------------------------------------------------------------
(* Properties                                                              *)

DataOK ==
  /\ streaming \in BOOLEAN /\ late \in BOOLEAN /\ cancel \in {"clear", "set", "noticed"}
  /\ killed \in BOOLEAN /\ heard \in BOOLEAN /\ arithmetic \in BOOLEAN
  /\ phase \in Phases
  /\ reservation \in {"none", "held", "lost", "settled", "released"}
  /\ consumer \in {"absent", "reading", "finishing", "closed"}
  /\ steps \in 0..MaxSteps /\ usage \in Nat /\ spent \in Nat /\ reported \in Nat
  /\ cache \subseteq Calls /\ effects \subseteq (1..MaxSteps) \X Calls
  /\ tool \in [todo : Seq(Calls), calc : BOOLEAN, ok : BOOLEAN,
               reused : BOOLEAN, got : SUBSET Calls]
  /\ meter \in [prompt : Nat, completion : Nat, prompted : BOOLEAN,
                completed : BOOLEAN]
  /\ row \in [present : BOOLEAN, tokens : Nat, exact : BOOLEAN]

(* Every variable keeps its type.                                          *)
TypeOK ==
  /\ DataOK
  /\ pc \in {"idle"} \cup Working \cup Awaiting \cup Ended
  /\ outcome \in Reasons \cup {"none"}
  /\ ev \in Events

(* The stream of a run carries at most one terminal event, published by    *)
(* _finish or, when the run ends in an exception, made up by               *)
(* fail_unexpected, and nothing follows it.                                *)
OneTerminal == ev.stopped <= 1 /\ ~ev.after

(* A run that returns a result has closed every step it started, also when *)
(* it was stopped, cancelled or failed in the middle of one.               *)
StepsClosed == pc = "ended" => ev.started = ev.completed /\ ev.stopped = 1

(* A completed run has told its client the answer in exactly one form: the *)
(* deltas of a stream or one whole message, whichever of the four ways to  *)
(* an answer it took.                                                      *)
AnsweredOnce ==
  outcome = "direct_answer" =>
    (ev.deltas /\ ev.answers = 0) \/ (~ev.deltas /\ ev.answers = 1)

(* What the stream of a run promises its reader: one terminal event, every *)
(* step closed, the answer told once.                                      *)
StreamContract == OneTerminal /\ StepsClosed /\ AnsweredOnce

(* A call that succeeded in one step is never executed again in a later    *)
(* one: _find_cached_tool_result answers it.                               *)
OncePerRun ==
  \A x, y \in effects : x[2] = y[2] => x[1] = y[1]

(* A reservation is settled, and a result returned to the caller, only     *)
(* after the usage record that replaces it exists, and a record that       *)
(* claims to be exact has the tokens of every response, those of an        *)
(* unusable decision included.                                             *)
ChargedBeforeSettled ==
  /\ (reservation = "settled" \/ phase = "returned") => row.present
  /\ row.present /\ row.exact => row.tokens = spent

OneCall == MaxPrompt + MaxCompletion

(* A run overruns its budget by less than one provider call, plus the call *)
(* that streams the answer.  Unreported usage does not get around it.      *)
OverrunBounded ==
  Budget > 0 =>
    spent < Budget + OneCall + (IF streaming THEN OneCall ELSE 0)

(* What a run costs is on record before its reservation goes, and is       *)
(* within the budget but for the calls that were under way.                *)
BudgetKept == ChargedBeforeSettled /\ OverrunBounded

(* The cancel event wins: a run completes with an answer only if the event *)
(* was not set, or was set while the last operation was already under way. *)
CancelWins ==
  [][outcome' = "direct_answer" /\ outcome # "direct_answer"
       => cancel # "noticed"]_vars

(* Every run ends and its stream is closed, whatever provider, tools,      *)
(* database and client do, given that the deadline passes.                 *)
RunEnds == <>(phase = "done" /\ consumer \in {"absent", "closed"})

(* The stream contract: a terminal event comes after the step_completed of *)
(* every step that was started.                                            *)
TerminalAfterSteps == ev.stopped > 0 => ev.started \subseteq ev.completed

(* The design: the usage the provider reported is what is recorded.        *)
ReportedIsRecorded == reservation = "settled" => row.tokens >= reported

-----------------------------------------------------------------------------
(* The inductive invariant behind the safety properties.                   *)

(* Where the runtime is follows the service: nothing runs before the call  *)
(* and after it.                                                           *)
RunsInside ==
  /\ phase # "running" => pc \in Ended \cup {"idle"}
  /\ phase = "admit" => pc = "idle" /\ reservation = "none"
  /\ pc = "idle" => steps = 0 /\ spent = 0 /\ usage = 0 /\ effects = {} /\ Complete(meter)
  /\ pc = "executing" => tool.todo # << >>

(* What has been published while the run goes on and when it is over.      *)
Published ==
  /\ pc = "idle" => ~ev.begun
  /\ pc \notin Ended => /\ ev.stopped = 0 /\ ev.answers = 0 /\ outcome = "none"
                        /\ (ev.deltas => pc = "streaming")
  /\ pc = "escaped" => outcome = "none"
  /\ ev.completed \subseteq ev.started
  /\ pc \in Awaiting \cup {"tools"} => steps < MaxSteps /\ steps + 1 \in ev.started

(* Only the awaits of the answer stream begin under a set cancel event.    *)
CancelSeen == cancel = "noticed" => pc \in {"streaming"} \cup Ended

(* What the adapter has counted, what the run has counted and what the     *)
(* provider has charged.                                                   *)
Counting ==
  /\ Complete(meter) => meter.prompt + meter.completion = spent
  /\ pc \in Working \cup {"deciding", "executing"} =>
       Complete(meter) /\ usage = spent /\ usage <= Budget
  /\ pc = "deciding" /\ Budget > 0 => usage < Budget
  /\ pc = "streaming" => streaming
  /\ pc = "streaming" /\ ~heard /\ Budget > 0 =>
       spent < Budget + OneCall

(* The usage record and the phases that rely on it.                        *)
Recording ==
  /\ phase \in {"recording", "finalizing", "returned"} => pc = "ended"
  /\ phase \in {"finalizing", "returned"} => row.present
  /\ row.present => pc = "ended" /\ phase \notin {"admit", "running", "recording"}

(* Which successful executions the cache and the current step know of.     *)
Executions ==
  /\ pc \in {"check", "deciding", "streaming"} =>
       \A x \in effects : x[1] <= steps /\ x[2] \in cache
  /\ pc \in {"tools", "executing"} =>
       \A x \in effects : \/ x[1] <= steps /\ x[2] \in cache
                          \/ x[1] = steps + 1 /\ x[2] \in tool.got
  /\ pc = "executing" => Head(tool.todo) \notin cache

RunInv ==
  /\ TypeOK /\ RunsInside /\ Published /\ OneTerminal /\ StepsClosed /\ AnsweredOnce
ChargeInv == Counting /\ Recording /\ ChargedBeforeSettled /\ OverrunBounded
ToolInv == CancelSeen /\ Executions /\ OncePerRun
=============================================================================
