---------------------------- MODULE RunTimeline ----------------------------
(***************************************************************************)
(* The events of one multi-agent run, on their way to the SSE client and   *)
(* to the table from which the run is replayed.                            *)
(*                                                                         *)
(* Every event goes through one SequencedObserver, which stamps it, puts   *)
(* it in the queue of the stream and hands it to the recorder, all without *)
(* suspending; then the recorder's INSERT suspends whoever emits.  The     *)
(* lifecycle of a subtask waits for it.  What its agent reports is emitted *)
(* by a task of its own for each event, and drained before the subtask     *)
(* reports its end.  Orchestrator has the scheduling of the subtasks; here *)
(* they all run at once, end, or are cancelled when the run stops early.   *)
(***************************************************************************)
EXTENDS Integers, Sequences, FiniteSets

CONSTANTS
  Subtasks,     \* subtasks
  MaxDeltas,    \* bound: events an agent reports while its subtask runs
  MaxFailures,  \* bound: INSERTs of events that fail
  Cap,          \* MAX_MULTI_AGENT_EVENTS_PER_RUN
  Scopes        \* owner scopes that look a run up; one of them owns it

ASSUME TimelineAssumption ==
  MaxDeltas \in Nat /\ MaxFailures \in Nat /\ Cap \in Nat \ {0}

VARIABLES
  run,        \* where MultiAgentService.run and produce are
  subtask,    \* where a subtask is
  left,       \* how many events its agent may still report
  ready,      \* tasks of reported events that have not started, in order
  cancelling, \* subtasks to which CancelledError has not come yet
  cancelled,  \* history: subtasks whose task was cancelled
  events,     \* the stamped events; the sequence number is the position
  saving,     \* events whose INSERT is under way
  stored,     \* the rows of multi_agent_run_events
  count,      \* _count of the recorder
  failures,   \* INSERTs of events that have failed
  row,        \* the row of multi_agent_runs, or NoRow
  stream      \* the stream: what was last put in it, or how it has ended

tasks        == <<subtask, left, ready, cancelling, cancelled>>
recorder     == <<saving, stored, count, failures>>
timelineVars == <<run, tasks, events, recorder, row, stream>>

None  == "none"
NoRow == [status |-> "none", owner |-> {}]

-----------------------------------------------------------------------------
(* Events, and their three shapes.                                         *)

(* _AGENT_TO_MULTI_EVENT: the six kinds an agent reports, as one with the  *)
(* fields of them all.                                                     *)
Deltas == {"subtask_delta"}
Closings == {"subtask_completed", "subtask_failed"}

(* _TERMINAL_EVENT_KINDS, with all that is not a completion as one.        *)
TerminalKinds == {"run_completed", "run_stopped"}

(* MultiAgentEvent.is_terminal.                                            *)
IsTerminal(e) == e.kind \in TerminalKinds

(* The fields that the emitter of a kind fills in, besides the run, the    *)
(* kind, the number and the time.                                          *)
FieldsOf(kind) ==
  CASE kind = "run_started" -> {"run_source"}
    [] kind = "subtasks_planned" -> {"run_source", "reasoning", "subtasks"}
    [] kind = "subtask_started" -> {"run_source", "task_id", "agent_role"}
    [] kind \in Deltas ->
         {"run_source", "task_id", "agent_role", "output_summary",
          "agent_event_kind", "step_index", "tool_name", "call_id"}
    [] kind = "subtask_completed" ->
         {"run_source", "task_id", "agent_role", "output_summary", "token_usage", "duration_ms"}
    [] kind = "subtask_failed" ->
         {"run_source", "task_id", "agent_role", "error_code", "duration_ms"}
    [] kind = "run_completed" ->
         {"run_source", "final_output", "total_token_usage", "duration_ms", "subtask_results"}
    [] kind = "run_stopped" ->
         {"run_source", "error_code", "total_token_usage", "duration_ms", "subtask_results"}

Event(kind, t) == [kind |-> kind, task |-> t]

(* The event of a task that was cancelled before it began.                 *)
GivenUp == Event("given_up", None)

(* to_public_dict: what goes into the payload column, all of it.           *)
ToPublicDict(e) == FieldsOf(e.kind)

(* save_event: a column for each field, but for the source of the run.     *)
EventRow(e) ==
  [kind |-> e.kind, task |-> e.task,
   columns |-> FieldsOf(e.kind) \ {"run_source"}, payload |-> ToPublicDict(e)]

(* _event_from_row: the two lists are taken from the payload.              *)
EventFromRow(r) ==
  LET lists == {"subtasks", "subtask_results"}
  IN  (r.columns \ lists) \cup (r.payload \cap lists)

(* _to_stream_event: the frame, live and replayed.                         *)
ToStreamEvent(e, fields) ==
  [kind |-> e.kind, task |-> e.task, fields |-> fields \ {"run_source"}]

TimelineInit ==
  /\ run = "new"
  /\ subtask = [t \in Subtasks |-> "created"]
  /\ left = [t \in Subtasks |-> MaxDeltas]
  /\ ready = <<>> /\ events = <<>>
  /\ saving = {} /\ stored = {} /\ count = 0 /\ failures = 0
  /\ cancelling = {} /\ cancelled = {}
  /\ row = NoRow /\ stream = "open"

-----------------------------------------------------------------------------
(* Emitting.                                                               *)

(* MultiAgentEventStream.on_event.  What the client has read of the queue  *)
(* is left out: it reads on until something ends the stream.               *)
StreamOnEvent(e) == stream' = IF stream = "open" /\ IsTerminal(e) THEN "terminal" ELSE stream

(* MultiAgentEventRecorder.on_event up to its INSERT.  The cap is tested   *)
(* before it, and the counter moves after it.                              *)
RecorderOnEvent(i) ==
  saving' = IF count >= Cap THEN saving ELSE saving \cup {i}

(* SequencedObserver.on_event: the number, then ComposedObserver: the      *)
(* stream, the recorder.                                                   *)
Emit(e) ==
  /\ events' = Append(events, e)
  /\ StreamOnEvent(e)
  /\ RecorderOnEvent(Len(events) + 1)
  /\ UNCHANGED <<stored, count, failures>>

(* Nobody waits any more for the INSERT of an event of this kind and task. *)
Written(kind, t) ==
  \A i \in saving : ~(events[i].kind = kind /\ events[i].task = t)

(* save_event, and what follows it: an error is logged.                    *)
SaveEvent(i) ==
  /\ i \in saving
  /\ saving' = saving \ {i}
  /\ \/ stored' = stored \cup {i} /\ count' = count + 1 /\ UNCHANGED failures
     \/ /\ failures < MaxFailures
        /\ failures' = failures + 1 /\ UNCHANGED <<stored, count>>
  /\ UNCHANGED <<run, tasks, events, row, stream>>

-----------------------------------------------------------------------------
(* MultiAgentService.run, and produce around it.                           *)

StartRun ==
  /\ run = "new"
  /\ Emit(Event("run_started", None))
  /\ run' = "deciding"
  /\ UNCHANGED <<tasks, row>>

(* _decompose_via_supervisor returns, and the plan is announced.           *)
PlanSubtasks ==
  /\ run = "deciding" /\ Written("run_started", None)
  /\ Emit(Event("subtasks_planned", None))
  /\ run' = "planned"
  /\ UNCHANGED <<tasks, row>>

(* fail_unexpected: unless a terminal event is in the queue, a run_failed  *)
(* that only the stream has is put there.                                  *)
StreamFailUnexpected ==
  /\ run = "deciding" /\ Written("run_started", None)
  /\ stream' = IF stream = "open" THEN "unrecorded" ELSE stream
  /\ run' = "done"
  /\ UNCHANGED <<tasks, events, recorder, row>>

(* Orchestrator.execute: the subtasks become tasks.                        *)
Execute ==
  /\ run = "planned" /\ Written("subtasks_planned", None)
  /\ run' = "executing"
  /\ UNCHANGED <<tasks, events, recorder, row, stream>>

(* The result is there and its terminal event is emitted.                  *)
CompleteRun ==
  /\ run = "executing" /\ \A t \in Subtasks : subtask[t] = "ended"
  /\ Emit(Event("run_completed", None))
  /\ run' = "finishing"
  /\ UNCHANGED <<tasks, row>>

(* The run stops early: a failure, a timeout, the budget or the client.    *)
(* The other tasks are cancelled and not awaited, so that the terminal     *)
(* event comes before all they still have to say.                          *)
StopRun ==
  /\ run = "executing" /\ \E t \in Subtasks : subtask[t] # "ended"
  /\ Emit(Event("run_stopped", None))
  /\ subtask' = [t \in Subtasks |-> IF subtask[t] = "created" THEN "ended" ELSE subtask[t]]
  /\ cancelled' = {t \in Subtasks : subtask[t] # "ended"}
  /\ cancelling' = {t \in cancelled' : subtask[t] # "created"}
  /\ run' = "finishing"
  /\ UNCHANGED <<left, ready, row>>

(* MultiAgentRunRecordService.save, merged under the run's id.             *)
Save(status, owner) == row' = [status |-> status, owner |-> {owner}]

(* Mutation: the run is stored while its terminal event is under way.      *)
PersistEarly ==
  /\ run = "finishing"
  /\ \E i \in DOMAIN events, s \in Scopes :
       IsTerminal(events[i]) /\ Save(events[i].kind, s)
  /\ run' = "done"
  /\ UNCHANGED <<tasks, events, recorder, stream>>

(* _persist_run, after the terminal event: a failure is logged.            *)
PersistRun ==
  /\ run = "finishing"
  /\ \A kind \in TerminalKinds : Written(kind, None)
  /\ \/ \E i \in DOMAIN events, s \in Scopes :
          IsTerminal(events[i]) /\ Save(events[i].kind, s)
     \/ UNCHANGED row
  /\ run' = "done"
  /\ UNCHANGED <<tasks, events, recorder, stream>>

-----------------------------------------------------------------------------
(* _execute_single_task, and _SubtaskRuntimeEventObserver.                 *)

StartSubtask(t) ==
  /\ subtask[t] = "created" /\ run = "executing"
  /\ Emit(Event("subtask_started", t))
  /\ subtask' = [subtask EXCEPT ![t] = "starting"]
  /\ UNCHANGED <<run, left, ready, cancelling, cancelled, row>>

RunAgent(t) ==
  /\ subtask[t] = "starting" /\ Written("subtask_started", t)
  /\ subtask' = [subtask EXCEPT ![t] = "running"]
  /\ UNCHANGED <<run, left, ready, cancelling, cancelled, events, recorder, row, stream>>

(* observe: a task is created for the event.                               *)
Observe(t) ==
  /\ subtask[t] = "running" /\ left[t] > 0
  /\ left' = [left EXCEPT ![t] = @ - 1]
  /\ \E kind \in Deltas : ready' = Append(ready, Event(kind, t))
  /\ UNCHANGED <<run, subtask, cancelling, cancelled, events, recorder, row, stream>>

(* The event loop starts the oldest of these tasks; one that was cancelled *)
(* before ends without a word.                                             *)
RunTask ==
  /\ ready # <<>>
  /\ IF Head(ready) = GivenUp THEN UNCHANGED <<events, stream, recorder>> ELSE Emit(Head(ready))
  /\ ready' = Tail(ready)
  /\ UNCHANGED <<run, subtask, left, cancelling, cancelled, row>>

(* The agent run returns or raises, and drain begins.                      *)
AgentEnds(t) ==
  /\ subtask[t] = "running"
  /\ subtask' = [subtask EXCEPT ![t] = "draining"]
  /\ UNCHANGED <<run, left, ready, cancelling, cancelled, events, recorder, row, stream>>

(* Mutation: the pending events are not awaited.                           *)
DrainNothing(t) == TRUE

(* drain: no task is left of what this subtask's agent reported.           *)
Drained(t) ==
  /\ \A i \in DOMAIN ready : ready[i].task # t
  /\ \A kind \in Deltas : Written(kind, t)

(* How the subtask ended; a cancelled one has failed.                      *)
CloseSubtask(t) ==
  /\ subtask[t] = "draining" /\ Drained(t)
  /\ \E kind \in IF t \in cancelled THEN {"subtask_failed"} ELSE Closings :
       Emit(Event(kind, t))
  /\ subtask' = [subtask EXCEPT ![t] = "closing"]
  /\ UNCHANGED <<run, left, ready, cancelling, cancelled, row>>

EndSubtask(t) ==
  /\ subtask[t] = "closing" /\ \A kind \in Closings : Written(kind, t)
  /\ subtask' = [subtask EXCEPT ![t] = "ended"]
  /\ UNCHANGED <<run, left, ready, cancelling, cancelled, events, recorder, row, stream>>

(* CancelledError.  A subtask whose agent runs drains what was reported;   *)
(* one that waits for its own INSERT, or drains, gives up what it waits    *)
(* for, with or without its row being committed, and the counter does not  *)
(* move.  In each case the failure is reported next, even by a subtask     *)
(* whose completion was already on its way.                                *)
CancelSubtask(t) ==
  LET waits == subtask[t] # "running"
      given == {i \in saving : waits /\ events[i].task = t}
  IN  /\ t \in cancelling
      /\ cancelling' = cancelling \ {t}
      /\ saving' = saving \ given
      /\ \E committed \in SUBSET given : stored' = stored \cup committed
      /\ ready' = [i \in DOMAIN ready |->
                     IF waits /\ ready[i].task = t THEN GivenUp ELSE ready[i]]
      /\ subtask' = [subtask EXCEPT ![t] = "draining"]
      /\ UNCHANGED <<run, left, cancelled, events, count, failures, row, stream>>

-----------------------------------------------------------------------------
(* The SSE endpoint and the history.                                       *)

(* _stream_events: is_disconnected ends it and the run is told to stop,    *)
(* which StopRun allows at any time.                                       *)
StreamDisconnect ==
  /\ stream = "open"
  /\ stream' = "left"
  /\ UNCHANGED <<run, tasks, events, recorder, row>>

(* MultiAgentRunRecordService.get_run, within the caller's scope.          *)
GetRun(scope) == IF scope \in row.owner THEN row ELSE NoRow

(* order_by: the k-th row by number.                                       *)
RowAt(k) == CHOOSE i \in stored : Cardinality({j \in stored : j <= i}) = k

(* MultiAgentRunRecordService.list_events, no more than the cap.           *)
ListEvents ==
  [k \in 1..(IF Cardinality(stored) < Cap THEN Cardinality(stored) ELSE Cap) |-> RowAt(k)]

(* get_multi_agent_run_events: nothing for a run that is not there.        *)
Replay(scope) ==
  IF GetRun(scope) = NoRow THEN <<>>
  ELSE [i \in DOMAIN ListEvents |->
          LET e == events[ListEvents[i]]
          IN  ToStreamEvent(e, EventFromRow(EventRow(e)))]

(* produce has returned, every task is over and the client is gone.        *)
TimelineOver ==
  /\ run = "done" /\ stream # "open" /\ saving = {} /\ ready = <<>>
  /\ \A t \in Subtasks : subtask[t] \in {"created", "ended"}
  /\ UNCHANGED timelineVars

Step(t) ==
  \/ /\ t \notin cancelling
     /\ \/ StartSubtask(t) \/ RunAgent(t) \/ Observe(t) \/ AgentEnds(t)
        \/ CloseSubtask(t) \/ EndSubtask(t)
  \/ CancelSubtask(t)

TimelineNext ==
  \/ StartRun \/ PlanSubtasks \/ StreamFailUnexpected \/ Execute \/ CompleteRun
  \/ StopRun \/ PersistRun \/ RunTask \/ StreamDisconnect
  \/ \E t \in Subtasks : Step(t)
  \/ \E i \in DOMAIN events : SaveEvent(i)
  \/ TimelineOver

TimelineSpec == TimelineInit /\ [][TimelineNext]_timelineVars

-----------------------------------------------------------------------------
(* Properties.                                                             *)

Positions(kinds, t) == {i \in DOMAIN events : events[i].kind \in kinds /\ events[i].task = t}

(* What the agent of a subtask reports stands between the start and the    *)
(* end of the subtask, although each report is emitted by a task of its    *)
(* own and the subtask may be cancelled at any of its awaits ("drained     *)
(* before the next lifecycle event is emitted to preserve ordering",       *)
(* _SubtaskRuntimeEventObserver).                                          *)
TimelineNested ==
  \A t \in Subtasks : \A d \in Positions(Deltas, t) :
    /\ \E s \in Positions({"subtask_started"}, t) : s < d
    /\ \A c \in Positions(Closings, t) : d < c

(* Once a run can be looked up, its replay does not change up to the       *)
(* terminal event, but for what cancelled tasks still write; and the       *)
(* replay of a completed run none of whose INSERTs failed and that is      *)
(* within the cap is what the client was sent, frame by frame (produce     *)
(* stores the run after the service has returned).                         *)
ReplayIsSettled ==
  \A s \in row.owner :
    /\ \A i \in saving :
         \/ events[i].task \in cancelled
         \/ \E j \in 1..(i - 1) : IsTerminal(events[j])
    /\ row.status = "run_completed" /\ failures = 0 /\ Len(events) <= Cap
       => Replay(s) = [i \in DOMAIN events |-> ToStreamEvent(events[i], FieldsOf(events[i].kind))]
=============================================================================
