---------------------------- MODULE Orchestrator ----------------------------
(* One multi-agent run: MultiAgentService.run asks the supervisor for a    *)
(* plan of subtasks, Orchestrator.execute runs them as asyncio tasks, and  *)
(* MultiAgentEventStream carries the events to the SSE consumer            *)
(* (app/multi_agent/service.py, app/multi_agent/orchestrator.py,           *)
(* app/api/multi_agent.py).                                                *)
(*                                                                         *)
(* Everything runs on one event loop: an action is what happens between    *)
(* two awaits, or a part of it that no other task can tell from the rest.  *)
(* A subtask's agent run is external here (AgentRuntime models it): it     *)
(* completes, fails, is cancelled by the cancel event, or raises.          *)
EXTENDS Integers, FiniteSets

CONSTANTS
  Tasks,           \* ids a plan may use
  Plans,           \* plans the supervisor may come up with
  Policies,        \* failure policies of requests
  Unconfigured,    \* tasks of a role that has no agent configuration
  Malformed,       \* tasks whose input_template cannot be formatted
  MaxConcurrency,  \* max_concurrency of the request
  Budget,          \* total_token_budget; 0 when there is none
  MaxTokens,       \* tokens of one subtask
  Timed            \* the request has a total_timeout

(* A plan gives every subtask the set of ids it depends on; the supervisor *)
(* is a language model: nothing excludes cycles and unknown ids.           *)
ASSUME PlansAssumption ==
  \A p \in Plans : DOMAIN p \subseteq Tasks
ASSUME BoundsAssumption ==
  /\ MaxConcurrency \in Nat \ {0}
  /\ Budget \in Nat /\ MaxTokens \in Nat
  /\ Timed \in BOOLEAN
  /\ Policies \subseteq {"fail_fast", "skip", "retry_once"}

VARIABLES
  streaming,  \* the streaming endpoint is used
  policy,     \* failure_policy
  pc,         \* where the producer (produce, run, execute) is
  plan,       \* the decision's subtasks
  pending,    \* subtasks that have not been started
  active,     \* in_progress
  batch,      \* done tasks of the last wait that are still to be looked at
  completed, failed,
  tokens,     \* state.total_token_usage
  status, code, \* status and error_code of the result
  job,        \* where the asyncio task of a subtask is
  outcome,    \* status of its SubtaskResult
  cost,       \* token_usage of its SubtaskResult
  doomed,     \* tasks whose cancel() was called and not yet delivered
  cancel,     \* the cancel event
  late,       \* total_timeout has passed
  wire,       \* what the stream carries up to its terminal event
  consumer,   \* _stream_events
  killed,     \* the producer was cancelled
  record      \* status of the stored run record

loop == <<plan, pending, active, batch, completed, failed, tokens>>
verdict == <<status, code>>
work == <<job, outcome, cost>>
client == <<streaming, policy, cancel, late, consumer>>
vars == <<client, loop, verdict, work, pc, doomed, wire, killed, record>>

NoPlan == [t \in {} |-> {}]
Quiet == [begun |-> FALSE, opened |-> {}, ok |-> {}, bad |-> {}, again |-> FALSE,
          terminals |-> 0, closed |-> FALSE]

Over == {"emitting", "persisting", "done"}
Unfinished == {"created", "running", "closing", "handling"}
Finished == {"ended", "crashed", "dropped"}

Init ==
  /\ streaming \in BOOLEAN /\ policy \in Policies
  /\ pc = "new"
  /\ plan = NoPlan /\ pending = {} /\ active = {} /\ batch = {}
  /\ completed = {} /\ failed = {} /\ tokens = 0
  /\ status = "running" /\ code = "none"
  /\ job = [t \in Tasks |-> "none"]
  /\ outcome = [t \in Tasks |-> "none"]
  /\ cost = [t \in Tasks |-> 0]
  /\ doomed = {} /\ cancel = FALSE /\ late = FALSE
  /\ wire = Quiet
  /\ consumer = IF streaming THEN "reading" ELSE "absent"
  /\ killed = FALSE /\ record = "none"

-----------------------------------------------------------------------------
(* The stream.  The consumer stops at the first terminal event: what is    *)
(* published after it is stored by the recorder but never sent.            *)

Started(w, t) ==
  IF w.terminals > 0 THEN w ELSE [w EXCEPT !.opened = @ \cup {t}]

(* subtask_completed or subtask_failed.                                    *)
Closed(w, t, good) ==
  IF w.terminals > 0 THEN w
  ELSE [w EXCEPT !.ok = IF good THEN @ \cup {t} ELSE @,
                 !.bad = IF good THEN @ ELSE @ \cup {t},
                 !.again = @ \/ t \in w.ok \cup w.bad]

Terminal(w) == [w EXCEPT !.terminals = @ + 1]

FailUnexpected(w) ==
  [w EXCEPT !.terminals = IF w.terminals > 0 THEN @ ELSE @ + 1, !.closed = TRUE]

(* The end of produce: a stream without terminal event is closed.          *)
CloseStream(w) == [w EXCEPT !.closed = @ \/ w.terminals = 0]

-----------------------------------------------------------------------------
(* The service: start, decomposition, terminal event, run record.          *)

Begin ==
  /\ pc = "new"
  /\ pc' = "decomposing"
  /\ wire' = [wire EXCEPT !.begun = TRUE]
  /\ UNCHANGED <<client, loop, verdict, work, doomed, killed, record>>

Decompose ==
  /\ pc = "decomposing"
  /\ pc' = "planned"
  /\ \E p \in Plans : plan' = p /\ pending' = DOMAIN p
  /\ UNCHANGED <<active, batch, completed, failed, tokens>>
  /\ UNCHANGED <<client, verdict, work, doomed, wire, killed, record>>

(* The provider fails or its answer has no usable shape.                   *)
DecomposeFails ==
  /\ pc = "decomposing"
  /\ pc' = "done"
  /\ wire' = IF streaming THEN FailUnexpected(wire) ELSE wire
  /\ UNCHANGED <<client, loop, verdict, work, doomed, killed, record>>

(* execute returns and run publishes the terminal event: no await between. *)
Return(s, c) ==
  /\ pc' = "emitting" /\ status' = s /\ code' = c
  /\ wire' = Terminal(wire)

Emitted ==
  /\ pc = "emitting"
  /\ pc' = "persisting"
  /\ UNCHANGED <<client, loop, verdict, work, doomed, wire, killed, record>>

(* _persist_run stores the record or logs that it could not.               *)
Persist ==
  /\ pc = "persisting"
  /\ pc' = "done"
  /\ record' \in {status, "none"}
  /\ wire' = CloseStream(wire)
  /\ UNCHANGED <<client, loop, verdict, work, doomed, killed>>

(* The consumer was cancelled while it waited for the producer, or the     *)
(* server cancels the request.  execute turns the CancelledError into a    *)
(* result and leaves the tasks it has started alone.                       *)
Kill ==
  /\ ~killed /\ consumer \in {"leaving", "absent"}
  /\ killed' = TRUE
  /\ \/ /\ pc \in {"new", "decomposing", "planned", "emitting", "persisting"}
        /\ pc' = "done"
        /\ wire' = IF pc = "new" THEN wire ELSE CloseStream(wire)
        /\ UNCHANGED verdict
     \/ /\ pc = "waiting"
        /\ Return("cancelled", "cancelled")
  /\ UNCHANGED <<client, loop, work, doomed, record>>

-----------------------------------------------------------------------------
(* _execute_dag.                                                           *)

concurrency ==
  IF Cardinality(DOMAIN plan) < MaxConcurrency
  THEN Cardinality(DOMAIN plan) ELSE MaxConcurrency

(* Mutation: a task is ready when nothing it depends on is still to come.  *)
ReadyUnlessPending ==
  {t \in pending : plan[t] \cap (pending \cup active) = {}}

Ready == {t \in pending : plan[t] \subseteq completed}

(* Mutation: in-progress tasks are left to themselves.                     *)
DoomNothing == doomed

Doom == doomed \cup {t \in active : job[t] \in Unfinished}

StopReturns(s, c) ==
  /\ Return(s, c)
  /\ doomed' = Doom
  /\ UNCHANGED <<client, loop, work, killed, record>>

OverBudget == Budget > 0 /\ tokens >= Budget

AtTop == pc \in {"planned", "loop"}

(* Mutation: in_progress does not keep the loop going.                     *)
LoopEndsEarly == pending = {}
LoopEnds == pending = {} /\ active = {}

PassCancelled == AtTop /\ ~LoopEnds /\ cancel /\ StopReturns("cancelled", "cancelled")

PassTimedOut ==
  AtTop /\ ~LoopEnds /\ ~cancel /\ late /\ StopReturns("timed_out", "timeout")

PassOverBudget ==
  /\ AtTop /\ ~LoopEnds /\ ~cancel /\ ~late /\ OverBudget
  /\ StopReturns("budget_exceeded", "budget_exceeded")

Proceeds == AtTop /\ ~LoopEnds /\ ~cancel /\ ~late /\ ~OverBudget

(* Ready tasks are created up to the limit, in the order of a set.         *)
PassStarts ==
  /\ Proceeds
  /\ \E S \in SUBSET Ready :
       /\ Cardinality(active \cup S) <= concurrency
       /\ S = Ready \/ Cardinality(active \cup S) = concurrency
       /\ active \cup S # {}
       /\ pending' = pending \ S
       /\ active' = active \cup S
       /\ job' = [t \in Tasks |-> IF t \in S THEN "created" ELSE job[t]]
  /\ pc' = "waiting"
  /\ UNCHANGED <<plan, batch, completed, failed, tokens, outcome, cost>>
  /\ UNCHANGED <<client, verdict, doomed, wire, killed, record>>

(* Mutation: nothing to wait for is waited for.                            *)
PassWaitsForNothing ==
  /\ Proceeds /\ active = {} /\ Ready = {}
  /\ pc' = "waiting"
  /\ UNCHANGED <<client, loop, verdict, work, doomed, wire, killed, record>>

PassDeadlock ==
  /\ Proceeds /\ active = {} /\ Ready = {}
  /\ Return("failed", "dependency_deadlock")
  /\ UNCHANGED <<client, loop, work, doomed, killed, record>>

PassEnds ==
  /\ AtTop /\ LoopEnds
  /\ IF failed = {} \/ policy = "skip" THEN Return("completed", "none")
                                       ELSE Return("failed", "subtask_failed")
  /\ UNCHANGED <<client, loop, work, doomed, killed, record>>

(* asyncio.wait returns with every task that is done by then.              *)
WaitReturns ==
  /\ pc = "waiting"
  /\ batch' = {t \in active : job[t] \in Finished}
  /\ batch' # {}
  /\ pc' = "collecting"
  /\ UNCHANGED <<plan, pending, active, completed, failed, tokens>>
  /\ UNCHANGED <<client, verdict, work, doomed, wire, killed, record>>

(* The result of one done task, in the order of a set.                     *)
Taken(t) ==
  /\ batch' = batch \ {t} /\ active' = active \ {t}
  /\ pc' = IF batch = {t} THEN "loop" ELSE "collecting"
  /\ UNCHANGED <<plan, pending, client, verdict, work, doomed, wire, killed, record>>

CollectCompleted(t) ==
  /\ pc = "collecting" /\ t \in batch /\ job[t] = "ended" /\ outcome[t] = "completed"
  /\ completed' = completed \cup {t}
  /\ tokens' = tokens + cost[t]
  /\ UNCHANGED failed
  /\ Taken(t)

CollectFailed(t) ==
  /\ pc = "collecting" /\ t \in batch /\ job[t] = "ended" /\ outcome[t] = "failed"
  /\ policy # "fail_fast"
  /\ failed' = failed \cup {t}
  /\ UNCHANGED <<completed, tokens>>
  /\ Taken(t)

(* Fail fast, and a cancelled subtask, end the run at once: results of the *)
(* batch that come after it are not looked at.                             *)
CollectFailFast(t) ==
  /\ pc = "collecting" /\ t \in batch /\ job[t] = "ended" /\ outcome[t] = "failed"
  /\ policy = "fail_fast"
  /\ failed' = failed \cup {t}
  /\ Return("failed", "subtask_failed")
  /\ doomed' = Doom
  /\ UNCHANGED <<plan, pending, active, batch, completed, tokens>>
  /\ UNCHANGED <<client, work, killed, record>>

CollectCancelled(t) ==
  /\ pc = "collecting" /\ t \in batch /\ job[t] = "ended" /\ outcome[t] = "cancelled"
  /\ StopReturns("cancelled", "cancelled")

(* task_coro.result() raises: execute reports it, nothing is cancelled.    *)
CollectCrashed(t) ==
  /\ pc = "collecting" /\ t \in batch /\ job[t] = "crashed"
  /\ Return("failed", "internal_error")
  /\ UNCHANGED <<client, loop, work, doomed, killed, record>>

-----------------------------------------------------------------------------
(* _execute_single_task.                                                   *)

JobGoes(t, at, o) ==
  /\ job' = [job EXCEPT ![t] = at]
  /\ outcome' = [outcome EXCEPT ![t] = o]
  /\ UNCHANGED <<client, loop, verdict, pc, killed, record>>

JobBegins(t) ==
  /\ job[t] = "created" /\ t \notin doomed
  /\ t \notin Unconfigured /\ ~(t \in Malformed /\ plan[t] # {}) /\ ~cancel
  /\ JobGoes(t, "running", "none")
  /\ wire' = Started(wire, t)
  /\ UNCHANGED <<cost, doomed>>

(* No configuration for the role; or the cancel event is set by now.       *)
JobRefused(t) ==
  /\ job[t] = "created" /\ t \notin doomed
  /\ \/ t \in Unconfigured /\ JobGoes(t, "handling", "failed")
     \/ /\ t \notin Unconfigured /\ ~(t \in Malformed /\ plan[t] # {}) /\ cancel
        /\ JobGoes(t, "handling", "cancelled")
  /\ wire' = Closed(wire, t, FALSE)
  /\ UNCHANGED <<cost, doomed>>

(* input_template.format raises something else than KeyError.              *)
JobCrashes(t) ==
  /\ job[t] = "created" /\ t \notin doomed
  /\ t \notin Unconfigured /\ t \in Malformed /\ plan[t] # {}
  /\ JobGoes(t, "crashed", "none")
  /\ UNCHANGED <<cost, doomed, wire>>

(* The agent run (or the chat call) comes back.                            *)
JobReturns(t) ==
  /\ job[t] = "running" /\ t \notin doomed
  /\ \E o \in {"completed", "failed", "cancelled"} :
       /\ o = "cancelled" => cancel
       /\ JobGoes(t, "closing", o)
       /\ wire' = Closed(wire, t, o = "completed")
  /\ \E n \in 0..MaxTokens : cost' = [cost EXCEPT ![t] = n]
  /\ UNCHANGED doomed

JobRaises(t) ==
  /\ job[t] = "running" /\ t \notin doomed
  /\ JobGoes(t, "handling", "failed")
  /\ wire' = Closed(wire, t, FALSE)
  /\ UNCHANGED <<cost, doomed>>

(* The recorder has stored the closing event.                              *)
JobEnds(t) ==
  /\ job[t] \in {"closing", "handling"} /\ t \notin doomed
  /\ JobGoes(t, "ended", outcome[t])
  /\ UNCHANGED <<cost, doomed, wire>>

(* A cancel() arrives: a task that has not begun never does, one inside    *)
(* the try block reports itself as failed (a second time if it was just    *)
(* reporting its end), one inside an except block ends.                    *)
JobCancelled(t) ==
  /\ t \in doomed
  /\ doomed' = doomed \ {t}
  /\ \/ /\ job[t] \in {"created", "handling"}
        /\ JobGoes(t, "dropped", outcome[t])
        /\ UNCHANGED wire
     \/ /\ job[t] \in {"running", "closing"}
        /\ JobGoes(t, "handling", "cancelled")
        /\ wire' = Closed(wire, t, FALSE)
  /\ UNCHANGED cost

-----------------------------------------------------------------------------
(* The consumer and the clock.                                             *)

Leave(c) ==
  /\ consumer' = "leaving" /\ cancel' = c
  /\ UNCHANGED <<streaming, policy, late>>
  /\ UNCHANGED <<loop, verdict, work, pc, doomed, wire, killed, record>>

ConsumerReads ==
  /\ consumer = "reading"
  /\ wire.terminals > 0 \/ wire.closed
  /\ Leave(cancel \/ pc # "done")

Disconnect == consumer = "reading" /\ Leave(TRUE)

ConsumerEnds ==
  /\ consumer = "leaving" /\ pc = "done"
  /\ consumer' = "closed"
  /\ UNCHANGED <<streaming, policy, cancel, late>>
  /\ UNCHANGED <<loop, verdict, work, pc, doomed, wire, killed, record>>

Tick ==
  /\ Timed /\ ~late
  /\ late' = TRUE
  /\ UNCHANGED <<streaming, policy, cancel, consumer>>
  /\ UNCHANGED <<loop, verdict, work, pc, doomed, wire, killed, record>>

Pass ==
  \/ PassCancelled \/ PassTimedOut \/ PassOverBudget
  \/ PassStarts \/ PassDeadlock \/ PassEnds

Collect(t) ==
  \/ CollectCompleted(t) \/ CollectFailed(t) \/ CollectFailFast(t)
  \/ CollectCancelled(t) \/ CollectCrashed(t)

Produce ==
  \/ Begin \/ Decompose \/ DecomposeFails
  \/ Pass \/ WaitReturns \/ (\E t \in Tasks : Collect(t))
  \/ Emitted \/ Persist

Job(t) ==
  \/ JobBegins(t) \/ JobRefused(t) \/ JobCrashes(t)
  \/ JobReturns(t) \/ JobRaises(t) \/ JobEnds(t) \/ JobCancelled(t)

Next ==
  \/ Produce \/ Kill
  \/ \E t \in Tasks : Job(t)
  \/ ConsumerReads \/ Disconnect \/ ConsumerEnds \/ Tick

Spec == Init /\ [][Next]_vars

(* The event loop runs every task that can go on; provider, agent runs and *)
(* database answer or fail in the end (they have timeouts of their own).   *)
FairSpec ==
  /\ Spec
  /\ WF_vars(Produce)
  /\ \A t \in Tasks : WF_vars(Job(t))
  /\ WF_vars(ConsumerReads) /\ WF_vars(ConsumerEnds)

-----------------------------------------------------------------------------
(* Properties.                                                             *)

Statuses == {"running", "completed", "failed", "cancelled", "timed_out",
             "budget_exceeded"}

TypeOK ==
  /\ streaming \in BOOLEAN /\ policy \in Policies
  /\ pc \in {"new", "decomposing", "planned", "loop", "waiting", "collecting"} \cup Over
  /\ DOMAIN plan \subseteq Tasks
  /\ pending \subseteq DOMAIN plan /\ active \subseteq DOMAIN plan
  /\ batch \subseteq active
  /\ completed \subseteq DOMAIN plan /\ failed \subseteq DOMAIN plan
  /\ tokens \in Nat
  /\ status \in Statuses
  /\ code \in {"none", "cancelled", "timeout", "budget_exceeded", "subtask_failed",
               "dependency_deadlock", "internal_error"}
  /\ job \in [Tasks -> {"none"} \cup Unfinished \cup Finished]
  /\ outcome \in [Tasks -> {"none", "completed", "failed", "cancelled"}]
  /\ cost \in [Tasks -> 0..MaxTokens]
  /\ doomed \subseteq Tasks
  /\ cancel \in BOOLEAN /\ late \in BOOLEAN /\ killed \in BOOLEAN
  /\ wire \in [begun : BOOLEAN, opened : SUBSET Tasks, ok : SUBSET Tasks,
               bad : SUBSET Tasks, again : BOOLEAN, terminals : Nat, closed : BOOLEAN]
  /\ consumer \in {"absent", "reading", "leaving", "closed"}
  /\ record \in Statuses \cup {"none"}

(* The dependencies of the plan are honoured on the wire: no client sees a *)
(* subtask start before every subtask it depends on is reported completed. *)
DependenciesHonoured == \A t \in wire.opened : plan[t] \subseteq wire.ok

(* Up to the terminal event every subtask is reported completed or failed  *)
(* at most once, also when it is cancelled while it reports its end.       *)
ReportedOnce == ~wire.again

(* A run that reports success has nothing outstanding: every subtask of    *)
(* its plan was reported, none is still at work, and one that failed was   *)
(* tolerated by the policy.                                                *)
CompletedIsTrue ==
  status = "completed" =>
    /\ DOMAIN plan = wire.ok \cup wire.bad
    /\ wire.bad # {} => policy = "skip"
    /\ \A t \in Tasks : job[t] \notin Unfinished

(* A stream ends with exactly one terminal event, unless the producer is   *)
(* cancelled before it has a plan to execute.                              *)
EndsWithTerminal ==
  /\ wire.terminals <= 1
  /\ pc = "done" /\ streaming /\ ~killed => wire.terminals = 1

(* Once the result is out, every subtask still at work has been told to    *)
(* stop.  Two ways out leave orphans behind: a cancelled producer and a    *)
(* subtask that raises.                                                    *)
NoOrphans ==
  (pc \in Over /\ ~killed /\ code # "internal_error") =>
     \A t \in Tasks : job[t] \in Unfinished => t \in doomed \/ job[t] = "handling"

(* The counted tokens pass the budget by what one round of concurrent      *)
(* subtasks may use.                                                       *)
OverrunBounded ==
  Budget > 0 => tokens < Budget + MaxConcurrency * MaxTokens

(* The tasks of a plan can be ordered: no cycle, no unknown id.            *)
Orderable(p) ==
  \A S \in SUBSET DOMAIN p : S # {} => \E t \in S : p[t] \subseteq DOMAIN p \ S

(* "Deadlock: pending tasks with unsatisfied dependencies" is reported for *)
(* a plan that can be ordered only after a subtask has failed.             *)
DeadlockIsReal ==
  code = "dependency_deadlock" => failed # {} \/ ~Orderable(plan)

(* What the wire tells of the subtasks and of the end of the run is what   *)
(* happened.                                                               *)
ReportsAreTrue ==
  ReportedOnce /\ CompletedIsTrue /\ EndsWithTerminal /\ DeadlockIsReal

(* Every run ends and its stream is closed, whatever the plan looks like.  *)
RunEnds == <>(pc = "done" /\ consumer \in {"absent", "closed"})

(* "With SKIP policy, run completes even if one task fails".               *)
SkipCompletes ==
  (policy = "skip" /\ Orderable(plan)) => code # "dependency_deadlock"

-----------------------------------------------------------------------------
(* The inductive invariant behind the safety properties.                   *)

(* The sets of _execute_dag split the plan; a failed dependency is never a *)
(* completed one, so the branch that skips dependents cannot be reached.   *)
Split ==
  /\ pending \cap (active \cup completed \cup failed) = {}
  /\ completed \cap (active \cup failed) = {}
  /\ pc \notin Over => /\ active \cap failed = {}
                       /\ DOMAIN plan = pending \cup active \cup completed \cup failed
  /\ pc \in {"new", "decomposing"} => DOMAIN plan = {}
  /\ pc \in {"new", "decomposing", "planned"} => active = {} /\ completed = {} /\ failed = {}

(* A subtask has an asyncio task once it has left pending, which it does   *)
(* when its dependencies are completed.                                    *)
JobsMatch ==
  \A t \in Tasks :
    /\ job[t] = "none" <=> t \notin active \cup completed \cup failed
    /\ job[t] # "none" => plan[t] \subseteq completed
    /\ t \in completed => job[t] = "ended" /\ outcome[t] = "completed"
    /\ t \in failed => job[t] = "ended" /\ outcome[t] = "failed"
    /\ t \in batch => job[t] \in {"ended", "crashed"}

(* Before the terminal event nothing is cancelled and the wire tells what  *)
(* the tasks do.                                                           *)
Told(t) ==
  /\ job[t] # "dropped"
  /\ t \in wire.opened => job[t] \notin {"none", "created"}
  /\ t \in wire.ok <=> job[t] \in {"closing", "handling", "ended"} /\ outcome[t] = "completed"
  /\ t \in wire.bad <=> job[t] \in {"closing", "handling", "ended"} /\ outcome[t] # "completed"

WireMatches == wire.terminals = 0 => doomed = {} /\ \A t \in Tasks : Told(t)

(* The terminal event is out exactly when the result is.                   *)
TerminalMatches ==
  /\ wire.terminals \in {0, 1}
  /\ wire.terminals = 0 => status = "running" /\ code = "none"
  /\ pc \notin Over => wire.terminals = 0
  /\ pc \in {"emitting", "persisting"} => wire.terminals = 1
  /\ pc = "done" /\ wire.terminals = 0 => active = {} /\ (killed \/ ~streaming)

DagInv ==
  /\ TypeOK /\ Split /\ JobsMatch /\ WireMatches /\ TerminalMatches
  /\ DependenciesHonoured /\ ReportedOnce /\ CompletedIsTrue /\ NoOrphans
=============================================================================
