# A verification project for ai-platform-mini

ai-platform-mini is a small multi-tenant AI platform: a FastAPI backend (`src/app`) that
meters and forwards chat requests to model providers, runs tool-using agents and teams of
agents, ingests documents into a knowledge base, executes workflows, and streams all of it
to a web frontend. This project models its concurrent core in TLA+, checks the models with
TLC on small instances and proves their main properties with TLAPS for all instances.

Contents: [inventory](#1-inventory) · [plan](#2-plan) · [modules](#3-the-modules) ·
[runs](#4-runs) · [fairness](#5-fairness) · [proofs](#6-proofs) ·
[what is only model-checked](#7-what-is-only-model-checked) ·
[where documents and code disagree](#8-where-documents-and-code-disagree) ·
[not modelled](#9-what-is-not-modelled) · [how to run it](#10-how-to-run-it)

## 1. Inventory

The backend is a set of worker processes, each one asyncio event loop, that share a
PostgreSQL database. Two sources of concurrency follow: coroutines of one process interleave
at their awaits, and transactions of several processes interleave at their statements. No
endpoint holds a transaction over two repository calls, so nearly every request is a sequence
of read, decide, write between which other requests and the end of its own client may come.

| Part | State | Operations | What is hard | What makes it correct | Modules |
|---|---|---|---|---|---|
| Quota ledger (`app/quota`) | rows of `quota_reservations`, usage records, overrides, advisory locks | reserve, extend, renew, settle, release, clean up, set override | admission is read-then-write over several statements; leases expire under their owner; workers crash; the pool is finite | no admission lifts reservations over a limit; an expired lease comes back only by a renewal under way; no leaked row; waits end | `QuotaLedger` |
| RAG ingestion (`app/rag/queue.py`, `ingestion.py`, `pg_vector_store.py`, `app/api/rag.py`) | task table and queue per process, document rows, one advisory lock | upload, consume, store, delete, start, stop | processes with different embedding models; stop races the consumer; checks before a long embed call | one embedding model in the store; no duplicates; a verdict is final; accepted work ends | `RagIngestion` |
| RAG retrieval (`app/rag/hybrid.py`, `service.py`, `pg_vector_store.py`) | - | search, fuse, cut, build a context | ties, one empty path, the normalised threshold | sources are the tenant's, allowed and relevant | `RagSearch` |
| Agent runtime (`app/agents`, `app/services/agent_service.py`, `app/api/agent.py`) | steps, events, usage meter, reservation, event stream | decide, stream an answer, execute tools, stop, record, settle, serve the stream | cancel event, deadline, lost lease, task cancellation and result compete at each await | one terminal event; steps closed; one answer; charged before settled; cancellation wins; the run ends | `AgentRuntime` |
| Tools and MCP (`app/tools`, `app/mcp`) | registered tools, the pipe to a server | register, execute, shorten an output, request | late answers; outputs at a limit under a schema | a call has its own answer; an output fits and is valid | `ToolExecutor`, `ToolValue`, `ToolOutput`, `McpClient` |
| Views of a run (`app/api/agent.py`, `app/runs`, run records) | frames, record, trace | project, store, replay | call ids that repeat; a run stopped inside a call | the three views tell one story | `RunView`, `AgentTrace` |
| Orchestrator (`app/multi_agent`, `app/api/multi_agent.py`) | pending, in progress, completed, failed; asyncio tasks; event stream | decompose, pass of the DAG loop, collect, subtask steps, serve the stream | plans from a language model; fail-fast in the middle of a batch; cancellation of tasks that are reporting | dependencies honoured; reports once; completion is true; no orphans; the run ends | `Orchestrator` |
| Its event log (`app/multi_agent/events.py`, `multi_agent_run_record_service.py`) | recorded events, run row | stamp, record, replay | each inner event is a task of its own; inserts fail; a cap | inner events lie inside their subtask; a replay is settled | `RunTimeline` |
| PDF report workflow (`app/workflows`, `app/services/workflow_service.py`) | run row, checkpoint, approval state | start, pause, approve, reject, resume | approval by two people at once; crash between status and work | one decision per draft; one driver; final outcomes | `ReportWorkflow` |
| Workflow engine and builder (`app/workflows/engine`, `app/workflow_builder`) | workflow row, run rows | create, update, publish, unpublish, delete, validate, run | edits and runs race without a lock; a condition replaces the active set | an execution is a path; a run keeps its definition; what is validated can be executed | `WorkflowEngine`, `WorkflowBuilder` |
| Gateway (`app/api/openai.py`, `chat.py`, `app/services/chat_service.py`, `openai_service.py`) | reservation, usage, what the client has, the stored turn | admit, prepare, reserve, call, stream, record, settle, save | a client that leaves at any frame; each step may fail | an answer is complete only when it is charged and settled | `Gateway`, `ChatExchange` |
| Its parts (`app/ratelimit`, `app/conversations`, `app/providers`) | time stamps per key; threads; a decoder's locals | check and record; merge, summarise, append; decode | window boundaries; turns that interleave; truncated streams | prompts are whole; threads are in order | `RateLimit`, `Conversations`, `ProviderStream` |
| Tenancy (`app/auth`, `app/billing`) | users, keys, workspaces, memberships, subscriptions | register, log in and out, manage members, keys and plans, bootstrap | registration is four transactions; two managers at once; restarts over revoked keys | a workspace keeps its owner; keys stay in their tenant; revoked stays revoked | `Tenancy` |
| Content (`app/prompts`, `agent_config`, `memory`) | template versions, agents, bindings, memories | version, activate, bind, edit, delete, recall | edits under a run; two writers | references resolve, and to one version but for an insert into an activation; a record names a version in force during its run; deleted stays gone | `AgentCatalog`, `Memories`, `AgentHistory` |
| Frontend, evaluation, audit, admin, health, settings, schemas | - | - | sequential, declarative or rendering | - | - |

How they interact: the chat endpoints, `AgentService` and through it each subtask of the
orchestrator reserve quota before they call a provider, hold the reservation as a lease that
a background task renews (`ReservationLifecycle`), write a usage record and settle. The lease
interrupts its owner when a renewal fails. Endpoints that stream run a producer task and a
consumer generator joined by a queue and a cancel event. The orchestrator calls
`AgentService.run` for each subtask and hands its cancel event on.

The hazards, each at its line and with the properties that would catch it going wrong, are
listed in `PROJECT.json`.

## 2. Plan

The order of modelling was: money and concurrent transactions (`QuotaLedger`), queue and
shared store (`RagIngestion`), the run loop (`AgentRuntime`), the DAG (`Orchestrator`), the
approval workflow (`ReportWorkflow`); then the rest of the platform around them
(`WorkflowBuilder`, `Tenancy`, `Gateway` with its abstract specification, `RunTimeline`,
`AgentHistory`, `AgentTrace`). All of these are done.

How modules compose:

```
ChatExchange <== refined by == Gateway = RateLimit + Conversations + ProviderStream
AgentTrace   = ToolExecutor (RagSearch, McpClient) + RunView, over ToolValue
               with ToolOutput for its parameters in the run
AgentHistory = AgentCatalog + Memories
WorkflowBuilder = WorkflowEngine
RagSearch, ToolValue, WorkflowEngine = Lists (the loops)
```

What is left that would be worth doing: abstract specifications of the *stream* (begun, at
most one terminal, closed) for both streaming endpoints and of a *task* (queued, processing,
a final verdict) for `RagIngestion`; the reducers of the frontend.

## 3. The modules

One module per component, an `MC` module with its small instances, and a `Proofs` module
where there are proofs. An action is what happens between two awaits that matter to other
actors: one database round trip, one provider call, or a stretch of code without await.
Definitions whose comment says "Mutation" are plausible bugs, used to show that a property can
fail; nothing else uses them.

### QuotaLedger

`QuotaService` over `PostgresQuotaRepository`, one action per round trip. A request names its
row. `Reserve`, `Extend` start a call; `Begin` opens the transaction and fixes `now()`
(`txnow`), `Locked` gets `pg_advisory_xact_lock` of the scope, and
`ReadDailyUsed`/`JudgeDaily`/`ReadMonthlyUsed`/`JudgeMonthly` are the statements in their
order: the usage is read through another pooled connection, hence in a snapshot of its own,
and then the reservations are summed and compared. `Commit` writes, `Deny` rolls back.
`Enter`, `RecordUsage`, `Finalize`, `FinalizeFails`, `Cancel` are
`ReservationLifecycle` and the request inside it; `Abandon` is a cancellation between the
commit and the entry of the lifecycle, `Crash` ends a worker with its transactions.
`SetWorkspaceQuota` and `ChangePlan` change limits under way (`Effective`: override, plan,
settings), `Tick` is the clock, which also says which day it is (`DayOf`). SQL sums are cardinalities of sets of token
units, which is what lets the proofs argue by inclusion.

A renewal is a task beside its request, in three steps: `RenewStart` computes the new expiry by
the clock of that moment, `RenewBegin` gets a connection and freezes `now()`, `RenewCommit` is
the UPDATE, which may have waited for the row (`RowLocked`), with its commit. Time, expiry and
other requests' judgements may come between any two of them, so that a lease may be written
late, and after it has run out. `RenewFails` is the empty UPDATE, the pool's timeout and the
database error; a request that is inside an extend then learns of it at the end of that.
`_stop_renewal` (`StopRenewal`) waits for the task before the row is deleted. `revived` is a
history variable: who judged without a row that was renewed afterwards.

### RagIngestion

`Count` and `Submit` are the upload handler around its await; `Take` the consumer; `ListNames`,
`Embed`, then the transaction of `add_document`: `LockConfig`, `CheckModel`, `CheckContent`,
`CheckName`, `Save`; `Complete` and `CallFails` give the verdict. `Stop` drains the queue and
puts the stop item, `StopReturns`, `StopCancelled` and `Interrupted` are its ends, `Crash`
loses the process and keeps the store.

### AgentRuntime

`Begin`, `Check`, `Decide...`, `StreamChunk/Ends/Fails`, `StartTool`, `ToolReturns`, `StepEnds`
are `AgentRuntime.run`; `StopAwaiting` and `Abandon` are `_await_controlled`, which lets an
operation that is done win over a stop that comes with it (`Resumed`). `Finish` is `_finish`
with everything it publishes. `Reserve`, `RunReturns`, `RecordUsage`, `Finalize`, `Unwind`,
`RenewalFails`, `Kill` are `AgentService._run` inside the lifecycle; `CallerEnds`, `Receive`,
`Disconnect`, `ConsumerEnds` the endpoint. Events are kept as what the stream's contract tells
apart. `spent`, `reported` and `effects` are history variables.

### Orchestrator

`Begin`, `Decompose`, `DecomposeFails`, `Emitted`, `Persist` are `MultiAgentService.run` and
`produce`. `Pass...` are the branches of one pass of `_execute_dag` (cancel, timeout, budget,
start, deadlock, end), `WaitReturns` is `asyncio.wait`, `Collect...` look at one done task each
in the order of a set. `Job...` are the stretches of `_execute_single_task`, including what a
`cancel()` does to it before it began, inside the agent run, while its closing event is being
stored and inside an exception handler. `Return` publishes the terminal event: no await lies
between the end of `_execute_dag` and it. A plan maps ids to the ids they depend on; nothing
excludes cycles or unknown ids, because nothing in the code does. The branch of
`_execute_dag` that skips dependents of failed tasks is inside a test it contradicts (`Split`
says why) and so has no action.

### ReportWorkflow

One PDF report run. `Start`, `Create`, `CreateRaises` are `PDFReportWorkflowService.start`;
`Claim`, `Refuse`, `ClaimRaises` the conditional update of `approve` and `reject`, and `Resume`
the load of the checkpoint. `ParsePdf` to `GenerateReport` are the nodes, `Route` the
conditional edge, `Interrupt` the pause. `Save` is LangGraph writing the checkpoint while
nodes go on and `Return` its flush before `ainvoke` returns (both external). `Finalize`,
`FinalizeRaises`, `RecordFailure` are the last write to the row; a write that raises may or may
not have been committed. `Cancel` and `Crash` lose a call, with and without `finally`.
`ReadRow`, `ReadSnapshot` are `get_status`. A draft is its number, feedback is the call that
gave it; the stage of the row follows its status and is left out. `decisions` and `lost` are
history variables.

### WorkflowEngine and WorkflowBuilder

`WorkflowEngine` is pure: `ValidDefinition` and its checks, `TopologicalOrder`, what each type of
node may return (`Outcomes`), and the state of one execution, which `NodeDone` takes one node
further, with `Reactivate` for the branch that a condition selects. A text is the set of its words. The loops of `topological_order` are
recursive functions over the position: `Links` and `Out` are the adjacency lists with their
places, so that a target named twice is there twice as in the code, `KahnTurn` orders the first
ready node and visits its targets (`Visit`), `KahnTurns` is the state after each turn.
`WorkflowBuilder` has one workflow row, its run rows
and requests at their round trips: `create.check`, `update.write`, `publish.write`,
`run.create`, `run.engine`, `run.finalize` and so on are positions of `pc`. On PostgreSQL
everything may come between two positions; in memory nothing suspends, and the record that is
read is the stored object, so an edit that is refused later has already changed the name.
Every round trip there may also end the request without an answer of the code (`Broken`: the
client has gone, or the database raises): before its commit (`Interrupt`) or after it, as in
the refresh that follows an insert (`RespondCommitted`, `CreateRun`, `UpdateRun`). The end of a
run is `FinalizeRun`, which reads the row, and `UpdateRun`, which writes it; either may break,
and the row then stays running. `CancelRun` is a cancellation in the engine. `SetEnabled` turns off an agent or a
tool under a stored workflow.

### Tenancy

Registration (`RegisterCheck` to `RegisterKey`), login, `Logout`, `CreateWorkspace`, members
(`AddMember`, `UpdateMemberRole`, `RemoveMember` after `RequireMemberRole`), keys of users and
administrators, `AssignPlan`, each as the transactions it is made of;
`Interrupt` cuts a request off, `BootstrapKeys` is what every start does. A user is named by
the email, a workspace and a key by the request that makes it. `StatusCode` is the
table from exceptions to status codes that the handlers in `core/exceptions.py` give.

### Gateway, ChatExchange and the modules it is made of

`RateLimit.CheckAndRecord` is the sliding window with stamps kept as ages. `Conversations` has
the threads and `MergeHistory`, `DropRetriedTurn`, `BuildShortTermContext` with its summary and
budget. `ProviderStream` has routing and the decoders: a line is a record of what the code
tests of it, and `OpenAIChatStream`, `OllamaChatStream` say for a decoder state and a line
whether it is skipped, yielded, held back, the last one, or an error. `Gateway` takes a request
through them: `Begin`, `ResolveThread`, `PrepareThread`, `Reserve`, `ServiceChat` or
`StartStream`/`ReadLine`, `RecordUsage` or `RecordFailed`, `Settle` or `Release`, `SendDone`,
`SaveUser`, `SaveAssistant`, `Respond`; `RenewalFails` and `Disconnect` may come in between, and
after a disconnection every await on the way out may be cancelled as well.

`ChatExchange` is the promise, without any of this: a reservation, rows of usage, what the
client has and what is remembered. `Gateway!ExchangeKept` is its `Spec` with `hold <- lease`
and `charged` the number of usage rows.

### RunTimeline

Every event passes `Emit`, which stamps it, queues it for the client and hands it to the
recorder; `SaveEvent` is the end of the recorder's INSERT, which may fail or find the cap
reached. `StartSubtask` to `EndSubtask` are the lifecycle of a subtask, whose inner events are
tasks of their own (`Observe`, `RunTask`) that `Drained` waits for; one that is cancelled
before it began stays queued as `GivenUp` and ends without an event. `StopRun` cancels,
`StreamFailUnexpected` makes up a terminal event that only the client sees, `PersistRun` writes the
row, `Replay` is the read endpoint.

### AgentCatalog, Memories and AgentHistory

`AgentCatalog` has template rows of a workspace and global ones (`CreateVersion`,
`InsertVersion`, `Activate`, `SetActive`, `ActivateFails`), one agent with its bindings (`CreateAgent` inserts before
its tools are validated; `UpdateAgent` writes the whole row it read) and the enabling of tools.
An activation is two steps: the first UPDATE of `set_active` clears the rows of its snapshot
(`seen`), for whose locks it may wait, and the second sets the target; a row inserted in between
is not cleared, and a deadlock rolls back.
`Memories` has items by owner scope and what `update`, `delete`, `mark_used` and `retrieve`
do to them. `AgentHistory` runs one agent over both: the reads of `AgentService._run` one
after the other, and those of `_persist_agent_run` after the run, each of which may raise
(`LookUpFails`). Two history variables say what cannot be read off the rows: `inForce`, the
versions that a reference resolved to since the run has read its agent, and `overlapped`, the
scopes in which a version was inserted into an open activation.

### ToolValue, ToolOutput, ToolExecutor, RagSearch, McpClient, RunView and AgentTrace

`ToolValue` has the JSON values and schemas of tools and the shell of
`_serialize_and_truncate_output`: an output that fits is left alone, and of one that does not
the first form that fits and is valid is taken. What recurses over a value is a parameter:
`Size`, `Conforms`, `Shortened` and `Smallest`. `ToolOutput` defines these for the run (`Chars`,
`ValidateSchema`, `Shorten`, `SchemaFallback`): strings shortened longest first, then list items,
then keys, under a schema. `RagSearch` has both searches of the store, reciprocal rank fusion
with integer scores (multiplied by all denominators, so ties and the threshold are exact) and the
context. The distance and the rank of a chunk stand for the order in which the database returns
it: where two are equal PostgreSQL picks one, and the numbers here say which.
`McpClient` has the handshake, the listing and the pipe: the ids still to be answered.
`ToolExecutor` is one call: lookup, permission, schema, effect, output. `RunView` is what
`api/agent.py` shows of an event, of a step and of a call, and what the trace recorder keeps
(`Sanitize`, `Snapshot`). `AgentTrace` runs a model's decisions through them.

`Lists` has the loops over a list that `RagSearch`, `ToolValue` and `WorkflowEngine` need
(`Among`, `Total`, `Sorted`), as functions of the position, which can be proved about.

## 4. Runs

| Run | Instance | Distinct states | Shows |
|---|---|---|---|
| `quota_lease` | 2 requests, 2 workers, 2 days of a month, TTL 2, clock 0..3, daily 2, monthly 3 | 1,331,290 | every admission within its limits, leases revived only by renewals begun in time and never cut short (`LeasesHold`), no leak |
| `quota_contention` | 3 requests, 1 worker, 2 connections, changing plan and override | 67,382 | waits end although waiters can take every connection the lock holder needs; overshoot at most one limit |
| `rag_ingestion` | 2 processes of different models, 4 clashing uploads, one unreadable, queue of 1 | 91,329 | one model and no duplicates (`StoreConsistent`), final verdicts, queue and task table agree; each accepted task and each stop ends (`QueuesDrain`) |
| `agent_run` | 3 steps, 2 tools (one calculator), 2 calls per decision, budget 5, calls of up to 3 tokens | 1,412,759 | `StreamContract`, `BudgetKept`, `OncePerRun`, `CancelWins`; the run ends |
| `orchestration` | plans: join, fork, flat, cycle, stray id, malformed template, none; 3 policies; concurrency 2; budget 1 | 1,436,251 | order on the wire, `ReportsAreTrue`, no orphans; the run ends |
| `report_run` | 2 reviewers and 1 call of another tenant; approval asked for or not; 0 or 2 revisions | 246,470 | `RunCoherent` (one driver, resumable, coherent views), `DecisionsKept`, final outcomes; the run ends |
| `workflow_builder` | 3 requests, 4 nodes, 321 drafts of edges and branches, 2 edits, both repositories, the two requests that do not create interchangeable | 842,500 | executions are paths, Kahn's loop agrees with the definition of a cycle, stored runs are sound, history is kept |
| `tenancy` | 3 requests, 3 users (1 new), 2 configured keys, 1 plan of 2 members, both backends, restarts | 287,966 | owners and accounts usable, tenants apart, keys kept |
| `gateway` | 2 requests on an old or a new thread, 3 keys, limit 1, 19 shapes of lines, streams of 2 lines and an end | 728,262 | `[DONE]` is earned, threads and prompts whole, refinement of `ChatExchange` |
| `run_timeline` | 2 subtasks, 1 inner event each, 1 failing insert, cap 8 | 3,895,500 | inner events nested, replay settled; no deadlock before the run is over |
| `agent_history` | 2 clients, 3 versions, 1 tool, 2 users, 1 memory, 7 catalog transactions | 2,619,360 | references resolve (`VersionsUsable`), the record names a version in force during its run, deleted stays gone |
| `agent_trace` | 2 steps, 8 decisions, 6 effects, 7 stores, 6 limits, 3 servers | 171,474 | three views agree, outputs fit, sources relevant, answers own |

Why the bounds are enough. *Quota*: the critical pattern is one transaction judging while
another commits, settles or expires; two requests and a third for the pool reach it, TTL 2
with clock 3 has leases that live, are renewed, expire, are cleaned up, and run out while a
renewal that was computed or begun before waits to be written; two days of one month make the
daily and the monthly limit differ, with leases that live over midnight (the proofs are for any
calendar). *RAG*: four uploads include every kind of clash
(name, content, model, unreadable), a queue of one is full at once. *Agent*: three steps reach
the cache (a call repeated in a later step), the last-step answer and every budget boundary.
*Orchestrator*: three tasks with concurrency 2 have one waiting, one running and one being
collected; budget 1 with subtasks of 0 or 1 tokens is reached and missed. *Report*: two
reviewers race for the first draft and can then reject two drafts in a row, which exhausts the
larger limit; the smaller one ends with the first rejection. *Workflow builder*: the drafts are
all sets of six edges over four nodes with four lists of branches (none, two, one without a
default, two defaults), so cycles through edges, through branches and through both are there;
three requests are one that creates and two that race. *Tenancy*: an interrupted request, one
that races it and one that comes after; the new email may be registered twice. *Gateway*: two
turns interleave on one thread, a context of three messages overflows with the second history,
two lines and an end hold every order of piece, terminal chunk and late counts. *Timeline*:
with two subtasks one is cancelled while the other reports; a whole run has nine events and
more, so that cap 8 is passed. *History*: seven transactions are two requests that race for
every pair of operations and a deletion after them. *Trace*: the limits lie on both sides of
every fallback of the shortening, the stores on both sides of every cut of the retrieval, and
an id comes again in the second step.

Deadlock checking is off where the modelled system really stops (a served request, a stopped
process, an ended run); in `run_timeline` it is on, with a self-loop `TimelineOver` for the end.

## 5. Fairness

* `QuotaLedger.FairSpec`: weak fairness of every transaction's statements (the database
  answers or the pool's `timeout` raises) and strong fairness of the lock's hand-over
  (PostgreSQL queues lock waiters).
* `RagIngestion.FairSpec`: the event loop runs the consumer and the stopping task; provider and
  database calls return or fail, since both clients have timeouts; the advisory lock is handed
  over (strong fairness).
* `AgentRuntime.FairSpec`: the runtime's own steps, the service, the consumer and the clock.
  *No* fairness for provider and tools: `RunEnds` says that the deadline ends a run whose
  provider never answers.
* `Orchestrator.FairSpec`: the loop, every subtask and the consumer. A subtask's agent run ends
  because of what `AgentRuntime.RunEnds` says; `total_timeout` alone would not do, it is only
  looked at between two waits.
* `ReportWorkflow.FairSpec`: every call that drives the run. Its nodes call the store and the
  provider, whose clients have timeouts. Reviewers and pollers owe nothing.

The other modules state safety only and have no fairness: what must end in them is either a
single request, whose awaits the clients' timeouts bound, or a run whose progress
`AgentRuntime` and `Orchestrator` already have.

Neither crashes, cancellations, disconnections nor administrators are fair.

## 6. Proofs

All theorems hold for every value of the constants that satisfies the module's named
assumptions: finiteness of the request and upload sets, types of the limits, positive sizes,
names that stand for nothing (`None`, `Nobody`, `NoThread`) being none of the things; for the
orchestrator only that plans are over the task ids. The gateway's inputs have the shape of what
the code parses and stores (`LinesAssumption`, `TextsAssumption`: an old history never has more
answers than questions, and the text of an answer of a request is told apart from all others).
The workflow builder's definitions have the shape that the JSON schema of a definition gives
(`BuilderAssumption`, which is `IsDefinition`: it says nothing of cycles, of nodes named twice
or of edges that leave the graph), and the recorder's cap is a positive number
(`TimelineAssumption`). For the run with its views: the numbers of a stored chunk are in their
ranges and each search returns chunks in one order (`BasesAssumption`, with `IsBase`), a server's
tools have no name the platform has, which the registry refuses (`ServersAssumption`), and a
decision is a call with an id and an object of arguments (`DecisionsAssumption`). Nothing is
assumed of the four parameters of `ToolValue`: what is proved of a run holds whatever a value's
length, its validation and its shortening are.
Where a theorem has a hypothesis of its own it is given below. Each proof finds an inductive
invariant, shows it of `Init` and of each action, and derives the properties from it.

* **QuotaLedgerProofs**. `AdmissionWithinLimits` is an action property about the commit: what
  was judged must still hold when it is written. `LedgerInv` carries that across the
  statements: a transaction past the lock holds it (`LockHeld`); its snapshot time is not in
  the future (`SnapshotPast`), so what counts at commit time counted when judged; and the room
  found by a judgement is still there (`Judged`). Steps of others can only remove units from
  the counted set, or, for a renewal, keep a unit that was counted or bring one back that the
  judgement did not see: `Known` leaves these out, and `AdmissionWithinLimits` says it of them.
  `RowShape` says that an extend still finds the row it judged, `RenewalShape` that a renewal
  under way belongs to a request in use and carries no earlier expiry than the row has
  (`NeverShortened`), `ExpiryWritten` who writes an expiry at all. `OversubscriptionBounded` is about a day in which no
  reservation expires, nothing is used beyond what was reserved and no plan raises the limit
  (`SteadyDay`, the hypothesis of `Oversubscription` and the instance of the run): `SteadyInv`
  counts units that are reserved or used, and says of a request between its two reads how many
  it may have missed (`Missed`): what was reserved when it read the usage, at most one limit.
  Theorems: `LedgerInvariant`, `TypeCorrect`, `Admission`, `RevivalsBeganInTime`,
  `RenewalsOnlyLengthen`, `NoLeak`, `LeasesAreKept`, which joins the three action properties, and
  `Oversubscription`.
* **RagProofs**. `StoreInv`: whoever is inside the store transaction holds the lock,
  and what its reads have established stays true until it inserts, since deletions only remove.
  `VerdictInv`: what the queue and the consumer hold has no verdict yet, nothing is queued
  twice, a stopping queue is drained. `HeldInv` is the converse: a task that waits or is being
  processed is held by its process, as long as that lives. Theorems: `StoreInvariant`,
  `OneModel`, `NoDuplicates`, `VerdictInvariant`, `VerdictFinal`, `Consistency`,
  `QueueMatches`.
* **RagProofs**, on a run and its tools. `StepsInv`: a step has no call, or one call of the model
  and at most one result; the result is text, or shortened, or what the tool gave, and then a
  remote one carries an id that this step has asked for (`ResultOf`). The lemma behind
  `AnswersAreOwn` is that an answer `Request` ends at has the id of its own (`RequestIsAnswered`).
  `SourcesStayRelevant` needs what the retrieval computes: `Sorted` and `Among` give each chunk of
  the tenant once and in order (`AmongPicks` says which place of the list a kept one has); with
  both paths in use the best score is twice that of a first place, so a chunk of one path alone
  has at most half of it, and below `MaxDistance = 50` is not relevant; a chunk that both paths
  put first has the best score there is, and ties keep the order of the paths; the context takes
  references from the front and stays within its budget at every turn.
  Theorems: `StepsAlways`, `AnswersAreOwn`, `SourcesStayRelevant`.
* **RagProofs**, on the views of a run. `TraceInv` joins five parts. `EventsInv`: an event has its
  place as its time and a step that exists; the start of a call and its result name the call of
  the step of that number (`EventOf`); of a step at most one call starts and one ends, in the
  order of the steps (`InOrder`); and a step with a result has its start before its end among the
  events, a step without one has its decision (`Traced`). `CacheInv`: a success is what every
  later call of the same tool with the same arguments gives, since it would be found in the
  steps. `CountInv`: the frames have as many sources as the steps, which is a sum over two lists
  that grow at different moments (`TotalGrows`). `RecordInv`: a record is the view of a run that
  is over. What an action does to the events is said once, in `Moves`: the new ones are quiet
  (`Quiet`), but for the start or the result of the call at hand. `LiveAgreesWithRecord` follows:
  the events that the result keeps are at increasing places (`ResultEventsAre`), so the only
  start and the only result of a step are what `ToolTiming` finds (`StartedIs`, `CompletedIs`),
  also where the model gives two calls one id; the last kept event is the last (`LastKept`); and
  the results in the trace are one to one with the steps that have one (`CallsAgree`).
  Theorems: `TraceInvariant`, `LiveAndRecordAgree`.
* **AgentRuntimeProofs**. `RunInv` (where the runtime, the service and the events are belongs
  together) gives the event contract, `ChargeInv` (the adapter's totals, the run's usage and
  the provider's cost agree while usage is complete) the charges and the budget, `ToolInv`
  (each successful execution is in the cache or in the current step) the absence of repeated
  calls and the priority of the cancel event. Theorems: `RunInvariant`, `TerminalOnce`,
  `ResultClosesSteps`, `OneAnswer`, `ChargeInvariant`, `SettledIsCharged`, `BoundedOverrun`,
  `NoRepeatedCall`, `CancellationWins`, `ContractKept`, `BudgetIsKept`.
* **OrchestratorProofs**, on the run. `DagInv`: the sets of the loop split the plan (`Split`),
  they agree with the asyncio tasks (`JobsMatch`), up to the terminal event the stream tells
  what the tasks did (`WireMatches`), and the terminal event is out exactly when the result is
  (`TerminalMatches`). The first is what makes `DependenciesHonoured` go through: a task in
  `completed` has published its end before it was collected, hence before any dependent
  started. `DeadlockReported` instantiates `Orderable` with the pending tasks: if nothing is
  in progress and nothing has failed, a plan that can be ordered has a ready task. `SpendInv`
  says, while a batch is collected, what its rest may still add: no more tasks are in progress
  than the concurrency, and below the budget they were started; so `OverrunIsBounded`, for
  finitely many task ids.
  Theorems: `DagCorrect`, `TypeCorrect`, `OrderOnTheWire`, `OneReport`, `TrueCompletion`,
  `NothingLeftRunning`, `OneTerminalEvent`, `DeadlockReported`, `TrueReports`,
  `OverrunIsBounded`.
* **OrchestratorProofs**, on the timeline. The module extends both `Orchestrator` and
  `RunTimeline`, whose specification is `TimelineSpec` for this reason. `TimelineInv`: a report is
  queued only while its subtask runs or drains, and none is queued once the subtask has reported
  its end (`Lives`), although a cancellation may take it back from there to draining; an
  INSERT under way is one that the present step of the run waits for (`Underway`), or belongs
  to a cancelled task, or comes after the terminal event (`Outlived`); nothing follows
  `run_completed` (`LastWord`); and below the cap every event is in an INSERT or in a row as long
  as none failed (`Complete`, for which the counter has to be at most the number of rows).
  Theorems: `TimelineInvariant`, `ReportsAreNested`, `ReplaysAreSettled`.
* **ReportWorkflowProofs**. `IInv`: the row is the lock of the run. `Exclusive`: only the call
  that moved the row to running drives the graph, so the unconditional last write meets its own
  claim. `Held` and `Waiting`: the graph state of the driver, and the checkpoint while nobody
  drives, are `Sound` with respect to the decisions made: a draft at `request_approval` is the
  newest and undecided, and all earlier ones were rejected. That is what lets `Decide` record a
  first decision on the last draft. `Bounded` follows because revisions count rejections,
  `Upload` says who may still need the file. `OutcomeInv` adds the outcome: report and end of the
  graph that the driver carries are backed by the decisions (`Driven`), so are the checkpoint
  and the row once nobody drives (`Settled`), and a view that has read its row and not yet its
  checkpoint has read one that is final or has a draft to show (`Seen`).
  Theorems: `Invariance`, `TypeCorrect`, `ExclusiveDriver`, `PendingIsResumable`,
  `SingleDecision`, `RevisionsFollow`, `OutcomesFinal`, `OutcomeInvariant`, `CoherentRun`,
  `DecisionsAreKept`.
* **TenancyProofs**. Requests hold what they have read across transactions, so `KeyInv` says
  what stays true of it: the key a request was let in by, or has chosen to revoke, still exists
  and belongs to whom it did, and is none of the administrators'; the row a request may insert
  is not there before its last step. `KeyMove` is what a step may do to the keys. `TenantInv`
  is the same for accounts and workspaces: a workspace has its owner's row, or none at all and
  a request that is about to write it (`RowInv`, `ClaimInv`); whatever workspace a request acts
  for is one that its caller has joined (`Holds`); every account has a workspace, or a
  registration that is making it, or one that was interrupted (`Settled`). Theorems:
  `KeyInvariant`, `KeysAreKept`, `TenantInvariant`, `WorkspacesAreUsable`,
  `TenantsStaySeparate`.
* **GatewayProofs**. The refinement: `ExchangeInv` says what a request has by the step it is
  at (`Standing`): nothing is charged or told before the provider was asked, exactly one row is
  there from the settlement on, the lease is held at most until then. With it each step maps to
  one of `ChatExchange` or to a stutter; `DisconnectStep` is the case that needs all of it,
  since a client may leave with the row, the release, both or neither done. `EarnedInv` follows
  the decoder: whoever is past the recording has seen the last line, and the row has the
  counts the decoder had then. `TalkInv`: a thread has at every place at most as many answers as
  questions, and the messages of a request in it are the ones its step has saved (`Own`),
  whatever other requests save to the same thread in between; `PromptInv`: what was cut out of
  the conversation for the provider is what `BuildShortTermContext` makes of it, about which
  the module has lemmas. Theorems: `Refinement`, which is `Spec => ExchangeKept` for any number
  of requests, any lines and any histories, `EarnedInvariant`, `DoneMeansFinished`,
  `TalkInvariant`, `ConversationsAreKept`.
* **DefinitionProofs**, on the agents. `HistoryInv`: an open activation has seen every row of
  its scope, unless one was inserted since (`Opened`), which is why the last to commit leaves one
  active; the agent, what a request has still to write of it, and what a run has read of it
  refer to a prompt (`RefsInv`); while a run goes on, what its agent's reference resolves to has
  been noted, and from the look-up on also what the template's name resolves to (`RunInv`); a
  memory's id has one owner. Theorems: `HistoryInvariant`, `VersionsStayUsable`,
  `RecordNamesItsVersion`, `NothingComesBack`.
* **DefinitionProofs**, on the rows of the workflow builder (`BuilderSpec`).
  `BuilderInv`: the definition in the row, and the one a request has read, is valid and was
  stored once (`Stored`, `Locals`), nothing is read before the creation (`CreatedFirst`), and a
  run's row is there from `create_run` on and says running until `update_run` has committed, or
  for good when the request broke off before (`Outcome`). Theorems: `BuilderInvariant`,
  `StoredRunsAreSound`, `RunHistoryIsKept`.
* **DefinitionProofs**, on the order of the nodes. `KahnInv` holds at every turn of the loop and
  at every target visited in it: a node's degree is the number of places that name it in the
  lists of nodes not ordered yet (`Pending`), a node without any is ordered or ready and each is
  so once, and edges go forward (`Forward`). When the queue is empty, whatever was not ordered
  has a predecessor that was not (`OrderIsSound`); the one of them with the most descendants must
  then be among its own, since its predecessor would have more (`CycleExists`); and an order in
  which edges go forward leaves no room for a cycle (`ForwardIsAcyclic`). Theorem:
  `OrderIsTopological`, for every graph a request can send.
* **DefinitionProofs**, on the path of an execution. `PathInv`: of a run in the engine, the rest
  of the order is a suffix of the topological order and what has been executed comes from before
  it; a node that was executed has its predecessors before it (`ResultsFollow`); what is still
  active is closed under successors (`LiveIsClosed`), which is why `Reactivate` may replace the
  active set by a branch and never lose a node of it; and what came after the last condition,
  with what is still active, is the branch it chose (`BranchIsWhole`). The validation enters
  through `ValidIsRunnable`: an in-degree of at most one is what keeps two branches of a condition
  from meeting. Theorems: `PathInvariant`, `ExecutionsArePaths`.

The loops are proved without an induction theorem that takes an operator as parameter: a set
of naturals that is not empty has a least element (`Least`, from `WFMin`), so a set that holds
0 and the successors of its members up to a bound holds all of them (`UpTo`), and a recursive
function over `0..n` exists and satisfies its equations (`Recursion`, `RecursionStays`). An
invariant of a loop is then the set of positions at which it holds.

## 7. What is only model-checked

* Liveness (`EveryWaitEnds`, `QueuesDrain`, the three `RunEnds`), which needs fairness and
  ENABLED.
* `OutputFits` of `AgentTrace`: what a shortened output keeps is a matter of the recursion over
  JSON values in `ToolOutput`, and would be proved by induction over a value. For the run the
  module is instantiated; the theorems leave the four operators open.

## 8. Where documents and code disagree

Each of these is a definition of a module that no run lists, because the code does not keep
it. Adding the name to the configuration shows the behaviour.

| Definition | How to see it | What the code does | What is said |
|---|---|---|---|
| `QuotaLedger!NoOversubscription` | invariant in `QuotaContention.cfg` | usage is read before the reservations are summed; a request that records its usage and settles in between is in neither. `OversubscriptionBounded` does hold | "accepted tradeoff since the lock already prevents oversubscription" (`app/quota/postgres_repository.py:50`) |
| `QuotaLedger!AdmissionExact` | property in `QuotaLease.cfg` | a renewal that was begun before its lease ran out is written after another request was given the room: both leases count, over the limit. `LeasesHold` says that this is the only way | `expires_at > now()` in the renewal (`app/quota/postgres_repository.py:243`) reads as if no expired lease came back |
| `AgentHistory!OneActiveVersion` | invariant in `AgentHistory.cfg` | `set_active` clears the rows its UPDATE has seen; a version inserted and activated while it waits stays active beside its own. `VersionsUsable` does hold | "Set a specific version as active" (`app/prompts/service.py:134`); the reads take one of the active rows |
| `AgentHistory!RecordIsExact` | invariant in `AgentHistory.cfg` | the version is looked up again when the run is over, after edits of agent and template. `RecordNamesVersion` does hold | "record the exact prompt version an agent executed with" (`app/prompts/service.py:154`) |
| `RagIngestion!CeilingRespected` | invariant in `RagIngestion.cfg` with `Ceiling = 1`, `Unreadable = {}` | the plan's ceiling is compared when an upload arrives, not when its document is stored | "refuse queueing beyond the plan's max_documents" (`app/api/rag.py:127`) |
| `AgentRuntime!TerminalAfterSteps` | invariant in `AgentRun.cfg` | a deadline that passes between the stop check and the computation of a tool's timeout makes the executor raise, and a stream ends with an open step | started steps are completed before the terminal event (`docs/superpowers/specs/2026-08-05-agent-sse-event-contract.md:86`) |
| `AgentRuntime!ReportedIsRecorded` | invariant in `AgentRun.cfg` | a cut answer stream erases the completion tokens of earlier calls | the usage actually available is recorded (`docs/superpowers/specs/2026-08-04-agent-runtime-design.md:831`) |
| `Orchestrator!SkipCompletes` | invariant in `Orchestration.cfg` | under the skip policy a failed subtask with dependents ends the run in `dependency_deadlock` | "With SKIP policy, run completes even if one task fails" (`tests/test_multi_agent.py:265`) |
| `WorkflowBuilder!UnpublishReturnsDraft` | property in `WorkflowBuilder.cfg` | the PostgreSQL `update_workflow` never writes `status` (`app/workflow_builder/repository.py:201`), so an unpublished workflow stays published | `tests/test_workflow_builder.py:602`, which runs in memory, expects a draft |
| `Gateway!WindowHolds` (`RateLimit`) | invariant in `Gateway.cfg` with `Requests = {r1, r2, r3}`, `Threads = {r1, r2, r3, old}` | the call that finds its window expired is allowed and not recorded (`app/ratelimit/memory.py:29`): one more than the limit passes | the comment above it: "The rate limit has fully reset, so return a fresh allowance" |

Met while reading:

* `src/README.md:252` promises that quota is released on disconnection. The endpoint reserves
  before it builds the stream (`app/api/openai.py:156`), and the generator that releases is
  entered only when the response is sent: a client that leaves in between leaves a reservation
  to expire (`Abandon`, which `NoLeakedReservation` names as an exception).
* `_raise_daily_limit` asserts that the *settings* have a daily limit (`app/quota/service.py:157`);
  a limit from an override or a plan alone makes it fail.
* The design asks for a budget check before each provider call
  (`docs/superpowers/specs/2026-08-04-agent-runtime-design.md:545`); none precedes the call that
  streams the answer (`app/agents/runtime.py:237`).
* `retry_once` never retries (`app/multi_agent/models.py:51`); it only differs from `fail_fast`
  in letting the other subtasks end. `SharedContext.task_results` is never filled, so
  `{prev_results}` is always empty. Tokens of failed subtasks are not counted against the
  budget. A cancelled producer and a malformed `input_template` leave subtasks running
  (`NoOrphans` states the exception). A cancelled subtask may be stored twice as failed in the
  recorder's log, after the terminal event.
* `docs/DEVELOPMENT_LOG.md:450` says that with PostgreSQL storage a restarted service resumes
  the thread and continues with approval or generation. That holds for a run that waits for
  approval (`AwaitsDecision`); a run whose call was lost while the graph ran stays `running`,
  and neither `approve` nor `reject` accepts it (`OneExecutor` names the exception).
* An approval names the run and not the draft: after another reviewer's rejection it applies to
  the next draft. `max_revisions` counts rejections, so that 1 allows no second draft.
* `InMemoryQuotaRepository.extend_reservation` judges by key even when the limits are the
  workspace's (`app/quota/memory_repository.py:94`); `cleanup_expired` has no caller.

* Step timings of a finished run are always null: `include_result_event` drops the step events
  (`app/agents/runtime.py:986`) that the response computes them from
  (`app/api/agent.py:615`), while `tests/test_agent_api.py:221` builds events by hand and
  expects times. `RunView` has the times of calls only.
* With both paths answering, the best score of a chunk that one path finds is half of the
  best score of all, hence its distance is at least 0.5 and `max_distance = 0.35` drops it:
  hybrid retrieval is an intersection (`SourcesAreRelevant` states it).
* A prompt pinned as `name@n` is looked up in the workspace first: a workspace that creates its
  own version n later shadows the global one the agent was pinned to
  (`app/prompts/service.py:162`). A unique index with a NULL workspace does not keep two global
  rows of one version apart (`app/db/prompt_models.py:26`).
* `create_agent` inserts before it validates the tools, so a refused creation leaves an agent
  without tools (`app/agent_config/service.py:95`); `update_agent` writes the whole row it read
  and may undo another's change.
* A registration that is interrupted leaves an account that can neither register nor log in
  (`app/api/auth.py:217`; `WorkspacesUsable` names the exception). The member ceiling is
  compared before the insert, so two invitations may both pass
  (`app/auth/workspace_service.py:170`). Keys stay bound to a workspace after their user was
  removed from it.
* An Ollama stream that ends without its last line is stored and declared complete;
  `DoneIsEarned` is about OpenAI models for this reason.
* A summary is built with the messages that had to go last in front
  (`app/conversations/service.py:193`), so its order is not that of the conversation.
* The made-up `run_failed` of a multi-agent stream is never recorded, so a replay ends without
  a terminal event; a cancelled subtask may be recorded after it.
* A failure of `get_run` or `update_run` leaves a run of the builder running for good
  (`app/workflow_builder/service.py:378`; `RunsAreSound` names the exception), and so does a
  failing refresh after `create_run` has committed (`app/workflow_builder/repository.py:261`).
  An update may overwrite a definition that was published while it was being validated.
* Without a reservation a cancelled request is not over: the runtime turns the cancellation into
  a result, and the service goes on to record it (`app/quota/lifecycle.py:52`; `Kill`).
* An ingestion whose summary fails after the commit reports FAILED for a document that is there
  (`app/rag/ingestion.py:137`); `total_timeout` is compared between two waits only
  (`app/multi_agent/orchestrator.py:285`).

## 9. What is not modelled

Out of reach or without state worth a model: text extraction, chunking, tokenisation and
embeddings (numbers and strings), the reranker (a remote model), the sandboxed code
interpreter and the calculator's arithmetic, SQL schema and migrations, pydantic schemas,
wiring and settings, logging and metrics, rendering, and the evaluation scripts, which are
sequential over fixed data.

Left out inside the modelled parts: the in-memory quota repository; statistics queries and
list endpoints; orchestration from a stored configuration (no endpoint passes `config_id`) and
the rows of such configurations; subtasks with duplicate ids (the task map keeps the last one);
prompt and report texts, and the local directory of the report file, which other hosts do not
see; the orchestrator's semaphore (`in_progress` never exceeds it); renaming of workspaces and
threads; the last use of a key; the closing of MCP servers at the end of the process; audit
rows, which are written after the operation and read by nobody; the last-used order of
memories, of which only whether they were used is kept. The clocks of workers and database are
one. Messages of a thread are ordered by their commits; the code orders them by `created_at`
of the worker that wrote them (`app/conversations/postgres_repository.py:88`), and no property
is about the order of two requests' messages. Of the
failures of an MCP server the model has no answer in time, an error, a line that is no JSON, an
answer of another id and a client that is not running; a process that ends under a request and
an answer of the wrong shape are not told apart from an error.

## 10. How to run it

In this directory: `tlc -workers 2 -config AgentRun.cfg MCAgentRuntime` and likewise for the
other runs in `PROJECT.json`; `tlapm OrchestratorProofs.tla` and likewise for the other proof
modules.
