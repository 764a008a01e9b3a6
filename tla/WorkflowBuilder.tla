---------------------------- MODULE WorkflowBuilder ----------------------------
(***************************************************************************)
(* The workflow builder: one workflow, the requests that create, edit,     *)
(* publish, unpublish, delete and run it, and the rows of its runs.        *)
(*                                                                         *)
(* Every operation reads the row, decides on what it read and writes in a  *)
(* later transaction; nothing locks the row in between.  On PostgreSQL a   *)
(* request may be suspended, cancelled or failed by the database at every  *)
(* round trip, before or after the transaction has committed.  In memory   *)
(* the repository never suspends, so a request is interrupted only while a *)
(* node runs, and the record it reads is the stored object itself.         *)
(*                                                                         *)
(* The workflow has the id that its create returned, so the other requests *)
(* arrive after it; requests of other workspaces find nothing and change   *)
(* nothing.                                                                *)
(***************************************************************************)
EXTENDS WorkflowEngine

CONSTANTS
  Requests,    \* requests; each handles one call and has at most one run
  Creator,     \* the request that creates the workflow
  Drafts,      \* definitions a create sends
  Edits,       \* definitions an update sends
  Names,       \* names of the workflow
  Inputs,      \* inputs of a run: functions from some of the Keys to Texts
  Switches,    \* what administrators switch: some of the tool and the agent
  None         \* no row, no field

ASSUME BuilderAssumption == \A d \in Drafts \cup Edits : IsDefinition(d)

VARIABLES
  backend,     \* "postgres" or "memory", fixed by the settings
  row,         \* the row of workflows, or None
  runs,        \* the rows of workflow_builder_runs, one per request, or None
  enabled,     \* what the workspace offers: the tool, the agent
  pc,          \* how far a request has come
  rec,         \* the record a request has read and is changing
  body,        \* the fields of the request
  exec,        \* the execution of a run
  reply,       \* the status code of a request and the status it returns
  history      \* history: every definition the row has had

builderVars == <<backend, row, runs, enabled, pc, rec, body, exec, reply, history>>

WorkflowDefinitions == Drafts \cup Edits

(* WorkflowRecord and WorkflowRunRecord.                                   *)
WorkflowRecord ==
  [status : {"draft", "published"}, version : Nat, name : Names,
   definition : WorkflowDefinitions]
WorkflowRunRecord ==
  [status : {"running", "completed", "failed", "cancelled"},
   definition : WorkflowDefinitions, node_results : Seq([node : Nodes,
   status : {"completed", "failed"}])]

(* The definitions that pass validate_definition.                          *)
Valid == {d \in WorkflowDefinitions : ValidDefinition(d)}
Order == [d \in Valid |-> TopologicalOrder(d)]

Terminal == {"completed", "failed", "cancelled"}

Steps == {"idle", "update.get", "update.check", "update.write",
          "create.check", "create.write", "publish.get", "publish.check",
          "publish.write", "unpublish.get", "unpublish.write", "delete.get",
          "delete.write", "run.get", "run.check", "run.create", "run.engine",
          "run.finalize", "run.update", "run.read", "done"}

BuilderInit ==
  /\ backend \in {"postgres", "memory"}
  /\ row = None
  /\ runs = [r \in Requests |-> None]
  /\ enabled \in SUBSET {"tool", "agent"}
  /\ pc = [r \in Requests |-> "idle"]
  /\ rec = [r \in Requests |-> None]
  /\ body = [r \in Requests |-> None]
  /\ exec = [r \in Requests |-> None]
  /\ reply = [r \in Requests |-> None]
  /\ history = {}

(* Another request may run between two steps of one on PostgreSQL; in      *)
(* memory only when all others wait for a node, have ended or not begun.   *)
MayStep(r) ==
  backend = "postgres" \/
  \A q \in Requests \ {r} : pc[q] \in {"idle", "run.engine", "done"}

AtStep(r, step) == pc[r] = step /\ MayStep(r)

(* The request ends with a status code and, if it returns the workflow or  *)
(* the run, the status in the response.  Its locals are gone.              *)
Respond(r, code, status) ==
  /\ pc' = [pc EXCEPT ![r] = "done"]
  /\ reply' = [reply EXCEPT ![r] = [code |-> code, status |-> status]]
  /\ rec' = [rec EXCEPT ![r] = None]
  /\ body' = [body EXCEPT ![r] = None]
  /\ exec' = [exec EXCEPT ![r] = None]

(* Without an answer from the code itself: cancelled with its client, or   *)
(* failed by an exception of the database.                                 *)
Broken == {499, 500}

(* The transaction has committed; on PostgreSQL the request may still be   *)
(* cancelled, or fail at the refresh that follows.                         *)
RespondCommitted(r, code, status) ==
  \/ Respond(r, code, status)
  \/ backend = "postgres" /\ \E broken \in Broken : Respond(r, broken, None)

(* The request goes on with the locals given.                              *)
Continue(r, step, record, fields, x) ==
  /\ pc' = [pc EXCEPT ![r] = step]
  /\ rec' = [rec EXCEPT ![r] = record]
  /\ body' = [body EXCEPT ![r] = fields]
  /\ exec' = [exec EXCEPT ![r] = x]
  /\ UNCHANGED reply

Goto(r, step) == Continue(r, step, rec[r], body[r], exec[r])
With(r, step, record) == Continue(r, step, record, body[r], exec[r])
Accept(r, step, fields) == Continue(r, step, None, fields, None)

(* deepcopy into the run or a response; in memory the record a service     *)
(* changes is the stored one, so the change is visible at once.            *)
Store(record) == IF backend = "memory" THEN row' = record ELSE UNCHANGED row

-----------------------------------------------------------------------------
(* Reading and checking.                                                   *)

(* get_workflow: the id of another workspace's workflow finds nothing, so  *)
(* the requests of this workspace are the only ones that get further.      *)
Load(r, from, next) ==
  /\ AtStep(r, from)
  /\ IF row = None THEN Respond(r, 404, None) ELSE With(r, next, row)
  /\ UNCHANGED <<backend, row, runs, enabled, history>>

(* _validate_with_workspace: the definition is valid, and the tools and    *)
(* agents it names are enabled in the workspace at this moment.            *)
ValidWithWorkspace(d) ==
  /\ d \in Valid
  /\ \A n \in NodeSet(d) :
        /\ d.type[n] \in {"tool", "code"} => "tool" \in enabled
        /\ d.type[n] = "agent" => "agent" \in enabled

(* Only a created workflow has an id that a request can name.              *)
Arrives(r) == AtStep(r, "idle") /\ r # Creator /\ history # {}

(* An administrator switches a tool or an agent of the workspace.          *)
SetEnabled(x) ==
  /\ history # {} /\ \E r \in Requests : pc[r] # "done"
  /\ enabled' = IF x \in enabled THEN enabled \ {x} ELSE enabled \cup {x}
  /\ UNCHANGED <<backend, row, runs, pc, rec, body, exec, reply, history>>

-----------------------------------------------------------------------------
(* create                                                                  *)

(* POST /workflows.                                                        *)
CreateRequest(r) ==
  /\ AtStep(r, "idle") /\ r = Creator
  /\ \E d \in Drafts, n \in Names :
        Accept(r, "create.check", [name |-> n, definition |-> d])
  /\ UNCHANGED <<backend, row, runs, enabled, history>>

(* create_workflow up to the insert: a draft of version 1.                 *)
CreateWorkflow(r) ==
  /\ AtStep(r, "create.check")
  /\ IF ValidWithWorkspace(body[r].definition)
     THEN With(r, "create.write",
               [status |-> "draft", version |-> 1, name |-> body[r].name,
                definition |-> body[r].definition])
     ELSE Respond(r, 422, None)
  /\ UNCHANGED <<backend, row, runs, enabled, history>>

(* The insert of the repository.                                           *)
InsertWorkflow(r) ==
  /\ AtStep(r, "create.write")
  /\ row' = rec[r]
  /\ history' = history \cup {rec[r].definition}
  /\ RespondCommitted(r, 201, rec[r].status)
  /\ UNCHANGED <<backend, runs, enabled>>

-----------------------------------------------------------------------------
(* update                                                                  *)

(* PUT /workflows/{id}: an empty body is refused.                          *)
UpdateRequest(r) ==
  /\ Arrives(r)
  /\ \E n \in Names \cup {None}, d \in Edits \cup {None} :
        IF n = None /\ d = None THEN Respond(r, 422, None)
        ELSE Accept(r, "update.get", [name |-> n, definition |-> d])
  /\ UNCHANGED <<backend, row, runs, enabled, history>>

(* The change of the name on the record that was read, when it is a draft. *)
Renamed(r) == IF body[r].name = None THEN rec[r]
              ELSE [rec[r] EXCEPT !.name = body[r].name]
Edited(r) == IF body[r].definition = None THEN Renamed(r)
             ELSE [Renamed(r) EXCEPT !.definition = body[r].definition]

(* Mutation: a new definition is stored without being checked.             *)
UpdateUnchecked(r) ==
  /\ AtStep(r, "update.check")
  /\ IF rec[r].status = "published" THEN Respond(r, 409, None)
     ELSE With(r, "update.write", Edited(r))
  /\ UNCHANGED <<backend, row, runs, enabled, history>>

(* update_workflow between its read and its write: a published workflow is *)
(* a conflict, the name is set before the definition is checked, and an    *)
(* invalid definition ends the request.                                    *)
UpdateWorkflow(r) ==
  /\ AtStep(r, "update.check")
  /\ IF rec[r].status = "published"
     THEN Respond(r, 409, None) /\ UNCHANGED row
     ELSE IF body[r].definition # None /\ ~ValidWithWorkspace(body[r].definition)
     THEN Respond(r, 422, None) /\ Store(Renamed(r))
     ELSE With(r, "update.write", Edited(r)) /\ UNCHANGED row
  /\ UNCHANGED <<backend, runs, enabled, history>>

(* What update_workflow of the repository makes of the stored row: all of  *)
(* the record in memory; on PostgreSQL the name and the definition only.   *)
Updated(record) ==
  IF backend = "memory" THEN record
  ELSE [row EXCEPT !.name = record.name, !.definition = record.definition]

(* The repository's update: nothing is written when the row is gone.       *)
SaveWorkflow(r, from) ==
  /\ AtStep(r, from)
  /\ IF row = None
     THEN Respond(r, 404, None) /\ UNCHANGED <<row, history>>
     ELSE /\ row' = Updated(rec[r])
          /\ history' = history \cup {rec[r].definition}
          /\ RespondCommitted(r, 200, Updated(rec[r]).status)
  /\ UNCHANGED <<backend, runs, enabled>>

-----------------------------------------------------------------------------
(* publish, unpublish, delete                                              *)

(* POST /workflows/{id}/publish.                                           *)
PublishRequest(r) ==
  /\ Arrives(r)
  /\ Accept(r, "publish.get", None)
  /\ UNCHANGED <<backend, row, runs, enabled, history>>

(* publish_workflow between its read and its write: the stored definition  *)
(* is checked again, the version counted up.                               *)
PublishWorkflow(r) ==
  /\ AtStep(r, "publish.check")
  /\ IF ValidWithWorkspace(rec[r].definition)
     THEN With(r, "publish.write",
               [rec[r] EXCEPT !.status = "published", !.version = @ + 1])
     ELSE Respond(r, 422, None)
  /\ UNCHANGED <<backend, row, runs, enabled, history>>

(* The repository's publish: status, definition and version, not the name. *)
PublishedRow(record) ==
  IF backend = "memory" THEN record ELSE [record EXCEPT !.name = row.name]

SavePublished(r) ==
  /\ AtStep(r, "publish.write")
  /\ IF row = None
     THEN Respond(r, 404, None) /\ UNCHANGED <<row, history>>
     ELSE /\ row' = PublishedRow(rec[r])
          /\ history' = history \cup {rec[r].definition}
          /\ RespondCommitted(r, 200, "published")
  /\ UNCHANGED <<backend, runs, enabled>>

(* POST /workflows/{id}/unpublish.                                         *)
UnpublishRequest(r) ==
  /\ Arrives(r)
  /\ Accept(r, "unpublish.get", None)
  /\ UNCHANGED <<backend, row, runs, enabled, history>>

(* unpublish_workflow: the record becomes a draft and is updated.          *)
UnpublishWorkflow(r) ==
  /\ AtStep(r, "unpublish.write")
  /\ IF row = None
     THEN Respond(r, 404, None) /\ UNCHANGED <<row, history>>
     ELSE LET draft == [rec[r] EXCEPT !.status = "draft"]
          IN  /\ row' = Updated(draft)
              /\ history' = history \cup {draft.definition}
              /\ RespondCommitted(r, 200, Updated(draft).status)
  /\ UNCHANGED <<backend, runs, enabled>>

(* DELETE /workflows/{id}.                                                 *)
DeleteRequest(r) ==
  /\ Arrives(r)
  /\ Accept(r, "delete.get", None)
  /\ UNCHANGED <<backend, row, runs, enabled, history>>

(* The DELETE of the row: on PostgreSQL the foreign key of the run rows    *)
(* removes them with the workflow, in memory they stay.                    *)
RemoveRow ==
  /\ row' = None
  /\ runs' = IF backend = "postgres" THEN [q \in Requests |-> None] ELSE runs

(* delete_workflow decides on the record it read.                          *)
DeleteWorkflow(r) ==
  /\ AtStep(r, "delete.write")
  /\ IF rec[r].status = "published"
     THEN Respond(r, 409, None) /\ UNCHANGED <<row, runs>>
     ELSE /\ RemoveRow
          /\ RespondCommitted(r, IF row = None THEN 404 ELSE 204, None)
  /\ UNCHANGED <<backend, enabled, history>>

-----------------------------------------------------------------------------
(* run                                                                     *)

(* POST /workflows/{id}/runs.                                              *)
RunRequest(r) ==
  /\ Arrives(r)
  /\ \E i \in Inputs : Accept(r, "run.get", i)
  /\ UNCHANGED <<backend, row, runs, enabled, history>>

(* run_workflow checks the definition it read.                             *)
CheckRun(r) ==
  /\ AtStep(r, "run.check")
  /\ IF ValidWithWorkspace(rec[r].definition) THEN Goto(r, "run.create")
                                              ELSE Respond(r, 422, None)
  /\ UNCHANGED <<backend, row, runs, enabled, history>>

(* The row create_run inserts.                                             *)
RunRow(definition) ==
  [status |-> "running", definition |-> definition, node_results |-> <<>>]

(* create_run: the row of the run holds a copy of the definition that was  *)
(* read.  The foreign key fails the insert when the workflow is gone; the  *)
(* row may be there although the request ends, and then nothing finalizes  *)
(* it.                                                                     *)
CreateRun(r) ==
  /\ AtStep(r, "run.create")
  /\ IF backend = "postgres" /\ row = None
     THEN Respond(r, 500, None) /\ UNCHANGED runs
     ELSE /\ runs' = [runs EXCEPT ![r] = RunRow(rec[r].definition)]
          /\ \/ Continue(r, "run.engine", rec[r], None,
                         Settle(Begin(rec[r].definition, Order[rec[r].definition], body[r])))
             \/ backend = "postgres" /\ \E broken \in Broken : Respond(r, broken, None)
  /\ UNCHANGED <<backend, row, enabled, history>>

(* The engine finishes a node.                                             *)
ExecuteNode(r) ==
  /\ AtStep(r, "run.engine") /\ exec[r].status = "running"
  /\ \E out \in Outcomes(rec[r].definition, Head(exec[r].todo), exec[r].vars, enabled) :
        Continue(r, "run.engine", rec[r], None,
                 Settle(NodeDone(rec[r].definition, exec[r], out)))
  /\ UNCHANGED <<backend, row, runs, enabled, history>>

(* The engine returned; its result is the one to persist.                  *)
EngineReturns(r) ==
  /\ AtStep(r, "run.engine") /\ exec[r].status # "running"
  /\ Goto(r, "run.finalize")
  /\ UNCHANGED <<backend, row, runs, enabled, history>>

(* A cancellation reaches a waiting node: run_workflow catches it and      *)
(* persists a cancelled run without node results.                          *)
CancelRun(r) ==
  /\ AtStep(r, "run.engine") /\ exec[r].status = "running"
  /\ Continue(r, "run.finalize", rec[r], None,
              [exec[r] EXCEPT !.status = "cancelled", !.results = <<>>, !.todo = <<>>])
  /\ UNCHANGED <<backend, row, runs, enabled, history>>

(* _finalize_run reads the row; when it is gone there is nothing to write. *)
FinalizeRun(r) ==
  /\ AtStep(r, "run.finalize")
  /\ Goto(r, IF runs[r] = None THEN "run.read" ELSE "run.update")
  /\ UNCHANGED <<backend, row, runs, enabled, history>>

(* The columns update_run writes: all but the definition and the inputs.   *)
Finished(run, x) ==
  [run EXCEPT !.status = x.status, !.node_results = x.results]

(* Mutation: the definition the workflow has now is written to the run.    *)
UpdateRunWithCurrent(r) ==
  /\ AtStep(r, "run.update")
  /\ runs' = IF runs[r] = None THEN runs
             ELSE [runs EXCEPT ![r] = [Finished(@, exec[r]) EXCEPT
                     !.definition = IF row = None THEN @ ELSE row.definition]]
  /\ Goto(r, "run.read")
  /\ UNCHANGED <<backend, row, enabled, history>>

(* ... and update_run writes the status and the node results, again if the *)
(* row is there.                                                           *)
UpdateRun(r) ==
  /\ AtStep(r, "run.update")
  /\ runs' = IF runs[r] = None THEN runs
             ELSE [runs EXCEPT ![r] = Finished(@, exec[r])]
  /\ \/ Goto(r, "run.read")
     \/ backend = "postgres" /\ \E broken \in Broken : Respond(r, broken, None)
  /\ UNCHANGED <<backend, row, enabled, history>>

(* The run is read back and returned; a cancelled request ends here.       *)
ReadRun(r) ==
  /\ AtStep(r, "run.read")
  /\ IF exec[r].status = "cancelled" THEN Respond(r, 499, None)
     ELSE IF runs[r] = None THEN Respond(r, 404, None)
     ELSE Respond(r, 201, runs[r].status)
  /\ UNCHANGED <<backend, row, runs, enabled, history>>

(* A request is cancelled at a round trip that nothing protects, or the    *)
(* database fails it: what was written stays, what was not is never        *)
(* written.                                                                *)
Interrupt(r) ==
  /\ backend = "postgres"
  /\ pc[r] \notin {"idle", "run.engine", "done"}
  /\ \E broken \in Broken : Respond(r, broken, None)
  /\ UNCHANGED <<backend, row, runs, enabled, history>>

-----------------------------------------------------------------------------
RequestStep(r) ==
  \/ CreateRequest(r) \/ CreateWorkflow(r) \/ InsertWorkflow(r)
  \/ UpdateRequest(r) \/ Load(r, "update.get", "update.check")
  \/ UpdateWorkflow(r) \/ SaveWorkflow(r, "update.write")
  \/ PublishRequest(r) \/ Load(r, "publish.get", "publish.check")
  \/ PublishWorkflow(r) \/ SavePublished(r)
  \/ UnpublishRequest(r) \/ Load(r, "unpublish.get", "unpublish.write")
  \/ UnpublishWorkflow(r)
  \/ DeleteRequest(r) \/ Load(r, "delete.get", "delete.write") \/ DeleteWorkflow(r)
  \/ RunRequest(r) \/ Load(r, "run.get", "run.check") \/ CheckRun(r) \/ CreateRun(r)
  \/ ExecuteNode(r) \/ EngineReturns(r) \/ FinalizeRun(r) \/ UpdateRun(r) \/ ReadRun(r)

BuilderNext ==
  \/ \E r \in Requests : RequestStep(r) \/ CancelRun(r) \/ Interrupt(r)
  \/ \E x \in Switches : SetEnabled(x)

BuilderSpec == BuilderInit /\ [][BuilderNext]_builderVars

-----------------------------------------------------------------------------
(* Properties.                                                             *)

Executed(x) == {x.results[i].node : i \in 1..Len(x.results)}
Position(x, n) == CHOOSE i \in 1..Len(x.results) : x.results[i].node = n

(* The nodes after the last condition of a completed execution are those   *)
(* of one of its branches, all of them; without a condition, all nodes.    *)
BranchRunsWhole(d, x) ==
  LET conds == {n \in Executed(x) : d.type[n] = "condition"}
      last  == CHOOSE n \in conds : \A m \in conds : Position(x, m) <= Position(x, n)
      after == {n \in Executed(x) : Position(x, n) > Position(x, last)}
  IN  IF conds = {} THEN Executed(x) = NodeSet(d)
      ELSE \E b \in ToSet(d.branches[last]) :
              after = {b.target} \cup Descendants(d, b.target)

(* The node results of an execution are a path of the graph: each node at  *)
(* most once, after its predecessor completed, never two branches of one   *)
(* condition, nothing after a failed node; and a completed execution ran   *)
(* the whole of the branches it chose (WorkflowEngine.run).                *)
ExecutionIsPath ==
  \A r \in Requests : exec[r] # None =>
    LET x == exec[r]
        d == rec[r].definition
    IN  /\ \A i, j \in 1..Len(x.results) :
              i # j => x.results[i].node # x.results[j].node
        /\ \A i \in 1..Len(x.results) :
              x.results[i].status = "failed" <=> i = Len(x.results) /\ x.status = "failed"
        /\ \A e \in Edges(d) :
              e[2] \in Executed(x) => /\ e[1] \in Executed(x)
                                      /\ Position(x, e[1]) < Position(x, e[2])
        /\ \A n \in Executed(x) :
              Cardinality({b \in ToSet(Branches(d, n)) : b.target \in Executed(x)}) <= 1
        /\ x.status = "completed" => BranchRunsWhole(d, x)

(* Kahn's loop against the definition of a cycle, for every graph a        *)
(* request sends whose nodes are distinct and whose edges join nodes of    *)
(* it: all nodes are ordered exactly when no node reaches itself, and then *)
(* every edge goes forward (topological_order).                            *)
OrderAgrees ==
  \A r \in Requests : pc[r] = "create.check" =>
    LET d     == body[r].definition
        order == TopologicalOrder(d)
    IN  /\ Cardinality(NodeSet(d)) = Len(d.nodes)
        /\ \A i \in DOMAIN d.edges : {d.edges[i][1], d.edges[i][2]} \subseteq NodeSet(d)
        => /\ (\A n \in NodeSet(d) : n \notin Descendants(d, n)) <=> Len(order) = Len(d.nodes)
           /\ Len(order) = Len(d.nodes) =>
                /\ ToSet(order) = NodeSet(d)
                /\ \A e \in Edges(d) : IndexOf(order, e[1]) < IndexOf(order, e[2])

(* The stored definition has passed the validation that a run relies on,   *)
(* and so has the snapshot of every run, which is a definition the         *)
(* workflow once had, never a mixture of two edits.                        *)
SnapshotsAreWhole ==
  /\ row # None => row.definition \in Valid \cap history
  /\ \A r \in Requests : runs[r] # None =>
        runs[r].definition \in Valid \cap history

(* "Runs always snapshot the current definition so later edits never       *)
(* affect history": the definition of a run never changes, and neither     *)
(* does a run that has ended, whatever is edited, published or retried.    *)
HistoryFrozen ==
  [][\A r \in Requests : (runs[r] # None /\ runs'[r] # None) =>
        /\ runs'[r].definition = runs[r].definition
        /\ (runs[r].status \in Terminal => runs'[r] = runs[r])]_builderVars

(* A write that was decided on before a delete never brings the workflow   *)
(* back.                                                                   *)
DeletedStaysDeleted == [][(row = None /\ history # {}) => row' = None]_builderVars

(* What is stored of a run stays, and what is deleted stays away.          *)
HistoryKept == HistoryFrozen /\ DeletedStaysDeleted

(* A run is recorded as running only while its request is at work on it:   *)
(* whatever is edited or deleted meanwhile the outcome is persisted, and   *)
(* the only way to leave a run running is a request that is cancelled or   *)
(* fails between the insert and the last update.  What a request answers   *)
(* about its run is what is stored.                                        *)
RunningIsLive ==
  \A r \in Requests : runs[r] # None =>
    /\ runs[r].status = "running" =>
         \/ pc[r] \in {"run.engine", "run.finalize", "run.update"}
         \/ pc[r] = "done" /\ reply[r].code \in Broken
    /\ (pc[r] = "done" /\ reply[r].code = 201) => runs[r].status = reply[r].status

(* A stored run is one that can be trusted: of a definition that was       *)
(* validated, running only while it runs, and of the outcome it was        *)
(* answered with.                                                          *)
RunsAreSound == SnapshotsAreWhole /\ RunningIsLive

(* test_published_workflow_rejects_update_and_unpublish_unblocks: after an *)
(* unpublish the workflow is a draft.                                      *)
UnpublishReturnsDraft ==
  [][\A r \in Requests :
        (pc[r] = "unpublish.write" /\ pc'[r] = "done" /\ reply'[r].code = 200) =>
          reply'[r].status = "draft"]_builderVars
=============================================================================
