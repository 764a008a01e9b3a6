---------------------------- MODULE ReportWorkflow ----------------------------
(***************************************************************************)
(* One run of the PDF report workflow: PDFReportWorkflowService.start, the *)
(* approve and reject calls of its reviewers, the polling get_status, the  *)
(* LangGraph graph they drive, its checkpoint and the workflow_runs row.   *)
(*                                                                         *)
(* A call is a coroutine of some application process.  Its steps are one   *)
(* database round trip or one node of the graph each.  The row and the     *)
(* checkpoint are in PostgreSQL and outlive the processes.                 *)
(***************************************************************************)
EXTENDS Naturals, FiniteSets

CONSTANTS
  Starter,          \* the call of start that creates the run
  Reviewers,        \* calls of approve and reject
  Foreign,          \* those of them that another tenant makes
  RevisionLimits,   \* max_revisions a caller may ask for
  Nobody            \* no feedback

Calls == {Starter} \cup Reviewers

ASSUME CallsAssumption ==
  Starter \notin Reviewers /\ Foreign \subseteq Reviewers /\ Nobody \notin Calls
ASSUME LimitsAssumption == RevisionLimits \subseteq Nat

VARIABLES
  row,         \* workflow_runs.status ("none" before the insert); stage follows it
  checkpoint,  \* the saved state of the thread
  graph,       \* the state of the graph in the memory of each call
  pc,          \* how far a call has come
  answer,      \* the decision a call resumes the graph with
  settings,    \* require_approval and max_revisions, fixed by start
  pdf,         \* the uploaded file is in the run's directory
  decisions,   \* history: the calls that decided on each draft
  lost,        \* history: a call ended without its last write to the row
  view         \* the answer get_status is putting together

vars == <<row, checkpoint, graph, pc, answer, settings, pdf, decisions, lost, view>>

(* WorkflowRunStatus.                                                      *)
Final == {"completed", "rejected", "failed"}
Statuses == {"none", "running", "pending_approval"} \cup Final

(* The nodes of the graph, and its END.                                    *)
Nodes == {"parse_pdf", "retrieve_context", "analyze", "request_approval",
          "generate_report", "end"}
Decisions == {"approved", "rejected"}

(* PDFReportState as far as control depends on it.  A draft is known by    *)
(* its number, feedback by the call that gave it; basis is the feedback in *)
(* the prompt of the draft, report the draft the report was rendered from. *)
GraphStates ==
  [next : Nodes, interrupted : BOOLEAN, draft : Nat, blank : BOOLEAN,
   basis : Reviewers \cup {Nobody}, feedback : Reviewers \cup {Nobody},
   revision_count : Nat, approval : Decisions \cup {"none"}, report : Nat]

Fresh ==
  [next |-> "parse_pdf", interrupted |-> FALSE, draft |-> 0, blank |-> TRUE,
   basis |-> Nobody, feedback |-> Nobody, revision_count |-> 0,
   approval |-> "none", report |-> 0]

Working == {"graph", "finalizing", "failing"}
Alive == Working \cup {"creating", "claimed"}
Over == {"returned", "raised", "refused", "dead"}

Settings == [require_approval : BOOLEAN, max_revisions : RevisionLimits]
NoView == [phase |-> "idle", status |-> "none", draft |-> 0, report |-> 0]

Init ==
  /\ row = "none"
  /\ checkpoint = Fresh
  /\ graph = [c \in Calls |-> Fresh]
  /\ pc = [c \in Calls |-> "idle"]
  /\ answer = [c \in Calls |-> "none"]
  /\ settings \in Settings
  /\ pdf = FALSE
  /\ decisions = [d \in {} |-> {}]
  /\ lost = FALSE
  /\ view = NoView

Move(c, to) == pc' = [pc EXCEPT ![c] = to]

-----------------------------------------------------------------------------
(* The service: start, and the claim of a reviewer.                        *)

(* start stores the upload, or fails to and removes what it wrote.         *)
Start ==
  /\ pc[Starter] = "idle"
  /\ \/ pdf' = TRUE /\ Move(Starter, "creating")
     \/ pdf' = FALSE /\ Move(Starter, "raised")
  /\ UNCHANGED <<row, checkpoint, graph, answer, settings, decisions, lost, view>>

(* repository.create inserts the row.                                      *)
Create ==
  /\ pc[Starter] = "creating"
  /\ row' = "running"
  /\ Move(Starter, "graph")
  /\ UNCHANGED <<checkpoint, graph, answer, settings, pdf, decisions, lost, view>>

(* The insert raises; the commit may have reached the database all the     *)
(* same.  created is None, so no failure is recorded; the file goes.       *)
CreateRaises ==
  /\ pc[Starter] = "creating"
  /\ row' \in {row, "running"}
  /\ lost' = (row' = "running")
  /\ pdf' = FALSE
  /\ Move(Starter, "raised")
  /\ UNCHANGED <<checkpoint, graph, answer, settings, decisions, view>>

(* Mutation: the claim forgets to compare the status.                      *)
MatchesAnyStatus(c) == c \notin Foreign /\ row # "none"

Matches(c) == c \notin Foreign /\ row = "pending_approval"

(* update_status_if: one conditional UPDATE takes the run from pending to  *)
(* running, and the call goes on to resume the graph with its decision.    *)
Claim(c) ==
  /\ pc[c] = "idle"
  /\ Matches(c)
  /\ row' = "running"
  /\ \E d \in Decisions : answer' = [answer EXCEPT ![c] = d]
  /\ Move(c, "claimed")
  /\ UNCHANGED <<checkpoint, graph, settings, pdf, decisions, lost, view>>

(* The UPDATE matched nothing: 404 or 409.  A reject without feedback is   *)
(* refused before it.                                                      *)
Refuse(c) ==
  /\ pc[c] = "idle"
  /\ row # "none"
  /\ Move(c, "refused")
  /\ UNCHANGED <<row, checkpoint, graph, answer, settings, pdf, decisions, lost, view>>

(* The UPDATE raises, before or after it was committed.                    *)
ClaimRaises(c) ==
  /\ pc[c] = "idle"
  /\ row # "none"
  /\ \/ row' = row /\ lost' = lost
     \/ Matches(c) /\ row' = "running" /\ lost' = TRUE
  /\ Move(c, "raised")
  /\ UNCHANGED <<checkpoint, graph, answer, settings, pdf, decisions, view>>

(* ainvoke(Command(resume=...)) loads the thread from its checkpoint.      *)
Resume(c) ==
  /\ pc[c] = "claimed"
  /\ graph' = [graph EXCEPT ![c] = [checkpoint EXCEPT !.interrupted = FALSE]]
  /\ Move(c, "graph")
  /\ UNCHANGED <<row, checkpoint, answer, settings, pdf, decisions, lost, view>>

-----------------------------------------------------------------------------
(* The graph.                                                              *)

At(c, node) ==
  pc[c] = "graph" /\ graph[c].next = node /\ ~graph[c].interrupted

(* _parse_pdf reads the file that start wrote.                             *)
ParsePdf(c) ==
  /\ At(c, "parse_pdf")
  /\ pdf
  /\ graph' = [graph EXCEPT ![c].next = "retrieve_context"]
  /\ UNCHANGED <<row, checkpoint, pc, answer, settings, pdf, decisions, lost, view>>

(* _retrieve_context; an empty knowledge base is a warning, not an error.  *)
RetrieveContext(c) ==
  /\ At(c, "retrieve_context")
  /\ graph' = [graph EXCEPT ![c].next = "analyze"]
  /\ UNCHANGED <<row, checkpoint, pc, answer, settings, pdf, decisions, lost, view>>

(* _analyze asks the model for the next draft, with the feedback so far;   *)
(* the model may answer with nothing but white space.                      *)
Analyze(c) ==
  /\ At(c, "analyze")
  /\ \E blank \in BOOLEAN :
       graph' = [graph EXCEPT ![c].draft = @ + 1, ![c].blank = blank,
                              ![c].basis = graph[c].feedback,
                              ![c].next = "request_approval"]
  /\ UNCHANGED <<row, checkpoint, pc, answer, settings, pdf, decisions, lost, view>>

(* Mutation: one revision too many.                                        *)
RouteOffByOne(decision, n) ==
  IF decision = "approved" THEN "generate_report"
  ELSE IF n <= settings.max_revisions THEN "analyze" ELSE "end"

(* _route_after_approval, for a decision that brings the count to n.       *)
Route(decision, n) ==
  IF decision = "approved" THEN "generate_report"
  ELSE IF n < settings.max_revisions THEN "analyze" ELSE "end"

(* _request_approval when no approval is asked for.                        *)
AutoApprove(c) ==
  /\ At(c, "request_approval")
  /\ ~settings.require_approval
  /\ graph' = [graph EXCEPT ![c].approval = "approved",
                            ![c].next = Route("approved", graph[c].revision_count)]
  /\ UNCHANGED <<row, checkpoint, pc, answer, settings, pdf, decisions, lost, view>>

DecidedBy(d) == IF d \in DOMAIN decisions THEN decisions[d] ELSE {}

(* _request_approval of a resumed graph: the node runs again from its      *)
(* beginning, interrupt returns the decision and the graph is routed by it. *)
Decide(c) ==
  LET n == graph[c].revision_count + (IF answer[c] = "rejected" THEN 1 ELSE 0)
      d == graph[c].draft
  IN  /\ At(c, "request_approval")
      /\ settings.require_approval /\ answer[c] # "none"
      /\ graph' = [graph EXCEPT
           ![c].approval = answer[c], ![c].revision_count = n,
           ![c].feedback = IF answer[c] = "rejected" THEN c ELSE Nobody,
           ![c].next = Route(answer[c], n)]
      /\ answer' = [answer EXCEPT ![c] = "none"]
      /\ decisions' = [e \in DOMAIN decisions \cup {d} |->
           IF e = d THEN DecidedBy(d) \cup {<<c, answer[c]>>} ELSE decisions[e]]
      /\ UNCHANGED <<row, checkpoint, pc, settings, pdf, lost, view>>

(* interrupt raises out of the node and the graph pauses there.            *)
Interrupt(c) ==
  /\ At(c, "request_approval")
  /\ settings.require_approval /\ answer[c] = "none"
  /\ graph' = [graph EXCEPT ![c].interrupted = TRUE]
  /\ UNCHANGED <<row, checkpoint, pc, answer, settings, pdf, decisions, lost, view>>

(* _generate_report writes the file of a draft that is not blank.          *)
GenerateReport(c) ==
  /\ At(c, "generate_report")
  /\ ~graph[c].blank
  /\ graph' = [graph EXCEPT ![c].report = graph[c].draft, ![c].next = "end"]
  /\ UNCHANGED <<row, checkpoint, pc, answer, settings, pdf, decisions, lost, view>>

(* LangGraph saves the state behind the back of the nodes...               *)
Save(c) ==
  /\ pc[c] = "graph"
  /\ checkpoint # graph[c]
  /\ checkpoint' = graph[c]
  /\ UNCHANGED <<row, graph, pc, answer, settings, pdf, decisions, lost, view>>

Ended(c) == pc[c] = "graph" /\ (graph[c].next = "end" \/ graph[c].interrupted)

(* ... and before ainvoke returns.  start removes the upload here.         *)
Return(c) ==
  /\ Ended(c)
  /\ checkpoint' = graph[c]
  /\ pdf' = (pdf /\ c # Starter)
  /\ Move(c, "finalizing")
  /\ UNCHANGED <<row, graph, answer, settings, decisions, lost, view>>

(* A node or a save raises: an unreadable or missing PDF, an unavailable   *)
(* store or provider, a blank analysis.                                    *)
NodeRaises(c) ==
  /\ pc[c] \in {"claimed", "graph"}
  /\ Move(c, "failing")
  /\ UNCHANGED <<row, checkpoint, graph, answer, settings, pdf, decisions, lost, view>>

-----------------------------------------------------------------------------
(* The last write of a call to the row.                                    *)

(* Mutation: the interrupt is not looked at.                               *)
FinalStatusNoInterrupt(s) ==
  IF s.report # 0 THEN "completed"
  ELSE IF s.approval = "rejected" THEN "rejected"
  ELSE "running"

(* _finalize_run: the status that the result of the graph stands for.      *)
FinalStatus(s) ==
  IF s.report # 0 THEN "completed"
  ELSE IF s.interrupted THEN "pending_approval"
  ELSE IF s.approval = "rejected" THEN "rejected"
  ELSE "running"

Finalize(c) ==
  /\ pc[c] = "finalizing"
  /\ row' = FinalStatus(graph[c])
  /\ Move(c, "returned")
  /\ UNCHANGED <<checkpoint, graph, answer, settings, pdf, decisions, lost, view>>

(* Mutation: the update is inside the try, whose handler records FAILED.   *)
FinalizeRaisesInTry(c) ==
  /\ pc[c] = "finalizing"
  /\ row' \in {row, FinalStatus(graph[c])}
  /\ Move(c, "failing")
  /\ UNCHANGED <<checkpoint, graph, answer, settings, pdf, decisions, lost, view>>

(* The update raises, committed or not.  It is outside the try, so no      *)
(* failure is recorded over it.                                            *)
FinalizeRaises(c) ==
  /\ pc[c] = "finalizing"
  /\ \/ row' = row /\ lost' = TRUE
     \/ row' = FinalStatus(graph[c]) /\ lost' = lost
  /\ Move(c, "raised")
  /\ UNCHANGED <<checkpoint, graph, answer, settings, pdf, decisions, view>>

(* _record_failure, then the finally of start.                             *)
RecordFailure(c) ==
  /\ pc[c] = "failing"
  /\ \/ row' = "failed" /\ lost' = lost
     \/ row' = row /\ lost' = TRUE        \* the update raises
  /\ pdf' = (pdf /\ c # Starter)
  /\ Move(c, "raised")
  /\ UNCHANGED <<checkpoint, graph, answer, settings, decisions, view>>

-----------------------------------------------------------------------------
(* Calls that end early.                                                   *)

(* CancelledError is no Exception: nothing is recorded, finally still runs. *)
Cancel(c) ==
  /\ pc[c] \in Alive
  /\ pdf' = (pdf /\ c # Starter)
  /\ lost' = (lost \/ row = "running")
  /\ Move(c, "dead")
  /\ UNCHANGED <<row, checkpoint, graph, answer, settings, decisions, view>>

(* The process dies: not even finally runs.                                *)
Crash(c) ==
  /\ pc[c] \in Alive
  /\ lost' = (lost \/ row = "running")
  /\ Move(c, "dead")
  /\ UNCHANGED <<row, checkpoint, graph, answer, settings, pdf, decisions, view>>

-----------------------------------------------------------------------------
(* get_status reads the row, then the checkpoint.                          *)

ReadRow ==
  /\ view.phase # "row"
  /\ row # "none"
  /\ view' = [NoView EXCEPT !.phase = "row", !.status = row]
  /\ UNCHANGED <<row, checkpoint, graph, pc, answer, settings, pdf, decisions, lost>>

ReadSnapshot ==
  /\ view.phase = "row"
  /\ view' = [view EXCEPT !.phase = "shown", !.draft = checkpoint.draft,
                          !.report = checkpoint.report]
  /\ UNCHANGED <<row, checkpoint, graph, pc, answer, settings, pdf, decisions, lost>>

-----------------------------------------------------------------------------
(* Steps a call takes on its own once it has the run.                      *)
Node(c) ==
  \/ ParsePdf(c) \/ RetrieveContext(c) \/ Analyze(c)
  \/ AutoApprove(c) \/ Decide(c) \/ Interrupt(c) \/ GenerateReport(c)

Work(c) ==
  Resume(c) \/ Node(c) \/ Return(c) \/ NodeRaises(c) \/ Finalize(c)
    \/ FinalizeRaises(c) \/ RecordFailure(c)

Next ==
  \/ Start \/ Create \/ CreateRaises
  \/ \E c \in Reviewers : Claim(c) \/ Refuse(c) \/ ClaimRaises(c)
  \/ \E c \in Calls : Work(c) \/ Save(c) \/ Cancel(c) \/ Crash(c)
  \/ ReadRow \/ ReadSnapshot

Spec == Init /\ [][Next]_vars

(* A coroutine that can go on does: every node is bounded by the timeouts  *)
(* of the store and of the provider.  Reviewers and pollers owe nothing.   *)
Fairness == \A c \in Calls : WF_vars(Work(c))

FairSpec == Spec /\ Fairness

-----------------------------------------------------------------------------
(* Properties.                                                             *)

Driving == Working \cup {"claimed"}
Drivers == {c \in Calls : pc[c] \in Driving}

(* Types of the row, the checkpoint, the calls and the view; a decision on *)
(* a draft is one of the two that _parse_approval lets through.            *)
TypeOK ==
  /\ row \in Statuses
  /\ checkpoint \in GraphStates
  /\ graph \in [Calls -> GraphStates]
  /\ pc \in [Calls -> {"idle"} \cup Alive \cup Over]
  /\ answer \in [Calls -> Decisions \cup {"none"}]
  /\ settings \in Settings
  /\ pdf \in BOOLEAN
  /\ DOMAIN decisions \subseteq Nat
  /\ \A d \in DOMAIN decisions : decisions[d] \subseteq Reviewers \X Decisions
  /\ lost \in BOOLEAN
  /\ view \in [phase : {"idle", "row", "shown"}, status : Statuses,
               draft : Nat, report : Nat]

(* approve, reject and start never drive the graph of a run at the same    *)
(* time, and the row reads running for as long as one of them does: the    *)
(* unconditional updates of _finalize_run and _record_failure overwrite    *)
(* nothing but the claim of their own call.  Nor does a row read running   *)
(* without a driver, unless a call was cancelled, crashed or could not     *)
(* reach the database: no call that returns leaves it so.                  *)
OneExecutor ==
  /\ \A c, e \in Drivers : c = e
  /\ Drivers # {} => row = "running"
  /\ row = "running" /\ Drivers = {} => lost

(* When the API says that a run awaits approval, the saved graph stands at *)
(* the interrupt of request_approval, with a draft nobody has decided on:  *)
(* the resume of the next reviewer finds what it expects.  The upload is   *)
(* gone by then; no node that is left reads it.                            *)
AwaitsDecision ==
  row = "pending_approval" =>
    /\ Drivers = {} /\ ~pdf
    /\ checkpoint.next = "request_approval" /\ checkpoint.interrupted
    /\ checkpoint.draft > 0 /\ checkpoint.report = 0
    /\ checkpoint.draft \notin DOMAIN decisions

(* Every draft gets at most one decision however many reviewers race for   *)
(* it, never one of another tenant, and none follows an approval.          *)
OneDecision ==
  /\ \A d \in DOMAIN decisions : \E c \in Reviewers \ Foreign, a \in Decisions :
       decisions[d] = {<<c, a>>}
  /\ \A d, e \in DOMAIN decisions : d < e =>
       \A x \in decisions[d] : x[2] = "rejected"

(* A completed run has the report of its last draft, which is not blank    *)
(* and was approved, if approval was asked for.  A rejected run has no     *)
(* report, used up its revisions and had every draft turned down.          *)
OutcomeIsDecided ==
  /\ row = "completed" =>
       /\ checkpoint.report > 0 /\ checkpoint.report = checkpoint.draft
       /\ ~checkpoint.blank
       /\ settings.require_approval =>
            \E c \in Reviewers : DecidedBy(checkpoint.report) = {<<c, "approved">>}
  /\ row = "rejected" =>
       /\ checkpoint.report = 0
       /\ checkpoint.revision_count >= settings.max_revisions
       /\ \A d \in 1..checkpoint.draft :
            \E c \in Reviewers : DecidedBy(d) = {<<c, "rejected">>}

(* Rejections cannot keep a run going: the model is asked for as many      *)
(* drafts as max_revisions, and for one at least.  Each new draft was      *)
(* written from the feedback of the call that turned down the one before,  *)
(* although the call that drives may never have seen the earlier ones.     *)
RevisionsFollowRejections ==
  \A c \in Calls :
    graph[c].draft > 1 =>
      /\ graph[c].draft <= settings.max_revisions
      /\ DecidedBy(graph[c].draft - 1) = {<<graph[c].basis, "rejected">>}

(* get_status reads the row before the checkpoint, so what it shows beside *)
(* a status is no older than the status: a completed run with its report,  *)
(* a pending one with its draft.                                           *)
ViewCoherent ==
  view.phase = "shown" =>
    /\ view.status = "completed" => view.report > 0
    /\ view.status = "pending_approval" => view.draft > 0
    /\ view.status = "rejected" => view.report = 0

(* However calls and reads interleave, a run has one driver, can be        *)
(* resumed when it waits, and is shown as it is.                           *)
RunCoherent == OneExecutor /\ AwaitsDecision /\ ViewCoherent

(* The drafts and the outcome of a run follow the decisions that were made *)
(* on it.                                                                  *)
DecisionsKept == OneDecision /\ OutcomeIsDecided /\ RevisionsFollowRejections

(* completed, rejected and failed are final: no late write of another call *)
(* and no second decision takes a run out of them.                         *)
FinalIsFinal == [][(row \in Final) => row' = row]_row

(* A run that is running comes to its interrupt or its end, unless a call  *)
(* was lost.                                                               *)
RunEnds == row = "running" ~> (row # "running" \/ lost)

=============================================================================
