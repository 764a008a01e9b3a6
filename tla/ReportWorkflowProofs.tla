------------------------- MODULE ReportWorkflowProofs -------------------------
(***************************************************************************)
(* Proofs about ReportWorkflow for any reviewers, tenants and limits.      *)
(*                                                                         *)
(* The row is the lock of the run: whoever moved it to running, by insert  *)
(* or by the conditional update, is the only driver until the last write.  *)
(* The inductive invariant adds what the lock protects: the state of the   *)
(* graph that the driver holds, and that the checkpoint holds while the    *)
(* run waits, is sound with respect to the decisions made so far.          *)
(* OutcomeInv adds that the outcome the driver carries, the row once it is *)
(* final and what a view has read of it follow from those decisions.       *)
(***************************************************************************)
EXTENDS ReportWorkflow, TLAPS

Limit(cfg) == {0, 1} \cup 0..cfg.max_revisions

AllRejected(dec) == \A d \in DOMAIN dec : \A x \in dec[d] : x[2] = "rejected"

(* A draft after the first has the feedback that turned down the last one. *)
Based(s, dec) ==
  s.draft > 1 => /\ s.draft - 1 \in DOMAIN dec
                 /\ dec[s.draft - 1] = {<<s.basis, "rejected">>}

(* A graph state that agrees with the decisions.                           *)
Sound(s, cfg, dec) ==
  /\ s.draft \in Limit(cfg) /\ Based(s, dec)
  /\ s.next \in {"parse_pdf", "retrieve_context"} => s.draft = 0
  /\ s.next \in {"parse_pdf", "retrieve_context", "analyze"} =>
       /\ s.revision_count = s.draft
       /\ s.draft = 0 \/ s.draft < cfg.max_revisions
  /\ s.next = "analyze" /\ s.draft > 0 =>
       s.draft \in DOMAIN dec /\ dec[s.draft] = {<<s.feedback, "rejected">>}
  /\ s.next = "request_approval" =>
       /\ s.draft = s.revision_count + 1
       /\ s.draft \notin DOMAIN dec
  /\ s.next = "generate_report" => s.draft > 0
  /\ s.next # "end" => s.report = 0
  /\ s.next = "end" => s.report > 0 \/ s.approval = "rejected"
  /\ s.interrupted => s.next = "request_approval"
  /\ \A d \in DOMAIN dec : d <= s.draft
  /\ s.next \in {"generate_report", "end"} \/ AllRejected(dec)

Exclusive ==
  /\ \A c, e \in Calls : pc[c] \in Driving /\ pc[e] \in Driving => c = e
  /\ \A c \in Calls : pc[c] \in Driving => row = "running" /\ c \notin Foreign

Unstarted ==
  /\ pc[Starter] \in {"idle", "creating"} =>
       row = "none" /\ graph[Starter] = Fresh
  /\ row = "none" => DOMAIN decisions = {}
  /\ pc[Starter] # "claimed" /\ answer[Starter] = "none"
  /\ \A c \in Reviewers : pc[c] # "creating"

Held ==
  \A c \in Calls :
    /\ pc[c] \in {"graph", "finalizing"} => Sound(graph[c], settings, decisions)
    /\ pc[c] = "finalizing" =>
         /\ checkpoint = graph[c]
         /\ graph[c].next = "end" \/ graph[c].interrupted

Waiting ==
  (row = "pending_approval" \/ \E c \in Calls : pc[c] = "claimed") =>
    Sound(checkpoint, settings, decisions) /\ checkpoint.interrupted

Decided ==
  /\ \A d \in DOMAIN decisions : \E c \in Reviewers \ Foreign, a \in Decisions :
       decisions[d] = {<<c, a>>}
  /\ \A d, e \in DOMAIN decisions : d < e =>
       \A x \in decisions[d] : x[2] = "rejected"

Stranded == row = "running" /\ (\A c \in Calls : pc[c] \notin Driving) => lost

Bounded ==
  \A c \in Calls : graph[c].draft \in Limit(settings) /\ Based(graph[c], decisions)

(* The upload is there while start needs it; if it outlives start, by a    *)
(* crash, the run is stranded.                                             *)
Upload ==
  pdf => \/ pc[Starter] \in {"creating", "graph", "failing"}
         \/ row \in {"none", "running"} /\ \A c \in Calls : pc[c] \notin Driving

IInv ==
  /\ TypeOK /\ Exclusive /\ Unstarted /\ Held /\ Waiting /\ Decided
  /\ Stranded /\ Bounded /\ Upload

(* The initial state satisfies the invariant.                              *)
LEMMA Initially == Init => IInv
  <1> SUFFICES ASSUME Init PROVE IInv
    OBVIOUS
  <1> USE CallsAssumption, LimitsAssumption DEF Init
  <1>1. Fresh \in GraphStates
    BY DEF Fresh, GraphStates, Nodes, Decisions
  <1>2. NoView \in [phase : {"idle", "row", "shown"}, status : Statuses,
                    draft : Nat, report : Nat]
    BY DEF NoView, Statuses
  <1>3. TypeOK
    BY <1>1, <1>2 DEF TypeOK, Statuses
  <1>4. Exclusive /\ Unstarted /\ Held /\ Waiting /\ Decided /\ Stranded
    BY DEF Exclusive, Unstarted, Held, Waiting, Decided, Stranded, Driving,
           Working, Calls
  <1>5. Bounded /\ Upload
    BY DEF Bounded, Limit, Based, Fresh, Upload
  <1> QED
    BY <1>3, <1>4, <1>5 DEF IInv

(* The steps of start before the graph.                                    *)
LEMMA StartStep ==
  ASSUME IInv, Start \/ Create \/ CreateRaises
  PROVE  IInv'
  <1> USE CallsAssumption DEF IInv
  <1> Starter \in Calls
    BY DEF Calls
  <1>1. UNCHANGED <<checkpoint, graph, answer, settings, decisions, view>>
        /\ pc' \in [Calls -> {"idle"} \cup Alive \cup Over]
        /\ row \in {"none"} /\ row' \in {"none", "running"}
    BY DEF Start, Create, CreateRaises, Move, TypeOK, Unstarted, Alive, Working, Over
  <1>2. TypeOK'
    BY <1>1 DEF TypeOK, Start, Create, CreateRaises, Statuses
  <1>3. \A c \in Calls : pc[c] \notin Driving
    BY <1>1 DEF Exclusive
  <1>4. Sound(Fresh, settings, decisions)
    BY <1>1 DEF Unstarted, Sound, Limit, Based, Fresh, AllRejected
  <1>5. Exclusive' /\ Unstarted'
    BY <1>1, <1>3 DEF Start, Create, CreateRaises, Move, TypeOK, Exclusive,
       Unstarted, Driving, Working, Calls
  <1>7. Held'
    BY <1>1, <1>3, <1>4 DEF Start, Create, CreateRaises, Move, TypeOK,
       Unstarted, Held, Driving, Working
  <1>8. Stranded'
    BY <1>1, <1>3 DEF Start, Create, CreateRaises, Move, TypeOK, Stranded,
       Driving, Working
  <1>6. Waiting' /\ Decided' /\ Bounded'
    BY <1>1, <1>3 DEF Start, Create, CreateRaises, Move, TypeOK, Waiting, Decided,
       Bounded, Driving, Working
  <1>9. Upload'
    BY <1>1, <1>3 DEF Start, Create, CreateRaises, Move, TypeOK, Upload
  <1> QED
    BY <1>2, <1>5, <1>6, <1>7, <1>8, <1>9

(* A reviewer takes the run, or fails to.                                  *)
LEMMA ClaimStep ==
  ASSUME IInv, NEW c \in Reviewers, Claim(c) \/ Refuse(c) \/ ClaimRaises(c)
  PROVE  IInv'
  <1> USE CallsAssumption DEF IInv
  <1> c \in Calls /\ c # Starter /\ Starter \in Calls
    BY DEF Calls
  <1>1. /\ UNCHANGED <<checkpoint, graph, settings, pdf, decisions, view>>
        /\ pc' \in [Calls -> {"idle"} \cup Alive \cup Over]
        /\ pc[c] = "idle" /\ pc[c] \notin Driving /\ row # "none"
        /\ row' = row \/ (row = "pending_approval" /\ row' = "running")
        /\ \A e \in Calls \ {c} : pc'[e] = pc[e]
        /\ answer' \in [Calls -> Decisions \cup {"none"}]
        /\ answer'[Starter] = answer[Starter]
    BY DEF Claim, Refuse, ClaimRaises, Matches, Move, TypeOK, Alive, Working, Over,
       Driving
  <1>2. TypeOK'
    BY <1>1 DEF TypeOK, Claim, Refuse, ClaimRaises, Statuses
  <1>3. row = "pending_approval" => \A e \in Calls : pc[e] \notin Driving
    BY DEF Exclusive
  <1>4. Exclusive' /\ Stranded'
    BY <1>1, <1>3 DEF Claim, Refuse, ClaimRaises, Matches, Move, TypeOK, Exclusive,
       Stranded, Driving, Working
  <1>5. Unstarted' /\ Held'
    BY <1>1 DEF Claim, Refuse, ClaimRaises, Move, TypeOK, Unstarted, Held, Calls
  <1>6. Waiting' /\ Decided' /\ Bounded'
    BY <1>1 DEF Claim, Refuse, ClaimRaises, Matches, Move, TypeOK, Waiting, Decided,
       Bounded
  <1>7. Upload'
    <2>1. CASE row' = row /\ pc'[c] \notin Driving
      BY <1>1, <2>1 DEF Upload
    <2>2. CASE row = "pending_approval"
      BY <1>1, <1>3, <2>2 DEF Upload, Unstarted, Driving, Working
    <2>3. (row' = row /\ pc'[c] \notin Driving) \/ row = "pending_approval"
      BY <1>1 DEF Claim, Refuse, ClaimRaises, Matches, Move, TypeOK, Driving, Working
    <2> QED
      BY <2>1, <2>2, <2>3
  <1> QED
    BY <1>2, <1>4, <1>5, <1>6, <1>7

(* What the last write of a driver puts into the row.                      *)
LEMMA LastWrite ==
  ASSUME IInv, NEW c \in Calls, pc[c] = "finalizing"
  PROVE  /\ FinalStatus(graph[c]) \in {"completed", "pending_approval", "rejected"}
         /\ FinalStatus(graph[c]) = "pending_approval" =>
              Sound(checkpoint, settings, decisions) /\ checkpoint.interrupted
  <1>1. Sound(graph[c], settings, decisions) /\ checkpoint = graph[c]
        /\ (graph[c].next = "end" \/ graph[c].interrupted)
    BY DEF IInv, Held
  <1>2. graph[c] \in GraphStates
    BY DEF IInv, TypeOK
  <1> QED
    BY <1>1, <1>2 DEF Sound, FinalStatus, GraphStates

(* A driver gives the run up: it raises, ends with its last write to the   *)
(* row, or is lost.                                                        *)
LEMMA EndStep ==
  ASSUME IInv, NEW c \in Calls,
         \/ NodeRaises(c) \/ Finalize(c) \/ FinalizeRaises(c)
         \/ RecordFailure(c) \/ Cancel(c) \/ Crash(c)
  PROVE  IInv'
  <1> USE CallsAssumption DEF IInv
  <1> Starter \in Calls
    BY DEF Calls
  <1>1. /\ UNCHANGED <<checkpoint, graph, answer, settings, decisions, view>>
        /\ pc' \in [Calls -> {"idle"} \cup Alive \cup Over]
        /\ pc[c] \in Alive /\ pc'[c] \in {"failing", "returned", "raised", "dead"}
        /\ pc'[c] = "failing" => pc[c] \in {"claimed", "graph"}
        /\ \A e \in Calls \ {c} : pc'[e] = pc[e]
    BY DEF NodeRaises, Finalize, FinalizeRaises, RecordFailure, Cancel, Crash,
       Move, TypeOK, Alive, Working, Over
  <1>2. /\ row' \in {row, "failed", "completed", "pending_approval", "rejected"}
        /\ row' # row => pc[c] \in {"finalizing", "failing"}
        /\ row' # row => pc'[c] \in {"returned", "raised"}
        /\ row' = "pending_approval" /\ row' # row =>
             Sound(checkpoint, settings, decisions) /\ checkpoint.interrupted
    BY LastWrite DEF NodeRaises, Finalize, FinalizeRaises, RecordFailure,
       Cancel, Crash, Move, TypeOK
  <1>3. TypeOK'
    <2>1. pdf' \in BOOLEAN
      BY Zenon DEF TypeOK, NodeRaises, Finalize, FinalizeRaises, RecordFailure, Cancel, Crash
    <2>2. lost' \in BOOLEAN
      BY Zenon DEF TypeOK, NodeRaises, Finalize, FinalizeRaises, RecordFailure, Cancel, Crash
    <2>3. row' \in Statuses
      BY <1>2 DEF TypeOK, Statuses, Final
    <2> QED
      BY <1>1, <2>1, <2>2, <2>3 DEF TypeOK
  <1>4. pc[c] = "creating" => c = Starter /\ row = "none"
    <2>1. c \in Reviewers => pc[c] # "creating"
      BY DEF Unstarted
    <2> QED
      BY <2>1 DEF Unstarted, Calls
  <1>5. Exclusive'
    BY <1>1, <1>2, <1>4 DEF Exclusive, Driving, Working, Alive
  <1>6. Unstarted'
    BY <1>1, <1>2, <1>4 DEF Unstarted, Exclusive, Driving, Working, Alive, Calls
  <1>10. Held'
    BY <1>1 DEF Held
  <1>7. Waiting'
    BY <1>1, <1>2 DEF Waiting
  <1>8. Decided' /\ Bounded'
    BY <1>1 DEF Decided, Bounded
  <1>9. Stranded'
    BY <1>1, <1>2, <1>4, LastWrite DEF Stranded, NodeRaises, Finalize,
       FinalizeRaises, RecordFailure, Cancel, Crash, Move, TypeOK, Driving,
       Working, Alive, Exclusive
  <1>11. Upload'
    <2>1. pdf' => pdf
      BY <1>1 DEF NodeRaises, Finalize, FinalizeRaises, RecordFailure, Cancel, Crash
    <2>2. CASE c # Starter
      BY <1>1, <1>4, <2>1, <2>2 DEF Upload, Unstarted, Exclusive, Driving, Working, Alive
    <2>3. CASE c = Starter
      BY <1>1, <1>2, <1>4, <2>1, <2>3 DEF Upload, Unstarted, Exclusive, Driving,
         Working, Alive, NodeRaises, Finalize, FinalizeRaises, RecordFailure, Cancel,
         Crash, Move, TypeOK
    <2> QED
      BY <2>2, <2>3
  <1> QED
    BY <1>3, <1>5, <1>6, <1>7, <1>8, <1>9, <1>10, <1>11

(* The checkpoint is written only by the driver, with its own state.       *)
LEMMA SaveStep ==
  ASSUME IInv, NEW c \in Calls, Save(c) \/ Return(c)
  PROVE  IInv'
  <1> USE CallsAssumption DEF IInv
  <1> Starter \in Calls
    BY DEF Calls
  <1>1. /\ UNCHANGED <<row, graph, answer, settings, decisions, lost, view>>
        /\ checkpoint' = graph[c]
        /\ pc' \in [Calls -> {"idle"} \cup Alive \cup Over]
        /\ pc[c] = "graph" /\ pc'[c] \in {"graph", "finalizing"}
        /\ pc'[c] = "finalizing" => graph[c].next = "end" \/ graph[c].interrupted
        /\ \A e \in Calls \ {c} : pc'[e] = pc[e]
    BY DEF Save, Return, Ended, Move, TypeOK, Alive, Working, Over
  <1>2. TypeOK'
    BY <1>1 DEF TypeOK, Save, Return
  <1>3. row = "running" /\ \A e \in Calls \ {c} : pc[e] \notin Driving
    BY <1>1 DEF Exclusive, Driving, Working
  <1>4. Exclusive' /\ Stranded'
    BY <1>1, <1>3 DEF Exclusive, Stranded, Driving, Working
  <1>5. Unstarted' /\ Decided' /\ Bounded'
    BY <1>1 DEF Unstarted, Decided, Bounded, Calls
  <1>6. Held' /\ Waiting'
    BY <1>1, <1>3 DEF Held, Waiting, Driving, Working
  <1>7. Upload'
    BY <1>1, <1>3 DEF Save, Return, Upload, Driving, Working
  <1> QED
    BY <1>2, <1>4, <1>5, <1>6, <1>7

(* A node that makes no decision: it is enough that it leaves its graph    *)
(* state sound.                                                            *)
LEMMA NodeStep ==
  ASSUME IInv, NEW c \in Calls, NEW s \in GraphStates, pc[c] = "graph",
         Sound(s, settings, decisions), graph' = [graph EXCEPT ![c] = s],
         UNCHANGED <<row, checkpoint, pc, answer, settings, pdf, decisions, lost, view>>
  PROVE  IInv'
  <1> USE DEF IInv
  <1>1. TypeOK'
    BY DEF TypeOK
  <1>2. Exclusive' /\ Stranded' /\ Decided' /\ Waiting' /\ Upload'
    BY DEF Exclusive, Stranded, Decided, Waiting, Upload
  <1>3. Unstarted'
    BY DEF Unstarted, TypeOK
  <1>4. Held'
    BY DEF Held, TypeOK
  <1>5. Bounded'
    BY DEF Bounded, TypeOK, Sound
  <1> QED
    BY <1>1, <1>2, <1>3, <1>4, <1>5

(* A claimed run is resumed from the checkpoint it waited in.              *)
LEMMA ResumeStep ==
  ASSUME IInv, NEW c \in Calls, Resume(c)
  PROVE  IInv'
  <1> USE CallsAssumption DEF IInv
  <1> DEFINE s == [checkpoint EXCEPT !.interrupted = FALSE]
  <1>1. /\ Sound(checkpoint, settings, decisions) /\ checkpoint.interrupted
        /\ checkpoint \in GraphStates
        /\ pc[c] = "claimed" /\ c # Starter
    BY DEF Waiting, TypeOK, Resume, Unstarted
  <1>2. s \in GraphStates /\ Sound(s, settings, decisions)
    BY <1>1 DEF Sound, Based, GraphStates
  <1>3. /\ graph' = [graph EXCEPT ![c] = s] /\ graph' \in [Calls -> GraphStates]
        /\ pc' = [pc EXCEPT ![c] = "graph"]
        /\ pc' \in [Calls -> {"idle"} \cup Alive \cup Over]
        /\ UNCHANGED <<row, checkpoint, answer, settings, pdf, decisions, lost, view>>
    BY <1>2 DEF Resume, Move, TypeOK, Alive, Working
  <1> HIDE DEF s
  <1>4. TypeOK'
    BY <1>3 DEF TypeOK
  <1>5. Exclusive' /\ Stranded' /\ Decided' /\ Waiting'
    BY <1>1, <1>3 DEF Exclusive, Stranded, Decided, Waiting, Driving, Working, TypeOK
  <1>6. Unstarted'
    BY <1>1, <1>3 DEF Unstarted, TypeOK, Calls
  <1>7. Held' /\ Bounded'
    BY <1>1, <1>2, <1>3 DEF Held, Bounded, TypeOK, Sound
  <1>8. Upload'
    BY <1>1, <1>3 DEF Upload, Exclusive, Unstarted, Driving, Working, TypeOK, Calls
  <1> QED
    BY <1>4, <1>5, <1>6, <1>7, <1>8

(* The nodes that decide nothing leave a sound state.                      *)
LEMMA NodeCases ==
  ASSUME IInv, NEW c \in Calls,
         \/ ParsePdf(c) \/ RetrieveContext(c) \/ Analyze(c)
         \/ AutoApprove(c) \/ Interrupt(c) \/ GenerateReport(c)
  PROVE  IInv'
  <1> DEFINE g == graph[c]
  <1>0. /\ pc[c] = "graph" /\ g \in GraphStates /\ ~g.interrupted
        /\ Sound(g, settings, decisions)
        /\ graph \in [Calls -> GraphStates]
        /\ settings \in Settings
    BY DEF IInv, TypeOK, Held, At, ParsePdf, RetrieveContext, Analyze,
       AutoApprove, Interrupt, GenerateReport
  <1>1. CASE ParsePdf(c)
    <2> DEFINE s == [g EXCEPT !.next = "retrieve_context"]
    <2>1. s \in GraphStates /\ Sound(s, settings, decisions)
      BY <1>0, <1>1 DEF ParsePdf, At, GraphStates, Nodes, Sound, Based
    <2>2. graph' = [graph EXCEPT ![c] = s]
      BY <1>1 DEF ParsePdf
    <2> QED
      BY <1>0, <1>1, <2>1, <2>2, NodeStep DEF ParsePdf
  <1>2. CASE RetrieveContext(c)
    <2> DEFINE s == [g EXCEPT !.next = "analyze"]
    <2>1. s \in GraphStates /\ Sound(s, settings, decisions)
      BY <1>0, <1>2 DEF RetrieveContext, At, GraphStates, Nodes, Sound, Based
    <2>2. graph' = [graph EXCEPT ![c] = s]
      BY <1>2 DEF RetrieveContext
    <2> QED
      BY <1>0, <1>2, <2>1, <2>2, NodeStep DEF RetrieveContext
  <1>3. CASE Analyze(c)
    <2>1. PICK blank \in BOOLEAN :
            graph' = [graph EXCEPT ![c].draft = @ + 1, ![c].blank = blank,
                                   ![c].basis = graph[c].feedback,
                                   ![c].next = "request_approval"]
      BY <1>3 DEF Analyze
    <2> DEFINE s == [g EXCEPT !.draft = g.draft + 1, !.blank = blank,
                              !.basis = g.feedback, !.next = "request_approval"]
    <2>5. /\ s.next = "request_approval" /\ s.draft = g.draft + 1
          /\ s.revision_count = g.revision_count /\ s.report = g.report
          /\ s.interrupted = g.interrupted /\ s.basis = g.feedback
      BY <1>0 DEF GraphStates
    <2>2. s \in GraphStates
      <3>1. g.draft + 1 \in Nat /\ g.feedback \in Reviewers \cup {Nobody}
            /\ "request_approval" \in Nodes /\ blank \in BOOLEAN
        BY <1>0, <2>1 DEF GraphStates, Nodes
      <3>2. [g EXCEPT !.draft = g.draft + 1] \in GraphStates
        BY <1>0, <3>1 DEF GraphStates
      <3>3. [[g EXCEPT !.draft = g.draft + 1] EXCEPT !.blank = blank] \in GraphStates
        BY <3>2, <3>1, Zenon DEF GraphStates
      <3> QED
        BY <3>1, <3>3 DEF GraphStates
    <2>6. /\ g.draft \in Nat /\ settings.max_revisions \in Nat
          /\ g.next = "analyze" /\ g.revision_count = g.draft /\ g.report = 0
          /\ g.draft = 0 \/ g.draft < settings.max_revisions
          /\ \A d \in DOMAIN decisions : d \in Nat /\ d <= g.draft
          /\ AllRejected(decisions)
          /\ g.draft > 0 => /\ g.draft \in DOMAIN decisions
                            /\ decisions[g.draft] = {<<g.feedback, "rejected">>}
      BY <1>0, <1>3, LimitsAssumption
      DEF Analyze, At, GraphStates, Settings, Sound, IInv, TypeOK
    <2> HIDE DEF s
    <2>3. Sound(s, settings, decisions)
      BY <1>0, <2>5, <2>6 DEF Sound, Limit, Based
    <2> USE DEF s
    <2>4. graph' = [graph EXCEPT ![c] = s]
      BY <1>0, <2>1
    <2> QED
      BY <1>0, <1>3, <2>2, <2>3, <2>4, NodeStep DEF Analyze
  <1>4. CASE AutoApprove(c)
    <2> DEFINE s == [g EXCEPT !.approval = "approved", !.next = "generate_report"]
    <2>3. g.next = "request_approval" /\ g.draft > 0
      BY <1>0, <1>4 DEF AutoApprove, At, GraphStates, Sound
    <2>4. s \in GraphStates
      BY <1>0 DEF GraphStates, Nodes, Decisions
    <2>1. Sound(s, settings, decisions)
      BY <1>0, <2>3 DEF GraphStates, Sound, Based
    <2>2. graph' = [graph EXCEPT ![c] = s]
      BY <1>0, <1>4 DEF AutoApprove, Route
    <2> QED
      BY <1>0, <1>4, <2>1, <2>2, <2>4, NodeStep DEF AutoApprove
  <1>5. CASE Interrupt(c)
    <2> DEFINE s == [g EXCEPT !.interrupted = TRUE]
    <2>1. s \in GraphStates /\ Sound(s, settings, decisions)
      BY <1>0, <1>5 DEF Interrupt, At, GraphStates, Sound, Based
    <2>2. graph' = [graph EXCEPT ![c] = s]
      BY <1>5 DEF Interrupt
    <2> QED
      BY <1>0, <1>5, <2>1, <2>2, NodeStep DEF Interrupt
  <1>6. CASE GenerateReport(c)
    <2> DEFINE s == [g EXCEPT !.report = g.draft, !.next = "end"]
    <2>1. s \in GraphStates /\ Sound(s, settings, decisions)
      BY <1>0, <1>6 DEF GenerateReport, At, GraphStates, Nodes, Sound, Based
    <2>2. graph' = [graph EXCEPT ![c] = s]
      BY <1>0, <1>6 DEF GenerateReport
    <2> QED
      BY <1>0, <1>6, <2>1, <2>2, NodeStep DEF GenerateReport
  <1> QED
    BY <1>1, <1>2, <1>3, <1>4, <1>5, <1>6

(* The decision of the driver is the first on its draft and the last of    *)
(* all so far.                                                             *)
LEMMA DecideStep ==
  ASSUME IInv, NEW c \in Calls, Decide(c)
  PROVE  IInv'
  <1> USE CallsAssumption, LimitsAssumption
  <1> DEFINE g == graph[c]
             a == answer[c]
             n == g.revision_count + (IF a = "rejected" THEN 1 ELSE 0)
             s == [g EXCEPT !.approval = a, !.revision_count = n,
                            !.feedback = IF a = "rejected" THEN c ELSE Nobody,
                            !.next = Route(a, n)]
             d == g.draft
  <1>0. /\ pc[c] = "graph" /\ g \in GraphStates /\ ~g.interrupted
        /\ g.next = "request_approval"
        /\ Sound(g, settings, decisions)
        /\ graph \in [Calls -> GraphStates]
        /\ settings \in Settings
        /\ a \in Decisions
        /\ c \in Reviewers \ Foreign /\ row = "running"
        /\ \A e \in Calls \ {c} : pc[e] \notin Driving
    BY DEF IInv, TypeOK, Held, At, Decide, Decisions, Unstarted, Calls, Exclusive,
       Driving, Working
  <1>1. d \in Nat /\ d \notin DOMAIN decisions /\ d > 0
        /\ (\A e \in DOMAIN decisions : e <= d) /\ AllRejected(decisions)
    BY <1>0 DEF Sound, GraphStates
  <1>2. /\ DOMAIN decisions' = DOMAIN decisions \cup {d}
        /\ decisions'[d] = {<<c, a>>}
        /\ \A e \in DOMAIN decisions : decisions'[e] = decisions[e]
    BY <1>1 DEF Decide, DecidedBy
  <1>3. /\ graph' = [graph EXCEPT ![c] = s]
        /\ answer' = [answer EXCEPT ![c] = "none"]
        /\ UNCHANGED <<row, checkpoint, pc, settings, pdf, lost, view>>
    BY <1>0 DEF Decide
  <1>4. n \in Nat /\ Route(a, n) \in Nodes
    BY <1>0 DEF GraphStates, Route, Nodes
  <1>5. s \in GraphStates
    BY <1>0, <1>4 DEF GraphStates, Decisions
  <1>6. Sound(s, settings, decisions')
    <2>1. CASE a = "approved"
      BY <2>1, <1>0, <1>1, <1>2 DEF Sound, Based, GraphStates, Route
    <2>2. CASE a = "rejected"
      <3>1. AllRejected(decisions')
        BY <2>2, <1>1, <1>2 DEF AllRejected
      <3>2. n = d
        BY <2>2, <1>0 DEF Sound, GraphStates
      <3> QED
        BY <2>2, <3>1, <3>2, <1>0, <1>1, <1>2 DEF Sound, Based, GraphStates, Route, Settings
    <2> QED
      BY <2>1, <2>2, <1>0 DEF Decisions
  <1> HIDE DEF s
  <1>7. TypeOK'
    <2>1. DOMAIN decisions' \subseteq Nat
          /\ \A e \in DOMAIN decisions' : decisions'[e] \subseteq Reviewers \X Decisions
      BY <1>0, <1>1, <1>2 DEF IInv, TypeOK
    <2> QED
      BY <1>3, <1>5, <2>1 DEF IInv, TypeOK
  <1>8. Exclusive' /\ Stranded' /\ Waiting' /\ Upload'
    BY <1>0, <1>3 DEF IInv, Exclusive, Stranded, Waiting, Upload, Driving
  <1>9. Unstarted'
    BY <1>0, <1>3 DEF IInv, Unstarted, TypeOK
  <1>10. Held'
    BY <1>0, <1>3, <1>6 DEF IInv, Held, TypeOK, Driving, Working
  <1>11. Bounded'
    BY <1>2, <1>3, <1>6 DEF IInv, Bounded, Based, TypeOK, Sound
  <1>12. Decided'
    <2>1. \A e \in DOMAIN decisions' : \E r \in Reviewers \ Foreign, b \in Decisions :
            decisions'[e] = {<<r, b>>}
      BY <1>0, <1>2 DEF IInv, Decided
    <2>2. \A e, f \in DOMAIN decisions' : e < f =>
            \A x \in decisions'[e] : x[2] = "rejected"
      <3> SUFFICES ASSUME NEW e \in DOMAIN decisions', NEW f \in DOMAIN decisions', e < f
                   PROVE  \A x \in decisions'[e] : x[2] = "rejected"
        OBVIOUS
      <3>1. e \in DOMAIN decisions
        BY <1>1, <1>2, <1>7 DEF TypeOK
      <3> QED
        BY <3>1, <1>1, <1>2 DEF AllRejected
    <2> QED
      BY <2>1, <2>2 DEF Decided
  <1> QED
    BY <1>7, <1>8, <1>9, <1>10, <1>11, <1>12 DEF IInv

(* get_status changes nothing but its own answer.                          *)
LEMMA ViewStep ==
  ASSUME IInv, ReadRow \/ ReadSnapshot
  PROVE  IInv'
  <1>1. UNCHANGED <<row, checkpoint, graph, pc, answer, settings, pdf, decisions, lost>>
    BY DEF ReadRow, ReadSnapshot
  <1>2. view' \in [phase : {"idle", "row", "shown"}, status : Statuses,
                   draft : Nat, report : Nat]
    <2>1. row \in Statuses /\ checkpoint.draft \in Nat /\ checkpoint.report \in Nat
          /\ view \in [phase : {"idle", "row", "shown"}, status : Statuses,
                       draft : Nat, report : Nat]
      BY DEF IInv, TypeOK, GraphStates
    <2>2. ReadRow => view' = [phase |-> "row", status |-> row, draft |-> 0, report |-> 0]
      BY DEF ReadRow, NoView
    <2>3. CASE ReadRow
      BY <2>1, <2>2, <2>3
    <2>4. CASE ReadSnapshot
      <3>1. view' = [phase |-> "shown", status |-> view.status,
                     draft |-> checkpoint.draft, report |-> checkpoint.report]
        BY <2>1, <2>4 DEF ReadSnapshot
      <3> QED
        BY <2>1, <3>1
    <2> QED
      BY <2>3, <2>4
  <1>3. TypeOK'
    BY <1>1, <1>2 DEF IInv, TypeOK
  <1> QED
    BY <1>1, <1>3 DEF IInv, Exclusive, Unstarted, Held, Waiting, Decided, Stranded,
       Bounded, Upload

(* Every step preserves the invariant.                                     *)
LEMMA Inductive == IInv /\ [Next]_vars => IInv'
  <1> SUFFICES ASSUME IInv, [Next]_vars PROVE IInv'
    OBVIOUS
  <1>1. CASE Start \/ Create \/ CreateRaises
    BY <1>1, StartStep
  <1>2. CASE \E c \in Reviewers : Claim(c) \/ Refuse(c) \/ ClaimRaises(c)
    BY <1>2, ClaimStep
  <1>3. ASSUME NEW c \in Calls, Work(c) \/ Save(c) \/ Cancel(c) \/ Crash(c)
        PROVE  IInv'
    <2>1. CASE Node(c)
      BY <2>1, NodeCases, DecideStep DEF Node
    <2>2. CASE Resume(c)
      BY <2>2, ResumeStep
    <2>3. CASE Return(c) \/ Save(c)
      BY <2>3, SaveStep
    <2>4. CASE \/ NodeRaises(c) \/ Finalize(c) \/ FinalizeRaises(c)
               \/ RecordFailure(c) \/ Cancel(c) \/ Crash(c)
      BY <2>4, EndStep
    <2> QED
      BY <1>3, <2>1, <2>2, <2>3, <2>4 DEF Work
  <1>4. CASE ReadRow \/ ReadSnapshot
    BY <1>4, ViewStep
  <1>5. CASE UNCHANGED vars
    BY <1>5 DEF vars, IInv, TypeOK, Exclusive, Unstarted, Held, Waiting, Decided,
       Stranded, Bounded, Upload
  <1> QED
    BY <1>1, <1>2, <1>3, <1>4, <1>5 DEF Next

(* The invariant holds in every reachable state.                           *)
THEOREM Invariance == Spec => []IInv
  BY Initially, Inductive, PTL DEF Spec

(* Type correctness of the row, the checkpoint and the calls.              *)
THEOREM TypeCorrect == Spec => []TypeOK
  <1>1. IInv => TypeOK
    BY DEF IInv
  <1> QED
    BY <1>1, Invariance, PTL

(* However many reviewers race, start, approve and reject never drive the  *)
(* graph of a run together, the row reads running meanwhile, and only a    *)
(* lost call leaves it so without a driver.                                *)
THEOREM ExclusiveDriver == Spec => []OneExecutor
  <1>1. IInv => OneExecutor
    BY DEF IInv, Exclusive, Stranded, OneExecutor, Drivers
  <1> QED
    BY <1>1, Invariance, PTL

(* A run that awaits approval can be resumed: its checkpoint stands at the *)
(* interrupt with a draft that nobody has decided on.                      *)
THEOREM PendingIsResumable == Spec => []AwaitsDecision
  <1>1. IInv => AwaitsDecision
    <2> SUFFICES ASSUME IInv, row = "pending_approval"
                 PROVE  /\ Drivers = {} /\ ~pdf
                        /\ checkpoint.next = "request_approval" /\ checkpoint.interrupted
                        /\ checkpoint.draft > 0 /\ checkpoint.report = 0
                        /\ checkpoint.draft \notin DOMAIN decisions
      BY DEF AwaitsDecision
    <2>1. Drivers = {} /\ ~pdf
      BY DEF IInv, Exclusive, Unstarted, Upload, Drivers, Driving, Working, Calls
    <2>2. checkpoint \in GraphStates /\ Sound(checkpoint, settings, decisions)
          /\ checkpoint.interrupted
      BY DEF IInv, TypeOK, Waiting
    <2> QED
      BY <2>1, <2>2 DEF Sound, GraphStates
  <1> QED
    BY <1>1, Invariance, PTL

(* A draft is decided on once, by its own tenant, and nothing is decided   *)
(* after an approval.                                                      *)
THEOREM SingleDecision == Spec => []OneDecision
  <1>1. IInv => OneDecision
    BY DEF IInv, Decided, OneDecision
  <1> QED
    BY <1>1, Invariance, PTL

(* The model is asked for no more drafts than max_revisions, or for one,   *)
(* and each after the first has the feedback on the one before.            *)
THEOREM RevisionsFollow == Spec => []RevisionsFollowRejections
  <1>1. IInv => RevisionsFollowRejections
    <2> SUFFICES ASSUME IInv, NEW c \in Calls, graph[c].draft > 1
                 PROVE  /\ graph[c].draft <= settings.max_revisions
                        /\ DecidedBy(graph[c].draft - 1) = {<<graph[c].basis, "rejected">>}
      BY DEF RevisionsFollowRejections
    <2>1. graph[c].draft \in Nat /\ graph[c].draft \in Limit(settings)
          /\ Based(graph[c], decisions) /\ settings.max_revisions \in Nat
      BY LimitsAssumption DEF IInv, TypeOK, Bounded, Settings, GraphStates
    <2> QED
      BY <2>1 DEF Limit, Based, DecidedBy
  <1> QED
    BY <1>1, Invariance, PTL

(* completed, rejected and failed are never left.                          *)
THEOREM OutcomesFinal == Spec => FinalIsFinal
  <1>1. IInv /\ [Next]_vars => [(row \in Final) => row' = row]_row
    <2> SUFFICES ASSUME IInv, Next, row \in Final PROVE row' = row
      BY DEF vars
    <2>1. \A c \in Calls : pc[c] \notin Driving
      BY DEF IInv, Exclusive, Final
    <2>2. pc[Starter] # "creating"
      BY DEF IInv, Unstarted, Final
    <2> QED
      BY <2>1, <2>2 DEF Next, Work, Node, Start, Create, CreateRaises, Claim, Refuse,
         ClaimRaises, Matches, Resume, ParsePdf, RetrieveContext, Analyze, AutoApprove,
         Decide, Interrupt, GenerateReport, Save, Return, NodeRaises, Finalize,
         FinalizeRaises, RecordFailure, Cancel, Crash, ReadRow, ReadSnapshot, Final,
         Driving, Working
  <1> QED
    BY <1>1, Invariance, PTL DEF Spec, FinalIsFinal

-----------------------------------------------------------------------------
(* The outcome of a run and what get_status shows of it.                   *)

(* The decisions a graph state goes back to: every draft before the last   *)
(* was decided on; a report is of the last draft, approved where that was  *)
(* asked for; an end without a report comes after the last revision, with  *)
(* no draft left undecided and none approved.                              *)
Backed(s, cfg, dec) ==
  /\ \A d \in 1..(s.draft - 1) : d \in DOMAIN dec
  /\ (s.next = "generate_report" \/ s.report > 0) /\ cfg.require_approval =>
       /\ s.draft \in DOMAIN dec
       /\ \E c \in Reviewers : dec[s.draft] = {<<c, "approved">>}
  /\ s.report > 0 => s.report = s.draft /\ ~s.blank
  /\ s.next = "end" /\ s.report = 0 =>
       /\ s.revision_count >= cfg.max_revisions
       /\ s.draft \in DOMAIN dec /\ AllRejected(dec)

Driven == \A c \in Calls :
  pc[c] \in {"graph", "finalizing"} => Backed(graph[c], settings, decisions)

Settled ==
  /\ (row \in {"pending_approval", "completed", "rejected"} \/ \E c \in Calls : pc[c] = "claimed")
       => Backed(checkpoint, settings, decisions)
  /\ row = "completed" => checkpoint.report > 0
  /\ row = "rejected" => checkpoint.report = 0 /\ checkpoint.next = "end"

(* There is a draft, saved and in the hands of whoever drives.             *)
Drafted ==
  /\ checkpoint.draft > 0
  /\ \A c \in Calls : pc[c] \in {"graph", "finalizing"} => graph[c].draft > 0

(* A status that get_status has read and not shown yet.                    *)
Seen ==
  view.phase = "row" =>
    /\ row # "none"
    /\ view.status \in {"completed", "rejected"} => row = view.status
    /\ view.status = "pending_approval" => Drafted

OutcomeInv == Driven /\ Settled /\ Seen /\ ViewCoherent

(* Nothing has been decided or shown at the beginning.                     *)
LEMMA OutcomeInit == Init => OutcomeInv
  BY DEF Init, OutcomeInv, Driven, Settled, Seen, ViewCoherent, NoView

(* The steps of start before the graph.                                    *)
LEMMA OutcomeStart ==
  ASSUME IInv, OutcomeInv, Start \/ Create \/ CreateRaises
  PROVE  OutcomeInv'
  <1> Starter \in Calls
    BY DEF Calls
  <1>1. /\ UNCHANGED <<checkpoint, graph, settings, decisions, view>>
        /\ row = "none" /\ row' \in {"none", "running"} /\ view.phase # "row"
        /\ graph[Starter] = Fresh /\ DOMAIN decisions = {}
        /\ pc'[Starter] \in {"creating", "raised", "graph"}
        /\ \A c \in Calls \ {Starter} : pc'[c] = pc[c]
    BY DEF Start, Create, CreateRaises, Move, IInv, TypeOK, Unstarted, OutcomeInv, Seen
  <1>2. \A c \in Calls : pc[c] \notin Driving
    BY <1>1 DEF IInv, Exclusive
  <1>3. Backed(Fresh, settings, decisions)
    BY <1>1 DEF Backed, Fresh
  <1>4. Driven' /\ Settled'
    BY <1>1, <1>2, <1>3 DEF Driven, Settled, Driving, Working
  <1> QED
    BY <1>1, <1>4 DEF OutcomeInv, Seen, ViewCoherent

(* A claim takes a run that waits with everything that is saved of it.     *)
LEMMA OutcomeClaim ==
  ASSUME IInv, OutcomeInv, NEW c \in Reviewers, Claim(c) \/ Refuse(c) \/ ClaimRaises(c)
  PROVE  OutcomeInv'
  <1> c \in Calls
    BY DEF Calls
  <1>1. /\ UNCHANGED <<checkpoint, graph, settings, decisions, view>>
        /\ row # "none"
        /\ row' = row \/ (row = "pending_approval" /\ row' = "running")
        /\ pc'[c] \in {"claimed", "refused", "raised"}
        /\ pc'[c] = "claimed" => row = "pending_approval"
        /\ \A e \in Calls \ {c} : pc'[e] = pc[e]
    BY DEF Claim, Refuse, ClaimRaises, Matches, Move, IInv, TypeOK
  <1>2. Driven' /\ Settled'
    BY <1>1 DEF OutcomeInv, Driven, Settled
  <1>3. Seen' /\ ViewCoherent'
    BY <1>1 DEF OutcomeInv, Seen, Drafted, ViewCoherent
  <1> QED
    BY <1>2, <1>3 DEF OutcomeInv

(* A driver ends; its last write says what the checkpoint holds.           *)
LEMMA OutcomeEnd ==
  ASSUME IInv, OutcomeInv, NEW c \in Calls,
         \/ NodeRaises(c) \/ Finalize(c) \/ FinalizeRaises(c)
         \/ RecordFailure(c) \/ Cancel(c) \/ Crash(c)
  PROVE  OutcomeInv'
  <1>1. /\ UNCHANGED <<checkpoint, graph, settings, decisions, view>>
        /\ pc'[c] \in {"failing", "returned", "raised", "dead"}
        /\ \A e \in Calls \ {c} : pc'[e] = pc[e]
    BY DEF NodeRaises, Finalize, FinalizeRaises, RecordFailure, Cancel, Crash, Move, IInv,
       TypeOK
  <1>2. /\ row' # row => row = "running"
        /\ row' \in {row, "failed"} \/ (pc[c] = "finalizing" /\ row' = FinalStatus(graph[c]))
    BY DEF NodeRaises, Finalize, FinalizeRaises, RecordFailure, Cancel, Crash, IInv, Exclusive,
       Driving, Working
  <1>3. ASSUME pc[c] = "finalizing"
        PROVE  /\ checkpoint = graph[c] /\ Backed(checkpoint, settings, decisions)
               /\ FinalStatus(graph[c]) \in {"completed", "pending_approval", "rejected"}
               /\ FinalStatus(graph[c]) = "completed" => checkpoint.report > 0
               /\ FinalStatus(graph[c]) = "rejected" =>
                    checkpoint.report = 0 /\ checkpoint.next = "end"
    <2>1. checkpoint = graph[c] /\ graph[c] \in GraphStates
          /\ (graph[c].next = "end" \/ graph[c].interrupted)
      BY <1>3 DEF IInv, Held, TypeOK
    <2>2. Backed(checkpoint, settings, decisions)
      BY <1>3, <2>1 DEF OutcomeInv, Driven
    <2> QED
      BY <1>3, <2>1, <2>2, LastWrite DEF FinalStatus, GraphStates
  <1>4. Driven'
    BY <1>1 DEF OutcomeInv, Driven
  <1>5. Settled'
    BY <1>1, <1>2, <1>3 DEF OutcomeInv, Settled
  <1>6. Seen' /\ ViewCoherent'
    <2>1. row # "none" => row' # "none"
      BY <1>2, <1>3
    <2> QED
      BY <1>1, <1>2, <2>1 DEF OutcomeInv, Seen, Drafted, ViewCoherent
  <1> QED
    BY <1>4, <1>5, <1>6 DEF OutcomeInv

(* The driver saves its own state.                                         *)
LEMMA OutcomeSave ==
  ASSUME IInv, OutcomeInv, NEW c \in Calls, Save(c) \/ Return(c)
  PROVE  OutcomeInv'
  <1>1. /\ UNCHANGED <<row, graph, settings, decisions, view>>
        /\ checkpoint' = graph[c] /\ pc[c] = "graph"
        /\ pc'[c] \in {"graph", "finalizing"}
        /\ \A e \in Calls \ {c} : pc'[e] = pc[e]
    BY DEF Save, Return, Ended, Move, IInv, TypeOK
  <1>2. row = "running" /\ \A e \in Calls \ {c} : pc[e] \notin Driving
    BY <1>1 DEF IInv, Exclusive, Driving, Working
  <1>3. Driven' /\ Settled'
    BY <1>1, <1>2 DEF OutcomeInv, Driven, Settled, Driving, Working
  <1>4. Seen' /\ ViewCoherent'
    BY <1>1, <1>2 DEF OutcomeInv, Seen, Drafted, ViewCoherent
  <1> QED
    BY <1>3, <1>4 DEF OutcomeInv

(* The driver moves to a state that its decisions back.                    *)
LEMMA OutcomeNode ==
  ASSUME IInv, OutcomeInv, NEW c \in Calls, NEW s \in GraphStates, pc[c] = "graph",
         Backed(s, settings, decisions'), s.draft >= graph[c].draft,
         graph' = [graph EXCEPT ![c] = s],
         UNCHANGED <<row, checkpoint, pc, settings, view>>
  PROVE  OutcomeInv'
  <1>1. /\ row = "running" /\ graph \in [Calls -> GraphStates]
        /\ \A e \in Calls \ {c} : pc[e] \notin Driving
    BY DEF IInv, TypeOK, Exclusive, Driving, Working
  <1>2. Driven' /\ Settled'
    BY <1>1 DEF OutcomeInv, Driven, Settled, Driving, Working
  <1>3. graph[c].draft > 0 => s.draft > 0
    BY <1>1 DEF GraphStates
  <1>4. Seen' /\ ViewCoherent'
    BY <1>1, <1>3 DEF OutcomeInv, Seen, Drafted, ViewCoherent
  <1> QED
    BY <1>2, <1>4 DEF OutcomeInv

(* A reviewer goes on from what the run waited with.                       *)
LEMMA OutcomeResume ==
  ASSUME IInv, OutcomeInv, NEW c \in Calls, Resume(c)
  PROVE  OutcomeInv'
  <1> DEFINE s == [checkpoint EXCEPT !.interrupted = FALSE]
  <1>1. /\ UNCHANGED <<row, checkpoint, settings, decisions, view>>
        /\ graph' = [graph EXCEPT ![c] = s] /\ pc' = [pc EXCEPT ![c] = "graph"]
        /\ pc[c] = "claimed" /\ checkpoint \in GraphStates
        /\ graph \in [Calls -> GraphStates] /\ pc \in [Calls -> {"idle"} \cup Alive \cup Over]
    BY DEF Resume, Move, IInv, TypeOK
  <1>2. /\ row = "running" /\ Backed(checkpoint, settings, decisions)
        /\ \A e \in Calls \ {c} : pc[e] \notin Driving
    BY <1>1 DEF IInv, Exclusive, Driving, Working, OutcomeInv, Settled
  <1>3. Backed(s, settings, decisions) /\ s.draft = checkpoint.draft
    BY <1>1, <1>2 DEF Backed, GraphStates
  <1> HIDE DEF s
  <1>4. Driven' /\ Settled'
    BY <1>1, <1>2, <1>3 DEF OutcomeInv, Driven, Settled, Driving, Working
  <1>5. Seen' /\ ViewCoherent'
    BY <1>1, <1>2, <1>3 DEF OutcomeInv, Seen, Drafted, ViewCoherent
  <1> QED
    BY <1>4, <1>5 DEF OutcomeInv

(* The nodes.  A new draft follows a decision on the last; a report is     *)
(* written of the draft that was approved.                                 *)
LEMMA OutcomeNodes ==
  ASSUME IInv, OutcomeInv, NEW c \in Calls,
         \/ ParsePdf(c) \/ RetrieveContext(c) \/ Analyze(c)
         \/ AutoApprove(c) \/ Interrupt(c) \/ GenerateReport(c)
  PROVE  OutcomeInv'
  <1> DEFINE g == graph[c]
  <1>0. /\ pc[c] = "graph" /\ g \in GraphStates /\ ~g.interrupted
        /\ Sound(g, settings, decisions) /\ Backed(g, settings, decisions)
        /\ graph \in [Calls -> GraphStates]
        /\ UNCHANGED <<row, checkpoint, pc, settings, decisions, view>>
    BY DEF IInv, TypeOK, Held, At, ParsePdf, RetrieveContext, Analyze, AutoApprove, Interrupt,
       GenerateReport, OutcomeInv, Driven
  <1>1. SUFFICES \E s \in GraphStates :
                   /\ Backed(s, settings, decisions) /\ s.draft >= g.draft
                   /\ graph' = [graph EXCEPT ![c] = s]
    BY <1>0, OutcomeNode
  <1>2. CASE ParsePdf(c)
    <2> DEFINE s == [g EXCEPT !.next = "retrieve_context"]
    <2>1. s \in GraphStates /\ graph' = [graph EXCEPT ![c] = s]
      BY <1>0, <1>2 DEF ParsePdf, GraphStates, Nodes
    <2>2. Backed(s, settings, decisions) /\ s.draft >= g.draft
      BY <1>0, <1>2 DEF ParsePdf, At, GraphStates, Sound, Backed
    <2> QED
      BY <2>1, <2>2
  <1>3. CASE RetrieveContext(c)
    <2> DEFINE s == [g EXCEPT !.next = "analyze"]
    <2>1. s \in GraphStates /\ graph' = [graph EXCEPT ![c] = s]
      BY <1>0, <1>3 DEF RetrieveContext, GraphStates, Nodes
    <2>2. Backed(s, settings, decisions) /\ s.draft >= g.draft
      BY <1>0, <1>3 DEF RetrieveContext, At, GraphStates, Sound, Backed
    <2> QED
      BY <2>1, <2>2
  <1>4. CASE Analyze(c)
    <2>1. PICK blank \in BOOLEAN :
            graph' = [graph EXCEPT ![c].draft = @ + 1, ![c].blank = blank,
                                   ![c].basis = graph[c].feedback,
                                   ![c].next = "request_approval"]
      BY <1>4 DEF Analyze
    <2> DEFINE s == [g EXCEPT !.draft = g.draft + 1, !.blank = blank,
                              !.basis = g.feedback, !.next = "request_approval"]
    <2>2. graph' = [graph EXCEPT ![c] = s]
      BY <1>0, <2>1
    <2>3. s \in GraphStates
      <3>1. g.draft + 1 \in Nat /\ g.feedback \in Reviewers \cup {Nobody}
            /\ "request_approval" \in Nodes
        BY <1>0 DEF GraphStates, Nodes
      <3>2. [g EXCEPT !.draft = g.draft + 1] \in GraphStates
        BY <1>0, <3>1 DEF GraphStates
      <3>3. [[g EXCEPT !.draft = g.draft + 1] EXCEPT !.blank = blank] \in GraphStates
        BY <2>1, <3>2, Zenon DEF GraphStates
      <3> QED
        BY <3>1, <3>3 DEF GraphStates
    <2>4. /\ s.next = "request_approval" /\ s.draft = g.draft + 1 /\ s.report = g.report
          /\ g.draft \in Nat
      BY <1>0 DEF GraphStates
    <2>5. /\ g.report = 0
          /\ g.draft > 0 => g.draft \in DOMAIN decisions
      BY <1>0, <1>4 DEF Analyze, At, Sound
    <2> HIDE DEF s
    <2>6. Backed(s, settings, decisions)
      BY <1>0, <2>4, <2>5 DEF Backed
    <2>7. s.draft >= g.draft
      BY <2>4
    <2> QED
      BY <2>2, <2>3, <2>6, <2>7
  <1>5. CASE AutoApprove(c)
    <2> DEFINE s == [g EXCEPT !.approval = "approved", !.next = "generate_report"]
    <2>1. s \in GraphStates /\ graph' = [graph EXCEPT ![c] = s]
      BY <1>0, <1>5 DEF AutoApprove, Route, GraphStates, Nodes, Decisions
    <2>2. Backed(s, settings, decisions) /\ s.draft >= g.draft
      BY <1>0, <1>5 DEF AutoApprove, At, GraphStates, Sound, Backed
    <2> QED
      BY <2>1, <2>2
  <1>6. CASE Interrupt(c)
    <2> DEFINE s == [g EXCEPT !.interrupted = TRUE]
    <2>1. s \in GraphStates /\ graph' = [graph EXCEPT ![c] = s]
      BY <1>0, <1>6 DEF Interrupt, GraphStates
    <2>2. Backed(s, settings, decisions) /\ s.draft >= g.draft
      BY <1>0, <1>6 DEF Interrupt, GraphStates, Backed
    <2> QED
      BY <2>1, <2>2
  <1>7. CASE GenerateReport(c)
    <2> DEFINE s == [g EXCEPT !.report = g.draft, !.next = "end"]
    <2>1. s \in GraphStates /\ graph' = [graph EXCEPT ![c] = s]
      BY <1>0, <1>7 DEF GenerateReport, GraphStates, Nodes
    <2>2. Backed(s, settings, decisions) /\ s.draft >= g.draft
      BY <1>0, <1>7 DEF GenerateReport, At, GraphStates, Sound, Backed
    <2> QED
      BY <2>1, <2>2
  <1> QED
    BY <1>2, <1>3, <1>4, <1>5, <1>6, <1>7

(* A decision backs the report it asks for or, when it is the last the     *)
(* limit allows, the end.                                                  *)
LEMMA OutcomeDecide ==
  ASSUME IInv, OutcomeInv, NEW c \in Calls, Decide(c)
  PROVE  OutcomeInv'
  <1> USE CallsAssumption, LimitsAssumption
  <1> DEFINE g == graph[c]
             a == answer[c]
             n == g.revision_count + (IF a = "rejected" THEN 1 ELSE 0)
             s == [g EXCEPT !.approval = a, !.revision_count = n,
                            !.feedback = IF a = "rejected" THEN c ELSE Nobody,
                            !.next = Route(a, n)]
             d == g.draft
  <1>0. /\ pc[c] = "graph" /\ g \in GraphStates /\ g.next = "request_approval"
        /\ Sound(g, settings, decisions) /\ Backed(g, settings, decisions)
        /\ graph \in [Calls -> GraphStates] /\ settings \in Settings
        /\ a \in Decisions /\ c \in Reviewers
    BY DEF IInv, TypeOK, Held, At, Decide, Decisions, Unstarted, Calls, OutcomeInv, Driven
  <1>1. d \in Nat /\ d \notin DOMAIN decisions /\ d > 0 /\ g.report = 0
        /\ AllRejected(decisions) /\ d = g.revision_count + 1 /\ settings.max_revisions \in Nat
        /\ g.revision_count \in Nat
    <2>1. /\ g.draft \in Nat /\ g.revision_count \in Nat /\ settings.max_revisions \in Nat
      BY <1>0 DEF GraphStates, Settings
    <2>2. /\ d \notin DOMAIN decisions /\ d = g.revision_count + 1 /\ g.report = 0
          /\ AllRejected(decisions)
      BY <1>0 DEF Sound
    <2> QED
      BY <2>1, <2>2
  <1>2. /\ DOMAIN decisions' = DOMAIN decisions \cup {d}
        /\ decisions'[d] = {<<c, a>>}
        /\ \A e \in DOMAIN decisions : decisions'[e] = decisions[e]
    BY <1>1 DEF Decide, DecidedBy
  <1>3. /\ graph' = [graph EXCEPT ![c] = s]
        /\ UNCHANGED <<row, checkpoint, pc, settings, view>>
    BY <1>0 DEF Decide
  <1>4. s \in GraphStates
    <2>1. n \in Nat /\ Route(a, n) \in Nodes
      BY <1>0 DEF GraphStates, Route, Nodes
    <2> QED
      BY <1>0, <2>1 DEF GraphStates, Decisions
  <1>5. /\ s.draft = d /\ s.report = 0 /\ s.revision_count = n /\ s.next = Route(a, n)
    BY <1>0, <1>1 DEF GraphStates
  <1> HIDE DEF s
  <1>6. Backed(s, settings, decisions')
    <2>1. \A e \in 1..(s.draft - 1) : e \in DOMAIN decisions'
      BY <1>0, <1>2, <1>5 DEF Backed
    <2>2. CASE a = "approved"
      <3>1. s.next = "generate_report"
        BY <2>2, <1>5 DEF Route
      <3> QED
        BY <2>1, <2>2, <3>1, <1>0, <1>2, <1>5 DEF Backed
    <2>3. CASE a = "rejected"
      <3>1. AllRejected(decisions')
        BY <2>3, <1>1, <1>2 DEF AllRejected
      <3>2. /\ s.next # "generate_report"
            /\ s.next = "end" => s.revision_count >= settings.max_revisions
        BY <2>3, <1>1, <1>5 DEF Route
      <3> QED
        BY <2>1, <3>1, <3>2, <1>2, <1>5 DEF Backed
    <2> QED
      BY <2>2, <2>3, <1>0 DEF Decisions
  <1>7. s.draft >= g.draft
    BY <1>1, <1>5
  <1> QED
    BY <1>0, <1>3, <1>4, <1>6, <1>7, OutcomeNode

(* get_status takes what the row and then the checkpoint say.              *)
LEMMA OutcomeView ==
  ASSUME IInv, OutcomeInv, ReadRow \/ ReadSnapshot
  PROVE  OutcomeInv'
  <1>1. UNCHANGED <<row, checkpoint, graph, pc, settings, decisions>>
    BY DEF ReadRow, ReadSnapshot
  <1>2. Driven' /\ Settled'
    BY <1>1 DEF OutcomeInv, Driven, Settled
  <1>3. CASE ReadRow
    <2>1. view'.phase = "row" /\ view'.status = row /\ row # "none"
      BY <1>3 DEF ReadRow, NoView
    <2>2. row = "pending_approval" => Drafted
      <3> SUFFICES ASSUME row = "pending_approval" PROVE Drafted
        OBVIOUS
      <3>1. checkpoint \in GraphStates /\ Sound(checkpoint, settings, decisions)
            /\ checkpoint.interrupted /\ \A c \in Calls : pc[c] \notin Driving
        BY DEF IInv, TypeOK, Waiting, Exclusive
      <3> QED
        BY <3>1 DEF Drafted, Sound, GraphStates, Driving, Working
    <2>3. Seen' /\ ViewCoherent'
      BY <1>1, <2>1, <2>2 DEF Seen, Drafted, ViewCoherent
    <2> QED
      BY <1>2, <2>3 DEF OutcomeInv
  <1>4. CASE ReadSnapshot
    <2>1. /\ view'.phase = "shown" /\ view'.status = view.status /\ view.phase = "row"
          /\ view'.draft = checkpoint.draft /\ view'.report = checkpoint.report
      BY <1>4 DEF ReadSnapshot, IInv, TypeOK
    <2>2. Seen' /\ ViewCoherent'
      BY <2>1 DEF OutcomeInv, Seen, Settled, Drafted, ViewCoherent
    <2> QED
      BY <1>2, <2>2 DEF OutcomeInv
  <1> QED
    BY <1>3, <1>4

(* Every step keeps the outcome and the view backed by the decisions.      *)
LEMMA OutcomeInductive == IInv /\ OutcomeInv /\ [Next]_vars => OutcomeInv'
  <1> SUFFICES ASSUME IInv, OutcomeInv, [Next]_vars PROVE OutcomeInv'
    OBVIOUS
  <1>1. CASE Start \/ Create \/ CreateRaises
    BY <1>1, OutcomeStart
  <1>2. CASE \E c \in Reviewers : Claim(c) \/ Refuse(c) \/ ClaimRaises(c)
    BY <1>2, OutcomeClaim
  <1>3. ASSUME NEW c \in Calls, Work(c) \/ Save(c) \/ Cancel(c) \/ Crash(c)
        PROVE  OutcomeInv'
    <2>1. CASE Node(c)
      BY <2>1, OutcomeNodes, OutcomeDecide DEF Node
    <2>2. CASE Resume(c)
      BY <2>2, OutcomeResume
    <2>3. CASE Return(c) \/ Save(c)
      BY <2>3, OutcomeSave
    <2>4. CASE \/ NodeRaises(c) \/ Finalize(c) \/ FinalizeRaises(c)
               \/ RecordFailure(c) \/ Cancel(c) \/ Crash(c)
      BY <2>4, OutcomeEnd
    <2> QED
      BY <1>3, <2>1, <2>2, <2>3, <2>4 DEF Work
  <1>4. CASE ReadRow \/ ReadSnapshot
    BY <1>4, OutcomeView
  <1>5. CASE UNCHANGED vars
    BY <1>5 DEF vars, OutcomeInv, Driven, Settled, Seen, Drafted, ViewCoherent
  <1> QED
    BY <1>1, <1>2, <1>3, <1>4, <1>5 DEF Next

(* The outcome, the drafts in between and what is shown of them follow the *)
(* decisions in every reachable state.                                     *)
THEOREM OutcomeInvariant == Spec => [](IInv /\ OutcomeInv)
  BY Initially, Inductive, OutcomeInit, OutcomeInductive, PTL DEF Spec

(* One driver at a time, a run that waits can be resumed, and get_status   *)
(* shows a status beside a checkpoint that is no older.                    *)
THEOREM CoherentRun == Spec => []RunCoherent
  <1>1. IInv /\ OutcomeInv => ViewCoherent
    BY DEF OutcomeInv
  <1> QED
    BY <1>1, OutcomeInvariant, ExclusiveDriver, PendingIsResumable, PTL DEF RunCoherent

(* A completed run has the approved report of its last draft; a rejected   *)
(* one has used up its revisions, every draft of it turned down; each      *)
(* draft is decided on once.                                               *)
THEOREM DecisionsAreKept == Spec => []DecisionsKept
  <1>1. IInv /\ OutcomeInv => OutcomeIsDecided
    <2> SUFFICES ASSUME IInv, OutcomeInv PROVE OutcomeIsDecided
      OBVIOUS
    <2>0. checkpoint \in GraphStates
      BY DEF IInv, TypeOK
    <2>1. ASSUME row = "completed"
          PROVE  /\ checkpoint.report > 0 /\ checkpoint.report = checkpoint.draft
                 /\ ~checkpoint.blank
                 /\ settings.require_approval =>
                      \E c \in Reviewers : DecidedBy(checkpoint.report) = {<<c, "approved">>}
      <3>1. Backed(checkpoint, settings, decisions) /\ checkpoint.report > 0
        BY <2>1 DEF OutcomeInv, Settled
      <3> QED
        BY <3>1 DEF Backed, DecidedBy
    <2>2. ASSUME row = "rejected"
          PROVE  /\ checkpoint.report = 0
                 /\ checkpoint.revision_count >= settings.max_revisions
                 /\ \A d \in 1..checkpoint.draft :
                      \E c \in Reviewers : DecidedBy(d) = {<<c, "rejected">>}
      <3>1. /\ Backed(checkpoint, settings, decisions)
            /\ checkpoint.report = 0 /\ checkpoint.next = "end"
        BY <2>2 DEF OutcomeInv, Settled
      <3>2. /\ checkpoint.revision_count >= settings.max_revisions
            /\ checkpoint.draft \in DOMAIN decisions /\ AllRejected(decisions)
            /\ \A d \in 1..(checkpoint.draft - 1) : d \in DOMAIN decisions
        BY <3>1 DEF Backed
      <3>3. ASSUME NEW d \in 1..checkpoint.draft
            PROVE  \E c \in Reviewers : DecidedBy(d) = {<<c, "rejected">>}
        <4>1. d \in DOMAIN decisions
          BY <2>0, <3>2 DEF GraphStates
        <4>2. PICK c \in Reviewers \ Foreign, a \in Decisions : decisions[d] = {<<c, a>>}
          BY <4>1 DEF IInv, Decided
        <4>3. <<c, a>>[2] = "rejected"
          BY <3>2, <4>1, <4>2 DEF AllRejected
        <4> QED
          BY <4>1, <4>2, <4>3 DEF DecidedBy
      <3> QED
        BY <3>1, <3>2, <3>3
    <2> QED
      BY <2>1, <2>2 DEF OutcomeIsDecided
  <1> QED
    BY <1>1, OutcomeInvariant, SingleDecision, RevisionsFollow, PTL DEF DecisionsKept

=============================================================================
