------------------------------ MODULE RagProofs ------------------------------
(***************************************************************************)
(* Proofs about RagIngestion, for any number of processes, uploads and     *)
(* tenants and any queue size; then about AgentTrace, for any store a run  *)
(* searches, any model's decisions and any MCP servers.                    *)
(*                                                                         *)
(* StoreInv: what the transaction has read stays true until it inserts.    *)
(* VerdictInv: what a process holds has no verdict.  HeldInv: what has no  *)
(* verdict is held by its process.                                         *)
(*                                                                         *)
(* StepsInv: what the run has recorded of a step is what its one call      *)
(* returned, and its step number is its place.  TraceInv adds to it:       *)
(* EventsInv, that the events of a step frame its call and name it;        *)
(* CacheInv, that a success is what every later call of the same gives;    *)
(* CountInv, that frames and steps have as many sources; and RecordInv,    *)
(* that a record is the view of a run that is over.                        *)
(***************************************************************************)
EXTENDS RagIngestion, AgentTrace, FiniteSetTheorems, SequenceTheorems,
        WellFoundedInduction, TLAPS

(* Every read of the transaction and before it keeps the types.            *)
LEMMA CheckType ==
  ASSUME TypeOK, NEW u \in Uploads, NEW from \in Stages, NEW to \in Stages,
         NEW clash, Check(u, from, to, clash)
  PROVE  TypeOK'
<1> USE ProcessAssumption DEF TypeOK, Check, Goes, Stages, InStore, Statuses, Finished
<1>1. CASE clash
  BY <1>1 DEF Failed
<1>2. CASE ~clash
  BY <1>2
<1> QED BY <1>1, <1>2

LEMMA TypeInit == Init => TypeOK
BY DEF Init, TypeOK, Statuses, Stages

(* Type correctness is preserved by every step.                            *)
LEMMA TypeStep == TypeOK /\ [Next]_vars => TypeOK'
<1> SUFFICES ASSUME TypeOK, [Next]_vars PROVE TypeOK'
  OBVIOUS
<1> USE ProcessAssumption, StopAssumption
<1>1. ASSUME NEW u \in Uploads, Count(u) PROVE TypeOK'
  BY <1>1 DEF TypeOK, Count, Statuses
<1>2. ASSUME NEW u \in Uploads, Submit(u) PROVE TypeOK'
  <2> DEFINE p == ProcessOf[u]
  <2>1. p \in Processes
    OBVIOUS
  <2>2. Append(queue[p], u) \in Seq(Uploads \cup {StopItem})
    BY <2>1 DEF TypeOK
  <2> HIDE DEF p
  <2>3. queue' \in [Processes -> Seq(Uploads \cup {StopItem})]
    BY <1>2, <2>1, <2>2 DEF TypeOK, Submit, p
  <2> QED BY <1>2, <2>3 DEF TypeOK, Submit, Statuses, Unfinished
<1>3. ASSUME NEW u \in Uploads, ListNames(u) PROVE TypeOK'
  BY <1>3, CheckType DEF ListNames, Stages
<1>4. ASSUME NEW u \in Uploads, Embed(u) PROVE TypeOK'
  BY <1>4 DEF TypeOK, Embed, Goes, Stages
<1>5. ASSUME NEW u \in Uploads, LockConfig(u) PROVE TypeOK'
  BY <1>5 DEF TypeOK, LockConfig, Goes, Stages, InStore
<1>6. ASSUME NEW u \in Uploads, CheckModel(u) \/ CheckContent(u) \/ CheckName(u)
      PROVE TypeOK'
  BY <1>6, CheckType DEF CheckModel, CheckContent, CheckName, Stages, InStore
<1>7. ASSUME NEW u \in Uploads, Save(u) PROVE TypeOK'
  BY <1>7 DEF TypeOK, Save, Goes, Stages
<1>8. ASSUME NEW u \in Uploads, Complete(u) PROVE TypeOK'
  BY <1>8 DEF TypeOK, Complete, Goes, Stages, Statuses, Finished
<1>9. ASSUME NEW u \in Uploads, CallFails(u) PROVE TypeOK'
  BY <1>9 DEF TypeOK, CallFails, Failed, Stages, Statuses, Finished
<1>10. ASSUME NEW u \in Uploads, DeleteDocument(u) PROVE TypeOK'
  BY <1>10 DEF TypeOK, DeleteDocument
<1>11. ASSUME NEW p \in Processes, Start(p) PROVE TypeOK'
  BY <1>11 DEF TypeOK, Start
<1>12. ASSUME NEW p \in Processes, Take(p) PROVE TypeOK'
  <2> DEFINE u == Head(queue[p])
  <2>1. queue[p] \in Seq(Uploads \cup {StopItem}) /\ queue[p] # << >>
    BY <1>12 DEF TypeOK, Take
  <2>2. u \in Uploads \cup {StopItem} /\ Tail(queue[p]) \in Seq(Uploads \cup {StopItem})
    BY <2>1
  <2>3. queue' \in [Processes -> Seq(Uploads \cup {StopItem})]
    BY <1>12, <2>2 DEF TypeOK, Take
  <2> HIDE DEF u
  <2>4. /\ status' \in [Uploads -> Statuses]
        /\ stage' \in [Uploads -> Stages]
        /\ consumer' \in [Processes -> {"absent", "waiting", "busy", "done"}]
    <3>1. CASE u = StopItem
      BY <1>12, <3>1 DEF TypeOK, Take, u
    <3>2. CASE u # StopItem
      BY <1>12, <2>2, <3>2 DEF TypeOK, Take, u, Statuses, Stages, Finished, Unfinished
    <3> QED BY <3>1, <3>2
  <2> QED BY <1>12, <2>3, <2>4 DEF TypeOK, Take
<1>13. ASSUME NEW p \in Processes, Stop(p) PROVE TypeOK'
  BY <1>13 DEF TypeOK, Stop, Statuses, Finished
<1>14. ASSUME NEW p \in Processes, StopReturns(p) PROVE TypeOK'
  BY <1>14 DEF TypeOK, StopReturns, Stopped, Statuses, Finished
<1>15. ASSUME NEW p \in Processes, StopCancelled(p) PROVE TypeOK'
  BY <1>15 DEF TypeOK, StopCancelled, Stopped, Interrupted, Statuses, Finished, Stages
<1>16. ASSUME NEW p \in Processes, Crash(p) PROVE TypeOK'
  BY <1>16 DEF TypeOK, Crash, Interrupted, Statuses, Stages
<1>17. CASE UNCHANGED vars
  BY <1>17 DEF TypeOK, vars
<1> QED
  BY <1>1, <1>2, <1>3, <1>4, <1>5, <1>6, <1>7, <1>8, <1>9, <1>10, <1>11, <1>12,
     <1>13, <1>14, <1>15, <1>16, <1>17 DEF Next, Ingest

-----------------------------------------------------------------------------
(* The store.                                                              *)

(* A step that stores nothing and takes no document further into the store *)
(* transaction keeps the facts about the store.                            *)
LEMMA Outside ==
  ASSUME StoreInv, TypeOK',
         stored' \subseteq stored,
         \A u \in Uploads : stage'[u] \in InStore => stage'[u] = stage[u] /\ lock' = lock
  PROVE  StoreInv'
<1>1. LockHeld'
  BY DEF StoreInv, LockHeld
<1>2. ReadsHold'
  BY DEF StoreInv, ReadsHold, Documents, InStore
<1>3. OneEmbeddingModel' /\ UniqueDocuments'
  BY DEF StoreInv, OneEmbeddingModel, UniqueDocuments
<1> QED BY <1>1, <1>2, <1>3 DEF StoreInv

(* A read of the transaction that finds no clash.                          *)
LEMMA Read ==
  ASSUME StoreInv, TypeOK', NEW u \in Uploads,
         NEW from \in InStore, NEW to \in InStore,
         stage[u] = from, stage' = [stage EXCEPT ![u] = to],
         UNCHANGED <<stored, lock>>,
         to = "modelOk" => \A d \in stored : ModelOf[ProcessOf[d]] = ModelOf[ProcessOf[u]],
         to = "contentOk" => /\ from = "modelOk"
                             /\ \A d \in Documents(OwnerOf[u]) : ContentOf[d] # ContentOf[u],
         to = "nameOk" => /\ from = "contentOk"
                          /\ \A d \in Documents(OwnerOf[u]) : NameOf[d] # NameOf[u],
         to # "locked"
  PROVE  StoreInv'
<1>1. \A v \in Uploads : stage'[v] = IF v = u THEN to ELSE stage[v]
  BY DEF StoreInv, TypeOK
<1>2. LockHeld'
  BY <1>1 DEF StoreInv, LockHeld
<1>3. ReadsHold'
  BY <1>1 DEF StoreInv, ReadsHold, Documents, InStore
<1>4. OneEmbeddingModel' /\ UniqueDocuments'
  BY DEF StoreInv, OneEmbeddingModel, UniqueDocuments
<1> QED BY <1>2, <1>3, <1>4 DEF StoreInv

(* A task that fails leaves the transaction and gives up the lock.         *)
LEMMA Fails ==
  ASSUME StoreInv, TypeOK', NEW u \in Uploads, Failed(u), UNCHANGED stored
  PROVE  StoreInv'
<1>1. ASSUME NEW v \in Uploads, stage'[v] \in InStore
      PROVE  stage'[v] = stage[v] /\ lock' = lock
  BY <1>1 DEF StoreInv, TypeOK, LockHeld, Failed, InStore
<1> QED BY <1>1, Outside

LEMMA StoreStep == StoreInv /\ [Next]_vars => StoreInv'
<1> SUFFICES ASSUME StoreInv, [Next]_vars PROVE StoreInv'
  OBVIOUS
<1>0. TypeOK /\ TypeOK'
  BY TypeStep DEF StoreInv
<1>1. ASSUME NEW u \in Uploads, Count(u) PROVE StoreInv'
  BY <1>0, <1>1, Outside DEF Count
<1>2. ASSUME NEW u \in Uploads, Submit(u) PROVE StoreInv'
  BY <1>0, <1>2, Outside DEF Submit
<1>3. ASSUME NEW u \in Uploads, ListNames(u) PROVE StoreInv'
  <2>1. CASE Failed(u)
    BY <1>0, <1>3, <2>1, Fails DEF ListNames, Check
  <2>2. CASE ~Failed(u)
    <3>1. ASSUME NEW v \in Uploads, stage'[v] \in InStore
          PROVE  stage'[v] = stage[v] /\ lock' = lock
      BY <1>0, <1>3, <2>2, <3>1 DEF ListNames, Check, Goes, TypeOK, InStore
    <3> QED BY <1>0, <1>3, <3>1, Outside DEF ListNames, Check
  <2> QED BY <2>1, <2>2
<1>4. ASSUME NEW u \in Uploads, Embed(u) PROVE StoreInv'
  <2>1. ASSUME NEW v \in Uploads, stage'[v] \in InStore
        PROVE  stage'[v] = stage[v] /\ lock' = lock
    BY <1>0, <1>4, <2>1 DEF Embed, Goes, TypeOK, InStore
  <2> QED BY <1>0, <1>4, <2>1, Outside DEF Embed
<1>5. ASSUME NEW u \in Uploads, LockConfig(u) PROVE StoreInv'
  <2>1. \A v \in Uploads : stage[v] \notin InStore
    BY <1>5, StopAssumption DEF StoreInv, LockHeld, LockConfig
  <2>2. \A v \in Uploads : stage'[v] = IF v = u THEN "locked" ELSE stage[v]
    BY <1>0, <1>5 DEF LockConfig, Goes, TypeOK
  <2>3. LockHeld'
    BY <1>5, <2>1, <2>2 DEF LockHeld, LockConfig
  <2>4. ReadsHold'
    BY <1>5, <2>1, <2>2 DEF ReadsHold, InStore
  <2>5. OneEmbeddingModel' /\ UniqueDocuments'
    BY <1>5 DEF StoreInv, LockConfig, OneEmbeddingModel, UniqueDocuments
  <2> QED BY <1>0, <2>3, <2>4, <2>5 DEF StoreInv
<1>6. ASSUME NEW u \in Uploads, CheckModel(u) PROVE StoreInv'
  <2>1. CASE Failed(u)
    BY <1>0, <1>6, <2>1, Fails DEF CheckModel, Check
  <2>2. CASE ~Failed(u)
    BY <1>0, <1>6, <2>2, Read DEF CheckModel, Check, Goes, InStore
  <2> QED BY <2>1, <2>2
<1>7. ASSUME NEW u \in Uploads, CheckContent(u) PROVE StoreInv'
  <2>1. CASE Failed(u)
    BY <1>0, <1>7, <2>1, Fails DEF CheckContent, Check
  <2>2. CASE ~Failed(u)
    BY <1>0, <1>7, <2>2, Read DEF CheckContent, Check, Goes, InStore
  <2> QED BY <2>1, <2>2
<1>8. ASSUME NEW u \in Uploads, CheckName(u) PROVE StoreInv'
  <2>1. CASE Failed(u)
    BY <1>0, <1>8, <2>1, Fails DEF CheckName, Check
  <2>2. CASE ~Failed(u)
    BY <1>0, <1>8, <2>2, Read DEF CheckName, Check, Goes, InStore
  <2> QED BY <2>1, <2>2
<1>9. ASSUME NEW u \in Uploads, Save(u) PROVE StoreInv'
  <2>1. stage[u] = "nameOk" /\ lock = u
    BY <1>9 DEF StoreInv, LockHeld, Save, Goes, InStore
  <2>2. \A v \in Uploads : v # u => stage[v] \notin InStore
    BY <2>1 DEF StoreInv, LockHeld
  <2>3. \A v \in Uploads : stage'[v] = IF v = u THEN "saved" ELSE stage[v]
    BY <1>0, <1>9 DEF Save, Goes, TypeOK
  <2>4. LockHeld' /\ ReadsHold'
    BY <2>2, <2>3 DEF LockHeld, ReadsHold, InStore
  <2>5. /\ \A d \in stored : ModelOf[ProcessOf[d]] = ModelOf[ProcessOf[u]]
        /\ \A d \in stored : OwnerOf[d] = OwnerOf[u] =>
             ContentOf[d] # ContentOf[u] /\ NameOf[d] # NameOf[u]
    BY <2>1 DEF StoreInv, ReadsHold, Documents
  <2>6. stored' = stored \cup {u}
    BY <1>9 DEF Save
  <2>7. OneEmbeddingModel'
    BY <2>5, <2>6 DEF StoreInv, OneEmbeddingModel
  <2>8. UniqueDocuments'
    BY <2>5, <2>6 DEF StoreInv, UniqueDocuments
  <2> QED BY <1>0, <2>4, <2>7, <2>8 DEF StoreInv
<1>10. ASSUME NEW u \in Uploads, Complete(u) PROVE StoreInv'
  <2>1. ASSUME NEW v \in Uploads, stage'[v] \in InStore
        PROVE  stage'[v] = stage[v] /\ lock' = lock
    BY <1>0, <1>10, <2>1 DEF Complete, Goes, TypeOK, InStore
  <2> QED BY <1>0, <1>10, <2>1, Outside DEF Complete
<1>11. ASSUME NEW u \in Uploads, CallFails(u) PROVE StoreInv'
  BY <1>0, <1>11, Fails DEF CallFails
<1>12. ASSUME NEW u \in Uploads, DeleteDocument(u) PROVE StoreInv'
  BY <1>0, <1>12, Outside DEF DeleteDocument
<1>13. ASSUME NEW p \in Processes, Start(p) PROVE StoreInv'
  BY <1>0, <1>13, Outside DEF Start
<1>14. ASSUME NEW p \in Processes, Take(p) PROVE StoreInv'
  <2>1. ASSUME NEW v \in Uploads, stage'[v] \in InStore
        PROVE  stage'[v] = stage[v] /\ lock' = lock
    <3>1. stage' = stage \/ stage' = [stage EXCEPT ![Head(queue[p])] = "parsed"]
      BY <1>14 DEF Take
    <3> QED BY <1>0, <1>14, <2>1, <3>1 DEF Take, TypeOK, InStore
  <2> QED BY <1>0, <1>14, <2>1, Outside DEF Take
<1>15. ASSUME NEW p \in Processes, Stop(p) PROVE StoreInv'
  BY <1>0, <1>15, Outside DEF Stop
<1>16. ASSUME NEW p \in Processes, StopReturns(p) PROVE StoreInv'
  BY <1>0, <1>16, Outside DEF StopReturns
<1>17. ASSUME NEW p \in Processes, Interrupted(p), stored' = stored PROVE StoreInv'
  <2>1. ASSUME NEW v \in Uploads, stage'[v] \in InStore
        PROVE  stage'[v] = stage[v] /\ lock' = lock
    <3>1. v \notin Tasks(p) /\ stage'[v] = stage[v]
      BY <1>17, <2>1 DEF Interrupted, InStore
    <3>2. lock = v
      BY <2>1, <3>1 DEF StoreInv, LockHeld
    <3> QED BY <1>17, <3>1, <3>2 DEF Interrupted
  <2> QED BY <1>0, <1>17, <2>1, Outside
<1>18. CASE UNCHANGED vars
  BY <1>0, <1>18, Outside DEF vars
<1> QED
  BY <1>1, <1>2, <1>3, <1>4, <1>5, <1>6, <1>7, <1>8, <1>9, <1>10, <1>11, <1>12,
     <1>13, <1>14, <1>15, <1>16, <1>17, <1>18
  DEF Next, Ingest, StopCancelled, Crash

(* The invariant of the store: a document between its lock and its commit  *)
(* is alone there, and nothing it has read is out of date (add_document).  *)
THEOREM StoreInvariant == Spec => []StoreInv
<1>1. Init => StoreInv
  BY TypeInit DEF Init, StoreInv, LockHeld, ReadsHold, OneEmbeddingModel,
                  UniqueDocuments, InStore
<1> QED BY <1>1, StoreStep, PTL DEF Spec

(* Processes configured with different embedding models never both have    *)
(* documents in the knowledge base.                                        *)
THEOREM OneModel == Spec => []OneEmbeddingModel
<1>1. StoreInv => OneEmbeddingModel
  BY DEF StoreInv
<1> QED BY <1>1, StoreInvariant, PTL

(* No tenant ever has two documents of one name or one content, whether or *)
(* not the table's unique constraints are there.                           *)
THEOREM NoDuplicates == Spec => []UniqueDocuments
<1>1. StoreInv => UniqueDocuments
  BY DEF StoreInv
<1> QED BY <1>1, StoreInvariant, PTL

-----------------------------------------------------------------------------
(* The verdicts.                                                           *)

(* A step that leaves the queues and the queued tasks alone.               *)
LEMMA QueuesKept ==
  ASSUME VerdictInv, TypeOK', queue' = queue, Drained',
         \A u \in Uploads : status[u] = "queued" => status'[u] = "queued",
         AtWork'
  PROVE  VerdictInv'
<1>1. ItemsAreQueued'
  <2> SUFFICES ASSUME NEW q \in Processes, NEW i \in 1..Len(queue'[q]), NEW u,
                      u = queue'[q][i], u # StopItem
               PROVE  ProcessOf[u] = q /\ status'[u] = "queued"
    BY DEF ItemsAreQueued
  <2>1. ProcessOf[u] = q /\ status[u] = "queued"
    BY DEF VerdictInv, ItemsAreQueued
  <2>2. u \in Uploads
    BY DEF TypeOK
  <2> QED BY <2>1, <2>2
<1>2. ItemsAreDistinct'
  BY DEF VerdictInv, ItemsAreDistinct
<1> QED BY <1>1, <1>2 DEF VerdictInv

(* The task the consumer works on is PROCESSING, whatever the work ends in. *)
LEMMA WorkKept ==
  ASSUME VerdictInv, TypeOK', queue' = queue, server' = server,
         NEW u \in Uploads, stage[u] # "none",
         \A v \in Uploads \ {u} : status'[v] = status[v] /\ stage'[v] = stage[v],
         \A p \in Processes \ {ProcessOf[u]} : consumer'[p] = consumer[p],
         stage'[u] # "none" => status'[u] = status[u] /\ consumer' = consumer
  PROVE  VerdictInv'
<1>1. status[u] = "processing"
  BY DEF VerdictInv, AtWork
<1>2. \A v \in Uploads : status[v] = "queued" => status'[v] = "queued"
  BY <1>1
<1>3. AtWork'
  BY <1>1, ProcessAssumption DEF VerdictInv, AtWork
<1>4. consumer[ProcessOf[u]] = "busy" /\ ProcessOf[u] \in Processes
  BY ProcessAssumption DEF VerdictInv, AtWork
<1>5. Drained'
  BY <1>4 DEF VerdictInv, Drained
<1> QED BY <1>2, <1>3, <1>5, QueuesKept

(* Steps of ingest_document.                                               *)
LEMMA IngestSteps ==
  ASSUME TypeOK, NEW u \in Uploads, Ingest(u) \/ CallFails(u)
  PROVE  /\ queue' = queue /\ server' = server
         /\ stage[u] # "none"
         /\ \A v \in Uploads \ {u} : status'[v] = status[v] /\ stage'[v] = stage[v]
         /\ \A p \in Processes \ {ProcessOf[u]} : consumer'[p] = consumer[p]
         /\ stage'[u] # "none" => status'[u] = status[u] /\ consumer' = consumer
<1> USE DEF TypeOK, Goes
<1>1. CASE ListNames(u)
  BY <1>1 DEF ListNames, Check, Failed
<1>2. CASE Embed(u) \/ LockConfig(u) \/ Save(u) \/ Complete(u)
  BY <1>2 DEF Embed, LockConfig, Save, Complete
<1>3. CASE CheckModel(u)
  BY <1>3 DEF CheckModel, Check, Failed
<1>4. CASE CheckContent(u)
  BY <1>4 DEF CheckContent, Check, Failed
<1>5. CASE CheckName(u)
  BY <1>5 DEF CheckName, Check, Failed
<1>6. CASE CallFails(u)
  BY <1>6 DEF CallFails, Failed
<1> QED BY <1>1, <1>2, <1>3, <1>4, <1>5, <1>6 DEF Ingest

LEMMA VerdictStep == VerdictInv /\ [Next]_vars => VerdictInv'
<1> SUFFICES ASSUME VerdictInv, [Next]_vars PROVE VerdictInv'
  OBVIOUS
<1>0. TypeOK /\ TypeOK'
  BY TypeStep DEF VerdictInv
<1>a. \A p \in Processes : /\ queue[p] \in Seq(Uploads \cup {StopItem})
                          /\ Len(queue[p]) \in Nat
                          /\ \A i \in 1..Len(queue[p]) :
                               queue[p][i] \in Uploads \cup {StopItem}
  BY <1>0 DEF TypeOK
<1>1. ASSUME NEW u \in Uploads, Count(u) PROVE VerdictInv'
  <2>1. \A v \in Uploads : status[v] = "queued" => status'[v] = "queued"
    BY <1>0, <1>1 DEF Count, TypeOK
  <2>2. AtWork'
    BY <1>0, <1>1 DEF Count, TypeOK, VerdictInv, AtWork
  <2>3. Drained'
    BY <1>1 DEF Count, VerdictInv, Drained
  <2> QED BY <1>0, <1>1, <2>1, <2>2, <2>3, QueuesKept DEF Count
<1>2. ASSUME NEW u \in Uploads, Submit(u) PROVE VerdictInv'
  <2> DEFINE p == ProcessOf[u]
             n == Len(queue[p])
  <2>1. p \in Processes /\ status[u] = "counted" /\ stage' = stage
        /\ server' = server /\ consumer' = consumer
    BY <1>2, ProcessAssumption DEF Submit
  <2>2. AtWork'
    BY <1>0, <1>2, <2>1 DEF Submit, TypeOK, VerdictInv, AtWork
  <2>3. CASE queue' = queue
    <3>1. \A v \in Uploads : status[v] = "queued" => status'[v] = "queued"
      BY <1>0, <1>2, <2>1 DEF Submit, TypeOK
    <3>2. Drained'
      BY <2>1, <2>3 DEF VerdictInv, Drained
    <3> QED BY <1>0, <2>2, <2>3, <3>1, <3>2, QueuesKept
  <2>4. CASE queue' # queue
    <3>1. /\ queue' = [queue EXCEPT ![p] = Append(@, u)]
          /\ status' = [status EXCEPT ![u] = "queued"]
          /\ server[p] = "accepting"
      BY <1>2, <2>4 DEF Submit, Running
    <3>2. /\ Len(queue'[p]) = n + 1 /\ n \in Nat
          /\ \A i \in 1..n : queue'[p][i] = queue[p][i]
          /\ queue'[p][n + 1] = u
      BY <1>0, <1>a, <2>1, <3>1 DEF TypeOK
    <3>3. \A q \in Processes \ {p} : queue'[q] = queue[q]
      BY <1>0, <3>1 DEF TypeOK
    <3>4. \A i \in 1..n : queue[p][i] # u
      BY <2>1, StopAssumption DEF VerdictInv, ItemsAreQueued
    <3> HIDE DEF p, n
    <3>5. \A i \in 1..Len(queue'[p]) : i \in 1..n \/ i = n + 1
      BY <3>2
    <3>6. ItemsAreQueued'
      <4> SUFFICES ASSUME NEW q \in Processes, NEW i \in 1..Len(queue'[q]),
                          queue'[q][i] # StopItem
                   PROVE  ProcessOf[queue'[q][i]] = q /\ status'[queue'[q][i]] = "queued"
        BY DEF ItemsAreQueued
      <4>1. CASE q # p
        <5> DEFINE v == queue[q][i]
        <5>1. queue'[q] = queue[q]
          BY <3>3, <4>1
        <5>2. v = queue'[q][i] /\ i \in 1..Len(queue[q]) /\ v # StopItem
          BY <5>1
        <5>3. ProcessOf[v] = q /\ status[v] = "queued"
          BY <1>0, <5>2 DEF VerdictInv, ItemsAreQueued
        <5>4. v \in Uploads
          BY <1>0, <5>2 DEF TypeOK
        <5> HIDE DEF v
        <5>5. status'[v] = "queued"
          BY <1>0, <3>1, <5>3, <5>4 DEF TypeOK
        <5> QED BY <5>2, <5>3, <5>5
      <4>2. CASE q = p /\ i \in 1..n
        BY <1>0, <1>a, <3>1, <3>2, <4>2 DEF VerdictInv, ItemsAreQueued, TypeOK, n
      <4>3. CASE q = p /\ i = n + 1
        BY <1>0, <3>1, <3>2, <4>3 DEF TypeOK, p
      <4> QED BY <3>5, <4>1, <4>2, <4>3
    <3>7. ItemsAreDistinct'
      <4> SUFFICES ASSUME NEW q \in Processes, NEW i \in 1..Len(queue'[q]),
                          NEW j \in 1..Len(queue'[q]), queue'[q][i] # StopItem, i # j
                   PROVE  queue'[q][i] # queue'[q][j]
        BY DEF ItemsAreDistinct
      <4>1. CASE q # p
        BY <3>3, <4>1 DEF VerdictInv, ItemsAreDistinct
      <4>2. CASE q = p /\ i \in 1..n /\ j \in 1..n
        BY <3>2, <4>2 DEF VerdictInv, ItemsAreDistinct, n
      <4>3. CASE q = p /\ i = n + 1 /\ j \in 1..n
        BY <3>2, <3>4, <4>3
      <4>4. CASE q = p /\ i \in 1..n /\ j = n + 1
        BY <3>2, <3>4, <4>4
      <4> QED BY <3>5, <4>1, <4>2, <4>3, <4>4
    <3>8. Drained'
      BY <2>1, <3>1, <3>3 DEF VerdictInv, Drained
    <3> QED BY <1>0, <2>2, <3>6, <3>7, <3>8 DEF VerdictInv
  <2> QED BY <2>3, <2>4
<1>3. ASSUME NEW u \in Uploads, Ingest(u) \/ CallFails(u) PROVE VerdictInv'
  BY <1>0, <1>3, IngestSteps, WorkKept
<1>4. ASSUME NEW u \in Uploads, DeleteDocument(u) PROVE VerdictInv'
  BY <1>0, <1>4, QueuesKept DEF DeleteDocument, VerdictInv, AtWork, Drained
<1>5. ASSUME NEW p \in Processes, Start(p) PROVE VerdictInv'
  <2>1. Drained'
    BY <1>0, <1>5 DEF Start, VerdictInv, Drained, TypeOK
  <2>2. AtWork'
    BY <1>0, <1>5 DEF Start, VerdictInv, AtWork, Drained, TypeOK
  <2> QED BY <1>0, <1>5, <2>1, <2>2, QueuesKept DEF Start
<1>6. ASSUME NEW p \in Processes, Take(p) PROVE VerdictInv'
  <2> DEFINE u == Head(queue[p])
             n == Len(queue[p])
  <2>1. queue[p] \in Seq(Uploads \cup {StopItem}) /\ queue[p] # << >>
    BY <1>0, <1>6 DEF TypeOK, Take
  <2>2. /\ n \in Nat /\ 1 \in 1..n /\ u = queue[p][1]
        /\ Len(Tail(queue[p])) = n - 1
        /\ \A i \in 1..(n - 1) : Tail(queue[p])[i] = queue[p][i + 1]
        /\ u \in Uploads \cup {StopItem}
    BY <2>1
  <2>3. /\ queue'[p] = Tail(queue[p])
        /\ \A q \in Processes \ {p} : queue'[q] = queue[q]
    BY <1>0, <1>6 DEF Take, TypeOK
  <2> HIDE DEF u, n
  <2>4. \A i \in 1..Len(queue'[p]) : /\ i + 1 \in 1..n /\ i + 1 # 1
                                     /\ queue'[p][i] = queue[p][i + 1]
    BY <2>2, <2>3
  <2>5. u # StopItem => u \in Uploads /\ status[u] = "queued" /\ ProcessOf[u] = p
    BY <2>2 DEF VerdictInv, ItemsAreQueued, n
  <2>6. \A v \in Uploads : v # u => status'[v] = status[v] /\ stage'[v] = stage[v]
    BY <1>0, <1>6 DEF Take, TypeOK, u
  <2>7. AtWork'
    <3>1. consumer[p] = "waiting" /\ \A q \in Processes \ {p} : consumer'[q] = consumer[q]
      BY <1>0, <1>6 DEF Take, TypeOK
    <3>2. \A v \in Uploads : ProcessOf[v] = p => stage[v] = "none"
      BY <3>1 DEF VerdictInv, AtWork
    <3>3. u \in Uploads /\ stage'[u] # "none" =>
            status'[u] = "processing" /\ consumer'[p] = "busy"
      BY <1>0, <1>6, <2>5, <3>2, StopAssumption DEF Take, TypeOK, u
    <3>4. ASSUME NEW v \in Uploads, stage'[v] # "none", ProcessOf[v] # p
          PROVE  /\ v # u /\ status'[v] = "processing" /\ consumer'[ProcessOf[v]] = "busy"
                 /\ \A w \in Uploads : stage'[w] # "none" /\ ProcessOf[w] = ProcessOf[v] => w = v
      <4>1. v # u /\ ProcessOf[v] \in Processes
        BY <2>5, <3>4, ProcessAssumption, StopAssumption
      <4>2. stage[v] # "none" /\ status'[v] = status[v]
        BY <2>6, <3>4, <4>1
      <4>3. \A w \in Uploads : ProcessOf[w] = ProcessOf[v] => w # u /\ stage'[w] = stage[w]
        BY <2>5, <2>6, <3>4, StopAssumption
      <4> QED BY <3>1, <3>4, <4>1, <4>2, <4>3 DEF VerdictInv, AtWork
    <3>5. ASSUME NEW v \in Uploads, stage'[v] # "none", ProcessOf[v] = p
          PROVE  v = u
      BY <2>6, <3>2, <3>5
    <3> QED BY <3>3, <3>4, <3>5 DEF AtWork
  <2>8. ItemsAreDistinct'
    <3> SUFFICES ASSUME NEW q \in Processes, NEW i \in 1..Len(queue'[q]),
                        NEW j \in 1..Len(queue'[q]), queue'[q][i] # StopItem, i # j
                 PROVE  queue'[q][i] # queue'[q][j]
      BY DEF ItemsAreDistinct
    <3>1. CASE q # p
      BY <2>3, <3>1 DEF VerdictInv, ItemsAreDistinct
    <3>2. CASE q = p
      <4>1. i + 1 \in 1..n /\ j + 1 \in 1..n /\ i + 1 # j + 1
        BY <2>4, <3>2
      <4> QED BY <2>4, <3>2, <4>1 DEF VerdictInv, ItemsAreDistinct, n
    <3> QED BY <3>1, <3>2
  <2>9. ItemsAreQueued'
    <3> SUFFICES ASSUME NEW q \in Processes, NEW i \in 1..Len(queue'[q]),
                        queue'[q][i] # StopItem
                 PROVE  ProcessOf[queue'[q][i]] = q /\ status'[queue'[q][i]] = "queued"
      BY DEF ItemsAreQueued
    <3>1. CASE q # p
      <4>1. /\ queue'[q] = queue[q] /\ queue[q][i] \in Uploads
            /\ ProcessOf[queue[q][i]] = q /\ status[queue[q][i]] = "queued"
        BY <1>a, <2>3, <3>1 DEF VerdictInv, ItemsAreQueued
      <4>2. queue[q][i] # u
        BY <2>5, <3>1, <4>1
      <4> QED BY <2>6, <4>1, <4>2
    <3>2. CASE q = p
      <4>1. /\ queue'[q][i] = queue[p][i + 1] /\ i + 1 \in 1..n /\ i + 1 # 1
        BY <2>4, <3>2
      <4>2. /\ queue[p][i + 1] \in Uploads /\ queue[p][i + 1] # u
            /\ ProcessOf[queue[p][i + 1]] = p /\ status[queue[p][i + 1]] = "queued"
        BY <1>a, <2>2, <3>2, <4>1 DEF VerdictInv, ItemsAreQueued, ItemsAreDistinct, n
      <4> QED BY <2>6, <3>2, <4>1, <4>2
    <3> QED BY <3>1, <3>2
  <2>10. Drained'
    <3>1. /\ server' = server /\ consumer[p] = "waiting"
          /\ \A q \in Processes \ {p} : consumer'[q] = consumer[q]
      BY <1>0, <1>6 DEF Take, TypeOK
    <3> QED BY <2>3, <2>4, <3>1 DEF VerdictInv, Drained, n
  <2> QED BY <1>0, <2>7, <2>8, <2>9, <2>10 DEF VerdictInv
(* Stop, and a crash: the queue of p is replaced by one without tasks.     *)
<1>7. ASSUME NEW p \in Processes, NEW s \in {<< >>, <<StopItem>>},
             queue' = [queue EXCEPT ![p] = s],
             \A u \in Uploads \ Tasks(p) : status'[u] = status[u],
             \A q \in Processes \ {p} :
               server'[q] = server[q] /\ consumer'[q] = consumer[q],
             server'[p] # "new",
             AtWork'
      PROVE  VerdictInv'
  <2>1. queue'[p] = s /\ \A q \in Processes \ {p} : queue'[q] = queue[q]
    BY <1>0, <1>7 DEF TypeOK
  <2>2. \A i \in 1..Len(queue'[p]) : queue'[p][i] = StopItem /\ i = 1
    <3>1. CASE s = << >>
      BY <2>1, <3>1
    <3>2. CASE s = <<StopItem>>
      <4>1. Len(s) = 1 /\ s[1] = StopItem
        BY <3>2
      <4> QED BY <2>1, <4>1
    <3> QED BY <1>7, <3>1, <3>2
  <2>3. ItemsAreDistinct'
    BY <2>1, <2>2 DEF VerdictInv, ItemsAreDistinct
  <2>4. ItemsAreQueued'
    <3> SUFFICES ASSUME NEW q \in Processes, NEW i \in 1..Len(queue'[q]),
                        queue'[q][i] # StopItem
                 PROVE  ProcessOf[queue'[q][i]] = q /\ status'[queue'[q][i]] = "queued"
      BY DEF ItemsAreQueued
    <3>1. q # p
      BY <2>2
    <3>2. queue'[q] = queue[q] /\ queue[q][i] \in Uploads /\ ProcessOf[queue[q][i]] = q
            /\ status[queue[q][i]] = "queued"
      BY <1>a, <2>1, <3>1 DEF VerdictInv, ItemsAreQueued
    <3> QED BY <1>7, <3>1, <3>2 DEF Tasks
  <2>5. Drained'
    BY <1>7, <2>1, <2>2 DEF VerdictInv, Drained
  <2> QED BY <1>0, <1>7, <2>3, <2>4, <2>5 DEF VerdictInv
<1>8. ASSUME NEW p \in Processes, Stop(p) PROVE VerdictInv'
  <2>1. AtWork'
    BY <1>8 DEF Stop, VerdictInv, AtWork
  <2> QED BY <1>0, <1>7, <1>8, <2>1 DEF Stop, TypeOK
<1>9. ASSUME NEW p \in Processes, Crash(p) PROVE VerdictInv'
  <2>1. AtWork'
    BY <1>0, <1>9 DEF Crash, Interrupted, VerdictInv, AtWork, Tasks, TypeOK
  <2> QED BY <1>0, <1>7, <1>9, <2>1 DEF Crash, Interrupted, TypeOK
(* stop ends: its queue holds no task any more.                            *)
<1>10. ASSUME NEW p \in Processes, server[p] = "stopping", Stopped(p),
              queue' = queue, AtWork',
              \A q \in Processes \ {p} : consumer'[q] = consumer[q]
       PROVE  VerdictInv'
  <2>1. Drained'
    BY <1>0, <1>10 DEF VerdictInv, Drained, Stopped, TypeOK
  <2>2. ItemsAreDistinct'
    BY <1>10 DEF VerdictInv, ItemsAreDistinct
  <2>3. ItemsAreQueued'
    <3> SUFFICES ASSUME NEW q \in Processes, NEW i \in 1..Len(queue[q]),
                        queue[q][i] # StopItem
                 PROVE  ProcessOf[queue[q][i]] = q /\ status'[queue[q][i]] = "queued"
      BY <1>10 DEF ItemsAreQueued
    <3>1. q # p
      BY <1>10 DEF VerdictInv, Drained
    <3>2. queue[q][i] \in Uploads /\ ProcessOf[queue[q][i]] = q
            /\ status[queue[q][i]] = "queued"
      BY <1>a DEF VerdictInv, ItemsAreQueued
    <3> QED BY <1>10, <3>1, <3>2 DEF Stopped, Tasks
  <2> QED BY <1>0, <1>10, <2>1, <2>2, <2>3 DEF VerdictInv
<1>11. ASSUME NEW p \in Processes, StopReturns(p) PROVE VerdictInv'
  <2>1. AtWork'
    BY <1>11 DEF StopReturns, Stopped, VerdictInv, AtWork, Tasks
  <2> QED BY <1>10, <1>11, <2>1 DEF StopReturns
<1>12. ASSUME NEW p \in Processes, StopCancelled(p) PROVE VerdictInv'
  <2>1. AtWork'
    BY <1>0, <1>12 DEF StopCancelled, Stopped, Interrupted, VerdictInv, AtWork, Tasks, TypeOK
  <2> QED BY <1>0, <1>10, <1>12, <2>1 DEF StopCancelled, Interrupted, TypeOK
<1>13. CASE UNCHANGED vars
  <2>1. AtWork' /\ Drained'
    BY <1>13 DEF vars, VerdictInv, AtWork, Drained
  <2> QED BY <1>0, <1>13, <2>1, QueuesKept DEF vars
<1> QED
  BY <1>1, <1>2, <1>3, <1>4, <1>5, <1>6, <1>8, <1>9, <1>11, <1>12, <1>13 DEF Next

(* The invariant of the queues: what they and the consumer hold has no     *)
(* verdict yet, and is held once (submit, _worker, stop).                  *)
THEOREM VerdictInvariant == Spec => []VerdictInv
<1>1. Init => VerdictInv
  BY TypeInit DEF Init, VerdictInv, ItemsAreQueued, ItemsAreDistinct, AtWork, Drained
<1> QED BY <1>1, VerdictStep, PTL DEF Spec

(* The verdict of a task is final: no step of the consumer, of stop, of    *)
(* its cancellation or of a later upload replaces COMPLETED or FAILED.     *)
THEOREM VerdictFinal == Spec => VerdictIsFinal
<1>1. ASSUME VerdictInv, [Next]_vars, NEW u \in Uploads, status[u] \in Finished
      PROVE  status'[u] \in {status[u], "lost"}
  <2>0. TypeOK
    BY <1>1 DEF VerdictInv
  <2>1. ASSUME NEW v \in Uploads, Count(v) \/ Submit(v) PROVE status'[u] = status[u]
    BY <1>1, <2>0, <2>1 DEF Count, Submit, TypeOK, Finished
  <2>2. ASSUME NEW v \in Uploads, Ingest(v) \/ CallFails(v) PROVE status'[u] = status[u]
    <3>1. v # u
      BY <1>1, <2>0, <2>2, IngestSteps DEF VerdictInv, AtWork, Finished
    <3> QED BY <2>0, <2>2, <3>1, IngestSteps
  <2>3. ASSUME NEW p \in Processes, Take(p) PROVE status'[u] = status[u]
    <3>1. queue[p] \in Seq(Uploads \cup {StopItem}) /\ queue[p] # << >>
      BY <2>0, <2>3 DEF TypeOK, Take
    <3>2. 1 \in 1..Len(queue[p]) /\ Head(queue[p]) = queue[p][1]
      BY <3>1
    <3>3. Head(queue[p]) = StopItem \/ status[Head(queue[p])] = "queued"
      BY <1>1, <3>2 DEF VerdictInv, ItemsAreQueued
    <3> QED BY <1>1, <2>0, <2>3, <3>3 DEF Take, TypeOK, Finished
  <2>4. ASSUME NEW p \in Processes, Stop(p) \/ StopReturns(p) \/ StopCancelled(p)
        PROVE  status'[u] = status[u]
    BY <1>1, <2>4 DEF Stop, StopReturns, StopCancelled, Stopped, Finished, Unfinished
  <2>5. ASSUME NEW p \in Processes, Crash(p) PROVE status'[u] \in {status[u], "lost"}
    BY <2>5 DEF Crash
  <2>6. CASE UNCHANGED status
    BY <2>6
  <2> QED
    BY <1>1, <2>1, <2>2, <2>3, <2>4, <2>5, <2>6 DEF Next, DeleteDocument, Start, vars
<1>2. VerdictInv /\ [Next]_vars =>
        [\A u \in Uploads : status[u] \in Finished => status'[u] \in {status[u], "lost"}]_vars
  BY <1>1
<1> QED BY <1>2, VerdictInvariant, PTL DEF Spec, VerdictIsFinal

(* The store keeps to one embedding model and holds no document twice, for *)
(* any number of processes, uploads and crashes.                           *)
THEOREM Consistency == Spec => []StoreConsistent
<1>1. StoreInv => StoreConsistent
  BY DEF StoreInv, StoreConsistent
<1> QED BY <1>1, StoreInvariant, PTL

-----------------------------------------------------------------------------
(* Tasks and queue agree.  VerdictInv says that what the queue and the     *)
(* consumer hold is a task without a verdict; here is the converse: no     *)
(* such task is in neither.                                                *)

QueuedIsHeld ==
  \A u \in Uploads : status[u] = "queued" =>
    \E i \in 1..Len(queue[ProcessOf[u]]) : queue[ProcessOf[u]][i] = u
WorkIsHeld ==
  /\ \A u \in Uploads : status[u] = "processing" => stage[u] # "none"
  /\ \A p \in Processes : consumer[p] = "busy" =>
       \E u \in Uploads : ProcessOf[u] = p /\ stage[u] # "none"
WithinSize == \A p \in Processes : Len(queue[p]) <= QueueSize

HeldInv == QueuedIsHeld /\ WorkIsHeld /\ WithinSize

(* A step of ingest_document: the task stays in hand or gets its verdict,  *)
(* and then the consumer waits again.                                      *)
LEMMA HandsOver ==
  ASSUME TypeOK, NEW u \in Uploads, Ingest(u) \/ CallFails(u)
  PROVE  \/ stage'[u] # "none" /\ status' = status /\ consumer' = consumer
         \/ /\ stage'[u] = "none" /\ status'[u] \in Finished
            /\ consumer'[ProcessOf[u]] = "waiting"
<1> USE ProcessAssumption DEF TypeOK, Goes
<1>1. CASE ListNames(u)
  BY <1>1 DEF ListNames, Check, Failed, Finished
<1>2. CASE Embed(u) \/ LockConfig(u) \/ Save(u) \/ Complete(u)
  BY <1>2 DEF Embed, LockConfig, Save, Complete, Finished
<1>3. CASE CheckModel(u)
  BY <1>3 DEF CheckModel, Check, Failed, Finished
<1>4. CASE CheckContent(u)
  BY <1>4 DEF CheckContent, Check, Failed, Finished
<1>5. CASE CheckName(u)
  BY <1>5 DEF CheckName, Check, Failed, Finished
<1>6. CASE CallFails(u)
  BY <1>6 DEF CallFails, Failed, Finished
<1> QED BY <1>1, <1>2, <1>3, <1>4, <1>5, <1>6 DEF Ingest

(* A step that leaves the queues alone and queues nothing.                 *)
LEMMA StillHeld ==
  ASSUME HeldInv, queue' = queue, WorkIsHeld',
         \A u \in Uploads : status'[u] = "queued" => status[u] = "queued"
  PROVE  HeldInv'
BY DEF HeldInv, QueuedIsHeld, WithinSize

(* The queue and the work of p are dropped: stop and crash.                *)
LEMMA Dropped ==
  ASSUME TypeOK, HeldInv, NEW p \in Processes, NEW s \in {<< >>, <<StopItem>>},
         queue' = [queue EXCEPT ![p] = s], WorkIsHeld',
         \A u \in Uploads : status'[u] = "queued" => status[u] = "queued" /\ u \notin Tasks(p)
  PROVE  HeldInv'
<1>1. queue'[p] = s /\ \A q \in Processes \ {p} : queue'[q] = queue[q]
  BY DEF TypeOK
<1>2. QueuedIsHeld'
  <2> SUFFICES ASSUME NEW u \in Uploads, status'[u] = "queued"
               PROVE  \E i \in 1..Len(queue'[ProcessOf[u]]) : queue'[ProcessOf[u]][i] = u
    BY DEF QueuedIsHeld
  <2>1. ProcessOf[u] \in Processes \ {p}
    BY ProcessAssumption DEF Tasks
  <2> QED BY <1>1, <2>1 DEF HeldInv, QueuedIsHeld
<1>3. Len(s) <= QueueSize
  <2>1. CASE s = << >>
    BY <2>1, SizeAssumption
  <2>2. CASE s = <<StopItem>>
    <3>1. Len(s) = 1
      BY <2>2
    <3> QED BY <3>1, SizeAssumption
  <2> QED BY <2>1, <2>2
<1>4. WithinSize'
  BY <1>1, <1>3 DEF HeldInv, WithinSize
<1> QED BY <1>2, <1>4 DEF HeldInv

LEMMA HeldStep ==
  ASSUME VerdictInv, HeldInv, [Next]_vars
  PROVE  HeldInv'
<1>0. TypeOK /\ TypeOK'
  BY TypeStep DEF VerdictInv
<1>a. \A p \in Processes : queue[p] \in Seq(Uploads \cup {StopItem}) /\ Len(queue[p]) \in Nat
  BY <1>0 DEF TypeOK
<1>1. ASSUME NEW u \in Uploads, Count(u) PROVE HeldInv'
  <2>1. WorkIsHeld'
    BY <1>0, <1>1 DEF Count, TypeOK, HeldInv, WorkIsHeld
  <2>2. \A v \in Uploads : status'[v] = "queued" => status[v] = "queued"
    BY <1>0, <1>1 DEF Count, TypeOK
  <2> QED BY <1>1, <2>1, <2>2, StillHeld DEF Count
<1>2. ASSUME NEW u \in Uploads, Submit(u) PROVE HeldInv'
  <2> DEFINE p == ProcessOf[u]
             n == Len(queue[p])
  <2>1. p \in Processes /\ n \in Nat /\ UNCHANGED <<stage, consumer>>
    BY <1>a, <1>2, ProcessAssumption DEF Submit
  <2>2. WorkIsHeld'
    BY <1>0, <1>2, <2>1 DEF Submit, TypeOK, HeldInv, WorkIsHeld
  <2>3. CASE queue' = queue /\ status'[u] # "queued"
    <3>1. \A v \in Uploads : status'[v] = "queued" => status[v] = "queued"
      BY <1>0, <1>2, <2>3 DEF Submit, TypeOK
    <3> QED BY <2>2, <2>3, <3>1, StillHeld
  <2>4. CASE /\ queue' = [queue EXCEPT ![p] = Append(@, u)] /\ n < QueueSize
             /\ status' = [status EXCEPT ![u] = "queued"]
    <3>1. /\ Len(queue'[p]) = n + 1 /\ queue'[p][n + 1] = u
          /\ \A i \in 1..n : queue'[p][i] = queue[p][i]
      BY <1>0, <1>a, <2>1, <2>4 DEF TypeOK
    <3>2. \A q \in Processes \ {p} : queue'[q] = queue[q]
      BY <1>0, <2>4 DEF TypeOK
    <3>3. \A v \in Uploads \ {u} : status'[v] = status[v]
      BY <1>0, <2>4 DEF TypeOK
    <3>4. ASSUME NEW v \in Uploads \ {u}, status[v] = "queued"
          PROVE  \E i \in 1..Len(queue'[ProcessOf[v]]) : queue'[ProcessOf[v]][i] = v
      <4>1. PICK i \in 1..Len(queue[ProcessOf[v]]) : queue[ProcessOf[v]][i] = v
        BY <3>4 DEF HeldInv, QueuedIsHeld
      <4>2. ProcessOf[v] \in Processes
        BY ProcessAssumption
      <4>3. CASE ProcessOf[v] = p
        <5>1. i \in 1..n
          BY <4>1, <4>3
        <5> HIDE DEF n, p
        <5>2. i \in 1..Len(queue'[p]) /\ queue'[p][i] = queue[p][i]
          BY <2>1, <3>1, <5>1
        <5> QED BY <4>1, <4>3, <5>2
      <4>4. CASE ProcessOf[v] # p
        BY <3>2, <4>1, <4>2, <4>4
      <4> QED BY <4>3, <4>4
    <3> HIDE DEF p, n
    <3>5. n + 1 \in 1..Len(queue'[p]) /\ p = ProcessOf[u]
      BY <2>1, <3>1 DEF p
    <3>6. QueuedIsHeld'
      BY <3>1, <3>3, <3>4, <3>5 DEF QueuedIsHeld
    <3>7. Len(queue'[p]) <= QueueSize
      BY <2>1, <2>4, <3>1, SizeAssumption
    <3>8. WithinSize'
      BY <3>2, <3>7 DEF HeldInv, WithinSize
    <3> QED BY <2>2, <3>6, <3>8 DEF HeldInv
  <2> QED BY <1>0, <1>2, <2>3, <2>4 DEF Submit, TypeOK
<1>3. ASSUME NEW u \in Uploads, Ingest(u) \/ CallFails(u) PROVE HeldInv'
  <2>1. /\ queue' = queue /\ stage[u] # "none"
        /\ \A v \in Uploads \ {u} : status'[v] = status[v] /\ stage'[v] = stage[v]
        /\ \A p \in Processes \ {ProcessOf[u]} : consumer'[p] = consumer[p]
    BY <1>0, <1>3, IngestSteps
  <2>2. \/ stage'[u] # "none" /\ status' = status /\ consumer' = consumer
        \/ /\ stage'[u] = "none" /\ status'[u] \in Finished
           /\ consumer'[ProcessOf[u]] = "waiting"
    BY <1>0, <1>3, HandsOver
  <2>3. status[u] = "processing" /\ ProcessOf[u] \in Processes
    BY <2>1, ProcessAssumption DEF VerdictInv, AtWork
  <2>4. ASSUME NEW v \in Uploads, status'[v] = "processing" PROVE stage'[v] # "none"
    BY <2>1, <2>2, <2>4 DEF HeldInv, WorkIsHeld, Finished
  <2>5. ASSUME NEW p \in Processes, consumer'[p] = "busy"
        PROVE  \E v \in Uploads : ProcessOf[v] = p /\ stage'[v] # "none"
    <3>1. CASE p = ProcessOf[u]
      BY <2>2, <2>5, <3>1
    <3>2. CASE p # ProcessOf[u]
      <4>1. PICK v \in Uploads : ProcessOf[v] = p /\ stage[v] # "none"
        BY <2>1, <2>5, <3>2 DEF HeldInv, WorkIsHeld
      <4> QED BY <2>1, <3>2, <4>1
    <3> QED BY <3>1, <3>2
  <2>6. \A v \in Uploads : status'[v] = "queued" => status[v] = "queued"
    BY <2>1, <2>2, <2>3 DEF Finished
  <2> QED BY <2>1, <2>4, <2>5, <2>6, StillHeld DEF WorkIsHeld
<1>4. ASSUME NEW u \in Uploads, DeleteDocument(u) PROVE HeldInv'
  BY <1>4, StillHeld DEF DeleteDocument, HeldInv, WorkIsHeld
<1>5. ASSUME NEW p \in Processes, Start(p) PROVE HeldInv'
  <2>1. WorkIsHeld'
    BY <1>0, <1>5 DEF Start, HeldInv, WorkIsHeld, TypeOK
  <2> QED BY <1>5, <2>1, StillHeld DEF Start
<1>6. ASSUME NEW p \in Processes, Take(p) PROVE HeldInv'
  <2> DEFINE u == Head(queue[p])
             n == Len(queue[p])
  <2>1. queue[p] \in Seq(Uploads \cup {StopItem}) /\ queue[p] # << >> /\ consumer[p] = "waiting"
    BY <1>0, <1>6 DEF TypeOK, Take
  <2>2. /\ n \in Nat /\ 1 \in 1..n /\ u = queue[p][1]
        /\ Len(Tail(queue[p])) = n - 1
        /\ \A i \in 1..(n - 1) : Tail(queue[p])[i] = queue[p][i + 1]
        /\ u \in Uploads \cup {StopItem}
    BY <2>1
  <2>3. /\ queue'[p] = Tail(queue[p])
        /\ \A q \in Processes \ {p} : queue'[q] = queue[q] /\ consumer'[q] = consumer[q]
    BY <1>0, <1>6 DEF Take, TypeOK
  <2> HIDE DEF u, n
  <2>4. \A v \in Uploads : v # u => status'[v] = status[v] /\ stage'[v] = stage[v]
    BY <1>0, <1>6 DEF Take, TypeOK, u
  <2>5. \/ u \notin Uploads /\ consumer'[p] = "done"
        \/ u \in Uploads /\ status'[u] = "failed" /\ consumer' = consumer
        \/ u \in Uploads /\ status'[u] = "processing" /\ stage'[u] = "parsed"
    BY <1>0, <1>6, <2>2, StopAssumption DEF Take, TypeOK, u
  <2>6. u \in Uploads => ProcessOf[u] = p
    BY <2>2, StopAssumption DEF VerdictInv, ItemsAreQueued, n
  <2>7. QueuedIsHeld'
    <3> SUFFICES ASSUME NEW v \in Uploads, status'[v] = "queued"
                 PROVE  \E i \in 1..Len(queue'[ProcessOf[v]]) : queue'[ProcessOf[v]][i] = v
      BY DEF QueuedIsHeld
    <3>1. v # u /\ status[v] = "queued" /\ ProcessOf[v] \in Processes
      BY <2>4, <2>5, ProcessAssumption
    <3>2. PICK i \in 1..Len(queue[ProcessOf[v]]) : queue[ProcessOf[v]][i] = v
      BY <3>1 DEF HeldInv, QueuedIsHeld
    <3>3. CASE ProcessOf[v] = p
      <4>1. i \in 1..n /\ i # 1
        BY <2>2, <3>1, <3>2, <3>3 DEF n
      <4>2. i - 1 \in 1..(n - 1) /\ (i - 1) + 1 = i
        BY <2>2, <4>1
      <4>3. Tail(queue[p])[i - 1] = queue[p][i]
        BY <2>2, <4>2
      <4>4. i - 1 \in 1..Len(queue'[p]) /\ queue'[p][i - 1] = v
        BY <2>2, <2>3, <3>2, <3>3, <4>2, <4>3
      <4> QED BY <3>3, <4>4
    <3>4. CASE ProcessOf[v] # p
      BY <2>3, <3>1, <3>2, <3>4
    <3> QED BY <3>3, <3>4
  <2>8. ASSUME NEW v \in Uploads, status'[v] = "processing" PROVE stage'[v] # "none"
    BY <2>4, <2>5, <2>8 DEF HeldInv, WorkIsHeld
  <2>9. ASSUME NEW q \in Processes, consumer'[q] = "busy"
        PROVE  \E v \in Uploads : ProcessOf[v] = q /\ stage'[v] # "none"
    <3>1. CASE q = p
      BY <2>1, <2>5, <2>6, <2>9, <3>1
    <3>2. CASE q # p
      <4>1. PICK v \in Uploads : ProcessOf[v] = q /\ stage[v] # "none"
        BY <2>3, <2>9, <3>2 DEF HeldInv, WorkIsHeld
      <4>2. v # u
        BY <2>6, <3>2, <4>1
      <4> QED BY <2>4, <4>1, <4>2
    <3> QED BY <3>1, <3>2
  <2>10. n - 1 <= QueueSize
    BY <2>2, SizeAssumption DEF HeldInv, WithinSize, n
  <2>11. WithinSize'
    BY <2>2, <2>3, <2>10 DEF HeldInv, WithinSize
  <2> QED BY <2>7, <2>8, <2>9, <2>11 DEF HeldInv, WorkIsHeld
<1>7. ASSUME NEW p \in Processes, Stop(p) PROVE HeldInv'
  <2>1. WorkIsHeld'
    BY <1>7 DEF Stop, HeldInv, WorkIsHeld
  <2>2. \A u \in Uploads : status'[u] = "queued" => status[u] = "queued" /\ u \notin Tasks(p)
    BY <1>7 DEF Stop
  <2> QED BY <1>0, <1>7, <2>1, <2>2, Dropped DEF Stop
(* The consumer of p is gone, and with it what it worked on.               *)
<1>8. ASSUME NEW p \in Processes, Interrupted(p),
             \A u \in Uploads \ Tasks(p) : status'[u] = status[u],
             \A u \in Tasks(p) : status'[u] # "processing"
      PROVE  WorkIsHeld'
  <2>1. \A u \in Uploads \ Tasks(p) : stage'[u] = stage[u]
    BY <1>8 DEF Interrupted
  <2>2. consumer'[p] = "done" /\ \A q \in Processes \ {p} : consumer'[q] = consumer[q]
    BY <1>0, <1>8 DEF Interrupted, TypeOK
  <2>3. ASSUME NEW q \in Processes, consumer'[q] = "busy"
        PROVE  \E u \in Uploads : ProcessOf[u] = q /\ stage'[u] # "none"
    <3>1. PICK u \in Uploads : ProcessOf[u] = q /\ stage[u] # "none"
      BY <2>2, <2>3 DEF HeldInv, WorkIsHeld
    <3> QED BY <2>1, <2>2, <2>3, <3>1 DEF Tasks
  <2> QED BY <1>8, <2>1, <2>3 DEF HeldInv, WorkIsHeld, Tasks
<1>9. ASSUME NEW p \in Processes, Crash(p) PROVE HeldInv'
  <2>1. /\ \A u \in Uploads \ Tasks(p) : status'[u] = status[u]
        /\ \A u \in Tasks(p) : status'[u] \in {"new", "lost"}
    BY <1>9 DEF Crash, Tasks
  <2>2. WorkIsHeld'
    BY <1>8, <1>9, <2>1 DEF Crash
  <2> QED BY <1>0, <1>9, <2>1, <2>2, Dropped DEF Crash
<1>10. ASSUME NEW p \in Processes, Stopped(p)
       PROVE  /\ \A u \in Uploads \ Tasks(p) : status'[u] = status[u]
              /\ \A u \in Tasks(p) : status'[u] \notin Unfinished
  BY <1>10 DEF Stopped, Tasks, Unfinished
<1>11. ASSUME NEW p \in Processes, StopReturns(p) PROVE HeldInv'
  <2>1. WorkIsHeld'
    BY <1>10, <1>11 DEF StopReturns, HeldInv, WorkIsHeld, Unfinished
  <2> QED BY <1>10, <1>11, <2>1, StillHeld DEF StopReturns, Unfinished
<1>12. ASSUME NEW p \in Processes, StopCancelled(p) PROVE HeldInv'
  <2>1. WorkIsHeld'
    BY <1>8, <1>10, <1>12 DEF StopCancelled, Unfinished
  <2> QED BY <1>10, <1>12, <2>1, StillHeld DEF StopCancelled, Unfinished
<1>13. CASE UNCHANGED vars
  BY <1>13, StillHeld DEF vars, HeldInv, WorkIsHeld
<1> QED
  BY <1>1, <1>2, <1>3, <1>4, <1>5, <1>6, <1>7, <1>9, <1>11, <1>12, <1>13 DEF Next

(* Counting: the items of a queue are as many as the tasks they are.       *)
LEMMA ItemsCounted ==
  ASSUME VerdictInv, HeldInv, NEW p \in Processes
  PROVE  LET items == {i \in DOMAIN queue[p] : queue[p][i] # StopItem}
             tasks == {u \in Tasks(p) : status[u] = "queued"}
         IN  /\ {queue[p][i] : i \in items} = tasks
             /\ Cardinality(items) = Cardinality(tasks)
<1> DEFINE items == {i \in DOMAIN queue[p] : queue[p][i] # StopItem}
           tasks == {u \in Tasks(p) : status[u] = "queued"}
           f == [i \in items |-> queue[p][i]]
<1>1. /\ queue[p] \in Seq(Uploads \cup {StopItem}) /\ Len(queue[p]) \in Nat
      /\ DOMAIN queue[p] = 1..Len(queue[p])
  BY DEF VerdictInv, TypeOK
<1>2. \A i \in items : queue[p][i] \in tasks
  <2> SUFFICES ASSUME NEW i \in items PROVE queue[p][i] \in tasks
    OBVIOUS
  <2>1. i \in 1..Len(queue[p]) /\ queue[p][i] \in Uploads
    BY <1>1
  <2> QED BY <2>1 DEF VerdictInv, ItemsAreQueued, Tasks
<1>3. \A u \in tasks : \E i \in items : queue[p][i] = u
  <2> SUFFICES ASSUME NEW u \in tasks PROVE \E i \in items : queue[p][i] = u
    OBVIOUS
  <2>1. u \in Uploads /\ ProcessOf[u] = p /\ status[u] = "queued" /\ u # StopItem
    BY StopAssumption DEF Tasks
  <2>2. \E i \in 1..Len(queue[p]) : queue[p][i] = u
    BY <2>1 DEF HeldInv, QueuedIsHeld
  <2> QED BY <1>1, <2>1, <2>2
<1>4. \A i, j \in items : queue[p][i] = queue[p][j] => i = j
  BY <1>1 DEF VerdictInv, ItemsAreDistinct
<1>5. IsFiniteSet(items)
  <2>1. IsFiniteSet(1..Len(queue[p])) /\ items \in SUBSET (1..Len(queue[p]))
    BY <1>1, FS_Interval
  <2> QED BY <2>1, FS_Subset
<1>6. {queue[p][i] : i \in items} = tasks
  BY <1>2, <1>3
<1> HIDE DEF items, tasks
<1>7. f \in Bijection(items, tasks)
  BY <1>2, <1>3, <1>4 DEF Bijection, Injection, Surjection, IsInjective
<1>8. Cardinality(items) = Cardinality(tasks)
  BY <1>5, <1>7, FS_Bijection DEF ExistsBijection
<1> QED BY <1>6, <1>8 DEF items, tasks

(* Tasks and queue agree, for any number of processes and uploads and any  *)
(* size of the queue: what is QUEUED is in the queue of its process once,  *)
(* what is PROCESSING is what the one consumer has in hand, and the queue  *)
(* never outgrows its size.                                                *)
THEOREM QueueMatches == Spec => []QueueMatchesTasks
<1>1. Init => HeldInv
  BY SizeAssumption DEF Init, HeldInv, QueuedIsHeld, WorkIsHeld, WithinSize
<1>2. VerdictInv /\ HeldInv /\ [Next]_vars => HeldInv'
  BY HeldStep
<1>3. ASSUME VerdictInv, HeldInv PROVE QueueMatchesTasks
  <2> SUFFICES
        ASSUME NEW p \in Processes
        PROVE  /\ Cardinality({u \in Tasks(p) : status[u] = "processing"})
                    = IF consumer[p] = "busy" THEN 1 ELSE 0
               /\ \A u \in Tasks(p) :
                    stage[u] # "none" <=> u \in {v \in Tasks(p) : status[v] = "processing"}
    BY <1>3, ItemsCounted DEF QueueMatchesTasks, HeldInv, WithinSize
  <2>1. \A u \in Tasks(p) : stage[u] # "none" <=> status[u] = "processing"
    BY <1>3 DEF VerdictInv, AtWork, HeldInv, WorkIsHeld, Tasks
  <2>2. CASE consumer[p] = "busy"
    <3>1. PICK u \in Uploads : ProcessOf[u] = p /\ stage[u] # "none"
      BY <1>3, <2>2 DEF HeldInv, WorkIsHeld
    <3>2. {v \in Tasks(p) : status[v] = "processing"} = {u}
      BY <1>3, <2>1, <3>1 DEF VerdictInv, AtWork, Tasks
    <3>3. Cardinality({u}) = 1
      BY FS_Singleton
    <3> QED BY <2>1, <2>2, <3>2, <3>3
  <2>3. CASE consumer[p] # "busy"
    <3>1. {v \in Tasks(p) : status[v] = "processing"} = {}
      BY <1>3, <2>1, <2>3 DEF VerdictInv, AtWork, Tasks
    <3> QED BY <2>1, <2>3, <3>1, FS_EmptySet
  <2> QED BY <2>2, <2>3
<1> QED BY <1>1, <1>2, <1>3, VerdictInvariant, PTL DEF Spec

-----------------------------------------------------------------------------
(* Induction and recursion over the naturals, with sets and functions for  *)
(* the formulas and the operators that the provers cannot substitute.      *)

(* The least of some numbers.                                              *)
LEMMA Least ==
  ASSUME NEW S \in SUBSET Nat, S # {}
  PROVE  \E n \in S : \A m \in S : n <= m
<1> DEFINE R == OpToRel(<, Nat)
<1>1. \E x \in S : \A y \in S : ~ (<<y, x>> \in R)
  BY WFMin, NatLessThanWellFounded
<1>2. PICK x \in S : \A y \in S : ~ (<<y, x>> \in R)
  BY <1>1
<1>3. \A y \in S : x <= y
  <2> TAKE y \in S
  <2>1. <<y, x>> \notin R
    BY <1>2
  <2> QED BY <2>1 DEF OpToRel
<1> QED BY <1>3

LEMMA UpTo ==
  ASSUME NEW N \in Nat, NEW S, 0 \in S, \A i \in 1..N : i - 1 \in S => i \in S
  PROVE  \A i \in 0..N : i \in S
<1> SUFFICES ASSUME NEW j \in 0..N, j \notin S PROVE FALSE
  OBVIOUS
<1> DEFINE Missing == {i \in 0..N : i \notin S}
<1>1. Missing \in SUBSET Nat /\ Missing # {}
  OBVIOUS
<1>2. PICK i \in Missing : \A m \in Missing : i <= m
  BY <1>1, Least
<1>3. i \in 1..N /\ i - 1 \in 0..N
  OBVIOUS
<1>4. i - 1 \notin Missing
  BY <1>2, <1>3
<1> QED BY <1>3, <1>4

(* A recursion whose steps stay in D is a function.                        *)
Recurses(f, N, D, base, g) ==
  /\ f \in [0..N -> D] /\ f[0] = base
  /\ \A i \in 1..N : f[i] = g[<<i, f[i - 1]>>]

LEMMA Recursion ==
  ASSUME NEW N \in Nat, NEW D, NEW base \in D, NEW g \in [(1..N) \X D -> D]
  PROVE  \E f : Recurses(f, N, D, base, g)
<1> DEFINE S == {n \in 0..N : \E f : Recurses(f, n, D, base, g)}
<1>1. 0 \in S
  <2>1. Recurses([i \in 0..0 |-> base], 0, D, base, g)
    BY DEF Recurses
  <2> QED BY <2>1
<1>2. ASSUME NEW n \in 1..N, n - 1 \in S PROVE n \in S
  <2>1. PICK f : Recurses(f, n - 1, D, base, g)
    BY <1>2
  <2> DEFINE h == [i \in 0..n |-> IF i = n THEN g[<<n, f[n - 1]>>] ELSE f[i]]
  <2>2. f[n - 1] \in D
    BY <2>1 DEF Recurses
  <2>3. h \in [0..n -> D] /\ h[0] = base
    BY <2>1, <2>2 DEF Recurses
  <2>4. ASSUME NEW i \in 1..n PROVE h[i] = g[<<i, h[i - 1]>>]
    <3>1. i - 1 \in 0..n /\ i - 1 # n /\ h[i - 1] = f[i - 1]
      OBVIOUS
    <3>2. CASE i = n
      BY <3>1, <3>2
    <3>3. CASE i # n
      BY <2>1, <3>1, <3>3 DEF Recurses
    <3> QED BY <3>2, <3>3
  <2>5. Recurses(h, n, D, base, g)
    BY <2>3, <2>4 DEF Recurses
  <2> QED BY <2>5
<1> HIDE DEF S
<1>3. N \in S
  BY <1>1, <1>2, UpTo
<1> QED BY <1>3 DEF S

LEMMA RecursionStays ==
  ASSUME NEW N \in Nat, NEW D, NEW base \in D, NEW g \in [(1..N) \X D -> D],
         NEW f, f = [i \in 0..N |-> f[i]], f[0] = base,
         \A i \in 1..N : f[i - 1] \in D => f[i] = g[<<i, f[i - 1]>>]
  PROVE  Recurses(f, N, D, base, g)
<1> DEFINE S == {i \in 0..N : f[i] \in D}
<1>1. 0 \in S
  OBVIOUS
<1>2. ASSUME NEW i \in 1..N, i - 1 \in S PROVE i \in S
  <2>1. <<i, f[i - 1]>> \in (1..N) \X D
    BY <1>2
  <2>2. g[<<i, f[i - 1]>>] \in D
    BY <2>1
  <2>3. f[i] = g[<<i, f[i - 1]>>]
    BY <1>2
  <2> QED BY <2>2, <2>3
<1>3. \A i \in 0..N : i \in S
  <2> HIDE DEF S
  <2> QED BY <1>1, <1>2, UpTo
<1>4. f \in [0..N -> D]
  BY <1>3
<1>5. ASSUME NEW i \in 1..N PROVE f[i] = g[<<i, f[i - 1]>>]
  <2>1. i - 1 \in 0..N
    OBVIOUS
  <2> QED BY <1>4, <2>1
<1> QED BY <1>4, <1>5 DEF Recurses

-----------------------------------------------------------------------------
(* Lists.                                                                  *)

(* Among goes through the sequence, place by place.                        *)
KeptStep(s, S, i, q) == IF s[i] \in S THEN Append(q, s[i]) ELSE q
KeptBy(s, S, f) ==
  [i \in 0..Len(s) |-> IF i = 0 THEN <<>>
                       ELSE IF s[i] \in S THEN Append(f[i - 1], s[i])
                       ELSE f[i - 1]]

Keeps(f, s, S, X) ==
  /\ f \in [0..Len(s) -> Seq(X)]
  /\ Among(s, S) = f[Len(s)] /\ f[0] = <<>>
  /\ \A i \in 1..Len(s) : f[i] = KeptStep(s, S, i, f[i - 1])

LEMMA AmongSteps ==
  ASSUME NEW X, NEW s \in Seq(X), NEW S
  PROVE  \E f : Keeps(f, s, S, X)
<1> DEFINE D == Seq(X)
           N == Len(s)
           g == [p \in (1..N) \X D |-> KeptStep(s, S, p[1], p[2])]
           kept == CHOOSE f : f = KeptBy(s, S, f)
<1>1. N \in Nat /\ <<>> \in D /\ \A i \in 1..N : s[i] \in X
  OBVIOUS
<1>2. g \in [(1..N) \X D -> D]
  <2>1. ASSUME NEW p \in (1..N) \X D PROVE KeptStep(s, S, p[1], p[2]) \in D
    <3>1. p[1] \in 1..N /\ p[2] \in Seq(X) /\ s[p[1]] \in X
      BY <1>1
    <3> QED BY <3>1 DEF KeptStep
  <2> HIDE DEF D, N
  <2> QED BY <2>1
<1>3. PICK f : Recurses(f, N, D, <<>>, g)
  <2> HIDE DEF g, D, N
  <2> QED BY <1>1, <1>2, Recursion
<1>4. ASSUME NEW i \in 1..N PROVE f[i] = KeptStep(s, S, i, f[i - 1])
  <2>1. f[i - 1] \in D /\ f[i] = g[<<i, f[i - 1]>>]
    <3> HIDE DEF D, N, g
    <3> QED BY <1>1, <1>3 DEF Recurses
  <2>2. <<i, f[i - 1]>> \in (1..N) \X D
    BY <2>1
  <2> HIDE DEF D, N
  <2> QED BY <2>1, <2>2
<1>5. f = KeptBy(s, S, f)
  <2>1. f = [i \in 0..N |-> f[i]]
    BY <1>3 DEF Recurses
  <2>2. ASSUME NEW i \in 0..N
        PROVE  f[i] = IF i = 0 THEN <<>>
                      ELSE IF s[i] \in S THEN Append(f[i - 1], s[i]) ELSE f[i - 1]
    <3>1. CASE i = 0
      BY <1>3, <3>1 DEF Recurses
    <3>2. CASE i # 0
      <4>1. i \in 1..N
        BY <1>1, <3>2
      <4> HIDE DEF N, D
      <4> QED BY <1>4, <3>2, <4>1 DEF KeptStep
    <3> QED BY <3>1, <3>2
  <2> QED BY <2>1, <2>2 DEF KeptBy
<1>6. kept = KeptBy(s, S, kept)
  BY <1>5
<1>7. Among(s, S) = kept[N]
  BY DEF Among, KeptBy
<1>8. Recurses(kept, N, D, <<>>, g)
  <2>1. kept = [i \in 0..N |-> kept[i]]
    BY <1>6 DEF KeptBy
  <2>2. kept[0] = <<>>
    <3>1. KeptBy(s, S, kept)[0] = <<>>
      BY <1>1 DEF KeptBy
    <3> QED BY <1>6, <3>1
  <2>3. ASSUME NEW i \in 1..N, kept[i - 1] \in D PROVE kept[i] = g[<<i, kept[i - 1]>>]
    <3>1. KeptBy(s, S, kept)[i] = KeptStep(s, S, i, kept[i - 1])
      <4>1. i \in 0..N /\ i # 0
        BY <1>1
      <4> QED BY <4>1 DEF KeptBy, KeptStep
    <3>2. <<i, kept[i - 1]>> \in (1..N) \X D
      BY <2>3
    <3>3. g[<<i, kept[i - 1]>>] = KeptStep(s, S, i, kept[i - 1])
      <4> HIDE DEF N, D, kept
      <4> QED BY <3>2
    <3> QED BY <1>6, <3>1, <3>3
  <2> HIDE DEF N, D, g, kept
  <2> QED BY <1>1, <1>2, <2>1, <2>2, <2>3, RecursionStays
<1>9. ASSUME NEW i \in 1..N PROVE kept[i] = KeptStep(s, S, i, kept[i - 1])
  <2>1. kept[i - 1] \in D /\ kept[i] = g[<<i, kept[i - 1]>>]
    <3> HIDE DEF N, D, g, kept
    <3> QED BY <1>1, <1>8 DEF Recurses
  <2>2. <<i, kept[i - 1]>> \in (1..N) \X D
    BY <2>1
  <2> HIDE DEF D, N, kept
  <2> QED BY <2>1, <2>2
<1> HIDE DEF kept
<1> QED BY <1>7, <1>8, <1>9 DEF Recurses, Keeps

(* Where the members that Among keeps come from: all of those in S, in     *)
(* their order.                                                            *)
Picks(a, s, S, n, f) ==
  /\ f \in [1..Len(a) -> 1..n]
  /\ \A i, j \in 1..Len(a) : i < j => f[i] < f[j]
  /\ \A i \in 1..Len(a) : a[i] = s[f[i]] /\ a[i] \in S
  /\ \A j \in 1..n : s[j] \in S => \E i \in 1..Len(a) : f[i] = j

LEMMA PicksStep ==
  ASSUME NEW X, NEW s \in Seq(X), NEW S, NEW n \in 1..Len(s), NEW a \in Seq(X), NEW f,
         Picks(a, s, S, n - 1, f)
  PROVE  /\ KeptStep(s, S, n, a) \in Seq(X)
         /\ \E g : Picks(KeptStep(s, S, n, a), s, S, n, g)
<1>1. /\ Len(a) \in Nat /\ n \in Nat /\ n >= 1 /\ s[n] \in X
      /\ f \in [1..Len(a) -> 1..(n - 1)]
  BY DEF Picks
<1>2. CASE s[n] \in S
  <2> DEFINE b == Append(a, s[n])
             g == [i \in 1..(Len(a) + 1) |-> IF i = Len(a) + 1 THEN n ELSE f[i]]
  <2>1. /\ b \in Seq(X) /\ Len(b) = Len(a) + 1 /\ b[Len(a) + 1] = s[n]
        /\ \A i \in 1..Len(a) : b[i] = a[i]
    BY <1>1
  <2>2. \A i \in 1..Len(a) : g[i] = f[i] /\ f[i] \in 1..(n - 1)
    BY <1>1
  <2>3. g[Len(a) + 1] = n
    BY <1>1
  <2>4. g \in [1..Len(b) -> 1..n]
    BY <1>1, <2>1
  <2>5. \A i \in 1..(Len(a) + 1) : i \in 1..Len(a) \/ i = Len(a) + 1
    BY <1>1
  <2> HIDE DEF g, b
  <2>6. \A i, j \in 1..Len(b) : i < j => g[i] < g[j]
    <3> TAKE i, j \in 1..Len(b)
    <3> HAVE i < j
    <3>1. i \in 1..Len(a)
      BY <1>1, <2>1
    <3>2. CASE j \in 1..Len(a)
      BY <2>2, <3>1, <3>2 DEF Picks
    <3>3. CASE j = Len(a) + 1
      BY <1>1, <2>2, <2>3, <3>1, <3>3
    <3> QED BY <2>1, <2>5, <3>2, <3>3
  <2>7. \A i \in 1..Len(b) : b[i] = s[g[i]] /\ b[i] \in S
    BY <1>2, <2>1, <2>2, <2>3, <2>5 DEF Picks
  <2>8. ASSUME NEW j \in 1..n, s[j] \in S PROVE \E i \in 1..Len(b) : g[i] = j
    <3>1. CASE j = n
      BY <1>1, <2>1, <2>3, <3>1
    <3>2. CASE j # n
      <4>1. PICK i \in 1..Len(a) : f[i] = j
        <5>1. j \in 1..(n - 1)
          BY <1>1, <3>2
        <5> QED BY <2>8, <5>1 DEF Picks
      <4>2. i \in 1..Len(b)
        BY <1>1, <2>1
      <4> QED BY <2>2, <4>1, <4>2
    <3> QED BY <3>1, <3>2
  <2>9. Picks(b, s, S, n, g)
    BY <2>4, <2>6, <2>7, <2>8 DEF Picks
  <2>10. KeptStep(s, S, n, a) = b
    BY <1>2 DEF KeptStep, b
  <2> QED BY <2>1, <2>9, <2>10
<1>3. CASE s[n] \notin S
  <2>1. f \in [1..Len(a) -> 1..n]
    BY <1>1
  <2>2. \A j \in 1..n : s[j] \in S => j \in 1..(n - 1)
    BY <1>1, <1>3
  <2>3. Picks(a, s, S, n, f)
    BY <2>1, <2>2 DEF Picks
  <2>4. KeptStep(s, S, n, a) = a
    BY <1>3 DEF KeptStep
  <2> QED BY <2>3, <2>4
<1> QED BY <1>2, <1>3

LEMMA AmongPicks ==
  ASSUME NEW X, NEW s \in Seq(X), NEW S
  PROVE  Among(s, S) \in Seq(X) /\ \E f : Picks(Among(s, S), s, S, Len(s), f)
<1> DEFINE N == Len(s)
<1>1. PICK k : Keeps(k, s, S, X)
  BY AmongSteps
<1>2. /\ k \in [0..N -> Seq(X)] /\ Among(s, S) = k[N] /\ k[0] = <<>>
      /\ \A i \in 1..N : k[i] = KeptStep(s, S, i, k[i - 1])
  BY <1>1 DEF Keeps
<1>3. N \in Nat
  OBVIOUS
<1> DEFINE T == {i \in 0..N : \E f : Picks(k[i], s, S, i, f)}
<1>4. 0 \in T
  <2>1. Picks(<<>>, s, S, 0, <<>>)
    BY DEF Picks
  <2> QED BY <1>2, <1>3, <2>1
<1>5. ASSUME NEW i \in 1..N, i - 1 \in T PROVE i \in T
  <2>1. PICK f : Picks(k[i - 1], s, S, i - 1, f)
    BY <1>5
  <2>2. k[i - 1] \in Seq(X) /\ i \in 0..N
    BY <1>2, <1>3
  <2>3. \E g : Picks(KeptStep(s, S, i, k[i - 1]), s, S, i, g)
    BY <2>1, <2>2, PicksStep
  <2> QED BY <1>2, <2>2, <2>3
<1>6. N \in T
  <2> HIDE DEF T, N
  <2>1. \A i \in 0..N : i \in T
    BY <1>3, <1>4, <1>5, UpTo
  <2> QED BY <1>3, <2>1
<1>7. k[N] \in Seq(X)
  BY <1>2, <1>3
<1> QED BY <1>2, <1>6, <1>7

(* A list, of whatever it holds.                                           *)
IsList(s) == s \in Seq(Range(s))

LEMMA ListOf ==
  ASSUME NEW X, NEW s \in Seq(X)
  PROVE  /\ IsList(s) /\ Len(s) \in Nat /\ DOMAIN s = 1..Len(s)
         /\ Range(s) = {s[i] : i \in 1..Len(s)} /\ Range(s) \subseteq X
<1>1. Len(s) \in Nat /\ DOMAIN s = 1..Len(s) /\ \A i \in 1..Len(s) : s[i] \in X
  OBVIOUS
<1>2. Range(s) = {s[i] : i \in 1..Len(s)}
  BY <1>1 DEF Range
<1>3. s \in [1..Len(s) -> Range(s)]
  BY <1>1, <1>2
<1>4. s \in Seq(Range(s))
  BY <1>1, <1>3
<1> QED BY <1>1, <1>2, <1>4 DEF IsList

LEMMA ListIs ==
  ASSUME NEW s, IsList(s)
  PROVE  /\ Len(s) \in Nat /\ DOMAIN s = 1..Len(s)
         /\ Range(s) = {s[i] : i \in 1..Len(s)}
BY ListOf DEF IsList

LEMMA ListAppends ==
  ASSUME NEW s, IsList(s), NEW e
  PROVE  /\ IsList(Append(s, e)) /\ Len(Append(s, e)) = Len(s) + 1
         /\ Append(s, e)[Len(s) + 1] = e
         /\ \A i \in 1..Len(s) : Append(s, e)[i] = s[i]
         /\ \A i \in 1..Len(Append(s, e)) : i \in 1..Len(s) \/ i = Len(s) + 1
<1> DEFINE X == Range(s) \cup {e}
<1>1. s \in Seq(X) /\ Len(s) \in Nat
  <2>1. s \in Seq(Range(s)) /\ Range(s) \subseteq X
    BY DEF IsList
  <2> HIDE DEF X
  <2> QED BY <2>1
<1>2. Append(s, e) \in Seq(X)
  <2>1. e \in X
    OBVIOUS
  <2> HIDE DEF X
  <2> QED BY <1>1, <2>1
<1>3. /\ Len(Append(s, e)) = Len(s) + 1 /\ Append(s, e)[Len(s) + 1] = e
      /\ \A i \in 1..Len(s) : Append(s, e)[i] = s[i]
  BY <1>1
<1> HIDE DEF X
<1>4. ASSUME NEW i \in 1..Len(Append(s, e)) PROVE i \in 1..Len(s) \/ i = Len(s) + 1
  BY <1>1, <1>3, <1>4
<1> QED BY <1>2, <1>3, <1>4, ListOf

LEMMA ListConcats ==
  ASSUME NEW s, IsList(s), NEW t, IsList(t)
  PROVE  /\ IsList(s \o t) /\ Len(s \o t) = Len(s) + Len(t)
         /\ \A i \in 1..Len(s) : (s \o t)[i] = s[i]
         /\ \A i \in 1..Len(t) : (s \o t)[Len(s) + i] = t[i]
         /\ \A i \in 1..Len(s \o t) :
              i \in 1..Len(s) \/ \E j \in 1..Len(t) : i = Len(s) + j
<1> DEFINE X == Range(s) \cup Range(t)
<1>1. s \in Seq(X) /\ t \in Seq(X) /\ Len(s) \in Nat /\ Len(t) \in Nat
  <2>1. s \in Seq(Range(s)) /\ Range(s) \subseteq X
    BY DEF IsList
  <2>2. t \in Seq(Range(t)) /\ Range(t) \subseteq X
    BY DEF IsList
  <2> HIDE DEF X
  <2> QED BY <2>1, <2>2
<1> HIDE DEF X
<1>2. s \o t \in Seq(X)
  BY <1>1
<1>3. /\ Len(s \o t) = Len(s) + Len(t)
      /\ \A i \in 1..Len(s) : (s \o t)[i] = s[i]
      /\ \A i \in 1..Len(t) : (s \o t)[Len(s) + i] = t[i]
  BY <1>1
<1>4. ASSUME NEW i \in 1..(Len(s) + Len(t)), i \notin 1..Len(s)
      PROVE  i - Len(s) \in 1..Len(t) /\ i = Len(s) + (i - Len(s))
  BY <1>1, <1>4
<1>5. ASSUME NEW i \in 1..Len(s \o t), i \notin 1..Len(s)
      PROVE  \E j \in 1..Len(t) : i = Len(s) + j
  BY <1>3, <1>4, <1>5
<1> QED BY <1>2, <1>3, <1>5, ListOf

-----------------------------------------------------------------------------
(* The pipe to the MCP server.                                             *)

PipeType == [next : Nat, owed : Seq(Nat), open : BOOLEAN]
LineType == [kind : {"answer", "error", "garbage", "notice"}, id : Nat]

LEMMA LinesTyped ==
  ASSUME NEW p \in PipeType, NEW id \in Nat, NEW effect
  PROVE  Lines(p, id, effect) \in Seq(LineType)
<1> DEFINE owed == [i \in DOMAIN p.owed |-> Line("answer", p.owed[i])]
           rest == CASE effect = "refuses" -> <<Line("error", id)>>
                     [] effect = "raises" -> <<Line("garbage", 0)>>
                     [] OTHER -> <<Line("notice", 0), Line("answer", id)>>
<1>1. \A kind \in {"answer", "error", "garbage", "notice"}, n \in Nat : Line(kind, n) \in LineType
  BY DEF Line, LineType
<1>2. owed \in Seq(LineType)
  <2>1. p.owed \in Seq(Nat)
    BY DEF PipeType
  <2>2. /\ Len(p.owed) \in Nat /\ DOMAIN p.owed = 1..Len(p.owed)
        /\ \A i \in 1..Len(p.owed) : p.owed[i] \in Nat
    BY <2>1
  <2>3. owed \in [1..Len(p.owed) -> LineType]
    BY <1>1, <2>2
  <2> HIDE DEF owed
  <2> QED BY <2>2, <2>3
<1>3. rest \in Seq(LineType)
  <2>1. /\ <<Line("error", id)>> \in Seq(LineType)
        /\ <<Line("garbage", 0)>> \in Seq(LineType)
        /\ <<Line("notice", 0), Line("answer", id)>> \in Seq(LineType)
    BY <1>1
  <2> QED BY <2>1
<1>4. Lines(p, id, effect) = IF effect = "late" THEN <<>> ELSE owed \o rest
  BY DEF Lines
<1> HIDE DEF owed, rest
<1> QED BY <1>2, <1>3, <1>4

LEMMA GivenUpIsPipe ==
  ASSUME NEW p \in PipeType
  PROVE  GivenUp(p) \in PipeType
<1>1. p.next \in Nat /\ p.owed \in Seq(Nat) /\ p.open \in BOOLEAN
  BY DEF PipeType
<1>2. Append(p.owed, p.next + 1) \in Seq(Nat) /\ p.next + 1 \in Nat
  BY <1>1
<1> QED BY <1>1, <1>2 DEF GivenUp, PipeType

(* Whatever was given up before, an answer is the one to this request.     *)
LEMMA RequestIsAnswered ==
  ASSUME NEW p \in PipeType, NEW effect
  PROVE  /\ Request(p, effect).pipe \in PipeType
         /\ Request(p, effect).outcome \in {"answer", "error", "late"}
         /\ Request(p, effect).outcome = "answer" =>
              Request(p, effect).id = p.next + 1
<1> DEFINE id    == p.next + 1
           lines == Lines(p, id, effect)
           end   == SelectInSeq(lines, LAMBDA line : EndsRead(line, id))
           kept  == SubSeq(lines, end + 1, Len(lines))
           left  == Among(kept, {l \in Range(lines) : l.kind = "answer"})
           owed  == [i \in DOMAIN left |-> left[i].id]
                      \o (IF lines[end].kind = "garbage" THEN <<id>> ELSE <<>>)
<1>1. p.next \in Nat /\ p.owed \in Seq(Nat) /\ p.open \in BOOLEAN /\ id \in Nat
  BY DEF PipeType
<1>2. lines \in Seq(LineType) /\ Len(lines) \in Nat
  BY <1>1, LinesTyped
<1>3. end \in 0..Len(lines) /\ (end # 0 => EndsRead(lines[end], id))
  <2> DEFINE I == {i \in 1..Len(lines) : EndsRead(lines[i], id)}
  <2> HIDE DEF lines, id
  <2>1. end = IF I # {} THEN Min(I) ELSE 0
    BY DEF SelectInSeq
  <2>2. CASE I # {}
    <3>1. I \in SUBSET Nat
      BY <1>2
    <3>2. \E n \in I : \A m \in I : n <= m
      BY <2>2, <3>1, Least
    <3>3. Min(I) \in I
      BY <3>2 DEF Min
    <3> QED BY <1>2, <2>1, <2>2, <3>3
  <2>3. CASE I = {}
    BY <1>2, <2>1, <2>3
  <2> QED BY <2>2, <2>3
<1>4. GivenUp(p) \in PipeType
  BY GivenUpIsPipe
<1>5. owed \in Seq(Nat)
  <2>1. kept \in Seq(LineType)
    <3> HIDE DEF lines, end
    <3>1. end + 1 \in 1..(Len(lines) + 1) /\ Len(lines) \in Nat
      BY <1>2, <1>3
    <3>2. CASE end + 1 \in 1..Len(lines)
      <4>1. \A i \in (end + 1)..Len(lines) : i \in 1..Len(lines)
        BY <1>2, <3>2
      <4> QED BY <1>2, <3>1, <4>1, SubSeqProperties
    <3>3. CASE end + 1 = Len(lines) + 1
      BY <1>2, <3>1, <3>3
    <3> QED BY <3>1, <3>2, <3>3
  <2>2. left \in Seq(LineType)
    <3> HIDE DEF kept, lines
    <3> QED BY <2>1, AmongPicks
  <2>3. [i \in DOMAIN left |-> left[i].id] \in Seq(Nat)
    <3> HIDE DEF left
    <3>1. /\ Len(left) \in Nat /\ DOMAIN left = 1..Len(left)
          /\ \A i \in 1..Len(left) : left[i].id \in Nat
      <4>1. \A l \in LineType : l.id \in Nat
        BY DEF LineType
      <4> QED BY <2>2, <4>1
    <3>2. [i \in DOMAIN left |-> left[i].id] \in [1..Len(left) -> Nat]
      BY <3>1
    <3> QED BY <3>1, <3>2
  <2>4. (IF lines[end].kind = "garbage" THEN <<id>> ELSE <<>>) \in Seq(Nat)
    BY <1>1
  <2> HIDE DEF left, end, lines, id
  <2> QED BY <2>3, <2>4
<1> DEFINE next == [p EXCEPT !.next = id, !.owed = owed]
<1>6. next \in PipeType
  <2> HIDE DEF owed, id
  <2> QED BY <1>1, <1>5 DEF PipeType
<1>7. Request(p, effect) =
        IF ~p.open THEN [pipe |-> p, outcome |-> "error", id |-> 0]
        ELSE IF end = 0 THEN [pipe |-> GivenUp(p), outcome |-> "late", id |-> 0]
        ELSE [pipe |-> next,
              outcome |-> IF lines[end].kind = "answer" THEN "answer" ELSE "error",
              id |-> lines[end].id]
  BY DEF Request
<1>8. CASE p.open /\ end # 0
  <2>1. lines[end].kind = "answer" => lines[end].id = id
    BY <1>3, <1>8 DEF EndsRead
  <2> HIDE DEF next, lines, end, id
  <2>2. /\ Request(p, effect).pipe = next
        /\ Request(p, effect).outcome = IF lines[end].kind = "answer" THEN "answer" ELSE "error"
        /\ Request(p, effect).id = lines[end].id
    BY <1>7, <1>8
  <2> QED BY <1>6, <2>1, <2>2 DEF id
<1>9. CASE ~(p.open /\ end # 0)
  <2> HIDE DEF next, lines, end, id
  <2> QED BY <1>4, <1>7, <1>9
<1> QED BY <1>8, <1>9

-----------------------------------------------------------------------------
(* A call and its result.                                                  *)

Whole(r) == r = [call |-> r.call, succeeded |-> r.succeeded, error |-> r.error,
                 truncated |-> r.truncated, cached |-> r.cached, content |-> r.content]

(* The result of a call c of step i in the world w, where a was asked of   *)
(* the server: text, or shortened, or what the tool gave as it was.        *)
ResultOf(c, r, i, w, a) ==
  /\ Whole(r) /\ r.call = c.id /\ r.succeeded \in BOOLEAN /\ r.truncated \in BOOLEAN
  /\ ~r.succeeded => r.content.type = "text"
  /\ r.succeeded /\ ~r.truncated =>
       \E e, id : /\ r.content = RawOutput(c, e, w.base, id)
                  /\ ~r.cached /\ c.tool \in DOMAIN w.tools => <<i, id>> \in a

StepOf(s, i, w, a) ==
  /\ s = [index |-> i, calls |-> s.calls, results |-> s.results]
  /\ \/ s.calls = <<>> /\ s.results = {}
     \/ \E c \in Decisions :
          /\ s.calls = <<c>>
          /\ s.results = {} \/ \E r : s.results = {r} /\ ResultOf(c, r, i, w, a)

StepsInv ==
  /\ pipe \in PipeType /\ world.base \in Bases /\ DOMAIN world.tools \cap DOMAIN BuiltIn = {}
  /\ at = "tool" => call \in Decisions
  /\ IsList(steps) /\ \A i \in 1..Len(steps) : StepOf(steps[i], i, world, asked)

(* What is not said to be truncated is what the tool gave.                 *)
LEMMA WrittenWhole ==
  ASSUME NEW value, NEW max, NEW schema,
         NEW w, w = SerializeAndTruncateOutput(value, max, schema)
  PROVE  w.truncated \in BOOLEAN /\ (~w.truncated => w.output = value)
<1> DEFINE short == Shortened(Mark(value, schema), max, SchemaRequiredKeys(schema))
           fallback == Smallest(schema)
           valid == SelectSeq(<<short, Mark(fallback, schema), fallback>>,
                              LAMBDA x : Size(x) <= max /\ Conforms(x, schema))
<1>1. CASE value.type = "text"
  BY <1>1 DEF SerializeAndTruncateOutput, TruncateOutput
<1>2. CASE value.type # "text" /\ Size(value) <= max
  BY <1>2 DEF SerializeAndTruncateOutput
<1>3. CASE value.type # "text" /\ ~(Size(value) <= max)
  <2>1. w = FirstOrLimit(valid)
    BY <1>3 DEF SerializeAndTruncateOutput
  <2> HIDE DEF valid
  <2> QED BY <2>1 DEF FirstOrLimit, OutputLimit
<1> QED BY <1>1, <1>2, <1>3

LEMMA ExecutedResult ==
  ASSUME NEW c \in Decisions, NEW effect, NEW w, NEW reply,
         NEW r, r = ExecuteTool(c, effect, w, reply)
  PROVE  /\ Whole(r) /\ r.call = c.id /\ r.succeeded \in BOOLEAN /\ r.truncated \in BOOLEAN
         /\ ~r.cached
         /\ ~r.succeeded => r.content.type = "text"
         /\ r.succeeded =>
              /\ Refusal(c, w) = "none"
              /\ c.tool \notin DOMAIN BuiltIn => reply.outcome \notin {"late", "error"}
              /\ ~r.truncated => r.content = RawOutput(c, effect, w.base, reply.id)
<1> DEFINE raw == RawOutput(c, effect, w.base, reply.id)
           written == SerializeAndTruncateOutput(raw, w.limit, Registry(w)[c.tool].output)
           Good(q) == /\ Whole(q) /\ q.call = c.id /\ q.succeeded \in BOOLEAN
                      /\ q.truncated \in BOOLEAN /\ ~q.cached
                      /\ ~q.succeeded => q.content.type = "text"
<1>1. ASSUME NEW error, NEW message, message.type = "text"
      PROVE  Good(Failure(c, error, message)) /\ ~Failure(c, error, message).succeeded
  BY <1>1 DEF Failure, Whole
<1>2. written.truncated \in BOOLEAN /\ (~written.truncated => written.output = raw)
  <2> HIDE DEF raw
  <2> QED BY WrittenWhole
<1>3. TruncateOutput(Text("message", 41), w.limit).output.type = "text"
  BY DEF TruncateOutput, Text
<1>4. \A error : Text(error, 20).type = "text"
  BY DEF Text
<1> HIDE DEF raw
<1>5. /\ Good(Success(c, written, w.limit))
      /\ Success(c, written, w.limit).succeeded /\ ~Success(c, written, w.limit).truncated =>
           Success(c, written, w.limit).content = raw
  <2> HIDE DEF written, Good
  <2>1. CASE written = OutputLimit
    BY <1>1, <1>3, <2>1 DEF Success
  <2>2. CASE written # OutputLimit
    <3>1. Success(c, written, w.limit) =
            [call |-> c.id, succeeded |-> TRUE, error |-> "none",
             truncated |-> written.truncated, cached |-> FALSE, content |-> written.output]
      BY <2>2 DEF Success
    <3> QED BY <1>2, <3>1 DEF Good, Whole
  <2> QED BY <2>1, <2>2
<1>6. CASE Refusal(c, w) # "none"
  <2>1. r = Failure(c, Refusal(c, w), Text(Refusal(c, w), 20))
    BY <1>6 DEF ExecuteTool
  <2>2. Good(r) /\ ~r.succeeded
    <3> HIDE DEF Good
    <3> QED BY <1>1, <1>4, <2>1
  <2> QED BY <2>2
<1>7. CASE Refusal(c, w) = "none"
  <2> DEFINE behaviour == Behaviour(c, effect, reply)
  <2>1. CASE behaviour = "late"
    <3>1. r = Failure(c, "tool_timeout", Text("tool_timeout", 20))
      BY <1>7, <2>1 DEF ExecuteTool
    <3>2. Good(r) /\ ~r.succeeded
      <4> HIDE DEF Good
      <4> QED BY <1>1, <1>4, <3>1
    <3> QED BY <3>2
  <2>2. CASE behaviour = "error"
    <3>1. r = Failure(c, "tool_execution_failed", Text("tool_execution_failed", 20))
      BY <1>7, <2>2 DEF ExecuteTool
    <3>2. Good(r) /\ ~r.succeeded
      <4> HIDE DEF Good
      <4> QED BY <1>1, <1>4, <3>1
    <3> QED BY <3>2
  <2>3. CASE behaviour \notin {"late", "error"}
    <3>1. r = Success(c, written, w.limit)
      BY <1>7, <2>3 DEF ExecuteTool, raw
    <3>2. c.tool \notin DOMAIN BuiltIn => behaviour = reply.outcome
      BY DEF Behaviour
    <3>3. /\ Good(r)
          /\ r.succeeded /\ ~r.truncated => r.content = raw
      <4> HIDE DEF Good, written
      <4> QED BY <1>5, <3>1
    <3>4. c.tool \notin DOMAIN BuiltIn => reply.outcome \notin {"late", "error"}
      <4> HIDE DEF behaviour
      <4> QED BY <2>3, <3>2
    <3> HIDE DEF behaviour
    <3> QED BY <1>7, <3>3, <3>4 DEF raw
  <2> QED BY <2>1, <2>2, <2>3
<1> QED BY <1>6, <1>7

(* r is q again, the success of the call c of step i.                      *)
Again(r, i, c, q) ==
  /\ q.succeeded /\ c.tool = call.tool /\ c.arguments = call.arguments
  /\ ResultOf(c, q, i, world, asked)
  /\ r = [q EXCEPT !.call = call.id, !.cached = TRUE]

LEMMA CachedResult ==
  ASSUME StepsInv, NEW r \in FindCachedToolResult
  PROVE  \E i \in 1..Len(steps), c \in Decisions : \E q :
           steps[i].calls = <<c>> /\ steps[i].results = {q} /\ Again(r, i, c, q)
<1> DEFINE same == {i \in DOMAIN steps : \E c \in Range(steps[i].calls) :
                      c.tool = call.tool /\ c.arguments = call.arguments}
           good(i) == {x \in steps[i].results : x.succeeded}
           again(i) == {[q EXCEPT !.call = call.id, !.cached = TRUE] : q \in good(i)}
<1>1. FindCachedToolResult = UNION {again(i) : i \in same}
  BY DEF FindCachedToolResult
<1>2. PICK i \in same : r \in again(i)
  BY <1>1
<1>3. i \in 1..Len(steps) /\ StepOf(steps[i], i, world, asked)
  BY ListIs DEF StepsInv
<1>4. PICK q \in good(i) : r = [q EXCEPT !.call = call.id, !.cached = TRUE]
  BY <1>2
<1>5. q \in steps[i].results /\ q.succeeded
  BY <1>4
<1>6. PICK c \in Decisions : /\ steps[i].calls = <<c>> /\ steps[i].results = {q}
                             /\ ResultOf(c, q, i, world, asked)
  BY <1>3, <1>5 DEF StepOf
<1>7. Range(<<c>>) = {c}
  BY DEF Range
<1>8. c.tool = call.tool /\ c.arguments = call.arguments
  BY <1>2, <1>6, <1>7
<1>9. Again(r, i, c, q)
  BY <1>4, <1>5, <1>6, <1>8 DEF Again
<1> QED BY <1>3, <1>6, <1>9

(* The result that a call gets, cached or new.                             *)
Results(effect) ==
  {IF FindCachedToolResult # {} THEN CHOOSE r \in FindCachedToolResult : TRUE
   ELSE ExecuteTool(call, effect, world, Request(pipe, effect))}

LEMMA CallResult ==
  ASSUME StepsInv, NEW effect, ToolReturns(effect), NEW r \in Results(effect)
  PROVE  ResultOf(call, r, Index, world, asked')
<1>1. call \in Decisions /\ asked \subseteq asked'
  BY DEF StepsInv, ToolReturns, Asked
<1>2. CASE FindCachedToolResult # {}
  <2>1. r \in FindCachedToolResult
    BY <1>2 DEF Results
  <2>2. PICK i \in 1..Len(steps), c \in Decisions : \E q : Again(r, i, c, q)
    BY <2>1, CachedResult
  <2>3. PICK q : Again(r, i, c, q)
    BY <2>2
  <2>4. r = [call |-> call.id, succeeded |-> q.succeeded, error |-> q.error,
             truncated |-> q.truncated, cached |-> TRUE, content |-> q.content]
    BY <2>3 DEF Again, ResultOf, Whole
  <2>5. \A e, id : RawOutput(call, e, world.base, id) = RawOutput(c, e, world.base, id)
    BY <2>3 DEF Again, RawOutput
  <2>6. /\ q.succeeded \in BOOLEAN /\ q.truncated \in BOOLEAN /\ q.succeeded
        /\ ~q.truncated => \E e, id : q.content = RawOutput(c, e, world.base, id)
    BY <2>3 DEF Again, ResultOf
  <2> QED BY <2>4, <2>5, <2>6 DEF ResultOf, Whole
<1>3. CASE FindCachedToolResult = {}
  <2> DEFINE reply == Request(pipe, effect)
  <2>1. r = ExecuteTool(call, effect, world, reply)
    BY <1>3 DEF Results
  <2>2. /\ Whole(r) /\ r.call = call.id /\ r.succeeded \in BOOLEAN /\ r.truncated \in BOOLEAN
        /\ ~r.cached
        /\ ~r.succeeded => r.content.type = "text"
        /\ r.succeeded =>
              /\ Refusal(call, world) = "none"
              /\ call.tool \notin DOMAIN BuiltIn => reply.outcome \notin {"late", "error"}
              /\ ~r.truncated => r.content = RawOutput(call, effect, world.base, reply.id)
    <3> HIDE DEF reply
    <3> QED BY <1>1, <2>1, ExecutedResult
  <2>3. ASSUME r.succeeded, call.tool \in DOMAIN world.tools
        PROVE  <<Index, reply.id>> \in asked'
    <3>1. Remote
      BY <2>2, <2>3 DEF Remote
    <3>2. asked' = asked \cup {<<Index, pipe.next + 1>>}
      BY <1>3, <3>1 DEF ToolReturns, Asked
    <3>3. call.tool \notin DOMAIN BuiltIn
      BY <2>3 DEF StepsInv
    <3>4. reply.id = pipe.next + 1
      BY <2>2, <2>3, <3>3, RequestIsAnswered DEF StepsInv
    <3> HIDE DEF reply
    <3> QED BY <3>2, <3>4
  <2> HIDE DEF reply
  <2> QED BY <2>2, <2>3 DEF ResultOf
<1> QED BY <1>2, <1>3

LEMMA StepKept ==
  ASSUME NEW s, NEW i, NEW w, NEW a, NEW b, StepOf(s, i, w, a), a \subseteq b
  PROVE  StepOf(s, i, w, b)
BY DEF StepOf, ResultOf

LEMMA StepsInit == TraceInit => StepsInv
<1> SUFFICES ASSUME TraceInit PROVE StepsInv
  OBVIOUS
<1>1. PICK b \in Bases, n \in Limits, s \in Servers :
        /\ world = [base |-> b, limit |-> n, tools |-> DiscoverTools(s).tools,
                    granted |-> DiscoverTools(s).granted]
        /\ pipe = DiscoverTools(s).pipe
  BY DEF TraceInit
<1> DEFINE answer   == ListTools(s)
           names    == [i \in DOMAIN answer.definitions |-> answer.definitions[i].name]
           admitted == {d \in Range(answer.definitions) : Admitted(d, s)}
<1>2. NewPipe \in PipeType /\ ClosedPipe \in PipeType
  <2>1. <<>> \in Seq(Nat)
    OBVIOUS
  <2> QED BY <2>1 DEF NewPipe, ClosedPipe, PipeType
<1>3. StartClient(s) \in PipeType
  BY <1>2, RequestIsAnswered DEF StartClient, Initialize
<1>4. answer.pipe \in PipeType
  BY <1>3, RequestIsAnswered DEF ListTools
<1>5. ASSUME NEW d \in admitted PROVE d.name \notin DOMAIN BuiltIn
  <2>1. d \in Range(answer.definitions)
    BY <1>5
  <2>2. answer.definitions =
          [i \in DOMAIN s.definitions |->
             [name |-> s.definitions[i].name, risk |-> ParseRiskMetadata(s.definitions[i].hints)]]
    BY DEF ListTools
  <2>3. PICK i \in DOMAIN s.definitions :
          d = [name |-> s.definitions[i].name, risk |-> ParseRiskMetadata(s.definitions[i].hints)]
    <3> HIDE DEF answer
    <3> QED BY <2>1, <2>2 DEF Range
  <2> QED BY <2>3, ServersAssumption
<1>6. /\ DiscoverTools(s).pipe \in PipeType
      /\ DOMAIN DiscoverTools(s).tools \cap DOMAIN BuiltIn = {}
  <2> HIDE DEF answer, admitted
  <2>1. CASE answer.listed /\ IsInjective(names)
    <3>1. /\ DiscoverTools(s).pipe = answer.pipe
          /\ DOMAIN DiscoverTools(s).tools = {d.name : d \in admitted}
      BY <2>1 DEF DiscoverTools, answer, admitted
    <3> QED BY <1>4, <1>5, <3>1
  <2>2. CASE ~(answer.listed /\ IsInjective(names))
    <3>1. DiscoverTools(s).pipe = ClosedPipe /\ DiscoverTools(s).tools = <<>>
      BY <2>2 DEF DiscoverTools, answer, admitted
    <3>2. DOMAIN <<>> = {}
      OBVIOUS
    <3> QED BY <1>2, <3>1, <3>2
  <2> QED BY <2>1, <2>2
<1>7. IsList(steps) /\ Len(steps) = 0
  <2>1. steps = <<>> /\ <<>> \in Seq({})
    BY DEF TraceInit
  <2> QED BY <2>1, ListOf
<1>8. at = "plan"
  BY DEF TraceInit
<1> QED BY <1>1, <1>6, <1>7, <1>8 DEF StepsInv

(* A step that keeps the list, and one that makes it longer.               *)
LEMMA StepsStay ==
  ASSUME StepsInv, pipe' \in PipeType, UNCHANGED <<world, steps>>, asked \subseteq asked',
         at' = "tool" => call' \in Decisions
  PROVE  StepsInv'
<1>1. \A i \in 1..Len(steps) : StepOf(steps[i], i, world, asked')
  BY StepKept DEF StepsInv
<1> QED BY <1>1 DEF StepsInv

LEMMA StepsGrow ==
  ASSUME StepsInv, pipe' \in PipeType, UNCHANGED world, asked \subseteq asked',
         at' # "tool", NEW s, steps' = Append(steps, s), StepOf(s, Index, world, asked')
  PROVE  StepsInv'
<1>1. IsList(steps) /\ Index = Len(steps) + 1
  BY DEF StepsInv, Index
<1>2. \A i \in 1..Len(steps) : StepOf(steps[i], i, world, asked')
  BY StepKept DEF StepsInv
<1>3. /\ IsList(steps') /\ steps'[Index] = s
      /\ \A i \in 1..Len(steps) : steps'[i] = steps[i]
      /\ \A i \in 1..Len(steps') : i \in 1..Len(steps) \/ i = Index
  BY <1>1, ListAppends
<1>4. \A i \in 1..Len(steps') : StepOf(steps'[i], i, world, asked')
  BY <1>2, <1>3
<1> QED BY <1>3, <1>4 DEF StepsInv

LEMMA StepsNext == StepsInv /\ [TraceNext]_traceVars => StepsInv'
<1> SUFFICES ASSUME StepsInv, [TraceNext]_traceVars PROVE StepsInv'
  OBVIOUS
<1>1. pipe \in PipeType /\ (at = "tool" => call \in Decisions)
  BY DEF StepsInv
<1>2. ASSUME NEW c \in Decisions, Plan(c) PROVE StepsInv'
  BY <1>1, <1>2, StepsStay DEF Plan
<1>3. ASSUME NEW c \in Decisions, StopBeforeTool(c) PROVE StepsInv'
  <2> DEFINE s == [index |-> Index, calls |-> <<c>>, results |-> {}]
  <2>1. StepOf(s, Index, world, asked')
    BY DEF StepOf
  <2>2. /\ pipe' \in PipeType /\ UNCHANGED world /\ asked \subseteq asked' /\ at' # "tool"
        /\ steps' = Append(steps, s)
    BY <1>1, <1>3 DEF StopBeforeTool
  <2> HIDE DEF s
  <2> QED BY <2>1, <2>2, StepsGrow
<1>4. ASSUME NEW effect \in Effects, ToolReturns(effect) PROVE StepsInv'
  <2>1. PICK result \in Results(effect) :
          steps' = Append(steps, [index |-> Index, calls |-> <<call>>, results |-> {result}])
    BY <1>4 DEF ToolReturns, Results
  <2> DEFINE s == [index |-> Index, calls |-> <<call>>, results |-> {result}]
  <2>2. ResultOf(call, result, Index, world, asked') /\ call \in Decisions
    BY <1>1, <1>4, CallResult DEF ToolReturns
  <2>3. StepOf(s, Index, world, asked')
    BY <2>2 DEF StepOf
  <2>4. pipe' \in PipeType
    BY <1>1, <1>4, RequestIsAnswered DEF ToolReturns
  <2>5. UNCHANGED world /\ asked \subseteq asked' /\ at' # "tool"
    BY <1>4 DEF ToolReturns, Asked
  <2> HIDE DEF s
  <2> QED BY <2>1, <2>3, <2>4, <2>5, StepsGrow DEF s
<1>5. ASSUME NEW verdict, StopInTool(verdict) PROVE StepsInv'
  <2>1. GivenUp(pipe) \in PipeType
    BY <1>1, GivenUpIsPipe
  <2>2. pipe' \in PipeType
    BY <1>1, <1>5, <2>1 DEF StopInTool
  <2> QED BY <1>5, <2>2, StepsStay DEF StopInTool, Asked
<1>6. CASE Answer
  <2> DEFINE s == [index |-> Index, calls |-> <<>>, results |-> {}]
  <2>1. StepOf(s, Index, world, asked')
    BY DEF StepOf
  <2>2. /\ pipe' \in PipeType /\ UNCHANGED world /\ asked \subseteq asked' /\ at' # "tool"
        /\ steps' = Append(steps, s)
    BY <1>1, <1>6 DEF Answer
  <2> HIDE DEF s
  <2> QED BY <2>1, <2>2, StepsGrow
<1>7. CASE RunOut
  BY <1>1, <1>7, StepsStay DEF RunOut
<1>8. CASE PersistAgentRun
  BY <1>1, <1>8, StepsStay DEF PersistAgentRun
<1>9. CASE UNCHANGED traceVars
  BY <1>1, <1>9, StepsStay DEF traceVars
<1> QED BY <1>2, <1>3, <1>4, <1>5, <1>6, <1>7, <1>8, <1>9 DEF TraceNext

(* Throughout a run, every step is as StepsInv says.                       *)
THEOREM StepsAlways == TraceSpec => []StepsInv
<1>1. TraceInit => StepsInv
  BY StepsInit
<1>2. StepsInv /\ [TraceNext]_traceVars => StepsInv'
  BY StepsNext
<1> QED BY <1>1, <1>2, PTL DEF TraceSpec

(* Of a field that is there once, Get is its value.                        *)
LEMMA ContentOfCall ==
  ASSUME NEW id, NEW effect
  PROVE  Get(CallTool(id, effect), "content") = Arr(<<Num(id), Str("text", 60)>>)
<1> DEFINE error == IF effect = "reports" THEN Str("reported", 26) ELSE Null
           content == Arr(<<Num(id), Str("text", 60)>>)
           a == <<"content", content>>
           b == <<"error", error>>
           c == <<"ok", Bool(effect # "reports")>>
           x == CallTool(id, effect)
<1>1. x.fields = <<a, b, c>>
  BY DEF CallTool, Obj
<1> HIDE DEF error, content, x
<1>2. Range(x.fields) = {a, b, c}
  <2>1. DOMAIN <<a, b, c>> = {1, 2, 3}
    OBVIOUS
  <2>2. <<a, b, c>>[1] = a /\ <<a, b, c>>[2] = b /\ <<a, b, c>>[3] = c
    OBVIOUS
  <2> HIDE DEF a, b, c
  <2> QED BY <1>1, <2>1, <2>2 DEF Range
<1>3. a[1] = "content" /\ a[2] = content /\ b[1] = "error" /\ c[1] = "ok"
  OBVIOUS
<1> HIDE DEF a, b, c
<1>4. \A f \in Range(x.fields) : f[1] = "content" <=> f = a
  BY <1>2, <1>3
<1>5. "content" \in Keys(x)
  BY <1>2, <1>3 DEF Keys
<1>6. (CHOOSE f \in Range(x.fields) : f[1] = "content") = a
  BY <1>2, <1>4
<1>7. Get(x, "content") = content
  BY <1>3, <1>5, <1>6 DEF Get
<1> QED BY <1>7 DEF x, content

(* However many answers a server still owes and whatever becomes of each   *)
(* request, an output recorded for a remote call answers a request that    *)
(* the step itself made: a line with another id is read over, also that    *)
(* of a request given up before (MCPProcessClient._request).               *)
THEOREM AnswersAreOwn == TraceSpec => []AnswerIsOwn
<1>1. StepsInv => AnswerIsOwn
  <2> SUFFICES ASSUME StepsInv, NEW s \in Range(steps), NEW c \in Range(s.calls),
                      NEW r \in s.results,
                      r.succeeded, ~r.truncated, ~r.cached, c.tool \in DOMAIN world.tools
               PROVE  <<s.index, Get(r.content, "content").items[1].i>> \in asked
    BY DEF AnswerIsOwn
  <2>1. PICK i \in 1..Len(steps) : s = steps[i]
    BY ListIs DEF StepsInv, Range
  <2>2. StepOf(s, i, world, asked) /\ s.index = i
    BY <2>1 DEF StepsInv, StepOf
  <2>3. PICK d \in Decisions : s.calls = <<d>> /\ s.results = {r} /\ ResultOf(d, r, i, world, asked)
    BY <2>2 DEF StepOf
  <2>4. c = d
    BY <2>3 DEF Range
  <2>5. PICK e, id : r.content = RawOutput(c, e, world.base, id) /\ <<i, id>> \in asked
    BY <2>3, <2>4 DEF ResultOf
  <2>6. c.tool \notin DOMAIN BuiltIn
    BY DEF StepsInv
  <2>7. r.content = CallTool(id, e)
    BY <2>5, <2>6 DEF RawOutput, BuiltIn
  <2>8. Get(r.content, "content").items[1].i = id
    BY <2>7, ContentOfCall DEF Arr, Num
  <2> QED BY <2>2, <2>5, <2>8
<1> QED BY <1>1, StepsAlways, PTL

-----------------------------------------------------------------------------
(* Order.                                                                  *)

(* Before puts the members of S in a line.                                 *)
IsOrder(S, Before) ==
  /\ \A a, b \in S : <<a, b>> \in Before => <<b, a>> \notin Before
  /\ \A a, b, c \in S : <<a, b>> \in Before /\ <<b, c>> \in Before => <<a, c>> \in Before
  /\ \A a, b \in S : a = b \/ <<a, b>> \in Before \/ <<b, a>> \in Before

(* Every place of a sorted list has a member of the set: the numbers of    *)
(* members before them are all different, and less than how many there     *)
(* are.  One that none is before comes first.                              *)
LEMMA SortedHas ==
  ASSUME NEW S, IsFiniteSet(S), NEW Before, IsOrder(S, Before)
  PROVE  /\ Sorted(S, Before) \in Seq(S) /\ Len(Sorted(S, Before)) = Cardinality(S)
         /\ \A c \in S : (\A d \in S : <<d, c>> \notin Before) =>
              Cardinality(S) >= 1 /\ Sorted(S, Before)[1] = c
<1> DEFINE under(c) == {d \in S : <<d, c>> \in Before}
           n == Cardinality(S)
           r == [c \in S |-> Cardinality(under(c)) + 1]
<1>1. n \in Nat
  BY FS_CardinalityType
<1>2. ASSUME NEW c \in S
      PROVE  /\ IsFiniteSet(under(c)) /\ Cardinality(under(c)) \in Nat
             /\ Cardinality(under(c)) <= n - 1 /\ n >= 1
  <2>1. c \notin under(c) /\ under(c) \in SUBSET S
    BY DEF IsOrder
  <2>2. IsFiniteSet(under(c)) /\ Cardinality(under(c)) <= n
        /\ (n = Cardinality(under(c)) => S = under(c))
    <3> HIDE DEF under
    <3> QED BY <2>1, FS_Subset
  <2>3. Cardinality(under(c)) \in Nat
    <3> HIDE DEF under
    <3> QED BY <2>2, FS_CardinalityType
  <2>4. n # Cardinality(under(c))
    BY <2>1, <2>2
  <2> HIDE DEF under, n
  <2> QED BY <1>1, <2>2, <2>3, <2>4
<1>3. ASSUME NEW c \in S, NEW d \in S, <<c, d>> \in Before
      PROVE  r[c] < r[d]
  <2>1. under(c) \in SUBSET under(d) /\ c \in under(d) /\ c \notin under(c)
    BY <1>3 DEF IsOrder
  <2>2. IsFiniteSet(under(d)) /\ Cardinality(under(d)) \in Nat /\ Cardinality(under(c)) \in Nat
    <3> HIDE DEF under, n
    <3> QED BY <1>2
  <2>3. Cardinality(under(c)) <= Cardinality(under(d))
        /\ (Cardinality(under(d)) = Cardinality(under(c)) => under(d) = under(c))
    <3> HIDE DEF under
    <3> QED BY <2>1, <2>2, FS_Subset
  <2>4. Cardinality(under(c)) < Cardinality(under(d))
    <3> HIDE DEF under
    <3> QED BY <2>1, <2>2, <2>3
  <2> HIDE DEF under
  <2> QED BY <2>2, <2>4
<1>4. r \in Injection(S, 1..n)
  <2>1. r \in [S -> 1..n]
    <3> HIDE DEF under, n
    <3> QED BY <1>1, <1>2
  <2>2. \A c, d \in S : r[c] = r[d] => c = d
    <3> HIDE DEF r
    <3>1. \A c, d \in S : r[c] \in Int /\ r[d] \in Int
      BY <2>1
    <3> TAKE c, d \in S
    <3>2. c = d \/ <<c, d>> \in Before \/ <<d, c>> \in Before
      BY DEF IsOrder
    <3>3. <<c, d>> \in Before => r[c] < r[d]
      BY <1>3
    <3>4. <<d, c>> \in Before => r[d] < r[c]
      BY <1>3
    <3>5. r[c] \in Int /\ r[d] \in Int
      BY <3>1
    <3> QED BY <3>2, <3>3, <3>4, <3>5
  <2> HIDE DEF r, n
  <2> QED BY <2>1, <2>2 DEF Injection, IsInjective
<1>5. r \in Surjection(S, 1..n)
  <2>1. IsFiniteSet(1..n) /\ Cardinality(1..n) = n
    <3> HIDE DEF n
    <3>1. IsFiniteSet(1..n) /\ Cardinality(1..n) = IF 1 > n THEN 0 ELSE n - 1 + 1
      BY <1>1, FS_Interval
    <3> QED BY <1>1, <3>1
  <2> HIDE DEF r
  <2> QED BY <1>4, <2>1, FS_Injection
<1>6. \A i \in 1..n : \E c \in S : Cardinality(under(c)) = i - 1
  <2>1. \A i \in 1..n : \E c \in S : r[c] = i
    <3> HIDE DEF r, n
    <3> QED BY <1>5 DEF Surjection
  <2> TAKE i \in 1..n
  <2>2. PICK c \in S : r[c] = i
    BY <2>1
  <2>3. Cardinality(under(c)) \in Nat
    <3> HIDE DEF under
    <3> QED BY <1>2
  <2> HIDE DEF under, n
  <2> QED BY <2>2, <2>3
<1>7. Sorted(S, Before) = [i \in 1..n |-> CHOOSE c \in S : Cardinality(under(c)) = i - 1]
  BY DEF Sorted
<1>8. ASSUME NEW i \in 1..n PROVE Sorted(S, Before)[i] \in S
  <2> HIDE DEF under, n
  <2> QED BY <1>6, <1>7
<1>9. Sorted(S, Before) \in Seq(S) /\ Len(Sorted(S, Before)) = n
  <2> HIDE DEF under, n
  <2>1. Sorted(S, Before) \in [1..n -> S]
    BY <1>7, <1>8
  <2> QED BY <1>1, <2>1
<1>10. ASSUME NEW c \in S, \A d \in S : <<d, c>> \notin Before
       PROVE  n >= 1 /\ Sorted(S, Before)[1] = c
  <2>1. Cardinality(under(c)) = 0
    <3>1. under(c) = {}
      BY <1>10
    <3> HIDE DEF under
    <3> QED BY <3>1, FS_EmptySet
  <2>2. ASSUME NEW d \in S, Cardinality(under(d)) = 0 PROVE d = c
    <3>1. under(d) = {}
      <4> HIDE DEF under
      <4> QED BY <1>2, <2>2, FS_EmptySet
    <3> QED BY <1>10, <3>1 DEF IsOrder
  <2>3. (CHOOSE d \in S : Cardinality(under(d)) = 0) = c
    <3> HIDE DEF under
    <3> QED BY <2>1, <2>2
  <2>4. n >= 1
    <3> HIDE DEF under, n
    <3> QED BY <1>2
  <2>5. Sorted(S, Before)[1] = CHOOSE d \in S : Cardinality(under(d)) = 1 - 1
    <3> HIDE DEF under, n
    <3> QED BY <1>1, <1>7, <2>4
  <2>6. 1 - 1 = 0
    OBVIOUS
  <2> HIDE DEF under, n
  <2> QED BY <2>3, <2>4, <2>5, <2>6
<1> HIDE DEF n, under
<1> QED BY <1>9, <1>10 DEF n

(* The beginning of a list.                                                *)
LEMMA FirstHas ==
  ASSUME NEW X, NEW s \in Seq(X), NEW n \in Nat \ {0}
  PROVE  /\ First(s, n) \in Seq(X) /\ Range(First(s, n)) \subseteq Range(s)
         /\ Len(First(s, n)) <= n
         /\ First(s, n) = <<>> <=> s = <<>>
         /\ s # <<>> => First(s, n)[1] = s[1]
<1> DEFINE m == Min({Len(s), n})
<1>1. Len(s) \in Nat
  OBVIOUS
<1>2. m \in {Len(s), n} /\ m <= Len(s) /\ m <= n
  <2>1. \E x \in {Len(s), n} : \A y \in {Len(s), n} : x <= y
    BY <1>1
  <2> QED BY <1>1, <2>1 DEF Min
<1> HIDE DEF m
<1>3. m \in Nat /\ \A i \in 1..m : i \in 1..Len(s)
  BY <1>1, <1>2
<1>4. /\ SubSeq(s, 1, m) \in Seq(X) /\ Len(SubSeq(s, 1, m)) = m
      /\ \A i \in 1..m : SubSeq(s, 1, m)[i] = s[i]
  BY <1>1, <1>2, <1>3, SubSeqProperties
<1>5. First(s, n) = SubSeq(s, 1, m)
  BY DEF First, m
<1>6. Range(First(s, n)) \subseteq Range(s)
  <2>1. Range(First(s, n)) = {First(s, n)[i] : i \in 1..Len(First(s, n))}
    <3>1. First(s, n) \in Seq(X)
      BY <1>4, <1>5
    <3> QED BY <3>1, ListOf
  <2>2. Range(s) = {s[i] : i \in 1..Len(s)}
    BY ListOf
  <2> QED BY <1>3, <1>4, <1>5, <2>1, <2>2
<1> QED BY <1>1, <1>2, <1>3, <1>4, <1>5, <1>6

(* The least and the largest of some numbers.                              *)
LEMMA MinIs ==
  ASSUME NEW I \in SUBSET Nat, I # {}
  PROVE  Min(I) \in I /\ \A m \in I : Min(I) <= m
<1>1. \E n \in I : \A m \in I : n <= m
  BY Least
<1> QED BY <1>1 DEF Min

-----------------------------------------------------------------------------
(* The searches and their fusion.                                          *)

Visible(base) ==
  {x \in base.stored : x.owner = "own" /\ ~(base.strict /\ x.verdict = "suspicious")}

LEMMA Searched ==
  ASSUME NEW base \in Bases
  PROVE  /\ SemanticSearch(base) \in Seq(Visible(base))
         /\ KeywordSearch(base) \in Seq(Visible(base))
<1>1. /\ IsFiniteSet(base.stored)
      /\ \A c \in base.stored : c.n \in Nat /\ c.distance \in Int /\ c.rank \in Nat
      /\ \A c, d \in {x \in base.stored : x.owner = "own"} :
           c # d => c.distance # d.distance /\ (c.rank # 0 => c.rank # d.rank)
  BY BasesAssumption DEF IsBase
<1>2. CandidateK \in Nat \ {0}
  BY RetrievalAssumption
<1>3. SemanticSearch(base) \in Seq(Visible(base))
  <2> DEFINE rows == {c \in base.stored : c.owner = "own" /\ c.model = "current"
                                          /\ SafetyFilter(base, c)}
             before == {p \in rows \X rows : p[1].distance < p[2].distance}
  <2>1. rows \subseteq Visible(base) /\ rows \in SUBSET base.stored
    BY DEF Visible, SafetyFilter
  <2>2. \A c, d \in rows : <<c, d>> \in before <=> c.distance < d.distance
    <3> HIDE DEF rows
    <3> QED OBVIOUS
  <2>3. /\ \A c \in rows : c.distance \in Int
        /\ \A c, d \in rows : c # d => c.distance # d.distance
    BY <1>1
  <2> HIDE DEF rows, before
  <2>4. IsOrder(rows, before)
    BY <2>2, <2>3 DEF IsOrder
  <2>5. IsFiniteSet(rows)
    BY <1>1, <2>1, FS_Subset
  <2>6. Sorted(rows, before) \in Seq(rows)
    BY <2>4, <2>5, SortedHas
  <2>7. SemanticSearch(base) = First(Sorted(rows, before), CandidateK)
    BY DEF SemanticSearch, rows, before
  <2>8. SemanticSearch(base) \in Seq(rows)
    BY <1>2, <2>6, <2>7, FirstHas
  <2> QED BY <2>1, <2>8
<1>4. KeywordSearch(base) \in Seq(Visible(base))
  <2> DEFINE rows == {c \in base.stored : c.owner = "own" /\ c.rank # 0 /\ SafetyFilter(base, c)}
             before == {p \in rows \X rows : p[1].rank > p[2].rank}
  <2>1. rows \subseteq Visible(base) /\ rows \in SUBSET base.stored
    BY DEF Visible, SafetyFilter
  <2>2. \A c, d \in rows : <<c, d>> \in before <=> c.rank > d.rank
    <3> HIDE DEF rows
    <3> QED OBVIOUS
  <2>3. /\ \A c \in rows : c.rank \in Int
        /\ \A c, d \in rows : c # d => c.rank # d.rank
    BY <1>1
  <2> HIDE DEF rows, before
  <2>4. IsOrder(rows, before)
    BY <2>2, <2>3 DEF IsOrder
  <2>5. IsFiniteSet(rows)
    BY <1>1, <2>1, FS_Subset
  <2>6. Sorted(rows, before) \in Seq(rows)
    BY <2>4, <2>5, SortedHas
  <2>7. KeywordSearch(base) = First(Sorted(rows, before), CandidateK)
    BY DEF KeywordSearch, rows, before
  <2>8. KeywordSearch(base) \in Seq(rows)
    BY <1>2, <2>6, <2>7, FirstHas
  <2> QED BY <2>1, <2>8
<1> QED BY <1>3, <1>4

(* The product of the denominators is at least the first of them.          *)
ProductOf(f) == [i \in 0..CandidateK |-> IF i = 0 THEN 1 ELSE f[i - 1] * (RrfK + i)]

LEMMA UnitIsLarge == Unit \in Nat /\ Unit >= RrfK + 1
<1> DEFINE N == CandidateK
           g == [p \in (1..N) \X Nat |-> p[2] * (RrfK + p[1])]
           product == CHOOSE f : f = ProductOf(f)
<1>1. N \in Nat /\ N >= 1 /\ RrfK \in Nat
  BY RetrievalAssumption
<1>2. \A a, b \in Nat : a * b \in Nat
  OBVIOUS
<1>3. g \in [(1..N) \X Nat -> Nat]
  <2>1. ASSUME NEW p \in (1..N) \X Nat PROVE p[2] * (RrfK + p[1]) \in Nat
    <3>1. p[2] \in Nat /\ RrfK + p[1] \in Nat
      BY <1>1
    <3> QED BY <1>2, <3>1
  <2> HIDE DEF N
  <2> QED BY <2>1
<1>4. \A i \in 1..N, n \in Nat : g[<<i, n>>] = n * (RrfK + i)
  <2> HIDE DEF N
  <2> QED OBVIOUS
<1>5. PICK f : Recurses(f, N, Nat, 1, g)
  <2> HIDE DEF g, N
  <2> QED BY <1>1, <1>3, Recursion
<1>6. f = ProductOf(f)
  <2>1. f = [i \in 0..N |-> f[i]] /\ f[0] = 1
    BY <1>5 DEF Recurses
  <2>2. ASSUME NEW i \in 1..N PROVE f[i] = f[i - 1] * (RrfK + i)
    <3>1. f[i - 1] \in Nat /\ f[i] = g[<<i, f[i - 1]>>]
      <4> HIDE DEF N, g
      <4> QED BY <1>1, <1>5 DEF Recurses
    <3> HIDE DEF N, g
    <3> QED BY <1>4, <3>1
  <2>3. ASSUME NEW i \in 0..N
        PROVE  f[i] = IF i = 0 THEN 1 ELSE f[i - 1] * (RrfK + i)
    <3>1. CASE i = 0
      BY <2>1, <3>1
    <3>2. CASE i # 0
      <4>1. i \in 1..N
        BY <1>1, <3>2
      <4> HIDE DEF N
      <4> QED BY <2>2, <3>2, <4>1
    <3> QED BY <3>1, <3>2
  <2>4. ProductOf(f) = [i \in 0..N |-> IF i = 0 THEN 1 ELSE f[i - 1] * (RrfK + i)]
    BY DEF ProductOf
  <2> HIDE DEF N, g
  <2> QED BY <2>1, <2>3, <2>4
<1>7. product = ProductOf(product)
  BY <1>6
<1>8. Unit = product[N]
  BY DEF Unit, ProductOf
<1> HIDE DEF product
<1>9. product[0] = 1 /\ \A i \in 1..N : product[i] = product[i - 1] * (RrfK + i)
  <2>1. \A i \in 0..N : product[i] = IF i = 0 THEN 1 ELSE product[i - 1] * (RrfK + i)
    <3>1. ProductOf(product) = [i \in 0..N |-> IF i = 0 THEN 1 ELSE product[i - 1] * (RrfK + i)]
      BY DEF ProductOf
    <3> HIDE DEF N
    <3> QED BY <1>7, <3>1
  <2> HIDE DEF N
  <2> QED BY <1>1, <2>1
<1> DEFINE T == {i \in 0..N : /\ product[i] \in Nat /\ product[i] >= 1
                              /\ i >= 1 => product[i] >= RrfK + 1}
<1>10. 0 \in T
  BY <1>1, <1>9
<1>11. ASSUME NEW i \in 1..N, i - 1 \in T PROVE i \in T
  <2>1. product[i - 1] \in Nat /\ product[i - 1] >= 1
    BY <1>11
  <2>2. RrfK + i \in Nat /\ RrfK + i >= RrfK + 1 /\ RrfK + i >= 1 /\ i \in 0..N
    BY <1>1
  <2>3. \A a, b \in Nat : a >= 1 => a * b >= b
    OBVIOUS
  <2>4. product[i - 1] * (RrfK + i) \in Nat /\ product[i - 1] * (RrfK + i) >= RrfK + i
    BY <1>2, <2>1, <2>2, <2>3
  <2>5. product[i] \in Nat /\ product[i] >= RrfK + i
    BY <1>9, <2>4
  <2>6. product[i] >= RrfK + 1 /\ product[i] >= 1
    BY <1>1, <2>2, <2>5
  <2> QED BY <2>2, <2>5, <2>6
<1>12. N \in T
  <2> HIDE DEF N, T
  <2>1. \A i \in 0..N : i \in T
    BY <1>1, <1>10, <1>11, UpTo
  <2> QED BY <1>1, <2>1
<1> QED BY <1>1, <1>8, <1>12

(* What the first place of a path is worth.                                *)
Best == Unit \div (RrfK + 1)

LEMMA ScoreIs ==
  ASSUME NEW X, NEW path \in Seq(X), NEW chunk
  PROVE  /\ Best \in Nat /\ Best >= 1
         /\ Score(path, chunk) \in Nat /\ Score(path, chunk) <= Best
         /\ chunk \notin Range(path) => Score(path, chunk) = 0
         /\ path # <<>> /\ path[1] = chunk => Score(path, chunk) = Best
<1> DEFINE I == {i \in 1..Len(path) : path[i] = chunk}
           rank == SelectInSeq(path, LAMBDA c : c = chunk)
<1>1. Unit \in Nat /\ Unit >= RrfK + 1 /\ RrfK \in Nat /\ Len(path) \in Nat
  BY UnitIsLarge, RetrievalAssumption
<1>2. \A n \in Nat : n >= 1 => Unit \div n \in Nat
  BY <1>1
<1>3. ASSUME NEW n \in Nat, n >= RrfK + 1 PROVE Unit \div n <= Best
  <2>1. \A a, b, q \in Nat : b >= 1 => (q * b <= a => q <= a \div b)
    OBVIOUS
  <2>2. \A q, b, m \in Nat : b <= m => q * b <= q * m
    OBVIOUS
  <2>3. \A a, b \in Nat : b >= 1 => (a \div b) * b <= a
    OBVIOUS
  <2>4. Unit \div n \in Nat /\ n >= 1
    BY <1>1, <1>2, <1>3
  <2>5. (Unit \div n) * n <= Unit
    BY <1>1, <2>3, <2>4
  <2>6. (Unit \div n) * (RrfK + 1) <= (Unit \div n) * n
    BY <1>1, <1>3, <2>2, <2>4
  <2>7. (Unit \div n) * (RrfK + 1) <= Unit
    <3>1. \A a, b \in Nat : a * b \in Nat
      OBVIOUS
    <3>2. (Unit \div n) * (RrfK + 1) \in Nat /\ (Unit \div n) * n \in Nat
      BY <1>1, <2>4, <3>1
    <3> QED BY <1>1, <2>5, <2>6, <3>2
  <2> QED BY <1>1, <2>1, <2>4, <2>7 DEF Best
<1>4. Best \in Nat /\ Best >= 1
  <2>1. \A a, b \in Nat : b >= 1 /\ a >= b => a \div b >= 1
    OBVIOUS
  <2> QED BY <1>1, <1>2, <2>1 DEF Best
<1>5. rank = IF I # {} THEN Min(I) ELSE 0
  BY DEF SelectInSeq
<1>6. Score(path, chunk) = IF rank = 0 THEN 0 ELSE Unit \div (RrfK + rank)
  BY DEF Score
<1>7. I \in SUBSET Nat /\ \A i \in I : i >= 1
  OBVIOUS
<1>8. CASE I = {}
  <2>1. rank = 0
    BY <1>5, <1>8
  <2>2. ~(path # <<>> /\ path[1] = chunk)
    BY <1>8
  <2> HIDE DEF rank, I
  <2> QED BY <1>4, <1>6, <2>1, <2>2
<1>9. CASE I # {}
  <2>1. rank \in I /\ \A i \in I : rank <= i
    <3> HIDE DEF I, rank
    <3> QED BY <1>5, <1>7, <1>9, MinIs
  <2>2. chunk \in Range(path)
    <3>1. PICK i \in 1..Len(path) : path[i] = chunk
      BY <1>9
    <3> QED BY <3>1, ListOf
  <2>3. path[1] = chunk /\ path # <<>> => rank = 1
    <3> SUFFICES ASSUME path[1] = chunk, path # <<>> PROVE rank = 1
      OBVIOUS
    <3>1. 1 \in I
      BY <1>1
    <3>2. rank <= 1 /\ rank \in Nat /\ rank >= 1
      <4> HIDE DEF I, rank
      <4> QED BY <1>7, <2>1, <3>1
    <3> HIDE DEF I, rank
    <3> QED BY <3>2
  <2>4. rank \in Nat /\ rank >= 1
    <3> HIDE DEF I, rank
    <3> QED BY <1>7, <2>1
  <2> HIDE DEF I, rank
  <2>5. Score(path, chunk) = Unit \div (RrfK + rank)
    BY <1>6, <2>4
  <2>6. RrfK + rank \in Nat /\ RrfK + rank >= RrfK + 1 /\ RrfK + rank >= 1
    BY <1>1, <2>4
  <2>7. Unit \div (RrfK + rank) \in Nat /\ Unit \div (RrfK + rank) <= Best
    BY <1>2, <1>3, <2>6
  <2>8. rank = 1 => Unit \div (RrfK + rank) = Best
    BY DEF Best
  <2> QED BY <1>4, <2>2, <2>3, <2>5, <2>7, <2>8
<1> QED BY <1>8, <1>9

(* No place is left out of the ranking, and one that none is better than   *)
(* stays first.                                                            *)
LEMMA RankedIs ==
  ASSUME NEW R, NEW results \in Seq(R), \A r \in R : r.score \in Int
  PROVE  /\ Ranked(results) \in Seq(R)
         /\ results # <<>> /\ (\A i \in 1..Len(results) : results[i].score <= results[1].score)
              => Ranked(results) # <<>> /\ Ranked(results)[1] = results[1]
<1> DEFINE places == DOMAIN results
           before == {p \in places \X places :
                        \/ results[p[1]].score > results[p[2]].score
                        \/ results[p[1]].score = results[p[2]].score /\ p[1] < p[2]}
           order  == Sorted(places, before)
<1>1. /\ Len(results) \in Nat /\ places = 1..Len(results)
      /\ \A i \in 1..Len(results) : results[i] \in R /\ results[i].score \in Int
  OBVIOUS
<1>2. \A i, j \in places : <<i, j>> \in before <=>
        \/ results[i].score > results[j].score
        \/ results[i].score = results[j].score /\ i < j
  OBVIOUS
<1>3. Ranked(results) = [i \in DOMAIN order |-> results[order[i]]]
  BY DEF Ranked
<1> HIDE DEF places, before, order
<1>4. IsOrder(places, before)
  <2>1. \A i \in places : i \in Int /\ results[i].score \in Int
    BY <1>1
  <2> QED BY <1>2, <2>1 DEF IsOrder
<1>5. IsFiniteSet(places) /\ Cardinality(places) = Len(results)
  <2>1. IsFiniteSet(1..Len(results))
        /\ Cardinality(1..Len(results))
             = IF 1 > Len(results) THEN 0 ELSE Len(results) - 1 + 1
    BY <1>1, FS_Interval
  <2> QED BY <1>1, <2>1
<1>6. /\ order \in Seq(places) /\ Len(order) = Len(results)
      /\ \A c \in places : (\A d \in places : <<d, c>> \notin before) =>
           Len(results) >= 1 /\ order[1] = c
  BY <1>4, <1>5, SortedHas DEF order
<1>7. DOMAIN order = 1..Len(results) /\ \A i \in 1..Len(results) : order[i] \in 1..Len(results)
  BY <1>1, <1>6
<1>8. Ranked(results) \in [1..Len(results) -> R]
  BY <1>1, <1>3, <1>7
<1>9. Ranked(results) \in Seq(R) /\ Len(Ranked(results)) = Len(results)
  BY <1>1, <1>8
<1>10. ASSUME results # <<>>, \A i \in 1..Len(results) : results[i].score <= results[1].score
       PROVE  Ranked(results) # <<>> /\ Ranked(results)[1] = results[1]
  <2>1. 1 \in places /\ Len(results) >= 1
    BY <1>1, <1>10
  <2>2. ASSUME NEW d \in places PROVE <<d, 1>> \notin before
    <3>1. results[d].score \in Int /\ results[1].score \in Int /\ d \in Int /\ d >= 1
      BY <1>1, <2>1
    <3>2. results[d].score <= results[1].score
      BY <1>1, <1>10
    <3> QED BY <1>2, <2>1, <3>1, <3>2
  <2>3. order[1] = 1
    BY <1>6, <2>1, <2>2
  <2> QED BY <1>3, <1>7, <1>9, <2>1, <2>3
<1> QED BY <1>9, <1>10

(* A result of the fusion of two paths.                                    *)
Fused(semantic, keyword, c) ==
  [chunk |-> c, score |-> FusedScore(semantic, keyword, c), best |-> BestScore(semantic, keyword)]

AllFused(semantic, keyword) ==
  {Fused(semantic, keyword, c) : c \in Range(semantic) \cup Range(keyword)}

LEMMA FuseIs ==
  ASSUME NEW X, NEW semantic \in Seq(X), NEW keyword \in Seq(X)
  PROVE  /\ Fuse(semantic, keyword) \in Seq(AllFused(semantic, keyword))
         /\ semantic # <<>> /\ keyword # <<>> /\ semantic[1] = keyword[1] =>
              /\ Fuse(semantic, keyword) # <<>>
              /\ Fuse(semantic, keyword)[1] = Fused(semantic, keyword, semantic[1])
<1> DEFINE F == Range(semantic) \cup Range(keyword)
           rest == Among(keyword, Range(keyword) \ Range(semantic))
           found == semantic \o rest
           result(c) == Fused(semantic, keyword, c)
           results == [i \in DOMAIN found |-> result(found[i])]
           R == AllFused(semantic, keyword)
<1>1. /\ semantic \in Seq(F) /\ keyword \in Seq(F)
      /\ Len(semantic) \in Nat /\ Len(keyword) \in Nat
  <2>1. semantic \in Seq(Range(semantic)) /\ keyword \in Seq(Range(keyword))
    BY ListOf DEF IsList
  <2> QED BY <2>1
<1>2. rest \in Seq(F)
  <2> HIDE DEF F
  <2> QED BY <1>1, AmongPicks
<1>3. /\ found \in Seq(F) /\ Len(found) = Len(semantic) + Len(rest) /\ Len(rest) \in Nat
      /\ semantic # <<>> => Len(found) >= 1 /\ found[1] = semantic[1]
  <2> HIDE DEF rest, F
  <2> QED BY <1>1, <1>2
<1>4. \A c \in F : result(c) \in R
  BY DEF AllFused
<1>5. \A c : /\ result(c).score \in Nat /\ result(c).score <= 2 * Best
             /\ result(c).score = Score(semantic, c) + Score(keyword, c)
  <2> TAKE c
  <2>1. /\ Score(semantic, c) \in Nat /\ Score(semantic, c) <= Best /\ Best \in Nat
        /\ Score(keyword, c) \in Nat /\ Score(keyword, c) <= Best
    BY ScoreIs
  <2>2. result(c).score = Score(semantic, c) + Score(keyword, c)
    BY DEF Fused, FusedScore
  <2> HIDE DEF result
  <2> QED BY <2>1, <2>2
<1>6. \A r \in R : r.score \in Int
  BY <1>5 DEF AllFused
<1>7. /\ results \in Seq(R) /\ Len(results) = Len(found)
      /\ \A i \in 1..Len(found) : results[i] = result(found[i])
  <2> HIDE DEF found, F, R, result
  <2>1. DOMAIN found = 1..Len(found) /\ Len(found) \in Nat
        /\ \A i \in 1..Len(found) : found[i] \in F
    BY <1>3, ElementOfSeq, LenProperties
  <2>2. results \in [1..Len(found) -> R]
    BY <1>4, <2>1
  <2> QED BY <2>1, <2>2
<1>8. Fuse(semantic, keyword) = First(Ranked(results), TopK)
  BY DEF Fuse, Fused
<1>9. Ranked(results) \in Seq(R) /\ TopK \in Nat \ {0}
  <2> HIDE DEF results, R
  <2> QED BY <1>6, <1>7, RankedIs, RetrievalAssumption
<1>10. Fuse(semantic, keyword) \in Seq(R)
  <2> HIDE DEF results, R
  <2> QED BY <1>8, <1>9, FirstHas
<1>11. ASSUME semantic # <<>>, keyword # <<>>, semantic[1] = keyword[1]
       PROVE  /\ Fuse(semantic, keyword) # <<>>
              /\ Fuse(semantic, keyword)[1] = Fused(semantic, keyword, semantic[1])
  <2>1. Score(semantic, semantic[1]) = Best /\ Score(keyword, semantic[1]) = Best /\ Best \in Nat
    BY <1>11, ScoreIs
  <2>2. result(semantic[1]).score = 2 * Best
    <3> HIDE DEF result
    <3> QED BY <1>5, <2>1
  <2>3. results # <<>> /\ results[1] = result(semantic[1])
        /\ \A i \in 1..Len(results) : results[i].score <= results[1].score
    <3> HIDE DEF result, results, found, R
    <3>1. Len(results) >= 1 /\ found[1] = semantic[1]
      BY <1>3, <1>7, <1>11
    <3>2. results[1] = result(semantic[1])
      <4>1. Len(found) \in Nat /\ Len(results) = Len(found)
        BY <1>1, <1>3, <1>7
      <4>2. 1 \in 1..Len(found)
        BY <3>1, <4>1
      <4>3. results[1] = result(found[1])
        BY <1>7, <4>2
      <4> QED BY <3>1, <4>3
    <3> QED BY <1>5, <1>7, <2>2, <3>1, <3>2
  <2>4. Ranked(results) # <<>> /\ Ranked(results)[1] = results[1]
    <3> HIDE DEF results, R
    <3> QED BY <1>6, <1>7, <2>3, RankedIs
  <2> HIDE DEF results, R
  <2> QED BY <1>8, <1>9, <2>3, <2>4, FirstHas
<1> QED BY <1>10, <1>11

(* What one path alone has found gives at most a half of the best score.   *)
LEMMA RelevantIs ==
  ASSUME NEW X, NEW semantic \in Seq(X), NEW keyword \in Seq(X), NEW c,
         semantic # <<>>, keyword # <<>>
  PROVE  /\ Relevant(Fused(semantic, keyword, c)) /\ MaxDistance < 50 =>
              c \in Range(semantic) \cap Range(keyword)
         /\ c = semantic[1] /\ c = keyword[1] => Relevant(Fused(semantic, keyword, c))
<1> DEFINE a == Score(semantic, c)
           b == Score(keyword, c)
<1>1. /\ Best \in Nat /\ Best >= 1 /\ MaxDistance \in Nat
      /\ a \in Nat /\ a <= Best /\ (c \notin Range(semantic) => a = 0)
      /\ b \in Nat /\ b <= Best /\ (c \notin Range(keyword) => b = 0)
      /\ c = semantic[1] => a = Best
      /\ c = keyword[1] => b = Best
  BY ScoreIs, RetrievalAssumption
<1>2. Relevant(Fused(semantic, keyword, c)) <=>
        100 * (2 * Best - (a + b)) <= MaxDistance * (2 * Best)
  BY DEF Relevant, Fused, FusedScore, BestScore, Best
<1> HIDE DEF a, b
<1>3. MaxDistance * (2 * Best) \in Nat
  <2>1. \A x, y \in Nat : x * y \in Nat
    OBVIOUS
  <2> QED BY <1>1, <2>1
<1>4. ASSUME c \notin Range(semantic) \cap Range(keyword), MaxDistance < 50
      PROVE  ~(100 * (2 * Best - (a + b)) <= MaxDistance * (2 * Best))
  <2>1. \A x, y \in Nat : x < 50 => x * y <= 49 * y
    OBVIOUS
  <2>2. MaxDistance * (2 * Best) <= 49 * (2 * Best)
    BY <1>1, <1>4, <2>1
  <2>3. a + b <= Best
    BY <1>1, <1>4
  <2> QED BY <1>1, <1>3, <2>2, <2>3
<1>5. ASSUME c = semantic[1], c = keyword[1]
      PROVE  100 * (2 * Best - (a + b)) <= MaxDistance * (2 * Best)
  <2>1. a = Best /\ b = Best
    BY <1>1, <1>5
  <2> QED BY <1>1, <1>3, <2>1
<1> QED BY <1>2, <1>4, <1>5

-----------------------------------------------------------------------------
(* The context.                                                            *)

RefType(Ids) == [id : Ids, n : Int]
ContextType(Ids) ==
  [error : {"none"}, references : Seq(RefType(Ids)), chars : Int, full : BOOLEAN]

LEMMA EntryIs ==
  ASSUME NEW Ids, NEW chunk, chunk.id \in Ids, chunk.n \in Nat, NEW c \in ContextType(Ids),
         NEW d, d = AppendContextEntry(c, chunk)
  PROVE  /\ d \in ContextType(Ids)
         /\ c.chars <= MaxContextChars => d.chars <= MaxContextChars
         /\ \/ d.references = c.references /\ d.full
            \/ ~c.full /\ \E e \in RefType(Ids) :
                 e.id = chunk.id /\ d.references = Append(c.references, e)
<1> DEFINE first     == c.references = <<>>
           remaining == MaxContextChars - c.chars - (IF first THEN 0 ELSE Separator)
           entry     == ReferencePrefix + chunk.n
           written   == IF entry <= remaining THEN entry ELSE remaining
           e         == [id |-> chunk.id, n |-> Max({0, written - ReferencePrefix})]
<1>1. /\ c.chars \in Int /\ c.references \in Seq(RefType(Ids)) /\ c.full \in BOOLEAN
      /\ MaxContextChars \in Nat
      /\ c = [error |-> "none", references |-> c.references, chars |-> c.chars, full |-> c.full]
  BY RetrievalAssumption DEF ContextType
<1>2. remaining \in Int /\ written \in Int /\ written <= remaining
  BY <1>1 DEF Separator, ReferencePrefix
<1>3. written - ReferencePrefix \in Int
  BY <1>2 DEF ReferencePrefix
<1>4. e \in RefType(Ids) /\ e.id = chunk.id
  <2> HIDE DEF written
  <2>1. \E x \in {0, written - ReferencePrefix} : \A y \in {0, written - ReferencePrefix} : x >= y
    BY <1>3
  <2>2. Max({0, written - ReferencePrefix}) \in Int
    BY <1>3, <2>1 DEF Max
  <2> QED BY <2>2 DEF RefType
<1> DEFINE stop == c.full \/ remaining <= 0 \/ (entry > remaining /\ ~first)
<1>5. d = IF stop THEN [c EXCEPT !.full = TRUE]
          ELSE [c EXCEPT !.chars = MaxContextChars - remaining + written,
                         !.references = Append(@, e)]
  BY DEF AppendContextEntry
<1>6. CASE stop
  <2>1. d = [c EXCEPT !.full = TRUE]
    <3> HIDE DEF stop
    <3> QED BY <1>5, <1>6
  <2> HIDE DEF stop, e, written, remaining, entry, first
  <2>2. d \in ContextType(Ids) /\ d.chars = c.chars /\ d.references = c.references /\ d.full
    BY <2>1 DEF ContextType
  <2> QED BY <1>1, <2>2
<1>7. CASE ~stop
  <2>1. ~c.full
    BY <1>7
  <2>2. d = [c EXCEPT !.chars = MaxContextChars - remaining + written,
                      !.references = Append(@, e)]
    <3> HIDE DEF stop
    <3> QED BY <1>5, <1>7
  <2> HIDE DEF stop, e, written, remaining, entry, first
  <2>3. Append(c.references, e) \in Seq(RefType(Ids))
    BY <1>1, <1>4
  <2>4. /\ MaxContextChars - remaining + written \in Int
        /\ MaxContextChars - remaining + written <= MaxContextChars
    BY <1>1, <1>2
  <2>5. /\ d \in ContextType(Ids) /\ d.chars = MaxContextChars - remaining + written
        /\ d.references = Append(c.references, e)
    BY <2>2, <2>3, <2>4 DEF ContextType
  <2> QED BY <1>4, <2>1, <2>4, <2>5
<1> QED BY <1>6, <1>7

ContextsOf(s, f) ==
  [i \in 0..Len(s) |-> IF i = 0 THEN EmptyContext("none")
                       ELSE AppendContextEntry(f[i - 1], s[i].chunk)]

Contexts(s) == CHOOSE f : f = ContextsOf(s, f)

ChunksIn(R, Ids) == \A r \in R : r.chunk.id \in Ids /\ r.chunk.n \in Nat

LEMMA ContextSteps ==
  ASSUME NEW Ids, NEW R, ChunksIn(R, Ids), NEW s \in Seq(R)
  PROVE  /\ Contexts(s) \in [0..Len(s) -> ContextType(Ids)]
         /\ Contexts(s)[0] = EmptyContext("none")
         /\ \A i \in 1..Len(s) :
              Contexts(s)[i] = AppendContextEntry(Contexts(s)[i - 1], s[i].chunk)
<1> DEFINE N == Len(s)
           D == ContextType(Ids)
           base == EmptyContext("none")
           g == [p \in (1..N) \X D |-> AppendContextEntry(p[2], s[p[1]].chunk)]
           k == CHOOSE f : f = ContextsOf(s, f)
<1>1. /\ N \in Nat /\ \A i \in 1..N : s[i] \in R
      /\ \A r \in R : r.chunk.id \in Ids /\ r.chunk.n \in Nat
  BY DEF ChunksIn
<1>2. base \in D
  <2>1. <<>> \in Seq(RefType(Ids))
    OBVIOUS
  <2> QED BY <2>1 DEF EmptyContext, ContextType
<1>3. ASSUME NEW i \in 1..N, NEW c \in D
      PROVE  AppendContextEntry(c, s[i].chunk) \in D
  <2>1. s[i].chunk.id \in Ids /\ s[i].chunk.n \in Nat
    BY <1>1
  <2> HIDE DEF N
  <2> QED BY <2>1, EntryIs
<1>4. g \in [(1..N) \X D -> D]
  <2>1. ASSUME NEW p \in (1..N) \X D PROVE AppendContextEntry(p[2], s[p[1]].chunk) \in D
    <3>1. p[1] \in 1..N /\ p[2] \in D
      <4> HIDE DEF N, D
      <4> QED OBVIOUS
    <3> HIDE DEF N, D
    <3> QED BY <1>3, <3>1
  <2> HIDE DEF N, D
  <2> QED BY <2>1
<1>5. \A i \in 1..N, c \in D : g[<<i, c>>] = AppendContextEntry(c, s[i].chunk)
  <2> HIDE DEF N, D
  <2> QED OBVIOUS
<1>6. PICK f : Recurses(f, N, D, base, g)
  <2> HIDE DEF g, N, D, base
  <2> QED BY <1>1, <1>2, <1>4, Recursion
<1>7. ASSUME NEW h, Recurses(h, N, D, base, g)
      PROVE  /\ h \in [0..N -> D] /\ h[0] = base
             /\ \A i \in 1..N : h[i] = AppendContextEntry(h[i - 1], s[i].chunk)
  <2>1. /\ h \in [0..N -> D] /\ h[0] = base
        /\ \A i \in 1..N : h[i] = g[<<i, h[i - 1]>>]
    <3> HIDE DEF g, N, D, base
    <3> QED BY <1>7 DEF Recurses
  <2>2. ASSUME NEW i \in 1..N PROVE h[i] = AppendContextEntry(h[i - 1], s[i].chunk)
    <3> HIDE DEF g, N, D, base
    <3>1. i - 1 \in 0..N
      BY <1>1
    <3>2. h[i - 1] \in D
      BY <2>1, <3>1
    <3> QED BY <1>5, <2>1, <3>2
  <2> QED BY <2>1, <2>2
<1>8. f = ContextsOf(s, f)
  <2> DEFINE value(i) == IF i = 0 THEN EmptyContext("none")
                         ELSE AppendContextEntry(f[i - 1], s[i].chunk)
  <2>1. /\ f \in [0..N -> D] /\ f[0] = base
        /\ \A i \in 1..N : f[i] = AppendContextEntry(f[i - 1], s[i].chunk)
    <3> HIDE DEF g, N, D, base
    <3> QED BY <1>6, <1>7
  <2>2. ASSUME NEW i \in 0..N PROVE f[i] = value(i)
    <3>1. CASE i = 0
      BY <2>1, <3>1
    <3>2. CASE i # 0
      <4>1. i \in 1..N
        BY <1>1, <3>2
      <4>2. f[i] = AppendContextEntry(f[i - 1], s[i].chunk)
        <5> HIDE DEF N
        <5> QED BY <2>1, <4>1
      <4> QED BY <3>2, <4>2
    <3> QED BY <3>1, <3>2
  <2>3. ContextsOf(s, f) = [i \in 0..N |-> value(i)]
    BY DEF ContextsOf
  <2> HIDE DEF value, N, D
  <2> QED BY <2>1, <2>2, <2>3
<1>9. k = ContextsOf(s, k)
  BY <1>8
<1> HIDE DEF k
<1>10. Recurses(k, N, D, base, g)
  <2> DEFINE value(i) == IF i = 0 THEN EmptyContext("none")
                         ELSE AppendContextEntry(k[i - 1], s[i].chunk)
  <2>1. ContextsOf(s, k) = [i \in 0..N |-> value(i)]
    BY DEF ContextsOf
  <2>2. k = [i \in 0..N |-> k[i]] /\ \A i \in 0..N : k[i] = value(i)
    <3> HIDE DEF value, N
    <3> QED BY <1>9, <2>1
  <2>3. k[0] = base
    <3>1. k[0] = value(0)
      <4> HIDE DEF value, N
      <4> QED BY <1>1, <2>2
    <3> QED BY <3>1
  <2>4. ASSUME NEW i \in 1..N, k[i - 1] \in D PROVE k[i] = g[<<i, k[i - 1]>>]
    <3>1. i \in 0..N /\ i # 0
      BY <1>1
    <3>2. k[i] = value(i)
      <4> HIDE DEF value, N
      <4> QED BY <2>2, <3>1
    <3>3. k[i] = AppendContextEntry(k[i - 1], s[i].chunk)
      BY <3>1, <3>2
    <3> HIDE DEF N, D, g
    <3> QED BY <1>5, <2>4, <3>3
  <2> HIDE DEF N, D, g, base, value
  <2> QED BY <1>1, <1>2, <1>4, <2>2, <2>3, <2>4, RecursionStays
<1>11. /\ k \in [0..N -> D] /\ k[0] = base
       /\ \A i \in 1..N : k[i] = AppendContextEntry(k[i - 1], s[i].chunk)
  <2> HIDE DEF N, D, g, base
  <2> QED BY <1>7, <1>10
<1> QED BY <1>11 DEF k, Contexts

RelevantIds(R) == {r.chunk.id : r \in {x \in R : Relevant(x)}}

LEMMA ContextIs ==
  ASSUME NEW R, \A r \in R : r.chunk.n \in Nat, NEW results \in Seq(R),
         NEW p, p = Context(results)
  PROVE  /\ p.chars <= MaxContextChars /\ p.references \in Seq(RefType(RelevantIds(R)))
         /\ results # <<>> /\ Relevant(results[1]) /\ p.references # <<>> =>
              p.references[1].id = results[1].chunk.id
<1> DEFINE Ids == RelevantIds(R)
           Q   == {x \in R : Relevant(x)}
           S   == {r \in Range(results) : Relevant(r)}
           s   == Among(results, S)
           N   == Len(s)
           k   == Contexts(s)
<1>1. PICK f : Picks(s, results, S, Len(results), f)
  <2> HIDE DEF S
  <2> QED BY AmongPicks
<1>2. s \in Seq(R) /\ N \in Nat
  <2>1. s \in Seq(R)
    <3> HIDE DEF S
    <3> QED BY AmongPicks
  <2> HIDE DEF s
  <2> QED BY <2>1
<1>3. s \in Seq(Q)
  <2>1. \A i \in 1..N : s[i] \in S
    <3> HIDE DEF S, s
    <3> QED BY <1>1 DEF Picks
  <2>2. \A i \in 1..N : s[i] \in Q
    <3> HIDE DEF s
    <3>1. \A i \in 1..N : s[i] \in R
      BY <1>2
    <3> QED BY <2>1, <3>1
  <2> HIDE DEF s, Q
  <2>3. s \in [1..N -> Q]
    BY <1>2, <2>2
  <2> QED BY <1>2, <2>3
<1>4. \A r \in Q : r.chunk.id \in Ids /\ r.chunk.n \in Nat
  BY DEF RelevantIds
<1>5. /\ k \in [0..N -> ContextType(Ids)] /\ k[0] = EmptyContext("none")
      /\ \A i \in 1..N : k[i] = AppendContextEntry(k[i - 1], s[i].chunk)
  <2> HIDE DEF s, Q, Ids, k
  <2>1. /\ Contexts(s) \in [0..Len(s) -> ContextType(Ids)]
        /\ Contexts(s)[0] = EmptyContext("none")
        /\ \A i \in 1..Len(s) :
             Contexts(s)[i] = AppendContextEntry(Contexts(s)[i - 1], s[i].chunk)
    <3>1. ChunksIn(Q, Ids)
      BY <1>4 DEF ChunksIn
    <3> QED BY <1>3, <3>1, ContextSteps
  <2> QED BY <2>1 DEF k
<1>6. /\ MaxContextChars \in Nat
      /\ \A x : /\ EmptyContext(x).chars = 0 /\ EmptyContext(x).references = <<>>
  BY RetrievalAssumption DEF EmptyContext
<1> HIDE DEF k
<1> DEFINE T == {i \in 0..N : /\ k[i].chars <= MaxContextChars
                              /\ i >= 1 /\ k[i].references = <<>> => k[i].full
                              /\ k[i].references # <<>> =>
                                   i >= 1 /\ k[i].references[1].id = s[1].chunk.id}
<1>7. 0 \in T
  BY <1>2, <1>5, <1>6
<1>8. ASSUME NEW i \in 1..N, i - 1 \in T PROVE i \in T
  <2>1. i - 1 \in 0..N /\ i \in 0..N /\ i >= 1
    BY <1>2
  <2> DEFINE c == k[i - 1]
             d == k[i]
             chunk == s[i].chunk
  <2>2. c \in ContextType(Ids) /\ d = AppendContextEntry(c, chunk)
    <3> HIDE DEF N, Ids, s
    <3> QED BY <1>5, <2>1
  <2>3. chunk.id \in Ids /\ chunk.n \in Nat
    <3>1. s[i] \in Q
      <4> HIDE DEF s, Q
      <4> QED BY <1>3
    <3> HIDE DEF s, Q, Ids
    <3> QED BY <1>4, <3>1
  <2>4. /\ c.chars <= MaxContextChars => d.chars <= MaxContextChars
        /\ \/ d.references = c.references /\ d.full
           \/ ~c.full /\ \E e \in RefType(Ids) :
                e.id = chunk.id /\ d.references = Append(c.references, e)
    <3> HIDE DEF c, d, chunk, Ids
    <3> QED BY <2>2, <2>3, EntryIs
  <2>5. /\ c.chars <= MaxContextChars
        /\ i - 1 >= 1 /\ c.references = <<>> => c.full
        /\ c.references # <<>> => i - 1 >= 1 /\ c.references[1].id = s[1].chunk.id
    BY <1>8
  <2>6. c.references \in Seq(RefType(Ids))
    BY <2>2 DEF ContextType
  <2>7. CASE d.references = c.references /\ d.full
    <3> HIDE DEF c, d, s
    <3>1. /\ d.chars <= MaxContextChars
          /\ d.references # <<>> => d.references[1].id = s[1].chunk.id
      BY <2>4, <2>5, <2>7
    <3> QED BY <2>1, <2>7, <3>1 DEF d
  <2>8. ASSUME ~c.full, NEW e \in RefType(Ids), e.id = chunk.id,
               d.references = Append(c.references, e)
        PROVE  i \in T
    <3>1. CASE c.references = <<>>
      <4>1. i = 1
        <5> HIDE DEF c, s
        <5> QED BY <2>1, <2>5, <2>8, <3>1
      <4>2. d.references # <<>> /\ d.references[1] = e
        <5> HIDE DEF c, d
        <5> QED BY <2>6, <2>8, <3>1
      <4>3. d.references[1].id = s[1].chunk.id
        BY <2>8, <4>1, <4>2
      <4> HIDE DEF c, d, s
      <4> QED BY <2>1, <2>4, <2>5, <4>2, <4>3 DEF d
    <3>2. CASE c.references # <<>>
      <4>1. d.references # <<>> /\ d.references[1] = c.references[1]
        <5> HIDE DEF c, d
        <5>1. Len(c.references) \in Nat /\ Len(c.references) >= 1
          BY <2>6, <3>2
        <5> QED BY <2>6, <2>8, <5>1
      <4> HIDE DEF c, d, s
      <4> QED BY <2>1, <2>4, <2>5, <3>2, <4>1 DEF d
    <3> QED BY <3>1, <3>2
  <2> HIDE DEF c, d, chunk, T
  <2> QED BY <2>4, <2>7, <2>8
<1>9. N \in T
  <2> HIDE DEF T, N
  <2>1. \A i \in 0..N : i \in T
    BY <1>2, <1>7, <1>8, UpTo
  <2> QED BY <1>2, <2>1
<1>10. ASSUME results # <<>>, Relevant(results[1]) PROVE N >= 1 /\ s[1] = results[1]
  <2>1. Len(results) \in Nat /\ Len(results) >= 1 /\ results[1] \in S
    <3>1. Len(results) \in Nat /\ Len(results) >= 1
      BY <1>10
    <3>2. results[1] \in Range(results)
      BY <3>1, ListOf
    <3> QED BY <1>10, <3>1, <3>2
  <2> HIDE DEF S, s
  <2>2. PICK i \in 1..N : f[i] = 1
    BY <1>1, <2>1 DEF Picks
  <2>3. 1 \in 1..N /\ i \in Nat /\ i >= 1
    BY <1>2
  <2>4. f[1] \in 1..Len(results)
    BY <1>1, <2>3 DEF Picks
  <2>5. i # 1 => f[1] < f[i]
    BY <1>1, <2>2, <2>3 DEF Picks
  <2>6. f[1] = 1
    BY <2>1, <2>2, <2>4, <2>5
  <2>7. s[1] = results[f[1]]
    BY <1>1, <2>3 DEF Picks
  <2> QED BY <1>2, <2>3, <2>6, <2>7
<1>11. p = IF results = <<>> THEN EmptyContext("knowledge_base_empty")
           ELSE IF s = <<>> THEN EmptyContext("no_relevant_context")
           ELSE k[N]
  BY DEF Context, ContextsOf, Contexts, k
<1>12. \A x : EmptyContext(x).references \in Seq(RefType(Ids))
  <2>1. <<>> \in Seq(RefType(Ids))
    OBVIOUS
  <2> QED BY <1>6, <2>1
<1>13. k[N] \in ContextType(Ids)
  <2> HIDE DEF N, Ids, s
  <2> QED BY <1>2, <1>5
<1>14. k[N].references \in Seq(RefType(Ids)) /\ k[N].chars <= MaxContextChars
       /\ (k[N].references # <<>> => k[N].references[1].id = s[1].chunk.id)
  BY <1>9, <1>13 DEF ContextType
<1>15. p.chars <= MaxContextChars /\ p.references \in Seq(RefType(Ids))
       /\ (p.references # <<>> => p = k[N])
  <2> HIDE DEF s, N, Ids
  <2> QED BY <1>6, <1>11, <1>12, <1>14
<1> HIDE DEF s, N, Ids
<1> QED BY <1>10, <1>14, <1>15 DEF Ids

(* What the property says of the sources of one search.                    *)
FoundBy(path) == {c.id : c \in Range(path)}

Sound(base, sources) ==
  LET semantic == SemanticSearch(base)
      keyword  == KeywordSearch(base)
      both     == semantic # <<>> /\ keyword # <<>>
  IN  /\ Range(sources) \subseteq {c.id : c \in Visible(base)}
      /\ (both /\ MaxDistance < 50)
           => Range(sources) \subseteq FoundBy(semantic) \cap FoundBy(keyword)
      /\ (both /\ semantic[1] = keyword[1]) => sources[1] = semantic[1].id

IdsOf(references) == [i \in DOMAIN references |-> references[i].id]

LEMMA PreparedIs ==
  ASSUME NEW base \in Bases, NEW p, p = Prepare(base)
  PROVE  /\ p.chars <= MaxContextChars
         /\ \E Ids : p.references \in Seq(RefType(Ids))
         /\ p.references # <<>> => Sound(base, IdsOf(p.references))
<1> DEFINE semantic == SemanticSearch(base)
           keyword  == KeywordSearch(base)
           both     == semantic # <<>> /\ keyword # <<>>
           R        == AllFused(semantic, keyword)
           results  == Fuse(semantic, keyword)
           X        == Visible(base)
           sources  == IdsOf(p.references)
<1>1. semantic \in Seq(X) /\ keyword \in Seq(X)
  <2> HIDE DEF X
  <2> QED BY Searched DEF X
<1>2. \A c \in Range(semantic) \cup Range(keyword) : c \in X
  <2> HIDE DEF X, semantic, keyword
  <2> QED BY <1>1, ListOf
<1>3. \A c \in X : c.n \in Nat
  BY BasesAssumption DEF IsBase, Visible
<1>4. \A r \in R : r.chunk.n \in Nat
  <2> HIDE DEF X, semantic, keyword
  <2> QED BY <1>2, <1>3 DEF AllFused, Fused
<1>5. /\ results \in Seq(R)
      /\ both /\ semantic[1] = keyword[1] =>
           results # <<>> /\ results[1] = Fused(semantic, keyword, semantic[1])
  <2> HIDE DEF X, semantic, keyword
  <2> QED BY <1>1, FuseIs
<1>6. p = Context(results)
  BY DEF Prepare, Search
<1>7. /\ p.chars <= MaxContextChars /\ p.references \in Seq(RefType(RelevantIds(R)))
      /\ results # <<>> /\ Relevant(results[1]) /\ p.references # <<>> =>
           p.references[1].id = results[1].chunk.id
  <2> HIDE DEF R, results
  <2> QED BY <1>4, <1>5, <1>6, ContextIs
<1>8. /\ Range(sources) \subseteq RelevantIds(R)
      /\ p.references # <<>> => sources[1] = p.references[1].id
  <2>1. DOMAIN p.references = 1..Len(p.references) /\ Len(p.references) \in Nat
        /\ \A i \in 1..Len(p.references) : p.references[i].id \in RelevantIds(R)
    <3> DEFINE Ids == RelevantIds(R)
    <3> HIDE DEF R, Ids
    <3>1. p.references \in Seq(RefType(Ids))
      BY <1>7 DEF Ids
    <3>2. \A i \in 1..Len(p.references) : p.references[i] \in RefType(Ids)
      BY <3>1
    <3>3. \A i \in 1..Len(p.references) : p.references[i].id \in Ids
      BY <3>2 DEF RefType
    <3> QED BY <3>1, <3>3 DEF Ids
  <2>2. p.references # <<>> => 1 \in DOMAIN p.references
    <3> HIDE DEF R
    <3> QED BY <1>7, <2>1
  <2> HIDE DEF R
  <2> QED BY <2>1, <2>2 DEF IdsOf, Range
<1>9. ASSUME NEW x \in RelevantIds(R)
      PROVE  \E c \in Range(semantic) \cup Range(keyword) :
               x = c.id /\ Relevant(Fused(semantic, keyword, c))
  <2> HIDE DEF semantic, keyword
  <2>1. PICK r \in R : Relevant(r) /\ x = r.chunk.id
    BY <1>9 DEF RelevantIds
  <2>2. PICK c \in Range(semantic) \cup Range(keyword) : r = Fused(semantic, keyword, c)
    BY <2>1 DEF AllFused
  <2>3. r.chunk = c
    BY <2>2 DEF Fused
  <2> QED BY <2>1, <2>2, <2>3
<1>10. Range(sources) \subseteq {c.id : c \in X}
  <2> HIDE DEF X, semantic, keyword, sources, R
  <2> QED BY <1>2, <1>8, <1>9
<1>11. ASSUME both, MaxDistance < 50
       PROVE  Range(sources) \subseteq FoundBy(semantic) \cap FoundBy(keyword)
  <2> SUFFICES ASSUME NEW x \in Range(sources)
               PROVE  x \in FoundBy(semantic) \cap FoundBy(keyword)
    OBVIOUS
  <2> HIDE DEF X, semantic, keyword, sources, R
  <2>1. PICK c \in Range(semantic) \cup Range(keyword) :
          x = c.id /\ Relevant(Fused(semantic, keyword, c))
    BY <1>8, <1>9
  <2>2. c \in Range(semantic) \cap Range(keyword)
    BY <1>1, <1>11, <2>1, RelevantIs
  <2> QED BY <2>1, <2>2 DEF FoundBy
<1>12. ASSUME both, semantic[1] = keyword[1], p.references # <<>>
       PROVE  sources[1] = semantic[1].id
  <2> HIDE DEF X, semantic, keyword, sources, R, results
  <2>1. results # <<>> /\ results[1] = Fused(semantic, keyword, semantic[1])
    BY <1>5, <1>12
  <2>2. Relevant(results[1])
    BY <1>1, <1>12, <2>1, RelevantIs
  <2>3. results[1].chunk = semantic[1]
    BY <2>1 DEF Fused
  <2> QED BY <1>7, <1>8, <1>12, <2>1, <2>2, <2>3
<1>13. p.references # <<>> => Sound(base, sources)
  <2> HIDE DEF sources
  <2> QED BY <1>10, <1>11, <1>12 DEF Sound
<1> QED BY <1>7, <1>13

-----------------------------------------------------------------------------
(* What is shown of the references.                                        *)

(* Among leaves nothing out when all are members.                          *)
LEMMA AmongAll ==
  ASSUME NEW X, NEW s \in Seq(X), NEW S, \A i \in 1..Len(s) : s[i] \in S
  PROVE  Among(s, S) = s
<1>1. PICK k : Keeps(k, s, S, X)
  BY AmongSteps
<1>2. /\ k \in [0..Len(s) -> Seq(X)] /\ Among(s, S) = k[Len(s)] /\ k[0] = <<>>
      /\ \A i \in 1..Len(s) : k[i] = KeptStep(s, S, i, k[i - 1])
  BY <1>1 DEF Keeps
<1>3. Len(s) \in Nat
  OBVIOUS
<1> DEFINE T == {i \in 0..Len(s) : Len(k[i]) = i /\ \A j \in 1..i : k[i][j] = s[j]}
<1>4. 0 \in T
  BY <1>2, <1>3
<1>5. ASSUME NEW i \in 1..Len(s), i - 1 \in T PROVE i \in T
  <2>1. k[i] = Append(k[i - 1], s[i])
    BY <1>2 DEF KeptStep
  <2>2. i - 1 \in 0..Len(s) /\ i \in 0..Len(s) /\ k[i - 1] \in Seq(X) /\ s[i] \in X
    BY <1>2, <1>3
  <2>3. Len(k[i - 1]) = i - 1 /\ \A j \in 1..(i - 1) : k[i - 1][j] = s[j]
    BY <1>5
  <2>4. Len(k[i]) = i
    BY <2>1, <2>2, <2>3
  <2>5. ASSUME NEW j \in 1..i PROVE k[i][j] = s[j]
    <3>1. CASE j = i
      BY <2>1, <2>2, <2>3, <3>1
    <3>2. CASE j # i
      BY <2>1, <2>2, <2>3, <3>2
    <3> QED BY <3>1, <3>2
  <2> QED BY <2>2, <2>4, <2>5
<1>6. Len(s) \in T
  <2> HIDE DEF T
  <2>1. \A i \in 0..Len(s) : i \in T
    BY <1>3, <1>4, <1>5, UpTo
  <2> QED BY <1>3, <2>1
<1>7. k[Len(s)] \in Seq(X)
  BY <1>2, <1>3
<1>8. k[Len(s)] = s
  BY <1>6, <1>7, SeqEqual
<1> QED BY <1>2, <1>8

(* Of an object whose keys are all different, Get has the value of a key,  *)
(* and Null of any other.                                                  *)
LEMMA GetIs ==
  ASSUME NEW x, NEW F, Range(x.fields) = F, \A f, g \in F : f[1] = g[1] => f = g
  PROVE  /\ \A f \in F : Get(x, f[1]) = f[2]
         /\ \A key : (\A f \in F : f[1] # key) => Get(x, key) = Null
<1>1. ASSUME NEW f \in F PROVE Get(x, f[1]) = f[2]
  <2>1. f[1] \in Keys(x)
    BY DEF Keys
  <2>2. (CHOOSE g \in Range(x.fields) : g[1] = f[1]) = f
    OBVIOUS
  <2> QED BY <2>1, <2>2 DEF Get
<1>2. ASSUME NEW key, \A f \in F : f[1] # key PROVE Get(x, key) = Null
  BY <1>2 DEF Get, Keys
<1> QED BY <1>1, <1>2

(* A reference is kept, with the id of its chunk.                          *)
LEMMA ReferenceIsShown ==
  ASSUME NEW reference, NEW x, x = SerializeReference(reference)
  PROVE  x.type = "object" /\ ToRagReferenceSummary(x) /\ Get(x, "chunk_id").s = reference.id
<1> DEFINE id == Str(reference.id, 2)
           content == Str("content", reference.n)
           source == Obj(<<<<"chunk_id", id>>, <<"chunk_index", Num(0)>>, <<"document_id", id>>>>)
           a == <<"chunk_id", id>>
           b == <<"chunk_index", Num(0)>>
           c == <<"content", content>>
           d == <<"distance", Num(0)>>
           e == <<"document_id", id>>
           f == <<"source", source>>
           F == {a, b, c, d, e, f}
<1>1. x.fields = <<a, b, c, d, e, f>> /\ x.type = "object"
  BY DEF SerializeReference, Obj
<1> HIDE DEF id, source, content
<1>2. /\ a[1] = "chunk_id" /\ b[1] = "chunk_index" /\ c[1] = "content" /\ d[1] = "distance"
      /\ e[1] = "document_id" /\ f[1] = "source"
      /\ a[2] = id /\ b[2] = Num(0) /\ c[2] = content /\ d[2] = Num(0) /\ e[2] = id
  OBVIOUS
<1> HIDE DEF a, b, c, d, e, f
<1>3. Range(x.fields) = F
  <2>1. Range(<<a, b, c, d, e, f>>) = {a, b, c, d, e, f}
    <3>1. DOMAIN <<a, b, c, d, e, f>> = {1, 2, 3, 4, 5, 6}
      OBVIOUS
    <3> QED BY <3>1 DEF Range
  <2> QED BY <1>1, <2>1
<1>4. \A g, h \in F : g[1] = h[1] => g = h
  BY <1>2
<1>5. /\ \A g \in F : Get(x, g[1]) = g[2]
      /\ \A key : (\A g \in F : g[1] # key) => Get(x, key) = Null
  <2> HIDE DEF F
  <2> QED BY <1>3, <1>4, GetIs
<1>6. /\ Get(x, "chunk_id") = id /\ Get(x, "document_id") = id /\ Get(x, "chunk_index") = Num(0)
      /\ Get(x, "distance") = Num(0) /\ Get(x, "content") = content
  <2>1. a \in F /\ b \in F /\ c \in F /\ d \in F /\ e \in F
    OBVIOUS
  <2> HIDE DEF F
  <2> QED BY <1>2, <1>5, <2>1
<1>7. Get(x, "truncated") = Null
  <2>1. \A g \in F : g[1] # "truncated"
    BY <1>2
  <2> HIDE DEF F
  <2> QED BY <1>5, <2>1
<1>8. id.type = "string" /\ id.n = 2 /\ id.s = reference.id /\ content.type = "string"
      /\ id # Null /\ Num(0) # Null /\ Num(0).type = "number" /\ Num(0).i = 0 /\ Null.type = "null"
  BY DEF id, content, Str, Num, Null
<1>9. BoundedIdentifier(x, "chunk_id") = "good" /\ BoundedIdentifier(x, "document_id") = "good"
  <2> HIDE DEF id, source, content, F
  <2>1. MaxIdentifierChars \in Nat /\ 2 <= MaxIdentifierChars
    BY DEF MaxIdentifierChars
  <2>2. id.n \in 1..MaxIdentifierChars
    BY <1>8, <2>1
  <2> QED BY <1>6, <1>8, <2>2 DEF BoundedIdentifier, Bounded
<1>10. BoundedChunkIndex(x) = "good" /\ BoundedDistance(x) = "good"
  <2> HIDE DEF id, source, content, F
  <2>1. MaxChunkIndex \in Nat /\ MaxPublicDistance \in Nat
    BY DEF MaxChunkIndex, MaxPublicDistance
  <2>2. Num(0).i \in 0..MaxChunkIndex /\ Num(0).i \in 0..MaxPublicDistance
    BY <1>8, <2>1
  <2> QED BY <1>6, <1>8, <2>2 DEF BoundedChunkIndex, BoundedDistance, Bounded
<1>11. ToRagReferenceSummary(x)
  BY <1>6, <1>7, <1>8, <1>9, <1>10 DEF ToRagReferenceSummary
<1> QED BY <1>1, <1>6, <1>8, <1>11

LEMMA SuccessIsShown ==
  ASSUME NEW Ids, NEW references \in Seq(RefType(Ids)), NEW query,
         NEW x, x = SuccessResult(query, references)
  PROVE  ToSources(x) = IdsOf(references)
<1> DEFINE refs == [i \in DOMAIN references |-> SerializeReference(references[i])]
           a == <<"ok", Bool(TRUE)>>
           b == <<"query", query>>
           c == <<"results", Arr(refs)>>
           d == <<"warning", Warning>>
           F == {a, b, c, d}
<1>1. x.fields = <<a, b, c, d>>
  BY DEF SuccessResult, Obj
<1> HIDE DEF refs
<1>2. /\ a[1] = "ok" /\ b[1] = "query" /\ c[1] = "results" /\ d[1] = "warning"
      /\ c[2] = Arr(refs)
  OBVIOUS
<1> HIDE DEF a, b, c, d
<1>3. Range(x.fields) = F
  <2>1. Range(<<a, b, c, d>>) = {a, b, c, d}
    <3>1. DOMAIN <<a, b, c, d>> = {1, 2, 3, 4}
      OBVIOUS
    <3> QED BY <3>1 DEF Range
  <2> QED BY <1>1, <2>1
<1>4. \A g, h \in F : g[1] = h[1] => g = h
  BY <1>2
<1>5. \A g \in F : Get(x, g[1]) = g[2]
  <2> HIDE DEF F
  <2> QED BY <1>3, <1>4, GetIs
<1>6. Get(x, "results") = Arr(refs)
  BY <1>2, <1>5
<1>7. Get(x, "results").items = refs
  BY <1>6 DEF Arr
<1>8. /\ DOMAIN references = 1..Len(references) /\ Len(references) \in Nat
      /\ refs = [i \in 1..Len(references) |-> SerializeReference(references[i])]
  BY DEF refs
<1> DEFINE A == {SerializeReference(references[i]) : i \in 1..Len(references)}
           S == {r \in Range(refs) : r.type = "object" /\ ToRagReferenceSummary(r)}
<1>9. refs \in Seq(A) /\ Len(refs) = Len(references) /\ DOMAIN refs = 1..Len(references)
  <2>1. refs \in [1..Len(references) -> A]
    BY <1>8
  <2> HIDE DEF A
  <2> QED BY <1>8, <2>1
<1>10. ASSUME NEW i \in 1..Len(references)
       PROVE  refs[i] \in S /\ Get(refs[i], "chunk_id").s = references[i].id
  <2>1. refs[i] = SerializeReference(references[i])
    BY <1>8
  <2>2. /\ refs[i].type = "object" /\ ToRagReferenceSummary(refs[i])
        /\ Get(refs[i], "chunk_id").s = references[i].id
    BY <2>1, ReferenceIsShown
  <2>3. refs[i] \in Range(refs)
    BY <1>9 DEF Range
  <2> QED BY <2>2, <2>3
<1>11. Among(refs, S) = refs
  <2> HIDE DEF S, A
  <2> QED BY <1>9, <1>10, AmongAll
<1>12. ToSources(x) = [i \in DOMAIN refs |-> Get(refs[i], "chunk_id").s]
  BY <1>7, <1>11 DEF ToSources
<1> HIDE DEF S, A
<1> QED BY <1>8, <1>9, <1>10, <1>12 DEF IdsOf

LEMMA SearchIsShown ==
  ASSUME NEW query, NEW effect, NEW prepared, NEW Ids, prepared.references \in Seq(RefType(Ids)),
         NEW x, x = KnowledgeSearch(query, effect, prepared), Get(x, "ok").b
  PROVE  ToSources(x) = IdsOf(prepared.references)
<1>1. ASSUME NEW q, NEW error PROVE ~Get(ErrorResult(q, error), "ok").b
  <2> DEFINE y == ErrorResult(q, error)
             a == <<"error_code", Str(error, 15)>>
             b == <<"message", Str("message", 30)>>
             c == <<"ok", Bool(FALSE)>>
             d == <<"query", q>>
             e == <<"results", Arr(<<>>)>>
             f == <<"warning", Warning>>
             F == {a, b, c, d, e, f}
  <2>1. y.fields = <<a, b, c, d, e, f>>
    BY DEF ErrorResult, Obj
  <2>2. /\ a[1] = "error_code" /\ b[1] = "message" /\ c[1] = "ok" /\ d[1] = "query"
        /\ e[1] = "results" /\ f[1] = "warning" /\ c[2] = Bool(FALSE)
    OBVIOUS
  <2> HIDE DEF a, b, c, d, e, f, y
  <2>3. Range(y.fields) = F
    <3>1. Range(<<a, b, c, d, e, f>>) = {a, b, c, d, e, f}
      <4>1. DOMAIN <<a, b, c, d, e, f>> = {1, 2, 3, 4, 5, 6}
        OBVIOUS
      <4> QED BY <4>1 DEF Range
    <3> QED BY <2>1, <3>1
  <2>4. \A g, h \in F : g[1] = h[1] => g = h
    BY <2>2
  <2>5. \A g \in F : Get(y, g[1]) = g[2]
    <3> HIDE DEF F
    <3> QED BY <2>3, <2>4, GetIs
  <2>6. Get(y, "ok") = Bool(FALSE)
    BY <2>2, <2>5
  <2> QED BY <2>6 DEF Bool, y
<1>2. \/ \E q, error : x = ErrorResult(q, error)
      \/ x = SuccessResult(query, prepared.references)
  BY DEF KnowledgeSearch
<1>3. x = SuccessResult(query, prepared.references)
  BY <1>1, <1>2
<1> QED BY <1>3, SuccessIsShown

LEMMA SummaryIs ==
  ASSUME NEW content, NEW truncated \in BOOLEAN,
         ToRagSummary(content, truncated).sources # <<>>
  PROVE  /\ ~truncated /\ content.type = "object" /\ Get(content, "ok").b
         /\ ToRagSummary(content, truncated).sources = ToSources(content)
<1> DEFINE summary == ToRagSummary(content, truncated)
<1>1. \A error : UnavailableRagSummary(error).sources = <<>>
  BY DEF UnavailableRagSummary, RagSummary
<1>2. ToRagErrorSummary(content).sources = <<>>
  <2>1. \A a, b : RagSummary(a, b, <<>>).sources = <<>>
    BY DEF RagSummary
  <2> QED BY <2>1 DEF ToRagErrorSummary
<1>3. \A a, b : RagSummary(a, b, ToSources(content)).sources = ToSources(content)
  BY DEF RagSummary
<1>4. CASE truncated
  <2>1. summary = UnavailableRagSummary("output_truncated")
    BY <1>4 DEF ToRagSummary
  <2> QED BY <1>1, <2>1
<1>5. CASE ~truncated /\ content.type # "object"
  <2>1. summary = UnavailableRagSummary("output_malformed")
    BY <1>5 DEF ToRagSummary
  <2> QED BY <1>1, <2>1
<1>6. CASE ~truncated /\ content.type = "object"
  <2>1. \/ \E error : summary = UnavailableRagSummary(error)
        \/ ~Get(content, "ok").b /\ summary = ToRagErrorSummary(content)
        \/ Get(content, "ok").b /\ \E a, b : summary = RagSummary(a, b, ToSources(content))
    BY <1>6 DEF ToRagSummary
  <2> HIDE DEF summary
  <2>2. CASE \E error : summary = UnavailableRagSummary(error)
    BY <1>1, <2>2 DEF summary
  <2>3. CASE summary = ToRagErrorSummary(content)
    BY <1>2, <2>3 DEF summary
  <2>4. CASE Get(content, "ok").b /\ \E a, b : summary = RagSummary(a, b, ToSources(content))
    BY <1>3, <1>6, <2>4 DEF summary
  <2> QED BY <2>1, <2>2, <2>3, <2>4
<1> QED BY <1>4, <1>5, <1>6

LEMMA SourcesAre ==
  ASSUME NEW w, w.base \in Bases, NEW c, NEW r, NEW i, NEW a, ResultOf(c, r, i, w, a),
         NEW sources, sources = Outcome(c, r).rag.sources, sources # <<>>
  PROVE  \E Ids : /\ Prepare(w.base).references \in Seq(RefType(Ids))
                  /\ sources = IdsOf(Prepare(w.base).references)
<1>1. /\ r.succeeded \in BOOLEAN /\ r.truncated \in BOOLEAN
      /\ ~r.succeeded => r.content.type = "text"
      /\ r.succeeded /\ ~r.truncated => \E e, id : r.content = RawOutput(c, e, w.base, id)
  BY DEF ResultOf
<1>2. sources = IF c.tool = "knowledge_search"
                  THEN ToRagSummary(r.content, r.truncated).sources ELSE NoRag.sources
  BY DEF Outcome
<1>3. NoRag.sources = <<>>
  BY DEF NoRag, RagSummary
<1>4. c.tool = "knowledge_search" /\ sources = ToRagSummary(r.content, r.truncated).sources
  BY <1>2, <1>3
<1>5. /\ ~r.truncated /\ r.content.type = "object" /\ Get(r.content, "ok").b
      /\ sources = ToSources(r.content)
  BY <1>1, <1>4, SummaryIs
<1>6. PICK e, id : r.content = RawOutput(c, e, w.base, id)
  BY <1>1, <1>5
<1>7. r.content = KnowledgeSearch(Get(c.arguments, "query"), e, Prepare(w.base))
  BY <1>4, <1>6 DEF RawOutput
<1> DEFINE p == Prepare(w.base)
<1>8. PICK Ids : p.references \in Seq(RefType(Ids))
  BY PreparedIs
<1>9. sources = IdsOf(p.references)
  <2> HIDE DEF p
  <2> QED BY <1>5, <1>7, <1>8, SearchIsShown DEF p
<1> HIDE DEF p
<1> QED BY <1>8, <1>9 DEF p

LEMMA SourcesAreSound ==
  ASSUME StepsInv, NEW s \in Range(steps), NEW r \in s.results,
         NEW sources, sources = Outcome(s.calls[1], r).rag.sources, sources # <<>>
  PROVE  Prepare(world.base).chars <= MaxContextChars /\ Sound(world.base, sources)
<1>1. PICK i \in 1..Len(steps) : s = steps[i]
  BY ListIs DEF StepsInv, Range
<1>2. StepOf(s, i, world, asked)
  BY <1>1 DEF StepsInv
<1>3. PICK c \in Decisions : s.calls = <<c>> /\ s.results = {r} /\ ResultOf(c, r, i, world, asked)
  BY <1>2 DEF StepOf
<1>4. sources = Outcome(c, r).rag.sources
  BY <1>3
<1>5. world.base \in Bases
  BY DEF StepsInv
<1> DEFINE p == Prepare(world.base)
<1>6. sources = IdsOf(p.references)
  <2> HIDE DEF p
  <2> QED BY <1>3, <1>4, <1>5, SourcesAre DEF p
<1>7. p.references # <<>>
  <2> HIDE DEF p
  <2> SUFFICES ASSUME p.references = <<>> PROVE FALSE
    OBVIOUS
  <2>1. IdsOf(p.references) = <<>>
    BY DEF IdsOf
  <2> QED BY <1>6, <2>1
<1> HIDE DEF p
<1> QED BY <1>5, <1>6, <1>7, PreparedIs DEF p

(* For any knowledge base and any limits of a search, the sources a run    *)
(* shows are chunks the tenant may see, within the budget of the context;  *)
(* found by both paths when both find something and the distance is under  *)
(* a half; and the chunk that both put first is first (HybridRetriever,    *)
(* RAGService.prepare).                                                    *)
THEOREM SourcesStayRelevant == TraceSpec => []SourcesAreRelevant
<1>1. StepsInv => SourcesAreRelevant
  <2> SUFFICES ASSUME StepsInv, NEW s \in Range(steps), NEW r \in s.results,
                      Outcome(s.calls[1], r).rag.sources # <<>>
               PROVE  /\ Prepare(world.base).chars <= MaxContextChars
                      /\ Sound(world.base, Outcome(s.calls[1], r).rag.sources)
    BY DEF SourcesAreRelevant, Sound, FoundBy, Visible
  <2> QED BY SourcesAreSound
<1> QED BY <1>1, StepsAlways, PTL

-----------------------------------------------------------------------------
(* What a step of the run does, to the steps and to the events.            *)

Quiet(e) == e.results = {} /\ e.kind # "tool_started" /\ e.step \in 0..Index

(* The new events are quiet, apart from the one at p.                      *)
Grows(p) ==
  /\ IsList(events') /\ Len(events') > Len(events)
  /\ \A j \in 1..Len(events) : events'[j] = events[j]
  /\ \A j \in (Len(events) + 1)..Len(events') :
       events'[j].at = j /\ (j # p => Quiet(events'[j]))

Special(p, kinds, c, results) ==
  /\ p \in (Len(events) + 1)..Len(events') /\ events'[p].kind \in kinds
  /\ events'[p].step = Index /\ events'[p].call = c /\ events'[p].results = results

LastStops == events[Len(events)].kind = "run_stopped"

ToolStarts ==
  /\ at = "plan" /\ at' = "tool" /\ UNCHANGED steps
  /\ call' \in Decisions
  /\ \E p \in Nat : Grows(p) /\ Special(p, {"tool_started"}, call', {})

ToolEnds ==
  /\ at = "tool" /\ at' \in {"plan", "over"} /\ (at' = "over" => LastStops')
  /\ \E effect \in Effects : ToolReturns(effect) /\ \E r \in Results(effect) :
       /\ steps' = Append(steps, [index |-> Index, calls |-> <<call>>, results |-> {r}])
       /\ \E p \in Nat : Grows(p) /\ Special(p, {"tool_completed", "tool_failed"}, call, {r})

StepEnds ==
  /\ at = "plan" /\ at' = "over" /\ LastStops' /\ Grows(0)
  /\ \E calls \in {<<>>} \cup {<<c>> : c \in Decisions} :
       steps' = Append(steps, [index |-> Index, calls |-> calls, results |-> {}])
  /\ \E j \in (Len(events) + 1)..Len(events') :
       events'[j].kind = "model_decision" /\ events'[j].step = Index

RunEnds ==
  /\ at \in {"plan", "tool"} /\ at' = "over" /\ LastStops' /\ Grows(0) /\ UNCHANGED steps

(* A list of quiet events, and what is sent of one.                        *)
Unsent(e) == e = [at |-> 0, kind |-> e.kind, step |-> e.step, call |-> e.call,
                  results |-> e.results, status |-> e.status]
QuietEvent(e) == Quiet(e) /\ Unsent(e)
QuietList(s) == IsList(s) /\ \A i \in 1..Len(s) : QuietEvent(s[i])

LEMMA QuietNone == QuietList(<<>>)
<1>1. <<>> \in Seq({}) /\ Len(<<>>) = 0
  OBVIOUS
<1>2. IsList(<<>>)
  BY <1>1, ListOf
<1> QED BY <1>1, <1>2 DEF QuietList

LEMMA QuietLists ==
  ASSUME NEW s, NEW t, QuietList(s), QuietList(t)
  PROVE  /\ Len(s) \in Nat /\ Len(t) \in Nat
         /\ Len(s \o t) = Len(s) + Len(t) /\ Len(s \o t) \in Nat
         /\ \A i \in 1..Len(s) : (s \o t)[i] = s[i]
         /\ \A i \in 1..Len(t) : (s \o t)[Len(s) + i] = t[i]
<1>1. IsList(s) /\ IsList(t)
  BY DEF QuietList
<1>2. Len(s) \in Nat /\ Len(t) \in Nat
  BY <1>1, ListIs
<1>3. /\ Len(s \o t) = Len(s) + Len(t)
      /\ \A i \in 1..Len(s) : (s \o t)[i] = s[i]
      /\ \A i \in 1..Len(t) : (s \o t)[Len(s) + i] = t[i]
  BY <1>1, ListConcats
<1> QED BY <1>2, <1>3

LEMMA QuietJoins ==
  ASSUME NEW s, NEW t, QuietList(s), QuietList(t)
  PROVE  QuietList(s \o t)
<1>1. IsList(s) /\ IsList(t)
  BY DEF QuietList
<1>2. /\ IsList(s \o t) /\ Len(s \o t) = Len(s) + Len(t)
      /\ \A i \in 1..Len(s) : (s \o t)[i] = s[i]
      /\ \A i \in 1..Len(t) : (s \o t)[Len(s) + i] = t[i]
      /\ \A i \in 1..Len(s \o t) : i \in 1..Len(s) \/ \E j \in 1..Len(t) : i = Len(s) + j
  BY <1>1, ListConcats
<1>3. \A i \in 1..Len(s \o t) : QuietEvent((s \o t)[i])
  BY <1>2 DEF QuietList
<1> QED BY <1>2, <1>3 DEF QuietList

LEMMA QuietStep ==
  ASSUME IsList(steps), NEW kind, kind # "tool_started", NEW i \in {0, Index}
  PROVE  QuietEvent(StepEvent(kind, i))
<1>1. Index \in Nat
  BY ListIs DEF Index
<1> QED BY <1>1 DEF QuietEvent, Unsent, Quiet, StepEvent, Event

LEMMA QuietOne ==
  ASSUME NEW e, QuietEvent(e)
  PROVE  QuietList(<<e>>) /\ Len(<<e>>) = 1 /\ <<e>>[1] = e
<1>1. <<e>> \in Seq({e}) /\ Len(<<e>>) = 1 /\ <<e>>[1] = e
  OBVIOUS
<1>2. IsList(<<e>>)
  BY <1>1, ListOf
<1> QED BY <1>1, <1>2 DEF QuietList

LEMMA QuietFinish ==
  ASSUME IsList(steps), NEW verdict, NEW open, NEW answered,
         NEW s, s = Finish(verdict, open, answered)
  PROVE  QuietList(s) /\ Len(s) >= 1 /\ s[Len(s)].kind = "run_stopped"
<1> DEFINE a == IF open THEN <<StepEvent("step_completed", Index)>> ELSE <<>>
           b == IF verdict = "completed" /\ ~answered THEN <<StepEvent("answer", 0)>> ELSE <<>>
           c == <<Event("run_stopped", 0, NoCall, {}, verdict)>>
<1>2. QuietList(a)
  BY QuietNone, QuietStep, QuietOne
<1>3. QuietList(b)
  BY QuietNone, QuietStep, QuietOne
<1>4. QuietList(c) /\ Len(c) = 1 /\ c[1].kind = "run_stopped"
  <2>1. Index \in Nat
    BY ListIs DEF Index
  <2>2. QuietEvent(Event("run_stopped", 0, NoCall, {}, verdict))
    BY <2>1 DEF QuietEvent, Unsent, Quiet, Event
  <2>3. Event("run_stopped", 0, NoCall, {}, verdict).kind = "run_stopped"
    BY DEF Event
  <2> QED BY <2>2, <2>3, QuietOne
<1>5. s = (a \o b) \o c
  BY DEF Finish
<1> HIDE DEF a, b, c
<1>6. QuietList(a \o b)
  BY <1>2, <1>3, QuietJoins
<1>7. QuietList(s)
  BY <1>4, <1>5, <1>6, QuietJoins
<1>8. /\ Len(s) = Len(a \o b) + 1 /\ s[Len(a \o b) + 1] = c[1]
      /\ Len(a \o b) \in Nat
  <2> DEFINE ab == a \o b
  <2> HIDE DEF ab
  <2>1. QuietList(ab)
    BY <1>6 DEF ab
  <2>2. QuietList(c)
    BY <1>4
  <2>3. /\ Len(ab) \in Nat /\ Len(c) \in Nat
        /\ Len(ab \o c) = Len(ab) + Len(c) /\ Len(ab \o c) \in Nat
        /\ \A i \in 1..Len(ab) : (ab \o c)[i] = ab[i]
        /\ \A i \in 1..Len(c) : (ab \o c)[Len(ab) + i] = c[i]
    BY <2>1, <2>2, QuietLists
  <2>4. 1 \in 1..Len(c)
    BY <1>4
  <2>5. Len(ab \o c) = Len(ab) + 1 /\ (ab \o c)[Len(ab) + 1] = c[1] /\ Len(ab) \in Nat
    BY <1>4, <2>3, <2>4
  <2> QED BY <1>5, <2>5 DEF ab
<1> QED BY <1>4, <1>7, <1>8

LEMMA QuietBegin ==
  ASSUME IsList(steps)
  PROVE  QuietList(Begin) /\ Len(Begin) = 2 /\ Begin[2] = StepEvent("model_decision", Index)
<1> DEFINE a == StepEvent("step_started", Index)
           b == StepEvent("model_decision", Index)
<1>1. QuietEvent(a) /\ QuietEvent(b)
  BY QuietStep
<1>2. Begin = <<a, b>>
  BY DEF Begin
<1> HIDE DEF a, b
<1>3. <<a, b>> \in Seq({a, b}) /\ Len(<<a, b>>) = 2 /\ <<a, b>>[1] = a /\ <<a, b>>[2] = b
  OBVIOUS
<1>4. IsList(<<a, b>>)
  BY <1>3, ListOf
<1>5. QuietList(<<a, b>>)
  BY <1>1, <1>3, <1>4 DEF QuietList
<1> QED BY <1>2, <1>3, <1>5 DEF b

LEMMA SentIs ==
  ASSUME IsList(events), NEW new, IsList(new), Sent(new)
  PROVE  /\ IsList(events') /\ Len(events') = Len(events) + Len(new)
         /\ \A j \in 1..Len(events) : events'[j] = events[j]
         /\ \A i \in 1..Len(new) :
              events'[Len(events) + i] = [new[i] EXCEPT !.at = Len(events) + i]
<1> DEFINE stamped == [i \in DOMAIN new |-> [new[i] EXCEPT !.at = Len(events) + i]]
<1>1. events' = events \o stamped
  BY DEF Sent
<1>2. DOMAIN new = 1..Len(new) /\ Len(new) \in Nat /\ Len(events) \in Nat
  BY ListIs
<1>3. /\ IsList(stamped) /\ Len(stamped) = Len(new)
      /\ \A i \in 1..Len(new) : stamped[i] = [new[i] EXCEPT !.at = Len(events) + i]
  <2> DEFINE X == {[new[i] EXCEPT !.at = Len(events) + i] : i \in 1..Len(new)}
  <2>1. stamped \in [1..Len(new) -> X]
    BY <1>2
  <2>2. stamped \in Seq(X) /\ Len(stamped) = Len(new)
    <3> HIDE DEF X, stamped
    <3> QED BY <1>2, <2>1
  <2>3. IsList(stamped)
    <3> HIDE DEF X, stamped
    <3> QED BY <2>2, ListOf
  <2> QED BY <1>2, <2>2, <2>3
<1> HIDE DEF stamped
<1>4. /\ IsList(events \o stamped) /\ Len(events \o stamped) = Len(events) + Len(stamped)
      /\ \A i \in 1..Len(events) : (events \o stamped)[i] = events[i]
      /\ \A i \in 1..Len(stamped) : (events \o stamped)[Len(events) + i] = stamped[i]
  BY <1>3, ListConcats
<1>5. \A i \in 1..Len(new) : events'[Len(events) + i] = stamped[i]
  BY <1>1, <1>3, <1>4
<1>6. \A i \in 1..Len(new) : events'[Len(events) + i] = [new[i] EXCEPT !.at = Len(events) + i]
  BY <1>3, <1>5
<1> QED BY <1>1, <1>3, <1>4, <1>6

LEMMA SentGrows ==
  ASSUME IsList(events), NEW new, IsList(new), Len(new) >= 1, Sent(new),
         \A i \in 1..Len(new) : Unsent(new[i]),
         NEW p \in Nat, \A i \in 1..Len(new) : i # p => Quiet(new[i])
  PROVE  /\ Grows(IF p = 0 THEN 0 ELSE Len(events) + p)
         /\ Len(events') = Len(events) + Len(new)
         /\ \A i \in 1..Len(new) :
              /\ events'[Len(events) + i].kind = new[i].kind
              /\ events'[Len(events) + i].step = new[i].step
              /\ events'[Len(events) + i].call = new[i].call
              /\ events'[Len(events) + i].results = new[i].results
<1>1. /\ IsList(events') /\ Len(events') = Len(events) + Len(new)
      /\ \A j \in 1..Len(events) : events'[j] = events[j]
      /\ \A i \in 1..Len(new) :
           events'[Len(events) + i] = [new[i] EXCEPT !.at = Len(events) + i]
      /\ Len(events) \in Nat /\ Len(new) \in Nat
  BY SentIs, ListIs
<1>3. ASSUME NEW i \in 1..Len(new)
      PROVE  /\ events'[Len(events) + i].kind = new[i].kind
             /\ events'[Len(events) + i].step = new[i].step
             /\ events'[Len(events) + i].call = new[i].call
             /\ events'[Len(events) + i].results = new[i].results
             /\ events'[Len(events) + i].at = Len(events) + i
  <2>1. events'[Len(events) + i] = [new[i] EXCEPT !.at = Len(events) + i]
    BY <1>1
  <2> DEFINE e == new[i]
  <2>2. e = [at |-> 0, kind |-> e.kind, step |-> e.step, call |-> e.call,
             results |-> e.results, status |-> e.status]
    BY DEF Unsent
  <2> HIDE DEF e
  <2> QED BY <2>1, <2>2 DEF e
<1>4. ASSUME NEW j \in (Len(events) + 1)..Len(events'),
             j # IF p = 0 THEN 0 ELSE Len(events) + p
      PROVE  Quiet(events'[j])
  <2>1. j - Len(events) \in 1..Len(new) /\ Len(events) + (j - Len(events)) = j
    BY <1>1
  <2> DEFINE i == j - Len(events)
  <2>2. i # p
    BY <1>1, <1>4, <2>1
  <2> HIDE DEF i
  <2>3. i \in 1..Len(new) /\ Len(events) + i = j
    BY <2>1 DEF i
  <2>4. Quiet(new[i])
    BY <2>2, <2>3
  <2>5. /\ events'[j].kind = new[i].kind /\ events'[j].step = new[i].step
        /\ events'[j].results = new[i].results
    BY <1>3, <2>3
  <2> QED BY <2>4, <2>5 DEF Quiet
<1>5. ASSUME NEW j \in (Len(events) + 1)..Len(events') PROVE events'[j].at = j
  <2> DEFINE i == j - Len(events)
  <2>1. i \in 1..Len(new) /\ Len(events) + i = j
    BY <1>1
  <2> HIDE DEF i
  <2> QED BY <1>3, <2>1
<1> QED BY <1>1, <1>3, <1>4, <1>5 DEF Grows

(* Nothing but quiet events, and run_stopped last of them.                 *)
LEMMA QuietSent ==
  ASSUME IsList(events), NEW new, QuietList(new), Len(new) >= 1, Sent(new)
  PROVE  /\ Grows(0)
         /\ new[Len(new)].kind = "run_stopped" => LastStops'
         /\ \A i \in 1..Len(new) :
              Len(events) + i \in (Len(events) + 1)..Len(events')
              /\ events'[Len(events) + i].kind = new[i].kind
              /\ events'[Len(events) + i].step = new[i].step
<1>1. IsList(new) /\ \A i \in 1..Len(new) : QuietEvent(new[i])
  BY DEF QuietList
<1>2. /\ Grows(IF 0 = 0 THEN 0 ELSE Len(events) + 0)
      /\ Len(events') = Len(events) + Len(new)
      /\ \A i \in 1..Len(new) :
           /\ events'[Len(events) + i].kind = new[i].kind
           /\ events'[Len(events) + i].step = new[i].step
  <2>1. /\ 0 \in Nat /\ \A i \in 1..Len(new) : Unsent(new[i])
        /\ \A i \in 1..Len(new) : i # 0 => Quiet(new[i])
    BY <1>1 DEF QuietEvent
  <2> QED BY <1>1, <2>1, SentGrows
<1>3. Grows(0)
  BY <1>2
<1>4. Len(events) \in Nat /\ Len(new) \in Nat
  BY <1>1, ListIs
<1>5. new[Len(new)].kind = "run_stopped" => LastStops'
  <2>1. Len(new) \in 1..Len(new)
    BY <1>4
  <2> QED BY <1>2, <2>1 DEF LastStops
<1> QED BY <1>2, <1>3, <1>4, <1>5

LEMMA FinishSent ==
  ASSUME IsList(events), IsList(steps), NEW verdict, NEW open, NEW answered,
         Sent(Finish(verdict, open, answered))
  PROVE  Grows(0) /\ LastStops'
<1> DEFINE new == Finish(verdict, open, answered)
<1>1. QuietList(new) /\ Len(new) >= 1 /\ new[Len(new)].kind = "run_stopped"
  BY QuietFinish
<1> HIDE DEF new
<1> QED BY <1>1, QuietSent DEF new

LEMMA BeginSent ==
  ASSUME IsList(events), IsList(steps), NEW a, QuietList(a),
         NEW verdict, NEW open, NEW answered,
         Sent((Begin \o a) \o Finish(verdict, open, answered))
  PROVE  /\ Grows(0) /\ LastStops'
         /\ \E j \in (Len(events) + 1)..Len(events') :
              events'[j].kind = "model_decision" /\ events'[j].step = Index
<1> DEFINE f == Finish(verdict, open, answered)
           new == (Begin \o a) \o f
<1>1. QuietList(f) /\ Len(f) >= 1 /\ f[Len(f)].kind = "run_stopped"
  BY QuietFinish
<1>2. QuietList(Begin) /\ Len(Begin) = 2 /\ Begin[2] = StepEvent("model_decision", Index)
  BY QuietBegin
<1> HIDE DEF f
<1>3. QuietList(Begin \o a)
  BY <1>2, QuietJoins
<1>4. QuietList(new)
  BY <1>1, <1>3, QuietJoins
<1>5. Len(Begin \o a) \in Nat /\ Len(f) \in Nat /\ Len(a) \in Nat
  BY <1>1, <1>2, <1>3, QuietLists
<1>6. /\ Len(new) = Len(Begin \o a) + Len(f)
      /\ \A i \in 1..Len(f) : new[Len(Begin \o a) + i] = f[i]
      /\ \A i \in 1..Len(Begin \o a) : new[i] = (Begin \o a)[i]
  BY <1>1, <1>3, QuietLists
<1>7. Len(Begin \o a) = 2 + Len(a) /\ (Begin \o a)[2] = Begin[2]
  <2>1. /\ Len(Begin \o a) = Len(Begin) + Len(a)
        /\ \A i \in 1..Len(Begin) : (Begin \o a)[i] = Begin[i]
    BY <1>2, QuietLists
  <2> QED BY <1>2, <2>1
<1>8. new[Len(new)] = f[Len(f)] /\ Len(new) >= 1
  BY <1>1, <1>5, <1>6
<1>9. new[2] = StepEvent("model_decision", Index) /\ 2 \in 1..Len(new)
  BY <1>1, <1>2, <1>5, <1>6, <1>7
<1>10. new[2].kind = "model_decision" /\ new[2].step = Index
  BY <1>9 DEF StepEvent, Event
<1>11. Sent(new)
  BY DEF f
<1> HIDE DEF new
<1>12. /\ Grows(0) /\ LastStops'
       /\ \A i \in 1..Len(new) :
              Len(events) + i \in (Len(events) + 1)..Len(events')
              /\ events'[Len(events) + i].kind = new[i].kind
              /\ events'[Len(events) + i].step = new[i].step
  BY <1>1, <1>4, <1>8, <1>11, QuietSent
<1> QED BY <1>9, <1>10, <1>12

LEMMA PlanMoves ==
  ASSUME IsList(events), IsList(steps), NEW c \in Decisions, Plan(c)
  PROVE  ToolStarts
<1> DEFINE e == Event("tool_started", Index, c, {}, None)
           new == Begin \o <<e>>
<1>1. QuietList(Begin) /\ Len(Begin) = 2
  BY QuietBegin
<1>2. e = [at |-> 0, kind |-> "tool_started", step |-> Index, call |-> c, results |-> {},
           status |-> None]
  BY DEF Event
<1>3. /\ at = "plan" /\ at' = "tool" /\ call' = c /\ UNCHANGED steps /\ Sent(new)
  BY DEF Plan
<1> HIDE DEF e
<1>4. <<e>> \in Seq({e}) /\ Len(<<e>>) = 1 /\ <<e>>[1] = e
  OBVIOUS
<1>5. IsList(<<e>>)
  BY <1>4, ListOf
<1>6. /\ IsList(new) /\ Len(new) = 3 /\ new[3] = e
      /\ \A i \in 1..2 : new[i] = Begin[i]
  <2>1. /\ IsList(Begin \o <<e>>) /\ Len(Begin \o <<e>>) = Len(Begin) + Len(<<e>>)
        /\ \A i \in 1..Len(Begin) : (Begin \o <<e>>)[i] = Begin[i]
        /\ \A i \in 1..Len(<<e>>) : (Begin \o <<e>>)[Len(Begin) + i] = <<e>>[i]
    <3>1. IsList(Begin)
      BY <1>1 DEF QuietList
    <3> QED BY <1>5, <3>1, ListConcats
  <2> QED BY <1>1, <1>4, <2>1
<1>7. \A i \in 1..Len(new) : i # 3 => Quiet(new[i]) /\ Unsent(new[i])
  <2>1. \A i \in 1..2 : Quiet(Begin[i]) /\ Unsent(Begin[i])
    BY <1>1 DEF QuietList, QuietEvent
  <2>2. \A i \in 1..Len(new) : i # 3 => i \in 1..2
    BY <1>6
  <2> QED BY <1>6, <2>1, <2>2
<1>8. /\ new[3].kind = "tool_started" /\ new[3].step = Index /\ new[3].call = c
      /\ new[3].results = {} /\ Unsent(new[3])
  <2> DEFINE x == new[3]
  <2>1. x = [at |-> 0, kind |-> "tool_started", step |-> Index, call |-> c, results |-> {},
             status |-> None]
    BY <1>2, <1>6
  <2> HIDE DEF x
  <2>2. /\ x.kind = "tool_started" /\ x.step = Index /\ x.call = c
        /\ x.results = {} /\ Unsent(x)
    BY <2>1 DEF Unsent
  <2> QED BY <2>2 DEF x
<1> HIDE DEF new
<1>a. Len(new) >= 1 /\ 3 \in Nat /\ \A i \in 1..Len(new) : Unsent(new[i])
  BY <1>6, <1>7, <1>8
<1>9. /\ Grows(IF 3 = 0 THEN 0 ELSE Len(events) + 3)
      /\ Len(events') = Len(events) + Len(new)
      /\ \A i \in 1..Len(new) :
           /\ events'[Len(events) + i].kind = new[i].kind
           /\ events'[Len(events) + i].step = new[i].step
           /\ events'[Len(events) + i].call = new[i].call
           /\ events'[Len(events) + i].results = new[i].results
  BY <1>3, <1>6, <1>7, <1>a, SentGrows
<1>10. Len(events) \in Nat
  BY ListIs
<1>11. Special(Len(events) + 3, {"tool_started"}, c, {})
  BY <1>6, <1>8, <1>9, <1>10 DEF Special
<1>12. Grows(Len(events) + 3) /\ Len(events) + 3 \in Nat
  BY <1>9, <1>10
<1> QED BY <1>3, <1>11, <1>12 DEF ToolStarts

LEMMA ReturnMoves ==
  ASSUME IsList(events), IsList(steps), NEW effect \in Effects, ToolReturns(effect)
  PROVE  ToolEnds
<1> DEFINE answer == FindCachedToolResult # {} /\ call.tool = "calculator"
           kind(r) == IF r.succeeded THEN "tool_completed" ELSE "tool_failed"
           rest == IF answer THEN Finish("completed", FALSE, FALSE) ELSE <<>>
           done == StepEvent("step_completed", Index)
           e(r) == Event(kind(r), Index, call, {r}, None)
           first(r) == <<e(r), done>>
<1>1. /\ at = "tool" /\ at' = IF answer THEN "over" ELSE "plan"
  BY DEF ToolReturns
<1>2. PICK r \in Results(effect) :
        /\ steps' = Append(steps, [index |-> Index, calls |-> <<call>>, results |-> {r}])
        /\ Sent(first(r) \o rest)
  BY DEF ToolReturns, Results
<1> DEFINE new == first(r) \o rest
<1>3. QuietEvent(done)
  BY QuietStep
<1>4. QuietList(rest) /\ (answer => Len(rest) >= 1 /\ rest[Len(rest)].kind = "run_stopped")
  BY QuietNone, QuietFinish
<1>5. e(r) = [at |-> 0, kind |-> kind(r), step |-> Index, call |-> call, results |-> {r},
              status |-> None]
  BY DEF Event
<1>6. kind(r) \in {"tool_completed", "tool_failed"}
  OBVIOUS
<1> HIDE DEF rest, done, e, kind
<1>7. /\ first(r) \in Seq({e(r), done}) /\ Len(first(r)) = 2
      /\ first(r)[1] = e(r) /\ first(r)[2] = done
  OBVIOUS
<1>8. IsList(first(r))
  BY <1>7, ListOf
<1> HIDE DEF first
<1>9. /\ IsList(new) /\ Len(new) = 2 + Len(rest) /\ Len(rest) \in Nat
      /\ new[1] = e(r) /\ new[2] = done
      /\ \A i \in 1..Len(rest) : new[2 + i] = rest[i]
  <2>1. /\ IsList(new) /\ Len(new) = Len(first(r)) + Len(rest)
        /\ \A i \in 1..Len(first(r)) : new[i] = first(r)[i]
        /\ \A i \in 1..Len(rest) : new[Len(first(r)) + i] = rest[i]
    BY <1>4, <1>8, ListConcats DEF QuietList
  <2>2. Len(rest) \in Nat
    BY <1>4, ListIs DEF QuietList
  <2> HIDE DEF new
  <2> QED BY <1>7, <2>1, <2>2
<1>10. Sent(new)
  BY <1>2
<1> HIDE DEF new
<1>11. ASSUME NEW i \in 1..Len(new), i # 1 PROVE Quiet(new[i]) /\ Unsent(new[i])
  <2>1. CASE i = 2
    BY <1>3, <1>9, <2>1 DEF QuietEvent
  <2>2. CASE i # 2
    <3>1. i - 2 \in 1..Len(rest) /\ 2 + (i - 2) = i
      BY <1>9, <1>11, <2>2
    <3>2. new[i] = rest[i - 2]
      BY <1>9, <3>1
    <3> QED BY <1>4, <3>1, <3>2 DEF QuietList, QuietEvent
  <2> QED BY <2>1, <2>2
<1>12. /\ new[1].kind = kind(r) /\ new[1].step = Index /\ new[1].call = call
       /\ new[1].results = {r} /\ Unsent(new[1])
  BY <1>5, <1>9 DEF Unsent
<1>13. /\ Len(new) >= 1 /\ 1 \in 1..Len(new) /\ Len(new) \in Nat /\ Len(events) \in Nat
       /\ \A i \in 1..Len(new) : Unsent(new[i])
  BY <1>9, <1>11, <1>12, ListIs
<1>14. /\ Grows(IF 1 = 0 THEN 0 ELSE Len(events) + 1)
       /\ Len(events') = Len(events) + Len(new)
       /\ \A i \in 1..Len(new) :
            /\ events'[Len(events) + i].kind = new[i].kind
            /\ events'[Len(events) + i].step = new[i].step
            /\ events'[Len(events) + i].call = new[i].call
            /\ events'[Len(events) + i].results = new[i].results
  BY <1>9, <1>10, <1>11, <1>13, SentGrows
<1>15. Special(Len(events) + 1, {"tool_completed", "tool_failed"}, call, {r})
  BY <1>6, <1>12, <1>13, <1>14 DEF Special
<1>16. Grows(Len(events) + 1) /\ Len(events) + 1 \in Nat
  BY <1>13, <1>14
<1>17. at' = "over" => LastStops'
  <2> SUFFICES ASSUME at' = "over" PROVE LastStops'
    OBVIOUS
  <2>1. Len(rest) >= 1 /\ rest[Len(rest)].kind = "run_stopped"
    BY <1>1, <1>4
  <2>2. Len(new) \in 1..Len(new) /\ new[Len(new)] = rest[Len(rest)]
    BY <1>9, <2>1
  <2> QED BY <1>14, <2>1, <2>2 DEF LastStops
<1>18. at' \in {"plan", "over"}
  BY <1>1
<1> QED BY <1>1, <1>2, <1>15, <1>16, <1>17, <1>18 DEF ToolEnds

LEMMA Moves ==
  ASSUME IsList(events), IsList(steps), [TraceNext]_traceVars
  PROVE  \/ (ToolStarts \/ ToolEnds \/ StepEnds \/ RunEnds) /\ UNCHANGED record
         \/ at = "over" /\ PersistAgentRun
         \/ UNCHANGED traceVars
<1>1. ASSUME NEW c \in Decisions, Plan(c) PROVE ToolStarts /\ UNCHANGED record
  BY <1>1, PlanMoves DEF Plan
<1>2. ASSUME NEW c \in Decisions, StopBeforeTool(c) PROVE StepEnds /\ UNCHANGED record
  <2>1. QuietList(<<>>) /\ Begin \o <<>> = Begin
    BY QuietNone DEF Begin
  <2>2. Sent((Begin \o <<>>) \o Finish("stopped", TRUE, FALSE))
    BY <1>2, <2>1 DEF StopBeforeTool
  <2>3. /\ Grows(0) /\ LastStops'
        /\ \E j \in (Len(events) + 1)..Len(events') :
             events'[j].kind = "model_decision" /\ events'[j].step = Index
    BY <2>1, <2>2, BeginSent
  <2> QED BY <1>2, <2>3 DEF StopBeforeTool, StepEnds
<1>3. ASSUME NEW effect \in Effects, ToolReturns(effect) PROVE ToolEnds /\ UNCHANGED record
  BY <1>3, ReturnMoves DEF ToolReturns
<1>4. ASSUME NEW verdict, StopInTool(verdict) PROVE RunEnds /\ UNCHANGED record
  BY <1>4, FinishSent DEF StopInTool, RunEnds
<1>5. CASE Answer
  <2> DEFINE a == <<StepEvent("answer", Index), StepEvent("step_completed", Index)>>
  <2>1. QuietList(a)
    <3>1. QuietEvent(StepEvent("answer", Index)) /\ QuietEvent(StepEvent("step_completed", Index))
      BY QuietStep
    <3> DEFINE x == StepEvent("answer", Index)
               y == StepEvent("step_completed", Index)
    <3> HIDE DEF x, y
    <3>2. <<x, y>> \in Seq({x, y}) /\ Len(<<x, y>>) = 2 /\ <<x, y>>[1] = x /\ <<x, y>>[2] = y
      OBVIOUS
    <3>3. QuietEvent(x) /\ QuietEvent(y)
      BY <3>1 DEF x, y
    <3>4. IsList(<<x, y>>)
      BY <3>2, ListOf
    <3>5. QuietList(<<x, y>>)
      BY <3>2, <3>3, <3>4 DEF QuietList
    <3> QED BY <3>5 DEF x, y
  <2>2. Sent((Begin \o a) \o Finish("completed", FALSE, TRUE))
    BY <1>5 DEF Answer
  <2> HIDE DEF a
  <2>3. /\ Grows(0) /\ LastStops'
        /\ \E j \in (Len(events) + 1)..Len(events') :
             events'[j].kind = "model_decision" /\ events'[j].step = Index
    BY <2>1, <2>2, BeginSent
  <2> QED BY <1>5, <2>3 DEF Answer, StepEnds
<1>6. CASE RunOut
  BY <1>6, FinishSent DEF RunOut, RunEnds
<1>7. CASE PersistAgentRun
  BY <1>7 DEF PersistAgentRun
<1> QED BY <1>1, <1>2, <1>3, <1>4, <1>5, <1>6, <1>7 DEF TraceNext

-----------------------------------------------------------------------------
(* A success is what every later call of the same gives.                   *)

SameBody(r, q) ==
  /\ r.succeeded = q.succeeded /\ r.error = q.error
  /\ r.truncated = q.truncated /\ r.content = q.content

(* A success r of s and a result q of t, a step after it.                  *)
Repeats(s, t) ==
  \A r \in s.results, q \in t.results :
    /\ s.calls[1].tool = t.calls[1].tool /\ s.calls[1].arguments = t.calls[1].arguments
    /\ r.succeeded
    => SameBody(r, q)

CacheInv == \A i, j \in 1..Len(steps) : i < j => Repeats(steps[i], steps[j])

LEMMA CacheHas ==
  ASSUME StepsInv, NEW i \in 1..Len(steps), NEW c, steps[i].calls = <<c>>,
         c.tool = call.tool, c.arguments = call.arguments,
         NEW q \in steps[i].results, q.succeeded
  PROVE  FindCachedToolResult # {}
<1> DEFINE same == {k \in DOMAIN steps : \E d \in Range(steps[k].calls) :
                      d.tool = call.tool /\ d.arguments = call.arguments}
           good(k) == {x \in steps[k].results : x.succeeded}
           again(k) == {[x EXCEPT !.call = call.id, !.cached = TRUE] : x \in good(k)}
<1>1. FindCachedToolResult = UNION {again(k) : k \in same}
  BY DEF FindCachedToolResult
<1>2. i \in same
  <2>1. i \in DOMAIN steps
    BY ListIs DEF StepsInv
  <2>2. c \in Range(<<c>>)
    BY DEF Range
  <2> QED BY <2>1, <2>2
<1>3. [q EXCEPT !.call = call.id, !.cached = TRUE] \in again(i)
  OBVIOUS
<1> HIDE DEF same, again
<1> QED BY <1>1, <1>2, <1>3

LEMMA StepsAppended ==
  ASSUME IsList(steps), NEW x, steps' = Append(steps, x)
  PROVE  /\ Len(steps) \in Nat /\ Index = Len(steps) + 1 /\ Index \in Nat
         /\ IsList(steps') /\ Len(steps') = Index /\ steps'[Index] = x
         /\ \A i \in 1..Len(steps) : steps'[i] = steps[i]
         /\ \A i \in 1..Len(steps') : i \in 1..Len(steps) \/ i = Index
BY ListIs, ListAppends DEF Index

LEMMA CacheNext ==
  ASSUME StepsInv, CacheInv, IsList(events), [TraceNext]_traceVars
  PROVE  CacheInv'
<1>1. IsList(steps)
  BY DEF StepsInv
<1>2. CASE UNCHANGED steps
  BY <1>2 DEF CacheInv
<1>3. ASSUME NEW x, steps' = Append(steps, x),
             \A i \in 1..Len(steps) : Repeats(steps[i], x)
      PROVE  CacheInv'
  <2>1. /\ Len(steps) \in Nat /\ Index = Len(steps) + 1 /\ Len(steps') = Index
        /\ steps'[Index] = x
        /\ \A i \in 1..Len(steps) : steps'[i] = steps[i]
        /\ \A i \in 1..Len(steps') : i \in 1..Len(steps) \/ i = Index
    BY <1>1, <1>3, StepsAppended
  <2> SUFFICES ASSUME NEW i \in 1..Len(steps'), NEW j \in 1..Len(steps'), i < j
               PROVE  Repeats(steps'[i], steps'[j])
    BY DEF CacheInv
  <2>2. i \in 1..Len(steps)
    BY <2>1
  <2>3. CASE j \in 1..Len(steps)
    BY <2>1, <2>2, <2>3 DEF CacheInv
  <2>4. CASE j = Index
    BY <1>3, <2>1, <2>2, <2>4
  <2> QED BY <2>1, <2>3, <2>4
<1>4. CASE ToolEnds
  <2>1. PICK effect \in Effects : ToolReturns(effect) /\ \E r \in Results(effect) :
          steps' = Append(steps, [index |-> Index, calls |-> <<call>>, results |-> {r}])
    BY <1>4 DEF ToolEnds
  <2>2. PICK new \in Results(effect) :
          steps' = Append(steps, [index |-> Index, calls |-> <<call>>, results |-> {new}])
    BY <2>1
  <2> DEFINE x == [index |-> Index, calls |-> <<call>>, results |-> {new}]
  <2>3. ASSUME NEW i \in 1..Len(steps) PROVE Repeats(steps[i], x)
    <3> SUFFICES ASSUME NEW r \in steps[i].results, r.succeeded,
                        steps[i].calls[1].tool = call.tool,
                        steps[i].calls[1].arguments = call.arguments
                 PROVE  SameBody(r, new)
      BY DEF Repeats
    <3>1. StepOf(steps[i], i, world, asked)
      BY DEF StepsInv
    <3>2. PICK c \in Decisions : steps[i].calls = <<c>> /\ steps[i].results = {r}
      BY <3>1 DEF StepOf
    <3>3. c.tool = call.tool /\ c.arguments = call.arguments
      BY <3>2
    <3>4. FindCachedToolResult # {}
      BY <3>2, <3>3, CacheHas
    <3>5. new \in FindCachedToolResult
      BY <3>4 DEF Results
    <3>6. PICK k \in 1..Len(steps), d \in Decisions : \E q :
             steps[k].calls = <<d>> /\ steps[k].results = {q} /\ Again(new, k, d, q)
      BY <3>5, CachedResult
    <3>7. PICK q : steps[k].calls = <<d>> /\ steps[k].results = {q} /\ Again(new, k, d, q)
      BY <3>6
    <3>8. q.succeeded /\ d.tool = call.tool /\ d.arguments = call.arguments /\ Whole(q)
      BY <3>7 DEF Again, ResultOf
    <3>9. SameBody(q, new)
      <4>1. new = [q EXCEPT !.call = call.id, !.cached = TRUE]
        BY <3>7 DEF Again
      <4> QED BY <3>8, <4>1 DEF SameBody, Whole
    <3>10. i = k \/ i < k \/ k < i
      BY <1>1, ListIs
    <3>11. CASE i = k
      BY <3>2, <3>7, <3>9, <3>11
    <3>12. CASE i < k
      <4>1. Repeats(steps[i], steps[k])
        BY <3>12 DEF CacheInv
      <4>2. SameBody(r, q)
        BY <3>2, <3>3, <3>7, <3>8, <4>1 DEF Repeats
      <4> QED BY <3>9, <4>2 DEF SameBody
    <3>13. CASE k < i
      <4>1. Repeats(steps[k], steps[i])
        BY <3>13 DEF CacheInv
      <4>2. SameBody(q, r)
        BY <3>2, <3>3, <3>7, <3>8, <4>1 DEF Repeats
      <4> QED BY <3>9, <4>2 DEF SameBody
    <3> QED BY <3>10, <3>11, <3>12, <3>13
  <2> HIDE DEF x
  <2> QED BY <1>3, <2>2, <2>3 DEF x
<1>5. CASE StepEnds
  <2>1. PICK calls : steps' = Append(steps, [index |-> Index, calls |-> calls, results |-> {}])
    BY <1>5 DEF StepEnds
  <2> DEFINE x == [index |-> Index, calls |-> calls, results |-> {}]
  <2>2. \A i \in 1..Len(steps) : Repeats(steps[i], x)
    BY DEF Repeats
  <2> HIDE DEF x
  <2> QED BY <1>3, <2>1, <2>2 DEF x
<1>6. ToolStarts \/ RunEnds \/ PersistAgentRun \/ UNCHANGED traceVars => UNCHANGED steps
  BY DEF ToolStarts, RunEnds, PersistAgentRun, traceVars
<1> QED BY <1>1, <1>2, <1>4, <1>5, <1>6, Moves

-----------------------------------------------------------------------------
(* The events and the steps.                                               *)

Begins(e) == e.kind = "tool_started"
Ends(e)   == e.results # {}

(* An event and the step it is of.                                         *)
EventOf(e, j) ==
  /\ e.at = j /\ e.step \in 0..Index
  /\ at = "plan" => e.step <= Len(steps)
  /\ Begins(e) =>
       /\ ~Ends(e) /\ e.call \in Decisions /\ e.step >= 1
       /\ e.step <= Len(steps) => steps[e.step].results # {} /\ steps[e.step].calls = <<e.call>>
       /\ at = "tool" /\ e.step = Index => e.call = call
  /\ Ends(e) =>
       /\ e.kind \in {"tool_completed", "tool_failed"} /\ e.step \in 1..Len(steps)
       /\ steps[e.step].results = e.results /\ steps[e.step].calls = <<e.call>>

(* Of each step at most one call is begun and at most one ended.           *)
InOrder(d, e) ==
  (Begins(d) /\ Begins(e)) \/ (Ends(d) /\ Ends(e)) => d.step < e.step

Begun(i) == \E j \in 1..Len(events) : Begins(events[j]) /\ events[j].step = i

(* A step with a result has its events, and every step has one.            *)
Traced(i) ==
  \/ /\ steps[i].results # {}
     /\ \E j, k \in 1..Len(events) :
          /\ j < k /\ Begins(events[j]) /\ events[j].step = i
          /\ Ends(events[k]) /\ events[k].step = i
  \/ /\ steps[i].results = {}
     /\ \E j \in 1..Len(events) : events[j].kind = "model_decision" /\ events[j].step = i

EventsInv ==
  /\ IsList(steps) /\ IsList(events) /\ Len(events) >= 1
  /\ \A j \in 1..Len(events) : EventOf(events[j], j)
  /\ \A j, k \in 1..Len(events) : j < k => InOrder(events[j], events[k])
  /\ \A i \in 1..Len(steps) : Traced(i)
  /\ at = "tool" => Begun(Index)
  /\ at = "over" => LastStops

LEMMA EventsInit == TraceInit => EventsInv
<1> SUFFICES ASSUME TraceInit PROVE EventsInv
  OBVIOUS
<1> DEFINE e == [StepEvent("run_started", 0) EXCEPT !.at = 1]
<1>1. at = "plan" /\ steps = <<>> /\ events = <<e>>
  BY DEF TraceInit
<1>2. e.at = 1 /\ e.kind = "run_started" /\ e.step = 0 /\ e.results = {}
  BY DEF StepEvent, Event
<1> HIDE DEF e
<1>3. <<>> \in Seq({}) /\ Len(<<>>) = 0 /\ <<e>> \in Seq({e}) /\ Len(<<e>>) = 1 /\ <<e>>[1] = e
  OBVIOUS
<1>4. IsList(steps) /\ Len(steps) = 0 /\ IsList(events) /\ Len(events) = 1 /\ events[1] = e
  BY <1>1, <1>3, ListOf
<1>5. EventOf(events[1], 1)
  BY <1>1, <1>2, <1>4 DEF EventOf, Begins, Ends, Index
<1> QED BY <1>1, <1>4, <1>5 DEF EventsInv

(* The events before a step stay what they are.                            *)
LEMMA GrownIs ==
  ASSUME IsList(events), Len(events) >= 1, NEW p, Grows(p)
  PROVE  /\ Len(events) \in Nat /\ Len(events') \in Nat
         /\ IsList(events') /\ Len(events') >= 1
         /\ \A j \in 1..Len(events) : j \in 1..Len(events') /\ events'[j] = events[j]
         /\ \A j \in 1..Len(events') :
              \/ j \in 1..Len(events)
              \/ j \in (Len(events) + 1)..Len(events') /\ events'[j].at = j
                 /\ (j = p \/ Quiet(events'[j]))
<1>1. Len(events) \in Nat /\ Len(events') \in Nat
  BY ListIs DEF Grows
<1> QED BY <1>1 DEF Grows

(* A step that ends no step, and one that does.                            *)
LEMMA EventsGrow ==
  ASSUME EventsInv, UNCHANGED steps, NEW p, Grows(p),
         at' \in {"tool", "over"}, at \in {"plan", "tool"}, at' = "over" => LastStops',
         \/ p = 0 /\ at' = "over"
         \/ /\ at = "plan" /\ at' = "tool" /\ call' \in Decisions
            /\ Special(p, {"tool_started"}, call', {})
  PROVE  EventsInv'
<1>1. /\ Len(events) \in Nat /\ Len(events') \in Nat
      /\ IsList(events') /\ Len(events') >= 1
      /\ \A j \in 1..Len(events) : j \in 1..Len(events') /\ events'[j] = events[j]
      /\ \A j \in 1..Len(events') :
           \/ j \in 1..Len(events)
           \/ j \in (Len(events) + 1)..Len(events') /\ events'[j].at = j
              /\ (j = p \/ Quiet(events'[j]))
  BY GrownIs DEF EventsInv
<1>2. Len(steps) \in Nat /\ Index = Len(steps) + 1 /\ Index' = Index
  BY ListIs DEF EventsInv, Index
<1>3. ASSUME NEW j \in 1..Len(events) PROVE EventOf(events[j], j)'
  <2>1. events'[j] = events[j] /\ EventOf(events[j], j)
    BY <1>1 DEF EventsInv
  <2>2. at' = "tool" => events[j].step # Index
    BY <1>2, <2>1 DEF EventOf
  <2> QED BY <1>2, <2>1, <2>2 DEF EventOf, Begins, Ends
<1>4. ASSUME NEW j \in (Len(events) + 1)..Len(events'), events'[j].at = j, Quiet(events'[j])
      PROVE  EventOf(events[j], j)'
  <2>1. /\ events'[j].results = {} /\ events'[j].kind # "tool_started"
        /\ events'[j].step \in 0..Index
    BY <1>4 DEF Quiet
  <2> QED BY <1>2, <1>4, <2>1 DEF EventOf, Begins, Ends
<1>5. ASSUME NEW j \in (Len(events) + 1)..Len(events'), events'[j].at = j, j = p
      PROVE  EventOf(events[j], j)'
  <2>1. at' = "tool" /\ Special(p, {"tool_started"}, call', {}) /\ call' \in Decisions
    BY <1>1, <1>5
  <2>2. /\ events'[j].kind = "tool_started" /\ events'[j].step = Index
        /\ events'[j].call = call' /\ events'[j].results = {}
    BY <1>5, <2>1 DEF Special
  <2> QED BY <1>2, <1>5, <2>1, <2>2 DEF EventOf, Begins, Ends
<1>6. \A j \in 1..Len(events') : EventOf(events[j], j)'
  BY <1>1, <1>3, <1>4, <1>5
<1>7. ASSUME NEW j \in 1..Len(events'), NEW k \in 1..Len(events'), j < k
      PROVE  InOrder(events'[j], events'[k])
  <2>1. CASE k \in 1..Len(events)
    <3>1. j \in 1..Len(events)
      BY <1>1, <1>7, <2>1
    <3> QED BY <1>1, <1>7, <2>1, <3>1 DEF EventsInv
  <2>2. CASE Quiet(events'[k])
    BY <2>2 DEF Quiet, InOrder, Begins, Ends
  <2>3. CASE k = p /\ k \in (Len(events) + 1)..Len(events')
    <3>1. at = "plan" /\ Special(p, {"tool_started"}, call', {})
      BY <1>1, <2>3
    <3>2. /\ events'[k].kind = "tool_started" /\ events'[k].step = Index
          /\ events'[k].results = {}
      BY <2>3, <3>1 DEF Special
    <3>3. CASE j \in 1..Len(events)
      <4>1. events'[j] = events[j] /\ EventOf(events[j], j)
        BY <1>1, <3>3 DEF EventsInv
      <4>2. events'[j].step \in 0..Index /\ events'[j].step <= Len(steps)
        BY <3>1, <4>1 DEF EventOf
      <4> QED BY <1>2, <3>2, <4>2 DEF InOrder, Begins, Ends
    <3>4. CASE Quiet(events'[j])
      BY <3>4 DEF Quiet, InOrder, Begins, Ends
    <3> QED BY <1>1, <1>7, <2>3, <3>3, <3>4
  <2> QED BY <1>1, <2>1, <2>2, <2>3
<1>8. ASSUME NEW i \in 1..Len(steps) PROVE Traced(i)'
  <2>1. steps'[i] = steps[i] /\ Traced(i)
    BY DEF EventsInv
  <2> QED BY <1>1, <2>1 DEF Traced
<1>9. at' = "tool" => Begun(Index)'
  <2> SUFFICES ASSUME at' = "tool" PROVE Begun(Index)'
    OBVIOUS
  <2>1. Special(p, {"tool_started"}, call', {})
    OBVIOUS
  <2>2. p \in 1..Len(events') /\ events'[p].kind = "tool_started" /\ events'[p].step = Index
    BY <1>1, <2>1 DEF Special
  <2> QED BY <1>2, <2>2 DEF Begun, Begins
<1>10. IsList(steps')
  BY DEF EventsInv
<1> QED BY <1>1, <1>6, <1>7, <1>8, <1>9, <1>10 DEF EventsInv

LEMMA EventsClose ==
  ASSUME EventsInv, NEW calls, NEW results,
         steps' = Append(steps, [index |-> Index, calls |-> calls, results |-> results]),
         at' \in {"plan", "over"}, at' = "over" => LastStops', NEW p, Grows(p),
         \/ /\ at = "plan" /\ results = {} /\ p = 0
            /\ \E j \in (Len(events) + 1)..Len(events') :
                 events'[j].kind = "model_decision" /\ events'[j].step = Index
         \/ /\ at = "tool" /\ results # {} /\ calls = <<call>>
            /\ Special(p, {"tool_completed", "tool_failed"}, call, results)
  PROVE  EventsInv'
<1>1. /\ Len(events) \in Nat /\ Len(events') \in Nat
      /\ IsList(events') /\ Len(events') >= 1
      /\ \A j \in 1..Len(events) : j \in 1..Len(events') /\ events'[j] = events[j]
      /\ \A j \in 1..Len(events') :
           \/ j \in 1..Len(events)
           \/ j \in (Len(events) + 1)..Len(events') /\ events'[j].at = j
              /\ (j = p \/ Quiet(events'[j]))
  BY GrownIs DEF EventsInv
<1> DEFINE x == [index |-> Index, calls |-> calls, results |-> results]
<1>2. /\ Len(steps) \in Nat /\ Index = Len(steps) + 1 /\ Index \in Nat
      /\ IsList(steps') /\ Len(steps') = Index /\ Index' = Index + 1
      /\ steps'[Index].results = results /\ steps'[Index].calls = calls
      /\ \A i \in 1..Len(steps) : steps'[i] = steps[i]
      /\ \A i \in 1..Len(steps') : i \in 1..Len(steps) \/ i = Index
  <2> HIDE DEF x
  <2>1. /\ Len(steps) \in Nat /\ Index = Len(steps) + 1 /\ Index \in Nat
        /\ IsList(steps') /\ Len(steps') = Index /\ steps'[Index] = x
        /\ \A i \in 1..Len(steps) : steps'[i] = steps[i]
        /\ \A i \in 1..Len(steps') : i \in 1..Len(steps) \/ i = Index
    BY StepsAppended DEF EventsInv, x
  <2>2. Index' = Len(steps') + 1
    BY DEF Index
  <2> QED BY <2>1, <2>2 DEF x
<1>3. ASSUME NEW j \in 1..Len(events) PROVE EventOf(events[j], j)'
  <2>1. PICK e : e = events[j]
    OBVIOUS
  <2>2. events'[j] = e /\ EventOf(e, j)
    BY <1>1, <2>1 DEF EventsInv
  <2>3. e.at = j /\ e.step \in 0..Index
    BY <2>2 DEF EventOf
  <2>4. e.kind = "tool_started" =>
          /\ e.results = {} /\ e.call \in Decisions /\ e.step >= 1
          /\ e.step <= Len(steps) => steps[e.step].results # {} /\ steps[e.step].calls = <<e.call>>
          /\ at = "tool" /\ e.step = Index => e.call = call
          /\ at = "plan" => e.step <= Len(steps)
    BY <2>2 DEF EventOf, Begins, Ends
  <2>5. e.results # {} =>
          /\ e.kind \in {"tool_completed", "tool_failed"} /\ e.step \in 1..Len(steps)
          /\ steps[e.step].results = e.results /\ steps[e.step].calls = <<e.call>>
    BY <2>2 DEF EventOf, Ends
  <2>6. ASSUME e.kind = "tool_started"
        PROVE  /\ steps'[e.step].results # {} /\ steps'[e.step].calls = <<e.call>>
               /\ e.step # Index'
    <3>1. CASE e.step <= Len(steps)
      <4>1. e.step \in 1..Len(steps)
        BY <1>2, <2>3, <2>4, <2>6, <3>1
      <4> QED BY <1>2, <2>4, <2>6, <3>1, <4>1
    <3>2. CASE e.step = Index
      <4>1. at = "tool" /\ e.call = call
        BY <1>2, <2>4, <2>6, <3>2
      <4> QED BY <1>2, <3>2, <4>1
    <3>3. e.step <= Len(steps) \/ e.step = Index
      BY <1>2, <2>3
    <3> QED BY <3>1, <3>2, <3>3
  <2>7. e.results # {} =>
          /\ e.step \in 1..Len(steps')
          /\ steps'[e.step].results = e.results /\ steps'[e.step].calls = <<e.call>>
    BY <1>2, <2>5
  <2>8. e.step \in 0..Index' /\ e.step <= Len(steps')
    BY <1>2, <2>3
  <2> QED BY <2>2, <2>3, <2>4, <2>5, <2>6, <2>7, <2>8 DEF EventOf, Begins, Ends
<1>4. ASSUME NEW j \in (Len(events) + 1)..Len(events'), events'[j].at = j, Quiet(events'[j])
      PROVE  EventOf(events[j], j)'
  <2>1. /\ events'[j].results = {} /\ events'[j].kind # "tool_started"
        /\ events'[j].step \in 0..Index
    BY <1>4 DEF Quiet
  <2>2. events'[j].step \in 0..Index' /\ events'[j].step <= Len(steps')
    BY <1>2, <2>1
  <2> QED BY <1>4, <2>1, <2>2 DEF EventOf, Begins, Ends
<1>5. ASSUME NEW j \in (Len(events) + 1)..Len(events'), events'[j].at = j, j = p
      PROVE  EventOf(events[j], j)'
  <2>1. /\ results # {} /\ calls = <<call>>
        /\ Special(p, {"tool_completed", "tool_failed"}, call, results)
    BY <1>1, <1>5
  <2>2. /\ events'[j].kind \in {"tool_completed", "tool_failed"} /\ events'[j].step = Index
        /\ events'[j].call = call /\ events'[j].results = results
    BY <1>5, <2>1 DEF Special
  <2>3. /\ events'[j].step \in 0..Index' /\ events'[j].step <= Len(steps')
        /\ events'[j].step \in 1..Len(steps')
        /\ steps'[events'[j].step].results = results
        /\ steps'[events'[j].step].calls = <<call>>
    BY <1>2, <2>1, <2>2
  <2> QED BY <1>5, <2>1, <2>2, <2>3 DEF EventOf, Begins, Ends
<1>6. \A j \in 1..Len(events') : EventOf(events[j], j)'
  BY <1>1, <1>3, <1>4, <1>5
<1>7. ASSUME NEW j \in 1..Len(events'), NEW k \in 1..Len(events'), j < k
      PROVE  InOrder(events'[j], events'[k])
  <2>1. CASE k \in 1..Len(events)
    <3>1. j \in 1..Len(events)
      BY <1>1, <1>7, <2>1
    <3> QED BY <1>1, <1>7, <2>1, <3>1 DEF EventsInv
  <2>2. CASE Quiet(events'[k])
    BY <2>2 DEF Quiet, InOrder, Begins, Ends
  <2>3. CASE k = p /\ k \in (Len(events) + 1)..Len(events')
    <3>1. Special(p, {"tool_completed", "tool_failed"}, call, results)
      BY <1>1, <2>3
    <3>2. /\ events'[k].kind # "tool_started" /\ events'[k].step = Index
      BY <2>3, <3>1 DEF Special
    <3>3. CASE j \in 1..Len(events)
      <4>1. events'[j] = events[j] /\ EventOf(events[j], j)
        BY <1>1, <3>3 DEF EventsInv
      <4>2. Ends(events'[j]) => events'[j].step \in 1..Len(steps)
        BY <4>1 DEF EventOf
      <4>3. Ends(events'[j]) => events'[j].step < Index
        BY <1>2, <4>2
      <4> QED BY <3>2, <4>3 DEF InOrder, Begins
    <3>4. CASE Quiet(events'[j])
      BY <3>4 DEF Quiet, InOrder, Begins, Ends
    <3> QED BY <1>1, <1>7, <2>3, <3>3, <3>4
  <2> QED BY <1>1, <2>1, <2>2, <2>3
<1>8. ASSUME NEW i \in 1..Len(steps) PROVE Traced(i)'
  <2>1. steps'[i] = steps[i] /\ Traced(i)
    BY <1>2 DEF EventsInv
  <2> QED BY <1>1, <2>1 DEF Traced
<1>9. ASSUME NEW i \in Nat, i = Index PROVE Traced(i)'
  <2>1. CASE at = "plan"
    <3>1. results = {}
      BY <2>1
    <3>2. PICK j \in (Len(events) + 1)..Len(events') :
            events'[j].kind = "model_decision" /\ events'[j].step = Index
      BY <2>1
    <3>3. j \in 1..Len(events')
      BY <1>1
    <3> QED BY <1>2, <1>9, <3>1, <3>2, <3>3 DEF Traced
  <2>2. CASE at = "tool"
    <3>1. results # {} /\ Special(p, {"tool_completed", "tool_failed"}, call, results)
      BY <2>2
    <3>2. /\ p \in (Len(events) + 1)..Len(events')
          /\ events'[p].step = Index /\ events'[p].results # {}
      BY <3>1 DEF Special
    <3>3. PICK j \in 1..Len(events) : Begins(events[j]) /\ events[j].step = Index
      BY <2>2 DEF EventsInv, Begun
    <3>4. events'[j] = events[j] /\ j \in 1..Len(events') /\ p \in 1..Len(events') /\ j < p
      BY <1>1, <3>2, <3>3
    <3> QED BY <1>2, <1>9, <3>1, <3>2, <3>3, <3>4 DEF Traced, Begins, Ends
  <2> QED BY <2>1, <2>2
<1>10. ASSUME NEW i \in 1..Len(steps') PROVE Traced(i)'
  BY <1>2, <1>8, <1>9
<1>11. at' # "tool" /\ IsList(steps')
  BY <1>2
<1> QED BY <1>1, <1>6, <1>7, <1>10, <1>11 DEF EventsInv

LEMMA EventsStay ==
  ASSUME EventsInv, UNCHANGED <<steps, events>>, at' = "saved" \/ UNCHANGED <<at, call>>
  PROVE  EventsInv'
<1>1. Index' = Index
  BY DEF Index
<1>2. \A j \in 1..Len(events) : EventOf(events[j], j)'
  BY <1>1 DEF EventsInv, EventOf, Begins, Ends
<1>3. at' = "tool" => Begun(Index)'
  BY <1>1 DEF EventsInv, Begun, Begins
<1>4. at' = "over" => LastStops'
  BY DEF EventsInv, LastStops
<1>5. \A i \in 1..Len(steps) : Traced(i)'
  BY DEF EventsInv, Traced, Begins, Ends
<1> QED BY <1>2, <1>3, <1>4, <1>5 DEF EventsInv, InOrder, Begins, Ends

LEMMA EventsNext == EventsInv /\ [TraceNext]_traceVars => EventsInv'
<1> SUFFICES ASSUME EventsInv, [TraceNext]_traceVars PROVE EventsInv'
  OBVIOUS
<1>1. IsList(events) /\ IsList(steps)
  BY DEF EventsInv
<1>2. CASE ToolStarts
  <2>1. PICK p \in Nat : Grows(p) /\ Special(p, {"tool_started"}, call', {})
    BY <1>2 DEF ToolStarts
  <2>2. at = "plan" /\ at' = "tool" /\ UNCHANGED steps /\ call' \in Decisions
    BY <1>2 DEF ToolStarts
  <2> QED BY <2>1, <2>2, EventsGrow
<1>3. CASE ToolEnds
  <2>1. PICK effect \in Effects : \E r \in Results(effect) :
          /\ steps' = Append(steps, [index |-> Index, calls |-> <<call>>, results |-> {r}])
          /\ \E p \in Nat :
               Grows(p) /\ Special(p, {"tool_completed", "tool_failed"}, call, {r})
    BY <1>3 DEF ToolEnds
  <2>2. PICK r \in Results(effect), p \in Nat :
          /\ steps' = Append(steps, [index |-> Index, calls |-> <<call>>, results |-> {r}])
          /\ Grows(p) /\ Special(p, {"tool_completed", "tool_failed"}, call, {r})
    BY <2>1
  <2>3. at = "tool" /\ at' \in {"plan", "over"} /\ (at' = "over" => LastStops')
    BY <1>3 DEF ToolEnds
  <2> DEFINE results == {r}
             calls == <<call>>
  <2>4. results # {} /\ calls = <<call>>
    OBVIOUS
  <2> HIDE DEF results, calls
  <2>5. /\ steps' = Append(steps, [index |-> Index, calls |-> calls, results |-> results])
        /\ Grows(p) /\ Special(p, {"tool_completed", "tool_failed"}, call, results)
    BY <2>2 DEF results, calls
  <2> QED BY <2>3, <2>4, <2>5, EventsClose
<1>4. CASE StepEnds
  <2>1. PICK calls : steps' = Append(steps, [index |-> Index, calls |-> calls, results |-> {}])
    BY <1>4 DEF StepEnds
  <2>2. /\ at = "plan" /\ at' = "over" /\ LastStops' /\ Grows(0)
        /\ \E j \in (Len(events) + 1)..Len(events') :
             events'[j].kind = "model_decision" /\ events'[j].step = Index
    BY <1>4 DEF StepEnds
  <2> DEFINE results == {}
             p == 0
  <2>3. results = {} /\ p = 0
    OBVIOUS
  <2> HIDE DEF results, p
  <2>4. steps' = Append(steps, [index |-> Index, calls |-> calls, results |-> results])
    BY <2>1, <2>3
  <2> QED BY <2>2, <2>3, <2>4, EventsClose
<1>5. CASE RunEnds
  <2>1. /\ at \in {"plan", "tool"} /\ at' = "over" /\ LastStops' /\ Grows(0) /\ UNCHANGED steps
    BY <1>5 DEF RunEnds
  <2> QED BY <2>1, EventsGrow
<1>6. CASE PersistAgentRun \/ UNCHANGED traceVars
  BY <1>6, EventsStay DEF PersistAgentRun, traceVars
<1> QED BY <1>1, <1>2, <1>3, <1>4, <1>5, <1>6, Moves

-----------------------------------------------------------------------------
(* The sum of a list, and of the list that grows out of it.                *)

Sums(f, s) ==
  /\ f \in [0..Len(s) -> Nat] /\ Total(s) = f[Len(s)] /\ f[0] = 0
  /\ \A i \in 1..Len(s) : f[i] = f[i - 1] + s[i]

SumOf(s, f) == [i \in 0..Len(s) |-> IF i = 0 THEN 0 ELSE f[i - 1] + s[i]]

LEMMA TotalSums ==
  ASSUME NEW s \in Seq(Nat)
  PROVE  \E f : Sums(f, s)
<1> DEFINE N == Len(s)
           g == [p \in (1..N) \X Nat |-> p[2] + s[p[1]]]
           sum == CHOOSE f : f = SumOf(s, f)
<1>1. N \in Nat /\ 0 \in Nat /\ \A i \in 1..N : s[i] \in Nat
  OBVIOUS
<1>2. g \in [(1..N) \X Nat -> Nat]
  BY <1>1
<1>3. PICK f : Recurses(f, N, Nat, 0, g)
  <2> HIDE DEF g, N
  <2> QED BY <1>1, <1>2, Recursion
<1>4. ASSUME NEW i \in 1..N PROVE f[i] = f[i - 1] + s[i]
  <2>1. f[i - 1] \in Nat /\ f[i] = g[<<i, f[i - 1]>>]
    <3> HIDE DEF N, g
    <3> QED BY <1>1, <1>3 DEF Recurses
  <2>2. <<i, f[i - 1]>> \in (1..N) \X Nat
    BY <2>1
  <2> HIDE DEF N
  <2> QED BY <2>1, <2>2
<1>5. f = SumOf(s, f)
  <2>1. f = [i \in 0..N |-> f[i]]
    BY <1>3 DEF Recurses
  <2>2. ASSUME NEW i \in 0..N PROVE f[i] = IF i = 0 THEN 0 ELSE f[i - 1] + s[i]
    <3>1. CASE i = 0
      BY <1>3, <3>1 DEF Recurses
    <3>2. CASE i # 0
      <4>1. i \in 1..N
        BY <1>1, <3>2
      <4> HIDE DEF N
      <4> QED BY <1>4, <3>2, <4>1
    <3> QED BY <3>1, <3>2
  <2> QED BY <2>1, <2>2 DEF SumOf
<1>6. sum = SumOf(s, sum)
  BY <1>5
<1>7. Total(s) = sum[N]
  BY DEF Total, SumOf
<1>8. Recurses(sum, N, Nat, 0, g)
  <2>1. sum = [i \in 0..N |-> sum[i]]
    BY <1>6 DEF SumOf
  <2>2. sum[0] = 0
    <3>1. SumOf(s, sum)[0] = 0
      BY <1>1 DEF SumOf
    <3> QED BY <1>6, <3>1
  <2>3. ASSUME NEW i \in 1..N, sum[i - 1] \in Nat PROVE sum[i] = g[<<i, sum[i - 1]>>]
    <3>1. SumOf(s, sum)[i] = sum[i - 1] + s[i]
      <4>1. i \in 0..N /\ i # 0
        BY <1>1
      <4> QED BY <4>1 DEF SumOf
    <3>2. <<i, sum[i - 1]>> \in (1..N) \X Nat
      BY <2>3
    <3>3. g[<<i, sum[i - 1]>>] = sum[i - 1] + s[i]
      <4> HIDE DEF N, sum
      <4> QED BY <3>2
    <3> QED BY <1>6, <3>1, <3>3
  <2> HIDE DEF N, g, sum
  <2> QED BY <1>1, <1>2, <2>1, <2>2, <2>3, RecursionStays
<1>9. ASSUME NEW i \in 1..N PROVE sum[i] = sum[i - 1] + s[i]
  <2>1. sum[i - 1] \in Nat /\ sum[i] = g[<<i, sum[i - 1]>>]
    <3> HIDE DEF N, g, sum
    <3> QED BY <1>1, <1>8 DEF Recurses
  <2>2. <<i, sum[i - 1]>> \in (1..N) \X Nat
    BY <2>1
  <2> HIDE DEF N, sum
  <2> QED BY <2>1, <2>2
<1> HIDE DEF sum
<1> QED BY <1>7, <1>8, <1>9 DEF Recurses, Sums

LEMMA TotalSumsNat ==
  ASSUME NEW s \in Seq(Nat)
  PROVE  Total(s) \in Nat
<1>1. PICK f : Sums(f, s)
  BY TotalSums
<1>2. Len(s) \in 0..Len(s)
  OBVIOUS
<1> QED BY <1>1, <1>2 DEF Sums

(* The number n more, at p, and zeros.                                     *)
GrowsBy(s, t, p, n) ==
  /\ s \in Seq(Nat) /\ t \in Seq(Nat) /\ Len(s) <= Len(t)
  /\ \A i \in 1..Len(s) : t[i] = s[i]
  /\ \A i \in (Len(s) + 1)..Len(t) : i # p => t[i] = 0
  /\ IF p \in (Len(s) + 1)..Len(t) THEN t[p] = n ELSE n = 0

LEMMA TotalGrows ==
  ASSUME NEW s, NEW t, NEW p, NEW number, GrowsBy(s, t, p, number)
  PROVE  Total(s) \in Nat /\ Total(t) = Total(s) + number
<1> USE DEF GrowsBy
<1> DEFINE m == Len(s)
           n == Len(t)
<1>1. m \in Nat /\ n \in Nat /\ m <= n /\ \A i \in 1..n : t[i] \in Nat
  OBVIOUS
<1>2. PICK f : Sums(f, s)
  BY TotalSums
<1>3. PICK g : Sums(g, t)
  BY TotalSums
<1>4. /\ f \in [0..m -> Nat] /\ Total(s) = f[m] /\ f[0] = 0
      /\ \A i \in 1..m : f[i] = f[i - 1] + s[i]
  BY <1>2 DEF Sums
<1>5. /\ g \in [0..n -> Nat] /\ Total(t) = g[n] /\ g[0] = 0
      /\ \A i \in 1..n : g[i] = g[i - 1] + t[i]
  BY <1>3 DEF Sums
<1>6. /\ \A i \in 1..m : t[i] = s[i]
      /\ \A i \in (m + 1)..n : i # p => t[i] = 0
  OBVIOUS
<1> HIDE DEF m, n
<1> DEFINE T == {i \in 0..m : g[i] = f[i]}
<1>7. ASSUME NEW i \in 1..m, i - 1 \in T PROVE i \in T
  <2>1. i \in 1..n /\ i \in 0..m
    BY <1>1
  <2> QED BY <1>4, <1>5, <1>6, <1>7, <2>1
<1>8. \A i \in 0..m : i \in T
  <2>1. 0 \in T
    BY <1>1, <1>4, <1>5
  <2> HIDE DEF T
  <2> QED BY <1>1, <1>7, <2>1, UpTo
<1>9. g[m] = Total(s) /\ Total(s) \in Nat
  BY <1>1, <1>4, <1>8
<1> DEFINE More(i) == IF p \in (m + 1)..i THEN t[p] ELSE 0
           U == {k \in 0..(n - m) : g[m + k] = Total(s) + More(m + k)}
<1>10. ASSUME NEW k \in 1..(n - m), k - 1 \in U PROVE k \in U
  <2>1. /\ m + k \in 1..n /\ m + (k - 1) = (m + k) - 1 /\ m + k \in (m + 1)..n
        /\ k \in 0..(n - m)
    BY <1>1
  <2>2. g[m + k] = (Total(s) + More(m + (k - 1))) + t[m + k]
    BY <1>5, <1>10, <2>1
  <2>3. CASE m + k = p
    <3>1. More(m + (k - 1)) = 0 /\ More(m + k) = t[p] /\ t[p] \in Nat
      BY <1>1, <2>1, <2>3
    <3> HIDE DEF More
    <3> QED BY <1>9, <2>1, <2>2, <2>3, <3>1
  <2>4. CASE m + k # p
    <3>1. t[m + k] = 0
      BY <1>6, <2>1, <2>4
    <3>2. More(m + k) = More(m + (k - 1))
      <4>1. ASSUME p \in (m + 1)..(m + k) PROVE p \in (m + 1)..(m + (k - 1))
        BY <1>1, <2>1, <2>4, <4>1
      <4>2. ASSUME p \in (m + 1)..(m + (k - 1)) PROVE p \in (m + 1)..(m + k)
        BY <1>1, <2>1, <4>2
      <4> QED BY <4>1, <4>2
    <3>3. More(m + k) \in Nat
      <4>1. p \in (m + 1)..(m + k) => p \in 1..n
        BY <1>1
      <4> QED BY <1>1, <4>1
    <3> HIDE DEF More
    <3> QED BY <1>9, <2>1, <2>2, <3>1, <3>2, <3>3
  <2> QED BY <2>3, <2>4
<1>11. \A k \in 0..(n - m) : k \in U
  <2>1. 0 \in U
    <3>1. More(m + 0) = 0 /\ m + 0 = m /\ 0 \in 0..(n - m)
      BY <1>1
    <3> HIDE DEF More
    <3> QED BY <1>9, <3>1
  <2>2. n - m \in Nat
    BY <1>1
  <2> HIDE DEF U
  <2> QED BY <1>10, <2>1, <2>2, UpTo
<1>12. g[n] = Total(s) + More(n)
  <2>1. n - m \in 0..(n - m) /\ m + (n - m) = n
    BY <1>1
  <2> HIDE DEF More
  <2> QED BY <1>11, <2>1
<1>13. More(n) = number
  BY DEF m, n
<1> HIDE DEF More
<1> QED BY <1>5, <1>9, <1>12, <1>13

-----------------------------------------------------------------------------
(* The sources of the frames and of the steps.                             *)

Weight(c, results) ==
  IF results = {} THEN 0 ELSE Len(Outcome(c, CHOOSE r \in results : TRUE).rag.sources)
StepWeight(s)  == IF s.calls = <<>> THEN 0 ELSE Weight(s.calls[1], s.results)
EventWeight(e) == Weight(e.call, e.results)

StepWeights  == [i \in 1..Len(steps) |-> StepWeight(steps[i])]
EventWeights == [j \in 1..Len(events) |-> EventWeight(events[j])]

CountInv ==
  /\ StepWeights \in Seq(Nat) /\ EventWeights \in Seq(Nat)
  /\ Total(EventWeights) = Total(StepWeights)

LEMMA StepWeighs ==
  ASSUME NEW w, w.base \in Bases, NEW s, NEW i, NEW a, StepOf(s, i, w, a)
  PROVE  StepWeight(s) \in Nat
<1>1. CASE s.calls = <<>> \/ s.results = {}
  BY <1>1 DEF StepWeight, Weight
<1>2. CASE ~(s.calls = <<>> \/ s.results = {})
  <2>1. PICK c, r : s.calls = <<c>> /\ s.results = {r} /\ ResultOf(c, r, i, w, a)
    BY <1>2 DEF StepOf
  <2> DEFINE sources == Outcome(c, r).rag.sources
  <2>2. StepWeight(s) = Len(sources)
    <3>1. (CHOOSE x \in {r} : TRUE) = r
      OBVIOUS
    <3> QED BY <2>1, <3>1 DEF StepWeight, Weight
  <2>3. CASE sources = <<>>
    <3> HIDE DEF sources
    <3> QED BY <2>2, <2>3
  <2>4. CASE sources # <<>>
    <3>1. PICK Ids : /\ Prepare(w.base).references \in Seq(RefType(Ids))
                     /\ sources = IdsOf(Prepare(w.base).references)
      BY <2>1, <2>4, SourcesAre
    <3> DEFINE refs == Prepare(w.base).references
    <3> HIDE DEF sources, refs
    <3>2. DOMAIN refs = 1..Len(refs) /\ Len(refs) \in Nat /\ refs \in Seq(RefType(Ids))
      BY <3>1 DEF refs
    <3>3. sources = [k \in 1..Len(refs) |-> refs[k].id]
      BY <3>1, <3>2 DEF IdsOf, refs
    <3>4. Len(sources) = Len(refs)
      <4> HIDE DEF refs
      <4> QED BY <3>2, <3>3
    <3> QED BY <2>2, <3>2, <3>4
  <2> QED BY <2>3, <2>4
<1> QED BY <1>1, <1>2

LEMMA CountInit == TraceInit => CountInv
<1> SUFFICES ASSUME TraceInit PROVE CountInv
  OBVIOUS
<1> DEFINE e == [StepEvent("run_started", 0) EXCEPT !.at = 1]
<1>1. steps = <<>> /\ events = <<e>>
  BY DEF TraceInit
<1>2. e.results = {}
  BY DEF StepEvent, Event
<1> HIDE DEF e
<1>3. Len(steps) = 0 /\ Len(events) = 1 /\ events[1] = e
  BY <1>1
<1> DEFINE s == StepWeights
           t == EventWeights
<1>4. s \in Seq(Nat) /\ Len(s) = 0
  BY <1>3 DEF StepWeights
<1>5. t \in Seq(Nat) /\ Len(t) = 1 /\ t[1] = 0
  BY <1>2, <1>3 DEF EventWeights, EventWeight, Weight
<1> HIDE DEF s, t
<1>6. \A i \in (Len(s) + 1)..Len(t) : t[i] = 0
  BY <1>4, <1>5
<1>7. Total(t) = Total(s)
  <2>1. GrowsBy(s, t, 0, 0)
    BY <1>4, <1>5, <1>6 DEF GrowsBy
  <2>2. Total(s) \in Nat /\ Total(t) = Total(s) + 0
    BY <2>1, TotalGrows
  <2> QED BY <2>2
<1> QED BY <1>4, <1>5, <1>7 DEF CountInv, s, t

(* As many sources more in the frames as in the steps.                     *)
LEMMA CountGrows ==
  ASSUME CountInv, IsList(steps), IsList(events), Len(events) >= 1, NEW p, Grows(p), NEW n \in Nat,
         IF p \in (Len(events) + 1)..Len(events') THEN EventWeight(events'[p]) = n ELSE n = 0,
         \/ UNCHANGED steps /\ n = 0
         \/ \E x : steps' = Append(steps, x) /\ StepWeight(x) = n
  PROVE  CountInv'
<1> DEFINE s == StepWeights
           t == EventWeights
           u == [i \in 1..Len(steps') |-> StepWeight(steps'[i])]
           v == [j \in 1..Len(events') |-> EventWeight(events'[j])]
           k == Len(steps)
           m == Len(events)
           l == Len(events')
<1>1. /\ k \in Nat /\ m \in Nat /\ l \in Nat /\ m < l
      /\ \A j \in 1..m : events'[j] = events[j]
      /\ \A j \in (m + 1)..l : j # p => events'[j].results = {}
  BY ListIs, GrownIs DEF Grows, Quiet
<1>2. /\ s \in Seq(Nat) /\ Len(s) = k /\ t \in Seq(Nat) /\ Len(t) = m
      /\ Total(t) = Total(s)
      /\ \A j \in 1..m : t[j] = EventWeight(events[j])
      /\ \A i \in 1..k : s[i] = StepWeight(steps[i])
  BY <1>1 DEF CountInv, StepWeights, EventWeights
<1>3. \A j \in 1..m : v[j] = t[j]
  BY <1>1, <1>2
<1>4. \A j \in (m + 1)..l : j # p => v[j] = 0
  BY <1>1 DEF EventWeight, Weight
<1>5. IF p \in (m + 1)..l THEN v[p] = n ELSE n = 0
  BY <1>1
<1>6. v \in Seq(Nat) /\ Len(v) = l
  <2>1. \A j \in 1..m : t[j] \in Nat
    BY <1>2
  <2>2. \A j \in 1..l : v[j] \in Nat
    <3> HIDE DEF s, t, v, m, l
    <3> TAKE j \in 1..l
    <3>1. j \in 1..m \/ j \in (m + 1)..l
      BY <1>1
    <3> QED BY <1>3, <1>4, <1>5, <2>1, <3>1
  <2>3. v \in [1..l -> Nat]
    <3>1. v = [j \in 1..l |-> v[j]]
      OBVIOUS
    <3> HIDE DEF v, l
    <3> QED BY <2>2, <3>1
  <2> HIDE DEF v, l
  <2> QED BY <1>1, <2>3
<1>7. u \in Seq(Nat) /\ Total(u) = Total(s) + n
  <2>1. CASE UNCHANGED steps /\ n = 0
    <3>1. u = s
      BY <2>1 DEF StepWeights
    <3>2. Total(s) \in Nat
      <4> HIDE DEF s
      <4> QED BY <1>2, TotalSumsNat
    <3> HIDE DEF s, u
    <3> QED BY <1>2, <2>1, <3>1, <3>2
  <2>2. CASE \E x : steps' = Append(steps, x) /\ StepWeight(x) = n
    <3>1. PICK x : steps' = Append(steps, x) /\ StepWeight(x) = n
      BY <2>2
    <3>2. /\ Len(steps') = k + 1 /\ steps'[k + 1] = x
          /\ \A i \in 1..k : steps'[i] = steps[i]
      BY <3>1, ListAppends
    <3>3. \A i \in 1..k : u[i] = s[i]
      BY <1>1, <1>2, <3>2
    <3>4. u[k + 1] = n
      BY <1>1, <3>1, <3>2
    <3>5. u \in Seq(Nat) /\ Len(u) = k + 1
      <4>1. \A i \in 1..k : s[i] \in Nat
        BY <1>2
      <4>2. u = [i \in 1..(k + 1) |-> u[i]]
        BY <3>2
      <4> HIDE DEF s, u, k
      <4>3. \A i \in 1..(k + 1) : u[i] \in Nat
        <5> TAKE i \in 1..(k + 1)
        <5>1. i \in 1..k \/ i = k + 1
          BY <1>1
        <5> QED BY <3>3, <3>4, <4>1, <5>1
      <4>4. u \in [1..(k + 1) -> Nat]
        BY <4>2, <4>3
      <4> QED BY <1>1, <4>4
    <3> DEFINE q == k + 1
    <3>6. Len(s) = k /\ Len(u) = q /\ q \in (k + 1)..q /\ \A i \in (k + 1)..q : i = q
      BY <1>1, <1>2, <3>5
    <3> HIDE DEF s, u, k, q
    <3>7. GrowsBy(s, u, q, n)
      <4>1. u[q] = n
        BY <3>4 DEF q
      <4> QED BY <1>1, <1>2, <3>3, <3>5, <3>6, <4>1 DEF GrowsBy
    <3> QED BY <3>5, <3>7, TotalGrows
  <2> QED BY <2>1, <2>2
<1>8. Total(v) = Total(t) + n
  <2> HIDE DEF s, t, v, m, l
  <2>1. GrowsBy(t, v, p, n)
    BY <1>1, <1>2, <1>3, <1>4, <1>5, <1>6 DEF GrowsBy
  <2> QED BY <2>1, TotalGrows
<1>9. StepWeights' = u /\ EventWeights' = v
  BY DEF StepWeights, EventWeights
<1> HIDE DEF s, t, u, v
<1> QED BY <1>2, <1>6, <1>7, <1>8, <1>9 DEF CountInv

LEMMA CountNext ==
  ASSUME StepsInv, StepsInv', EventsInv, CountInv, [TraceNext]_traceVars
  PROVE  CountInv'
<1>1. IsList(events) /\ IsList(steps) /\ Len(events) >= 1
  BY DEF EventsInv
<1>2. CASE UNCHANGED <<steps, events>>
  BY <1>2 DEF CountInv, StepWeights, EventWeights
<1>3. ASSUME UNCHANGED steps, NEW p \in Nat, Grows(p),
             p \in (Len(events) + 1)..Len(events') => events'[p].results = {}
      PROVE  CountInv'
  <2>1. IF p \in (Len(events) + 1)..Len(events') THEN EventWeight(events'[p]) = 0 ELSE 0 = 0
    BY <1>3 DEF EventWeight, Weight
  <2> QED BY <1>1, <1>3, <2>1, CountGrows
<1>4. CASE ToolStarts
  <2>1. PICK p \in Nat : Grows(p) /\ Special(p, {"tool_started"}, call', {})
    BY <1>4 DEF ToolStarts
  <2>2. UNCHANGED steps /\ events'[p].results = {}
    BY <1>4, <2>1 DEF ToolStarts, Special
  <2> QED BY <1>3, <2>1, <2>2
<1>5. CASE RunEnds
  <2>1. ~(0 \in (Len(events) + 1)..Len(events'))
    BY <1>1, ListIs
  <2>2. UNCHANGED steps /\ Grows(0)
    BY <1>5 DEF RunEnds
  <2> QED BY <1>3, <2>1, <2>2
<1>6. ASSUME NEW x, steps' = Append(steps, x) PROVE StepWeight(x) \in Nat
  <2>1. /\ Index \in Nat /\ Len(steps') = Index /\ steps'[Index] = x /\ Index \in 1..Len(steps')
    <3>1. /\ Len(steps) \in Nat /\ Index = Len(steps) + 1 /\ Index \in Nat
          /\ Len(steps') = Index /\ steps'[Index] = x
      BY <1>1, <1>6, StepsAppended
    <3> QED BY <3>1
  <2>2. PICK i \in 1..Len(steps') : i = Index
    BY <2>1
  <2>3. StepOf(steps'[i], i, world', asked') /\ world'.base \in Bases
    BY DEF StepsInv
  <2> QED BY <2>1, <2>2, <2>3, StepWeighs
<1>7. CASE ToolEnds
  <2>1. PICK effect \in Effects : \E r \in Results(effect) :
          /\ steps' = Append(steps, [index |-> Index, calls |-> <<call>>, results |-> {r}])
          /\ \E p \in Nat :
               Grows(p) /\ Special(p, {"tool_completed", "tool_failed"}, call, {r})
    BY <1>7 DEF ToolEnds
  <2>2. PICK r \in Results(effect), p \in Nat :
          /\ steps' = Append(steps, [index |-> Index, calls |-> <<call>>, results |-> {r}])
          /\ Grows(p) /\ Special(p, {"tool_completed", "tool_failed"}, call, {r})
    BY <2>1
  <2> DEFINE x == [index |-> Index, calls |-> <<call>>, results |-> {r}]
  <2>3. StepWeight(x) = Weight(call, {r})
    <3>1. x.calls = <<call>> /\ x.results = {r} /\ x.calls # <<>> /\ x.calls[1] = call
      OBVIOUS
    <3> HIDE DEF x
    <3> QED BY <3>1 DEF StepWeight
  <2> HIDE DEF x
  <2>4. steps' = Append(steps, x)
    BY <2>2 DEF x
  <2>5. p \in (Len(events) + 1)..Len(events') /\ EventWeight(events'[p]) = StepWeight(x)
    BY <2>2, <2>3 DEF Special, EventWeight
  <2> QED BY <1>1, <1>6, <2>2, <2>4, <2>5, CountGrows
<1>8. CASE StepEnds
  <2>1. PICK calls : steps' = Append(steps, [index |-> Index, calls |-> calls, results |-> {}])
    BY <1>8 DEF StepEnds
  <2> DEFINE x == [index |-> Index, calls |-> calls, results |-> {}]
  <2>2. StepWeight(x) = 0
    BY DEF StepWeight, Weight
  <2> HIDE DEF x
  <2>3. steps' = Append(steps, x)
    BY <2>1 DEF x
  <2>4. ~(0 \in (Len(events) + 1)..Len(events')) /\ 0 \in Nat
    BY <1>1, ListIs
  <2>5. Grows(0)
    BY <1>8 DEF StepEnds
  <2> DEFINE p == 0
             n == 0
  <2>6. /\ Grows(p) /\ n \in Nat /\ StepWeight(x) = n
        /\ IF p \in (Len(events) + 1)..Len(events') THEN EventWeight(events'[p]) = n ELSE n = 0
    BY <2>2, <2>4, <2>5
  <2> HIDE DEF p, n
  <2> QED BY <1>1, <2>3, <2>6, CountGrows
<1>9. CASE PersistAgentRun \/ UNCHANGED traceVars
  BY <1>2, <1>9 DEF PersistAgentRun, traceVars
<1> QED BY <1>1, <1>4, <1>5, <1>7, <1>8, <1>9, Moves

-----------------------------------------------------------------------------
(* The record.                                                             *)

RecordInv ==
  \/ record = {}
  \/ /\ at = "saved" /\ LastStops
     /\ record = {ToResponse(Last(events).status, steps, ResultEvents)}

LEMMA RecordNext ==
  ASSUME EventsInv, RecordInv, [TraceNext]_traceVars
  PROVE  RecordInv'
<1>1. IsList(events) /\ IsList(steps)
  BY DEF EventsInv
<1>2. CASE (ToolStarts \/ ToolEnds \/ StepEnds \/ RunEnds) /\ UNCHANGED record
  BY <1>2 DEF RecordInv, ToolStarts, ToolEnds, StepEnds, RunEnds
<1>3. CASE at = "over" /\ PersistAgentRun
  <2>1. record = {}
    BY <1>3 DEF RecordInv
  <2>2. CASE record' = {ToResponse(Last(events).status, steps, ResultEvents)}
    <3>1. at' = "saved" /\ steps' = steps /\ events' = events
      BY <1>3 DEF PersistAgentRun
    <3>2. LastStops'
      BY <1>3, <3>1 DEF EventsInv, LastStops
    <3>3. ResultEvents' = ResultEvents
      BY <3>1 DEF ResultEvents
    <3> QED BY <2>2, <3>1, <3>2, <3>3 DEF RecordInv
  <2>3. CASE record' = record
    BY <2>1, <2>3 DEF RecordInv
  <2> QED BY <1>3, <2>2, <2>3 DEF PersistAgentRun
<1>4. CASE UNCHANGED traceVars
  <2>1. UNCHANGED <<at, steps, events, record>>
    BY <1>4 DEF traceVars
  <2>2. ResultEvents' = ResultEvents /\ LastStops' = LastStops
    BY <2>1 DEF ResultEvents, LastStops
  <2> QED BY <2>1, <2>2 DEF RecordInv
<1> QED BY <1>1, <1>2, <1>3, <1>4, Moves

(* What the run has done, has shown and has put on record.                 *)
TraceInv == StepsInv /\ CacheInv /\ EventsInv /\ CountInv /\ RecordInv

(* The invariant of a run and its views, for any store, servers, model and *)
(* number of steps (AgentRuntime.run, AgentRunRecordService).              *)
THEOREM TraceInvariant == TraceSpec => []TraceInv
<1>1. TraceInit => TraceInv
  <2> SUFFICES ASSUME TraceInit PROVE TraceInv
    OBVIOUS
  <2>1. steps = <<>> /\ record = {}
    BY DEF TraceInit
  <2>2. CacheInv
    BY <2>1 DEF CacheInv
  <2> QED BY <2>1, <2>2, StepsInit, EventsInit, CountInit DEF TraceInv, RecordInv
<1>2. TraceInv /\ [TraceNext]_traceVars => TraceInv'
  <2> SUFFICES ASSUME TraceInv, [TraceNext]_traceVars PROVE TraceInv'
    OBVIOUS
  <2>1. StepsInv /\ CacheInv /\ EventsInv /\ CountInv /\ RecordInv
    BY DEF TraceInv
  <2>2. StepsInv'
    BY <2>1, StepsNext
  <2>3. CacheInv'
    BY <2>1, CacheNext DEF EventsInv
  <2>4. EventsInv'
    BY <2>1, EventsNext
  <2>5. CountInv'
    BY <2>1, <2>2, CountNext
  <2>6. RecordInv'
    BY <2>1, RecordNext
  <2> QED BY <2>2, <2>3, <2>4, <2>5, <2>6 DEF TraceInv
<1> QED BY <1>1, <1>2, PTL DEF TraceSpec

-----------------------------------------------------------------------------
(* What the result of the run keeps of the events.                         *)

Kept(e) == e.kind \notin {"step_started", "step_completed"}

Places(f) ==
  /\ f \in [1..Len(ResultEvents) -> 1..Len(events)]
  /\ \A i, j \in 1..Len(ResultEvents) : i < j => f[i] < f[j]
  /\ \A i \in 1..Len(ResultEvents) : ResultEvents[i] = events[f[i]] /\ Kept(events[f[i]])
  /\ \A j \in 1..Len(events) : Kept(events[j]) => \E i \in 1..Len(ResultEvents) : f[i] = j

LEMMA ResultEventsAre ==
  ASSUME IsList(events)
  PROVE  IsList(ResultEvents) /\ \E f : Places(f)
<1> DEFINE K == {e \in Range(events) : e.kind \notin {"step_started", "step_completed"}}
           a == Among(events, K)
<1>1. a = ResultEvents
  BY DEF ResultEvents
<1>2. events \in Seq(Range(events))
  BY DEF IsList
<1> HIDE DEF a
<1>3. a \in Seq(Range(events)) /\ \E f : Picks(a, events, K, Len(events), f)
  <2> HIDE DEF K
  <2> QED BY <1>2, AmongPicks DEF a
<1>4. PICK f : Picks(a, events, K, Len(events), f)
  BY <1>3
<1>5. \A j \in 1..Len(events) : events[j] \in Range(events)
  BY ListIs
<1>6. \A j \in 1..Len(events) : Kept(events[j]) <=> events[j] \in K
  BY <1>5 DEF Kept
<1>7. f \in [1..Len(a) -> 1..Len(events)]
  BY <1>4 DEF Picks
<1>8. Places(f)
  <2>1. \A i \in 1..Len(a) : a[i] = events[f[i]] /\ Kept(events[f[i]])
    <3> HIDE DEF K
    <3> QED BY <1>4, <1>6, <1>7 DEF Picks
  <2>2. \A j \in 1..Len(events) : Kept(events[j]) => \E i \in 1..Len(a) : f[i] = j
    <3> HIDE DEF K
    <3> QED BY <1>4, <1>6 DEF Picks
  <2> QED BY <1>1, <1>4, <1>7, <2>1, <2>2 DEF Places, Picks
<1> QED BY <1>1, <1>3, <1>8, ListOf

(* Of one step there is one begin and one end.                             *)
LEMMA OneOfAStep ==
  ASSUME EventsInv, NEW i \in 1..Len(events), NEW j \in 1..Len(events),
         events[i].step = events[j].step,
         \/ Begins(events[i]) /\ Begins(events[j])
         \/ Ends(events[i]) /\ Ends(events[j])
  PROVE  i = j
<1>1. Index \in Nat
  BY ListIs DEF EventsInv, Index
<1>2. events[i].step \in Nat /\ events[j].step \in Nat
  BY <1>1 DEF EventsInv, EventOf
<1>3. ~(i < j)
  <2> SUFFICES ASSUME i < j PROVE FALSE
    OBVIOUS
  <2>1. InOrder(events[i], events[j])
    BY DEF EventsInv
  <2> QED BY <1>2, <2>1 DEF InOrder
<1>4. ~(j < i)
  <2> SUFFICES ASSUME j < i PROVE FALSE
    OBVIOUS
  <2>1. InOrder(events[j], events[i])
    BY DEF EventsInv
  <2> QED BY <1>2, <2>1 DEF InOrder
<1> QED BY <1>3, <1>4

(* The places in the result of the events of one kind.                     *)
LEMMA OnePlace ==
  ASSUME IsList(events), NEW j \in 1..Len(events), Kept(events[j]), NEW I,
         I \subseteq 1..Len(ResultEvents),
         NEW P, \A i \in 1..Len(ResultEvents) : i \in I <=> ResultEvents[i] \in P,
         events[j] \in P, \A k \in 1..Len(events) : events[k] \in P => k = j
  PROVE  \E i \in 1..Len(ResultEvents) : I = {i} /\ ResultEvents[i] = events[j]
<1>1. PICK f : Places(f)
  BY ResultEventsAre
<1>2. PICK i \in 1..Len(ResultEvents) : f[i] = j
  BY <1>1 DEF Places
<1>3. ResultEvents[i] = events[j]
  BY <1>1, <1>2 DEF Places
<1>4. ASSUME NEW k \in I PROVE k = i
  <2>1. k \in 1..Len(ResultEvents) /\ f[k] \in 1..Len(events) /\ ResultEvents[k] = events[f[k]]
    BY <1>1 DEF Places
  <2>2. f[k] = j
    BY <2>1
  <2>3. Len(ResultEvents) \in Nat
    BY ResultEventsAre, ListIs
  <2>4. ~(k < i) /\ ~(i < k)
    BY <1>1, <1>2, <2>1, <2>2 DEF Places
  <2> QED BY <2>1, <2>3, <2>4
<1> QED BY <1>2, <1>3, <1>4

LEMMA OneIs ==
  ASSUME NEW i \in Nat
  PROVE  Max({i}) = i /\ Min({i}) = i
BY DEF Max, Min

LEMMA StartedIs ==
  ASSUME EventsInv, NEW s, NEW c, NEW timing, timing = ToolTiming(s, c, ResultEvents).started
  PROVE  /\ (\A j \in 1..Len(events) : Begins(events[j]) => events[j].step # s.index)
              => timing = 0
         /\ \A j \in 1..Len(events) :
              /\ Begins(events[j]) /\ events[j].step = s.index /\ events[j].call.id = c.id
              => timing = j
<1> DEFINE R == ResultEvents
           I == {i \in 1..Len(R) :
                   (R[i].step = s.index /\ R[i].call.id = c.id) /\ R[i].kind = "tool_started"}
<1>1. timing = LET i == IF I # {} THEN Min(I) ELSE 0 IN IF i = 0 THEN 0 ELSE R[i].at
  BY DEF ToolTiming, FirstAt, SelectInSeq
<1>2. IsList(events)
  BY DEF EventsInv
<1>3. ASSUME \A j \in 1..Len(events) : Begins(events[j]) => events[j].step # s.index
      PROVE  timing = 0
  <2>1. PICK f : Places(f)
    BY <1>2, ResultEventsAre
  <2>2. \A i \in 1..Len(R) : f[i] \in 1..Len(events) /\ R[i] = events[f[i]]
    BY <2>1 DEF Places
  <2>3. I = {}
    BY <1>3, <2>2 DEF Begins
  <2> HIDE DEF I
  <2> QED BY <1>1, <2>3
<1>4. ASSUME NEW j \in 1..Len(events), Begins(events[j]), events[j].step = s.index,
             events[j].call.id = c.id
      PROVE  timing = j
  <2> DEFINE P == {events[k] : k \in {n \in 1..Len(events) :
                     (events[n].step = s.index /\ events[n].call.id = c.id)
                       /\ events[n].kind = "tool_started"}}
  <2>1. PICK f : Places(f)
    BY <1>2, ResultEventsAre
  <2>2. \A i \in 1..Len(R) : f[i] \in 1..Len(events) /\ R[i] = events[f[i]]
    BY <2>1 DEF Places
  <2>3. \A i \in 1..Len(R) : i \in I <=> R[i] \in P
    BY <2>2
  <2>4. events[j] \in P /\ Kept(events[j])
    BY <1>4 DEF Begins, Kept
  <2>5. ASSUME NEW k \in 1..Len(events), events[k] \in P PROVE k = j
    <3>1. Begins(events[k]) /\ events[k].step = s.index
      BY <2>5 DEF Begins
    <3> QED BY <1>4, <3>1, OneOfAStep
  <2>6. I \subseteq 1..Len(R)
    OBVIOUS
  <2> HIDE DEF I, P, R
  <2>7. PICK i \in 1..Len(R) : I = {i} /\ R[i] = events[j]
    BY <1>2, <2>3, <2>4, <2>5, <2>6, OnePlace DEF R
  <2>8. events[j].at = j
    BY DEF EventsInv, EventOf
  <2>9. Len(R) \in Nat
    BY <1>2, ResultEventsAre, ListIs DEF R
  <2>10. i \in Nat /\ i # 0
    BY <2>9
  <2>11. Min({i}) = i /\ {i} # {}
    BY <2>10, OneIs
  <2>12. Min(I) = i /\ I # {}
    BY <2>7, <2>11
  <2> QED BY <1>1, <2>7, <2>8, <2>10, <2>12
<1> QED BY <1>3, <1>4

LEMMA CompletedIs ==
  ASSUME EventsInv, NEW s, NEW c, NEW j \in 1..Len(events), Ends(events[j]),
         events[j].step = s.index, events[j].call.id = c.id
  PROVE  ToolTiming(s, c, ResultEvents).completed = j
<1> DEFINE R == ResultEvents
           I == {i \in 1..Len(R) :
                   (R[i].step = s.index /\ R[i].call.id = c.id) /\ R[i].results # {}}
           timing == ToolTiming(s, c, ResultEvents).completed
<1>1. timing = LET i == IF I # {} THEN Max(I) ELSE 0 IN IF i = 0 THEN 0 ELSE R[i].at
  BY DEF ToolTiming, LastAt, SelectLastInSeq
<1>2. IsList(events)
  BY DEF EventsInv
<1> DEFINE P == {events[k] : k \in {n \in 1..Len(events) :
                   (events[n].step = s.index /\ events[n].call.id = c.id)
                     /\ events[n].results # {}}}
<1>3. PICK f : Places(f)
  BY <1>2, ResultEventsAre
<1>4. \A i \in 1..Len(R) : f[i] \in 1..Len(events) /\ R[i] = events[f[i]]
  BY <1>3 DEF Places
<1>5. \A i \in 1..Len(R) : i \in I <=> R[i] \in P
  BY <1>4
<1>6. events[j] \in P /\ Kept(events[j])
  <2>1. events[j].kind \in {"tool_completed", "tool_failed"}
    BY DEF EventsInv, EventOf
  <2> QED BY <2>1 DEF Ends, Kept
<1>7. ASSUME NEW k \in 1..Len(events), events[k] \in P PROVE k = j
  <2>1. Ends(events[k]) /\ events[k].step = s.index
    BY <1>7 DEF Ends
  <2> QED BY <2>1, OneOfAStep
<1>8. I \subseteq 1..Len(R)
  OBVIOUS
<1> HIDE DEF I, P, R
<1>9. PICK i \in 1..Len(R) : I = {i} /\ R[i] = events[j]
  BY <1>2, <1>5, <1>6, <1>7, <1>8, OnePlace DEF R
<1>10. events[j].at = j
  BY DEF EventsInv, EventOf
<1>11. Len(R) \in Nat
  BY <1>2, ResultEventsAre, ListIs DEF R
<1>12. Max(I) = i /\ I # {} /\ i # 0
  BY <1>9, <1>11, OneIs
<1> HIDE DEF timing
<1>13. timing = j
  BY <1>1, <1>9, <1>10, <1>12
<1> QED BY <1>13 DEF timing

-----------------------------------------------------------------------------
(* What the record has of a step and of its call.                          *)

CallSummary(i, c) ==
  [call |-> c.id, timing |-> ToolTiming(steps[i], c, ResultEvents),
   input |-> PublicToolInputSummary(c),
   outcome |-> IF steps[i].results = {} THEN NoOutcome
               ELSE Outcome(c, CHOOSE r \in steps[i].results : TRUE)]

LEMMA ShownIs ==
  ASSUME StepsInv, NEW i \in 1..Len(steps)
  PROVE  /\ steps[i].index = i
         /\ \/ /\ steps[i].calls = <<>> /\ steps[i].results = {}
               /\ ToToolCallSummaries(steps[i], ResultEvents) = <<>>
            \/ \E c \in Decisions :
                 /\ steps[i].calls = <<c>>
                 /\ ToToolCallSummaries(steps[i], ResultEvents) = <<CallSummary(i, c)>>
<1> DEFINE s == steps[i]
           shown == ToToolCallSummaries(s, ResultEvents)
           Own(c) == {r \in s.results : r.call = c.id}
<1>1. StepOf(s, i, world, asked)
  BY DEF StepsInv
<1>2. s.index = i
  BY <1>1 DEF StepOf
<1>3. shown = [k \in DOMAIN s.calls |->
                 [call |-> s.calls[k].id, timing |-> ToolTiming(s, s.calls[k], ResultEvents),
                  input |-> PublicToolInputSummary(s.calls[k]),
                  outcome |-> IF Own(s.calls[k]) = {} THEN NoOutcome
                              ELSE Outcome(s.calls[k], CHOOSE r \in Own(s.calls[k]) : TRUE)]]
  BY DEF ToToolCallSummaries
<1>4. CASE s.calls = <<>> /\ s.results = {}
  <2>1. DOMAIN s.calls = {}
    BY <1>4
  <2> HIDE DEF s, Own
  <2>2. shown = <<>>
    BY <1>3, <2>1
  <2> QED BY <1>2, <1>4, <2>2 DEF s
<1>5. CASE \E c \in Decisions :
             /\ s.calls = <<c>>
             /\ s.results = {} \/ \E r : s.results = {r} /\ ResultOf(c, r, i, world, asked)
  <2>1. PICK c \in Decisions :
             /\ s.calls = <<c>>
             /\ s.results = {} \/ \E r : s.results = {r} /\ ResultOf(c, r, i, world, asked)
    BY <1>5
  <2>2. Own(c) = s.results
    BY <2>1 DEF ResultOf
  <2>3. DOMAIN s.calls = {1} /\ s.calls[1] = c
    BY <2>1
  <2> DEFINE d == [call |-> c.id, timing |-> ToolTiming(s, c, ResultEvents),
                   input |-> PublicToolInputSummary(c),
                   outcome |-> IF Own(c) = {} THEN NoOutcome
                               ELSE Outcome(c, CHOOSE r \in Own(c) : TRUE)]
  <2>4. shown = [k \in {1} |-> d]
    <3> HIDE DEF s, Own
    <3> QED BY <1>3, <2>3
  <2>5. d = CallSummary(i, c)
    BY <2>2 DEF CallSummary
  <2> HIDE DEF d
  <2>6. <<d>> = [k \in {1} |-> d]
    OBVIOUS
  <2> QED BY <1>2, <2>1, <2>4, <2>5, <2>6
<1> QED BY <1>1, <1>4, <1>5 DEF StepOf

LEMMA StoredIs ==
  ASSUME IsList(steps), NEW end, NEW payload,
         payload = ToResponse(end, steps, ResultEvents),
         NEW row, row = ProjectRunResponse(payload)
  PROVE  /\ row.status = end /\ row.timing = RunTiming(ResultEvents)
         /\ Len(row.steps) = Len(steps) /\ Len(payload.steps) = Len(steps)
         /\ DOMAIN payload.steps = 1..Len(steps)
         /\ Range(row.steps) = {row.steps[i] : i \in 1..Len(steps)}
         /\ \A i \in 1..Len(steps) :
              /\ row.steps[i].index = steps[i].index
              /\ row.steps[i].calls = ToToolCallSummaries(steps[i], ResultEvents)
              /\ payload.steps[i].calls = ToToolCallSummaries(steps[i], ResultEvents)
<1>1. Len(steps) \in Nat /\ DOMAIN steps = 1..Len(steps)
  BY ListIs
<1>2. payload.steps = [i \in 1..Len(steps) |-> ToStepSummary(steps[i], ResultEvents)]
  BY <1>1 DEF ToResponse
<1>3. payload.status = end /\ payload.timing = RunTiming(ResultEvents)
  BY DEF ToResponse
<1>4. DOMAIN payload.steps = 1..Len(steps) /\ Len(payload.steps) = Len(steps)
  BY <1>1, <1>2
<1>5. row.steps = [i \in 1..Len(steps) |-> ProjectStep(payload.steps[i])]
  BY <1>4 DEF ProjectRunResponse
<1>6. Len(row.steps) = Len(steps) /\ DOMAIN row.steps = 1..Len(steps)
  BY <1>1, <1>5
<1>7. Range(row.steps) = {row.steps[i] : i \in 1..Len(steps)}
  BY <1>6 DEF Range
<1>8. row.status = end /\ row.timing = RunTiming(ResultEvents)
  BY <1>3 DEF ProjectRunResponse
<1>9. ASSUME NEW i \in 1..Len(steps)
      PROVE  /\ row.steps[i].index = steps[i].index
             /\ row.steps[i].calls = ToToolCallSummaries(steps[i], ResultEvents)
             /\ payload.steps[i].calls = ToToolCallSummaries(steps[i], ResultEvents)
  <2>1. payload.steps[i] = ToStepSummary(steps[i], ResultEvents)
    BY <1>2
  <2>2. row.steps[i] = ProjectStep(payload.steps[i])
    BY <1>5
  <2> QED BY <2>1, <2>2 DEF ProjectStep, ToStepSummary
<1> QED BY <1>4, <1>6, <1>7, <1>8, <1>9

(* A frame with a result and the summary of its call.                      *)
LEMMA FrameIs ==
  ASSUME StepsInv, EventsInv, NEW j \in 1..Len(events),
         NEW frame, frame = ToStreamEvent(events[j]), frame.outcome # NoOutcome
  PROVE  \E i \in 1..Len(steps) : \E c :
           /\ frame.step = i /\ frame.at = j
           /\ ToToolCallSummaries(steps[i], ResultEvents) = <<c>>
           /\ c.call = frame.call /\ c.input = frame.input
           /\ c.outcome = frame.outcome /\ c.timing.completed = frame.at
<1> DEFINE e == events[j]
           i == e.step
<1>1. frame = [event |-> FrameName(e), at |-> e.at, step |-> e.step, call |-> e.call.id,
               input |-> IF e.call = NoCall THEN None ELSE PublicToolInputSummary(e.call),
               outcome |-> IF e.results = {} THEN NoOutcome
                           ELSE Outcome(e.call, CHOOSE r \in e.results : TRUE)]
  BY DEF ToStreamEvent
<1>2. Ends(e)
  BY <1>1 DEF Ends
<1>3. e.at = j /\ i \in 1..Len(steps) /\ steps[i].results = e.results /\ steps[i].calls = <<e.call>>
  BY <1>2 DEF EventsInv, EventOf
<1> HIDE DEF e, i
<1>4. PICK c \in Decisions : /\ steps[i].calls = <<c>>
                             /\ ToToolCallSummaries(steps[i], ResultEvents) = <<CallSummary(i, c)>>
  <2>1. <<e.call>> # <<>>
    OBVIOUS
  <2> QED BY <1>3, <2>1, ShownIs
<1>5. c = e.call
  BY <1>3, <1>4
<1>6. e.call # NoCall
  BY <1>4, <1>5, DecisionsAssumption DEF NoCall
<1>7. steps[i].index = i
  BY <1>3, ShownIs
<1>8. ToolTiming(steps[i], c, ResultEvents).completed = j
  BY <1>2, <1>5, <1>7, CompletedIs DEF e, i
<1>9. /\ CallSummary(i, c).call = frame.call /\ CallSummary(i, c).input = frame.input
      /\ CallSummary(i, c).outcome = frame.outcome /\ CallSummary(i, c).timing.completed = j
  BY <1>1, <1>2, <1>3, <1>5, <1>6, <1>8 DEF CallSummary, Ends
<1>10. frame.step = i /\ frame.at = j
  BY <1>1, <1>3 DEF i
<1> QED BY <1>3, <1>4, <1>9, <1>10

(* The time of a call that the record lists.                               *)
LEMMA TimeIs ==
  ASSUME StepsInv, EventsInv, NEW i \in 1..Len(steps), NEW c,
         steps[i].calls = <<c>>, NEW d, d = CallSummary(i, c)
  PROVE  /\ d.timing.started = 0 => d.outcome = NoOutcome
         /\ d.timing.started # 0 => /\ events[d.timing.started].step = i
                                    /\ d.timing.started < d.timing.completed
<1> DEFINE t == ToolTiming(steps[i], c, ResultEvents)
<1>1. d.timing = t /\ (steps[i].results = {} => d.outcome = NoOutcome)
  BY DEF CallSummary
<1> HIDE DEF t
<1>2. steps[i].index = i
  BY ShownIs
<1>3. CASE steps[i].results = {}
  <2>1. ASSUME NEW j \in 1..Len(events), Begins(events[j]), events[j].step = i PROVE FALSE
    BY <1>3, <2>1, ListIs DEF EventsInv, EventOf
  <2>2. t.started = 0
    BY <1>2, <2>1, StartedIs DEF t
  <2> QED BY <1>1, <1>3, <2>2
<1>4. CASE steps[i].results # {}
  <2>1. PICK j, k \in 1..Len(events) :
          /\ j < k /\ Begins(events[j]) /\ events[j].step = i
          /\ Ends(events[k]) /\ events[k].step = i
    BY <1>4 DEF EventsInv, Traced
  <2>2. steps[i].calls = <<events[j].call>> /\ steps[i].calls = <<events[k].call>>
    BY <2>1, ListIs DEF EventsInv, EventOf
  <2>3. events[j].call = c /\ events[k].call = c
    BY <2>2
  <2>4. t.started = j
    BY <1>2, <2>1, <2>3, StartedIs DEF t
  <2>5. t.completed = k
    BY <1>2, <2>1, <2>3, CompletedIs DEF t
  <2> QED BY <1>1, <2>1, <2>4, <2>5
<1> QED BY <1>3, <1>4

(* The sources in the history and in the live stream.                      *)
LEMMA OneWeight ==
  ASSUME NEW shown, shown = <<>> \/ \E d : shown = <<d>> /\ Len(d.outcome.rag.sources) \in Nat
  PROVE  ReferenceCount(shown)
           = IF shown = <<>> THEN 0 ELSE Len(shown[1].outcome.rag.sources)
<1> DEFINE s == [i \in DOMAIN shown |-> Len(shown[i].outcome.rag.sources)]
           none == <<>>
<1>1. ReferenceCount(shown) = Total(s)
  BY DEF ReferenceCount
<1>2. CASE shown = <<>>
  <2>1. s \in Seq(Nat) /\ Len(s) = 0
    BY <1>2
  <2> HIDE DEF s
  <2>2. PICK f : Sums(f, s)
    BY <2>1, TotalSums
  <2> QED BY <1>1, <1>2, <2>1, <2>2 DEF Sums
<1>3. CASE \E d : shown = <<d>> /\ Len(d.outcome.rag.sources) \in Nat
  <2>1. PICK d : shown = <<d>> /\ Len(d.outcome.rag.sources) \in Nat
    BY <1>3
  <2>2. s \in Seq(Nat) /\ Len(s) = 1 /\ s[1] = Len(d.outcome.rag.sources)
    BY <2>1
  <2>3. shown # <<>> /\ shown[1] = d
    BY <2>1
  <2> HIDE DEF s
  <2>4. PICK f : Sums(f, s)
    BY <2>2, TotalSums
  <2>5. f[1] = f[0] + s[1] /\ f[0] = 0 /\ Total(s) = f[1]
    BY <2>2, <2>4 DEF Sums
  <2>6. Total(s) = s[1]
    BY <2>2, <2>5
  <2> QED BY <1>1, <2>2, <2>3, <2>6
<1> QED BY <1>2, <1>3

LEMMA ReferencesAgree ==
  ASSUME StepsInv, EventsInv, CountInv, NEW end, NEW payload,
         payload = ToResponse(end, steps, ResultEvents),
         NEW shown, shown = [j \in DOMAIN events |-> ToStreamEvent(events[j])]
  PROVE  PublicRunSummary(payload).rag_reference_count = ReferenceCount(shown)
<1>1. /\ Len(steps) \in Nat /\ DOMAIN events = 1..Len(events) /\ IsList(steps)
  BY ListIs DEF EventsInv
<1>2. Len(NoOutcome.rag.sources) = 0
  BY DEF NoOutcome, NoRag, RagSummary
<1>3. ASSUME NEW j \in 1..Len(events)
      PROVE  Len(shown[j].outcome.rag.sources) = EventWeight(events[j])
  <2>1. shown[j].outcome = IF events[j].results = {} THEN NoOutcome
                           ELSE Outcome(events[j].call, CHOOSE r \in events[j].results : TRUE)
    BY <1>1 DEF ToStreamEvent
  <2> QED BY <1>2, <2>1 DEF EventWeight, Weight
<1>4. ReferenceCount(shown) = Total(EventWeights)
  <2>1. DOMAIN shown = 1..Len(events)
    BY <1>1
  <2>2. [j \in DOMAIN shown |-> Len(shown[j].outcome.rag.sources)] = EventWeights
    BY <1>3, <2>1 DEF EventWeights
  <2> QED BY <2>2 DEF ReferenceCount
<1>5. /\ DOMAIN payload.steps = 1..Len(steps)
      /\ \A i \in 1..Len(steps) :
           payload.steps[i].calls = ToToolCallSummaries(steps[i], ResultEvents)
  <2> DEFINE row == ProjectRunResponse(payload)
  <2> HIDE DEF row
  <2> QED BY <1>1, StoredIs DEF row
<1>6. ASSUME NEW i \in 1..Len(steps)
      PROVE  ReferenceCount(payload.steps[i].calls) = StepWeight(steps[i])
  <2> DEFINE calls == ToToolCallSummaries(steps[i], ResultEvents)
  <2>1. StepWeight(steps[i]) \in Nat
    <3>1. StepWeights \in Seq(Nat) /\ Len(StepWeights) = Len(steps)
      BY <1>1 DEF CountInv, StepWeights
    <3>2. StepWeights[i] \in Nat
      BY <3>1
    <3> QED BY <3>2 DEF StepWeights
  <2>2. CASE steps[i].calls = <<>> /\ calls = <<>>
    <3> HIDE DEF calls
    <3>1. ReferenceCount(calls) = 0
      BY <2>2, OneWeight
    <3> QED BY <1>5, <2>2, <3>1 DEF StepWeight, calls
  <2>3. CASE \E c \in Decisions : steps[i].calls = <<c>> /\ calls = <<CallSummary(i, c)>>
    <3>1. PICK c \in Decisions : steps[i].calls = <<c>> /\ calls = <<CallSummary(i, c)>>
      BY <2>3
    <3> DEFINE d == CallSummary(i, c)
    <3>2. Len(d.outcome.rag.sources) = StepWeight(steps[i])
      <4>1. d.outcome = IF steps[i].results = {} THEN NoOutcome
                        ELSE Outcome(c, CHOOSE r \in steps[i].results : TRUE)
        BY DEF CallSummary
      <4>2. steps[i].calls # <<>> /\ steps[i].calls[1] = c
        BY <3>1
      <4> QED BY <1>2, <4>1, <4>2 DEF StepWeight, Weight
    <3> HIDE DEF d, calls
    <3>3. calls # <<>> /\ calls[1] = d /\ calls = <<d>>
      BY <3>1 DEF d
    <3>4. ReferenceCount(calls) = Len(d.outcome.rag.sources)
      BY <2>1, <3>2, <3>3, OneWeight
    <3> QED BY <1>5, <3>2, <3>4 DEF calls
  <2> QED BY <2>2, <2>3, ShownIs
<1>7. PublicRunSummary(payload).rag_reference_count = Total(StepWeights)
  <2>1. [i \in DOMAIN payload.steps |-> ReferenceCount(payload.steps[i].calls)] = StepWeights
    BY <1>5, <1>6 DEF StepWeights
  <2> QED BY <2>1 DEF PublicRunSummary
<1> QED BY <1>4, <1>7 DEF CountInv

-----------------------------------------------------------------------------
(* The trace.                                                              *)

LEMMA MaxIs ==
  ASSUME NEW n \in Nat, NEW I, I \subseteq 0..n, n \in I
  PROVE  Max(I) = n
<1> DEFINE top == CHOOSE x \in I : \A y \in I : x >= y
<1>1. \A y \in I : y \in 0..n
  OBVIOUS
<1>2. \A y \in I : n >= y
  BY <1>1
<1>3. top \in I /\ \A y \in I : top >= y
  BY <1>2
<1>4. top = n
  <2> HIDE DEF top
  <2>1. top \in 0..n /\ top >= n
    BY <1>1, <1>3
  <2> QED BY <2>1
<1> QED BY <1>4 DEF Max

LEMMA TraceIs ==
  ASSUME IsList(events), NEW trace, trace = Snapshot(ResultEvents)
  PROVE  /\ trace.events = [i \in 1..Len(ResultEvents) |-> Sanitize(ResultEvents[i])]
         /\ DOMAIN trace.events = 1..Len(ResultEvents)
         /\ Range(trace.events) = {Sanitize(ResultEvents[i]) : i \in 1..Len(ResultEvents)}
<1>1. DOMAIN ResultEvents = 1..Len(ResultEvents)
  BY ResultEventsAre, ListIs
<1>2. trace.events = [i \in 1..Len(ResultEvents) |-> Sanitize(ResultEvents[i])]
  BY <1>1 DEF Snapshot
<1> QED BY <1>2 DEF Range

(* The last event is the last that is kept.                                *)
LEMMA LastKept ==
  ASSUME EventsInv, LastStops
  PROVE  /\ Len(ResultEvents) \in 1..Len(ResultEvents)
         /\ ResultEvents[Len(ResultEvents)] = events[Len(events)]
<1> DEFINE n == Len(events)
           m == Len(ResultEvents)
<1>1. n \in Nat /\ n >= 1 /\ m \in Nat
  BY ResultEventsAre, ListIs DEF EventsInv
<1>2. PICK f : Places(f)
  BY ResultEventsAre DEF EventsInv
<1>3. Kept(events[n])
  BY DEF LastStops, Kept
<1>4. n \in 1..n
  BY <1>1
<1>5. PICK i \in 1..m : f[i] = n
  BY <1>2, <1>3, <1>4 DEF Places
<1>6. m \in 1..m /\ f[m] \in 1..n
  BY <1>1, <1>2, <1>5 DEF Places
<1>7. ~(i < m)
  BY <1>1, <1>2, <1>5, <1>6 DEF Places
<1>8. i = m
  BY <1>1, <1>5, <1>7
<1> QED BY <1>2, <1>5, <1>6, <1>8 DEF Places

(* The verdict of the trace and of the record, and their time.             *)
LEMMA VerdictsAgree ==
  ASSUME EventsInv, LastStops, NEW trace, trace = Snapshot(ResultEvents)
  PROVE  /\ trace.status = Last(events).status
         /\ trace.completed = RunTiming(ResultEvents).completed
<1> DEFINE R == ResultEvents
           m == Len(R)
           list == [i \in DOMAIN R |-> Sanitize(R[i])]
           I == {i \in 1..Len(R) : R[i].kind = "run_stopped"}
           J == {i \in 1..Len(list) : list[i].kind = "run_stopped"}
<1>1. IsList(events) /\ DOMAIN R = 1..m /\ m \in Nat
  BY ResultEventsAre, ListIs DEF EventsInv
<1>2. m \in 1..m /\ R[m] = events[Len(events)]
  BY LastKept
<1>3. R[m].kind = "run_stopped"
  BY <1>2 DEF LastStops
<1>4. list = [i \in 1..m |-> Sanitize(R[i])] /\ Len(list) = m
  BY <1>1
<1>5. \A i \in 1..m : list[i].kind = R[i].kind
  BY <1>4 DEF Sanitize
<1>6. I = J
  <2> HIDE DEF list, m, R
  <2> QED BY <1>4, <1>5 DEF m
<1>7. I \subseteq 0..m /\ m \in I
  BY <1>1, <1>2, <1>3
<1> HIDE DEF I, J
<1>8. Max(I) = m /\ I # {} /\ m # 0
  <2>1. I # {} /\ m # 0
    BY <1>2, <1>7
  <2> HIDE DEF m, R
  <2> QED BY <1>1, <1>7, <2>1, MaxIs
<1>9. Snapshot(R) = LET last == IF J # {} THEN Max(J) ELSE 0
                    IN  [status |-> IF last = 0 THEN None ELSE list[last].status,
                         completed |-> IF last = 0 THEN 0 ELSE list[last].at, events |-> list]
  BY DEF Snapshot, SelectLastInSeq, J
<1>10. RunTiming(R).completed
         = LET last == IF I # {} THEN Max(I) ELSE 0 IN IF last = 0 THEN 0 ELSE R[last].at
  BY DEF RunTiming, LastAt, SelectLastInSeq, I
<1>11. list[m].status = R[m].status /\ list[m].at = R[m].at
  BY <1>2, <1>4 DEF Sanitize
<1> HIDE DEF list, m, R
<1>12. trace.status = list[m].status /\ trace.completed = list[m].at
  BY <1>6, <1>8, <1>9 DEF R
<1>13. RunTiming(ResultEvents).completed = R[m].at
  BY <1>8, <1>10 DEF R
<1> QED BY <1>2, <1>11, <1>12, <1>13 DEF Last

(* The trace counts the steps of the record, and the one the run was       *)
(* stopped in.                                                             *)
LEMMA StepsAgree ==
  ASSUME EventsInv, NEW trace, trace = Snapshot(ResultEvents)
  PROVE  StepCount(trace) \in {Len(steps), Len(steps) + 1}
<1> DEFINE R == ResultEvents
           m == Len(R)
           k == Len(steps)
           S == {0} \cup {e.step : e \in Range(trace.events)}
<1>1. k \in Nat /\ Index = k + 1
  BY ListIs DEF EventsInv, Index
<1>2. Range(trace.events) = {Sanitize(R[i]) : i \in 1..m}
  BY TraceIs DEF EventsInv
<1>3. S = {0} \cup {R[i].step : i \in 1..m}
  <2> DEFINE T == Range(trace.events)
             U == {R[i].step : i \in 1..m}
  <2>1. \A i \in 1..m : Sanitize(R[i]).step = R[i].step
    BY DEF Sanitize
  <2> HIDE DEF m, R
  <2>2. {e.step : e \in T} = U
    BY <1>2, <2>1
  <2> QED BY <2>2
<1>4. PICK f : Places(f)
  BY ResultEventsAre DEF EventsInv
<1>5. \A i \in 1..m : R[i].step \in 0..Index
  BY <1>4 DEF Places, EventsInv, EventOf
<1>6. ASSUME NEW j \in 1..Len(events), Kept(events[j]) PROVE events[j].step \in S
  <2>1. PICK i \in 1..m : R[i] = events[j]
    BY <1>4, <1>6 DEF Places
  <2> QED BY <1>3, <2>1
<1>7. k \in S
  <2>1. CASE k = 0
    BY <2>1
  <2>2. CASE k # 0
    <3>1. k \in 1..k
      BY <1>1, <2>2
    <3>2. Traced(k)
      BY <3>1 DEF EventsInv
    <3>3. PICK j \in 1..Len(events) : Kept(events[j]) /\ events[j].step = k
      BY <3>2 DEF Traced, Begins, Kept
    <3> QED BY <1>6, <3>3
  <2> QED BY <2>1, <2>2
<1>8. S \subseteq 0..(k + 1)
  <2>1. \A x \in S : x = 0 \/ \E i \in 1..m : x = R[i].step
    BY <1>3
  <2> HIDE DEF S, R, m
  <2>2. \A x \in S : x \in 0..(k + 1)
    BY <1>1, <1>5, <2>1
  <2> QED BY <2>2
<1> HIDE DEF S, k, R, m
<1>9. CASE k + 1 \in S
  BY <1>1, <1>8, <1>9, MaxIs DEF StepCount, S, k
<1>10. CASE k + 1 \notin S
  <2>1. S \subseteq 0..k
    BY <1>1, <1>8, <1>10
  <2> QED BY <1>1, <1>7, <2>1, MaxIs DEF StepCount, S, k
<1> QED BY <1>9, <1>10

(* Events of the trace that have an output, and what ended there.          *)
LEMMA EndedIs ==
  ASSUME EventsInv, NEW f, Places(f), NEW i \in 1..Len(ResultEvents),
         NEW e, e = ResultEvents[i], e.results # {}
  PROVE  /\ f[i] \in 1..Len(events) /\ e = events[f[i]] /\ Ends(e) /\ e.at = f[i]
         /\ e.step \in 1..Len(steps)
         /\ steps[e.step].results = e.results /\ steps[e.step].calls = <<e.call>>
<1>1. f[i] \in 1..Len(events) /\ e = events[f[i]]
  BY DEF Places
<1>2. Ends(e)
  BY DEF Ends
<1>3. EventOf(e, f[i])
  BY <1>1 DEF EventsInv
<1> QED BY <1>1, <1>2, <1>3 DEF EventOf

LEMMA SanitizeIs ==
  ASSUME NEW e, NEW d, d = Sanitize(e)
  PROVE  d.tool = e.call.tool /\ (d.outputs # {} <=> e.results # {})
<1> DEFINE Output(r) == [succeeded |-> r.succeeded, error |-> r.error, truncated |-> r.truncated,
                         chars |-> Length(r.content), fingerprint |-> Fingerprint(r.content)]
<1>1. d.tool = e.call.tool /\ d.outputs = {Output(r) : r \in e.results}
  BY DEF Sanitize
<1> HIDE DEF Output
<1> QED BY <1>1

(* The calls of one tool in the trace and in the record.                   *)
LEMMA CallsAgree ==
  ASSUME StepsInv, EventsInv, NEW trace, trace = Snapshot(ResultEvents), NEW tool
  PROVE  ToolSummary(trace, tool).calls
           = Cardinality({s \in Range(steps) : s.results # {} /\ s.calls[1].tool = tool})
<1> DEFINE R == ResultEvents
           m == Len(R)
           A == {i \in 1..m : R[i].call.tool = tool /\ R[i].results # {}}
           B == {s \in Range(steps) : s.results # {} /\ s.calls[1].tool = tool}
           h == [i \in A |-> steps[R[i].step]]
<1>1. IsList(events) /\ m \in Nat /\ Range(steps) = {steps[i] : i \in 1..Len(steps)}
  BY ResultEventsAre, ListIs DEF EventsInv
<1>2. ToolSummary(trace, tool).calls = Cardinality(A)
  <2>1. /\ DOMAIN trace.events = 1..m
        /\ \A i \in 1..m : trace.events[i] = Sanitize(R[i])
    BY <1>1, TraceIs
  <2>2. \A i \in 1..m : /\ trace.events[i].tool = R[i].call.tool
                        /\ trace.events[i].outputs # {} <=> R[i].results # {}
    <3> HIDE DEF m, R
    <3> QED BY <2>1, SanitizeIs
  <2>3. {i \in DOMAIN trace.events :
           trace.events[i].tool = tool /\ trace.events[i].outputs # {}} = A
    <3> HIDE DEF m, R
    <3> QED BY <2>1, <2>2
  <2> HIDE DEF A
  <2> QED BY <2>3 DEF ToolSummary
<1>3. PICK f : Places(f)
  BY <1>1, ResultEventsAre
<1>4. IsFiniteSet(A)
  <2>1. IsFiniteSet(1..m)
    BY <1>1, FS_Interval
  <2> QED BY <2>1, FS_Subset
<1>5. ASSUME NEW i \in A
      PROVE  /\ i \in 1..m /\ f[i] \in 1..Len(events) /\ R[i] = events[f[i]] /\ Ends(R[i])
             /\ R[i].step \in 1..Len(steps) /\ steps[R[i].step].results # {}
             /\ steps[R[i].step].calls[1] = R[i].call
  <2>1. i \in 1..m /\ R[i].results # {}
    OBVIOUS
  <2>2. /\ f[i] \in 1..Len(events) /\ R[i] = events[f[i]] /\ Ends(R[i])
        /\ R[i].step \in 1..Len(steps)
        /\ steps[R[i].step].results = R[i].results
        /\ steps[R[i].step].calls = <<R[i].call>>
    <3>1. f[i] \in 1..Len(events) /\ R[i] = events[f[i]]
      BY <1>3, <2>1 DEF Places
    <3>2. Ends(R[i]) /\ EventOf(R[i], f[i])
      BY <2>1, <3>1 DEF EventsInv, Ends
    <3> HIDE DEF A, R
    <3> QED BY <3>1, <3>2 DEF EventOf
  <2> HIDE DEF R, A, m
  <2> QED BY <2>1, <2>2
<1>6. h \in [A -> B]
  <2>1. ASSUME NEW i \in A PROVE steps[R[i].step] \in B
    <3>1. R[i].call.tool = tool
      OBVIOUS
    <3> HIDE DEF A, R, m
    <3> QED BY <1>1, <1>5, <3>1
  <2> HIDE DEF A, B, R
  <2> QED BY <2>1
<1>7. ASSUME NEW i \in A, NEW j \in A, h[i] = h[j] PROVE i = j
  <2>1. steps[R[i].step] = steps[R[j].step]
    BY <1>7
  <2>2. steps[R[i].step].index = R[i].step /\ steps[R[j].step].index = R[j].step
    BY <1>5, ShownIs
  <2>3. R[i].step = R[j].step
    BY <2>1, <2>2
  <2>4. f[i] = f[j]
    <3> HIDE DEF R, A, m
    <3>1. events[f[i]].step = events[f[j]].step /\ Ends(events[f[i]]) /\ Ends(events[f[j]])
      BY <1>5, <2>3
    <3> QED BY <1>5, <3>1, OneOfAStep
  <2>5. i \in 1..m /\ j \in 1..m /\ f[i] \in Nat
    BY <1>5
  <2>6. ~(i < j) /\ ~(j < i)
    <3> HIDE DEF A, h
    <3> QED BY <1>3, <2>4, <2>5 DEF Places
  <2> QED BY <1>1, <2>5, <2>6
<1>8. ASSUME NEW s \in B PROVE \E i \in A : h[i] = s
  <2>1. PICK k \in 1..Len(steps) : s = steps[k]
    BY <1>1
  <2>2. s.results # {} /\ s.calls[1].tool = tool
    OBVIOUS
  <2>3. PICK j \in 1..Len(events) : Ends(events[j]) /\ events[j].step = k
    BY <2>1, <2>2 DEF EventsInv, Traced
  <2>4. EventOf(events[j], j)
    BY DEF EventsInv
  <2>5. /\ events[j].kind \in {"tool_completed", "tool_failed"}
        /\ steps[k].calls = <<events[j].call>> /\ steps[k].results = events[j].results
    BY <2>3, <2>4 DEF EventOf
  <2>6. Kept(events[j])
    BY <2>5 DEF Kept
  <2>7. PICK i \in 1..m : f[i] = j
    BY <1>3, <2>6 DEF Places
  <2>8. R[i] = events[j]
    BY <1>3, <2>7 DEF Places
  <2>9. i \in A
    BY <2>1, <2>2, <2>5, <2>8
  <2> HIDE DEF A
  <2>10. h[i] = steps[R[i].step]
    BY <2>9
  <2> HIDE DEF h
  <2> QED BY <2>1, <2>3, <2>8, <2>9, <2>10
<1>9. h \in Bijection(A, B)
  <2> HIDE DEF h, A, B
  <2> QED BY <1>6, <1>7, <1>8 DEF Bijection, Injection, Surjection, IsInjective
<1>10. Cardinality(B) = Cardinality(A)
  <2> HIDE DEF h, A, B
  <2> QED BY <1>4, <1>9, FS_Bijection DEF ExistsBijection
<1> QED BY <1>2, <1>10

(* One output for one input.                                               *)
LEMMA OutputsAgree ==
  ASSUME StepsInv, CacheInv, EventsInv, NEW trace, trace = Snapshot(ResultEvents),
         NEW d \in Range(trace.events), NEW e \in Range(trace.events),
         d.outputs # {}, e.outputs # {}, d.at < e.at, d.tool = e.tool,
         d.arguments = e.arguments, \E o \in d.outputs : o.succeeded
  PROVE  d.outputs = e.outputs
<1> DEFINE R == ResultEvents
           Output(r) == [succeeded |-> r.succeeded, error |-> r.error, truncated |-> r.truncated,
                         chars |-> Length(r.content), fingerprint |-> Fingerprint(r.content)]
<1>1. IsList(events) /\ Range(trace.events) = {Sanitize(R[i]) : i \in 1..Len(R)}
  BY TraceIs DEF EventsInv
<1>2. PICK i \in 1..Len(R) : d = Sanitize(R[i])
  BY <1>1
<1>3. PICK j \in 1..Len(R) : e = Sanitize(R[j])
  BY <1>1
<1> DEFINE x == R[i]
           y == R[j]
<1>4. /\ d.at = x.at /\ d.tool = x.call.tool /\ d.outputs = {Output(r) : r \in x.results}
      /\ d.arguments = IF x.call = NoCall THEN {}
                       ELSE {[count |-> Len(x.call.arguments.fields),
                              fingerprint |-> Fingerprint(x.call.arguments)]}
  BY <1>2 DEF Sanitize
<1>5. /\ e.at = y.at /\ e.tool = y.call.tool /\ e.outputs = {Output(r) : r \in y.results}
      /\ e.arguments = IF y.call = NoCall THEN {}
                       ELSE {[count |-> Len(y.call.arguments.fields),
                              fingerprint |-> Fingerprint(y.call.arguments)]}
  BY <1>3 DEF Sanitize
<1>6. PICK f : Places(f)
  BY <1>1, ResultEventsAre
<1>7. x.results # {} /\ y.results # {}
  BY <1>4, <1>5
<1>8. /\ f[i] \in 1..Len(events) /\ x = events[f[i]] /\ Ends(x) /\ x.at = f[i]
      /\ x.step \in 1..Len(steps)
      /\ steps[x.step].results = x.results /\ steps[x.step].calls = <<x.call>>
  BY <1>6, <1>7, EndedIs
<1>9. /\ f[j] \in 1..Len(events) /\ y = events[f[j]] /\ Ends(y) /\ y.at = f[j]
      /\ y.step \in 1..Len(steps)
      /\ steps[y.step].results = y.results /\ steps[y.step].calls = <<y.call>>
  BY <1>6, <1>7, EndedIs
<1> HIDE DEF x, y, R, Output
<1>10. x.step < y.step
  <2>1. InOrder(events[f[i]], events[f[j]])
    BY <1>4, <1>5, <1>8, <1>9 DEF EventsInv
  <2> QED BY <1>8, <1>9, <2>1 DEF InOrder
<1>11. Repeats(steps[x.step], steps[y.step])
  BY <1>8, <1>9, <1>10 DEF CacheInv
<1>12. PICK r : x.results = {r}
  <2>1. StepOf(steps[x.step], x.step, world, asked)
    BY <1>8 DEF StepsInv
  <2> QED BY <1>7, <1>8, <2>1 DEF StepOf
<1>13. PICK q : y.results = {q}
  <2>1. StepOf(steps[y.step], y.step, world, asked)
    BY <1>9 DEF StepsInv
  <2> QED BY <1>7, <1>9, <2>1 DEF StepOf
<1>14. x.call # NoCall /\ y.call # NoCall
  <2>1. \E c \in Decisions : steps[x.step].calls = <<c>>
    <3>1. <<x.call>> # <<>>
      OBVIOUS
    <3> QED BY <1>8, <3>1, ShownIs
  <2>2. \E c \in Decisions : steps[y.step].calls = <<c>>
    <3>1. <<y.call>> # <<>>
      OBVIOUS
    <3> QED BY <1>9, <3>1, ShownIs
  <2>3. x.call \in Decisions /\ y.call \in Decisions
    BY <1>8, <1>9, <2>1, <2>2
  <2> QED BY <2>3, DecisionsAssumption DEF NoCall
<1>15. x.call.tool = y.call.tool /\ x.call.arguments = y.call.arguments
  <2> DEFINE a == [count |-> Len(x.call.arguments.fields),
                   fingerprint |-> Fingerprint(x.call.arguments)]
             b == [count |-> Len(y.call.arguments.fields),
                   fingerprint |-> Fingerprint(y.call.arguments)]
  <2>1. d.arguments = {a} /\ e.arguments = {b}
    BY <1>4, <1>5, <1>14
  <2>2. a = b
    <3> HIDE DEF a, b
    <3> QED BY <2>1
  <2>3. a.fingerprint = Fingerprint(x.call.arguments)
        /\ b.fingerprint = Fingerprint(y.call.arguments)
    OBVIOUS
  <2> HIDE DEF a, b
  <2>4. Fingerprint(x.call.arguments) = Fingerprint(y.call.arguments)
    BY <2>2, <2>3
  <2> QED BY <1>4, <1>5, <2>4 DEF Fingerprint
<1>16. r.succeeded
  <2>1. Output(r).succeeded
    BY <1>4, <1>12
  <2> QED BY <2>1 DEF Output
<1>17. SameBody(r, q)
  BY <1>8, <1>9, <1>11, <1>12, <1>13, <1>15, <1>16 DEF Repeats
<1>18. Output(r) = Output(q)
  BY <1>17 DEF SameBody, Output
<1> QED BY <1>4, <1>5, <1>12, <1>13, <1>18

LEMMA TracesAgree ==
  ASSUME StepsInv, CacheInv, EventsInv, LastStops, NEW row,
         row.status = Last(events).status, row.timing = RunTiming(ResultEvents),
         Len(row.steps) = Len(steps)
  PROVE  TraceAgrees(row)
<1> DEFINE trace == Snapshot(ResultEvents)
           Good(e) == \E o \in e.outputs : o.succeeded
           ended == {e \in Range(trace.events) : e.outputs # {}}
<1>1. trace.status = row.status /\ trace.completed = row.timing.completed
  <2> HIDE DEF trace
  <2> QED BY VerdictsAgree DEF trace
<1>2. StepCount(trace) \in {Len(row.steps), Len(row.steps) + 1}
  <2> HIDE DEF trace
  <2> QED BY StepsAgree DEF trace
<1>3. ASSUME NEW tool
      PROVE  ToolSummary(trace, tool).calls
               = Cardinality({s \in Range(steps) : s.results # {} /\ s.calls[1].tool = tool})
  <2> HIDE DEF trace
  <2> QED BY CallsAgree, Zenon DEF trace
<1>4. ASSUME NEW d \in ended, NEW e \in ended, d.at < e.at, d.tool = e.tool,
             d.arguments = e.arguments, Good(d)
      PROVE  d.outputs = e.outputs
  <2>1. /\ d \in Range(trace.events) /\ e \in Range(trace.events)
        /\ d.outputs # {} /\ e.outputs # {} /\ \E o \in d.outputs : o.succeeded
    BY <1>4
  <2> HIDE DEF trace, Good, ended
  <2> QED BY <1>4, <2>1, OutputsAgree DEF trace
<1> HIDE DEF trace
<1>5. TraceAgrees(row)
        <=> /\ trace.status = row.status /\ trace.completed = row.timing.completed
            /\ StepCount(trace) \in {Len(row.steps), Len(row.steps) + 1}
            /\ \A tool \in {c.tool : c \in Decisions} :
                 ToolSummary(trace, tool).calls
                   = Cardinality({s \in Range(steps) : s.results # {} /\ s.calls[1].tool = tool})
            /\ \A d, e \in ended :
                 (d.at < e.at /\ d.tool = e.tool /\ d.arguments = e.arguments /\ Good(d))
                   => d.outputs = e.outputs
  BY DEF TraceAgrees, trace
<1> HIDE DEF ended, Good
<1> QED BY <1>1, <1>2, <1>3, <1>4, <1>5

LEMMA RecordAgrees == TraceInv => LiveAgreesWithRecord
<1> SUFFICES ASSUME TraceInv, NEW payload \in record
             PROVE  LET row     == ProjectRunResponse(payload)
                        shown   == [i \in DOMAIN events |-> ToStreamEvent(events[i])]
                        results == {i \in DOMAIN shown : shown[i].outcome # NoOutcome}
                        calls(step) == UNION {Range(s.calls) :
                                         s \in {x \in Range(row.steps) : x.index = step}}
                    IN  /\ \A i \in results : \E c \in calls(shown[i].step) :
                             /\ c.call = shown[i].call /\ c.input = shown[i].input
                             /\ c.outcome = shown[i].outcome /\ c.timing.completed = shown[i].at
                        /\ \A s \in Range(row.steps) : \A c \in Range(s.calls) :
                             /\ c.timing.started = 0 => c.outcome = NoOutcome
                             /\ c.timing.started # 0 =>
                                  /\ events[c.timing.started].step = s.index
                                  /\ c.timing.started < c.timing.completed
                        /\ PublicRunSummary(payload).rag_reference_count = ReferenceCount(shown)
                        /\ TraceAgrees(row)
  BY DEF LiveAgreesWithRecord
<1> DEFINE row    == ProjectRunResponse(payload)
           shown  == [i \in DOMAIN events |-> ToStreamEvent(events[i])]
           Calls(step) == UNION {Range(s.calls) :
                            s \in {x \in Range(row.steps) : x.index = step}}
<1>1. StepsInv /\ CacheInv /\ EventsInv /\ CountInv /\ RecordInv
  BY DEF TraceInv
<1>2. LastStops /\ payload = ToResponse(Last(events).status, steps, ResultEvents)
  BY <1>1 DEF RecordInv
<1>3. /\ IsList(steps) /\ DOMAIN events = 1..Len(events)
  BY <1>1, ListIs DEF EventsInv
<1>4. /\ row.status = Last(events).status /\ row.timing = RunTiming(ResultEvents)
      /\ Len(row.steps) = Len(steps)
      /\ Range(row.steps) = {row.steps[i] : i \in 1..Len(steps)}
      /\ \A i \in 1..Len(steps) :
           /\ row.steps[i].index = steps[i].index
           /\ row.steps[i].calls = ToToolCallSummaries(steps[i], ResultEvents)
  <2> HIDE DEF row
  <2> QED BY <1>2, <1>3, StoredIs DEF row
<1>5. ASSUME NEW j \in DOMAIN shown, shown[j].outcome # NoOutcome
      PROVE  \E c \in Calls(shown[j].step) :
               /\ c.call = shown[j].call /\ c.input = shown[j].input
               /\ c.outcome = shown[j].outcome /\ c.timing.completed = shown[j].at
  <2>1. j \in 1..Len(events) /\ shown[j] = ToStreamEvent(events[j])
    BY <1>3
  <2> HIDE DEF shown, row
  <2>2. PICK i \in 1..Len(steps) : \E c :
           /\ shown[j].step = i /\ shown[j].at = j
           /\ ToToolCallSummaries(steps[i], ResultEvents) = <<c>>
           /\ c.call = shown[j].call /\ c.input = shown[j].input
           /\ c.outcome = shown[j].outcome /\ c.timing.completed = shown[j].at
    BY <1>1, <1>5, <2>1, FrameIs
  <2>3. PICK c :
           /\ shown[j].step = i /\ shown[j].at = j
           /\ ToToolCallSummaries(steps[i], ResultEvents) = <<c>>
           /\ c.call = shown[j].call /\ c.input = shown[j].input
           /\ c.outcome = shown[j].outcome /\ c.timing.completed = shown[j].at
    BY <2>2
  <2>4. c \in Range(<<c>>)
    BY DEF Range
  <2>5. steps[i].index = i
    BY <1>1, ShownIs
  <2>6. row.steps[i] \in Range(row.steps) /\ row.steps[i].index = i
        /\ row.steps[i].calls = <<c>>
    BY <1>4, <2>3, <2>5
  <2>7. c \in Calls(i)
    BY <2>4, <2>6
  <2> HIDE DEF Calls
  <2> QED BY <2>3, <2>7
<1>6. ASSUME NEW s \in Range(row.steps), NEW c \in Range(s.calls)
      PROVE  /\ c.timing.started = 0 => c.outcome = NoOutcome
             /\ c.timing.started # 0 => /\ events[c.timing.started].step = s.index
                                        /\ c.timing.started < c.timing.completed
  <2> HIDE DEF row
  <2>1. PICK i \in 1..Len(steps) : s = row.steps[i]
    BY <1>4
  <2>2. s.index = i /\ s.calls = ToToolCallSummaries(steps[i], ResultEvents)
    BY <1>1, <1>4, <2>1, ShownIs
  <2>3. s.calls # <<>>
    BY DEF Range
  <2>4. PICK b \in Decisions : steps[i].calls = <<b>> /\ s.calls = <<CallSummary(i, b)>>
    BY <1>1, <2>2, <2>3, ShownIs
  <2>5. c = CallSummary(i, b)
    <3> DEFINE d == CallSummary(i, b)
    <3> HIDE DEF d
    <3>1. s.calls = <<d>>
      BY <2>4 DEF d
    <3>2. c = d
      BY <3>1 DEF Range
    <3> QED BY <3>2 DEF d
  <2> QED BY <1>1, <2>2, <2>4, <2>5, TimeIs
<1>7. PublicRunSummary(payload).rag_reference_count = ReferenceCount(shown)
  <2> HIDE DEF shown
  <2> QED BY <1>1, <1>2, ReferencesAgree DEF shown
<1>8. TraceAgrees(row)
  <2> HIDE DEF row
  <2> QED BY <1>1, <1>2, <1>4, TracesAgree
<1> QED BY <1>5, <1>6, <1>7, <1>8

(* Live stream, record, history and trace tell one story of a run, also    *)
(* when the model repeats the ids of its calls, and when the run is        *)
(* stopped inside a call (_to_stream_event, _to_response,                  *)
(* public_run_summary, InMemoryRunTraceRecorder).                          *)
THEOREM LiveAndRecordAgree == TraceSpec => []LiveAgreesWithRecord
BY TraceInvariant, RecordAgrees, PTL
==============================================================================
