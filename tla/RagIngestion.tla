----------------------------- MODULE RagIngestion -----------------------------
(***************************************************************************)
(* Ingestion of knowledge-base documents: the upload handler, the          *)
(* in-memory RAGIngestionQueue of each application process with its single *)
(* consumer, RAGIngestionService.ingest_document, and the PostgreSQL       *)
(* document store that the processes share.                                *)
(*                                                                         *)
(* An upload names the task it creates and the document it may store.  A   *)
(* step of the consumer is one database round trip or one provider call.   *)
(***************************************************************************)
EXTENDS Naturals, Sequences, FiniteSets

CONSTANTS
  Uploads,       \* uploads, one ingestion task each
  Processes,     \* application processes, one queue each
  ProcessOf,     \* the process that serves an upload
  OwnerOf,       \* tenant of an upload
  NameOf,        \* file name
  ContentOf,     \* extracted text (its SHA-256)
  ModelOf,       \* embedding model and dimensions a process is configured with
  Unreadable,    \* uploads that do not parse, are too long or are malicious
  Ceiling,       \* max_documents of the tenant's plan
  QueueSize,     \* max_queue_size
  StopItem,      \* None: the item that ends the consumer
  Nobody

ASSUME UploadsFinite == IsFiniteSet(Uploads)
ASSUME ProcessAssumption == ProcessOf \in [Uploads -> Processes]
ASSUME StopAssumption == StopItem \notin Uploads /\ Nobody \notin Uploads
ASSUME SizeAssumption == QueueSize \in Nat \ {0} /\ Ceiling \in Nat

VARIABLES
  status,    \* what the task API reports; "counted" is an upload in its handler
  stage,     \* how far ingest_document has come with the document
  stored,    \* rag_documents: uploads whose document is in the store
  queue,     \* RAGIngestionQueue._queue
  consumer,  \* the consumer task
  server,    \* _accepting and _stop_requested
  lock       \* pg_advisory_xact_lock(hashtext('rag_embedding_config'))

vars == <<status, stage, stored, queue, consumer, server, lock>>

Unfinished == {"queued", "processing"}
Finished == {"completed", "failed"}
Statuses == {"new", "counted", "refused", "lost"} \cup Unfinished \cup Finished
InStore == {"locked", "modelOk", "contentOk", "nameOk"}
Stages == {"none", "parsed", "nameFree", "embedded", "saved"} \cup InStore

Init ==
  /\ status = [u \in Uploads |-> "new"]
  /\ stage = [u \in Uploads |-> "none"]
  /\ stored = {}
  /\ queue = [p \in Processes |-> << >>]
  /\ consumer = [p \in Processes |-> "absent"]
  /\ server = [p \in Processes |-> "new"]
  /\ lock = Nobody

Tasks(p) == {u \in Uploads : ProcessOf[u] = p}
Documents(o) == {u \in stored : OwnerOf[u] = o}

-----------------------------------------------------------------------------
(* The upload handler.                                                     *)

(* upload_rag_document compares the stored documents of the tenant with    *)
(* the ceiling of its plan.                                                *)
Count(u) ==
  /\ status[u] = "new" /\ server[ProcessOf[u]] \notin {"new", "dead"}
  /\ status' = [status EXCEPT ![u] =
       IF Cardinality(Documents(OwnerOf[u])) < Ceiling THEN "counted" ELSE "refused"]
  /\ UNCHANGED <<stage, stored, queue, consumer, server, lock>>

Running(p) == server[p] = "accepting" /\ consumer[p] \in {"waiting", "busy"}

(* Mutation: the task of a refused upload is kept.                         *)
SubmitKeepsTask(u) ==
  LET p == ProcessOf[u] IN
  /\ status[u] = "counted"
  /\ status' = [status EXCEPT ![u] = IF Running(p) THEN "queued" ELSE "refused"]
  /\ queue' = IF Running(p) /\ Len(queue[p]) < QueueSize
              THEN [queue EXCEPT ![p] = Append(@, u)] ELSE queue
  /\ UNCHANGED <<stage, stored, consumer, server, lock>>

(* RAGIngestionQueue.submit: a full queue forgets the task again.          *)
Submit(u) ==
  LET p == ProcessOf[u] IN
  /\ status[u] = "counted"
  /\ IF Running(p) /\ Len(queue[p]) < QueueSize
     THEN /\ status' = [status EXCEPT ![u] = "queued"]
          /\ queue' = [queue EXCEPT ![p] = Append(@, u)]
     ELSE /\ status' = [status EXCEPT ![u] = "refused"]
          /\ UNCHANGED queue
  /\ UNCHANGED <<stage, stored, consumer, server, lock>>

-----------------------------------------------------------------------------
(* The consumer.                                                           *)

(* An exception of ingest_document ends the task, not the consumer; the    *)
(* session it left rolls back and gives up the lock.                       *)
Failed(u) ==
  /\ status' = [status EXCEPT ![u] = "failed"]
  /\ stage' = [stage EXCEPT ![u] = "none"]
  /\ consumer' = [consumer EXCEPT ![ProcessOf[u]] = "waiting"]
  /\ lock' = IF lock = u THEN Nobody ELSE lock

Goes(u, from, to) ==
  /\ stage[u] = from
  /\ stage' = [stage EXCEPT ![u] = to]

(* One read of the transaction, or of the session before it: the document  *)
(* goes on when no stored document clashes with it.                        *)
Check(u, from, to, clash) ==
  /\ stage[u] = from
  /\ IF clash
     THEN Failed(u)
     ELSE Goes(u, from, to) /\ UNCHANGED <<status, consumer, lock>>
  /\ UNCHANGED <<stored, queue, server>>

(* _worker takes the next item.  Parsing, the safety rules and chunking    *)
(* run before the first await of ingest_document.                          *)
Take(p) ==
  /\ consumer[p] = "waiting" /\ queue[p] # << >>
  /\ queue' = [queue EXCEPT ![p] = Tail(@)]
  /\ LET u == Head(queue[p]) IN
     IF u = StopItem
     THEN /\ consumer' = [consumer EXCEPT ![p] = "done"]
          /\ UNCHANGED <<status, stage>>
     ELSE IF u \in Unreadable
     THEN /\ status' = [status EXCEPT ![u] = "failed"]
          /\ UNCHANGED <<stage, consumer>>
     ELSE /\ status' = [status EXCEPT ![u] = "processing"]
          /\ stage' = [stage EXCEPT ![u] = "parsed"]
          /\ consumer' = [consumer EXCEPT ![p] = "busy"]
  /\ UNCHANGED <<stored, server, lock>>

(* The documents of the tenant are listed in a session of their own.       *)
ListNames(u) ==
  Check(u, "parsed", "nameFree", \E d \in Documents(OwnerOf[u]) : NameOf[d] = NameOf[u])

Embed(u) ==
  /\ Goes(u, "nameFree", "embedded")
  /\ UNCHANGED <<status, stored, queue, consumer, server, lock>>

(* Mutation: add_document without the advisory lock.                       *)
LockConfigIgnored(u) ==
  /\ Goes(u, "embedded", "locked")
  /\ UNCHANGED <<status, stored, queue, consumer, server, lock>>

(* add_document begins its transaction with the advisory lock.             *)
LockConfig(u) ==
  /\ lock = Nobody
  /\ Goes(u, "embedded", "locked")
  /\ lock' = u
  /\ UNCHANGED <<status, stored, queue, consumer, server>>

CheckModel(u) ==
  Check(u, "locked", "modelOk",
        \E d \in stored : ModelOf[ProcessOf[d]] # ModelOf[ProcessOf[u]])

CheckContent(u) ==
  Check(u, "modelOk", "contentOk",
        \E d \in Documents(OwnerOf[u]) : ContentOf[d] = ContentOf[u])

CheckName(u) ==
  Check(u, "contentOk", "nameOk",
        \E d \in Documents(OwnerOf[u]) : NameOf[d] = NameOf[u])

(* The INSERTs of the document and its chunks are committed.  The unique   *)
(* constraints of the table never fire: UniqueDocuments.                   *)
Save(u) ==
  /\ Goes(u, "nameOk", "saved")
  /\ stored' = stored \cup {u}
  /\ lock' = Nobody
  /\ UNCHANGED <<status, queue, consumer, server>>

(* get_document_summary, then the task is COMPLETED.                       *)
Complete(u) ==
  /\ Goes(u, "saved", "none")
  /\ status' = [status EXCEPT ![u] = "completed"]
  /\ consumer' = [consumer EXCEPT ![ProcessOf[u]] = "waiting"]
  /\ UNCHANGED <<stored, queue, server, lock>>

(* The provider or the database fails the call in progress; the failure of *)
(* the summary comes after the document was committed.                     *)
CallFails(u) ==
  /\ stage[u] # "none"
  /\ Failed(u)
  /\ UNCHANGED <<stored, queue, server>>

-----------------------------------------------------------------------------
(* Documents, start, stop and crash.                                       *)

DeleteDocument(u) ==
  /\ u \in stored
  /\ stored' = stored \ {u}
  /\ UNCHANGED <<status, stage, queue, consumer, server, lock>>

Start(p) ==
  /\ server[p] = "new"
  /\ server' = [server EXCEPT ![p] = "accepting"]
  /\ consumer' = [consumer EXCEPT ![p] = "waiting"]
  /\ UNCHANGED <<status, stage, stored, queue, lock>>

(* Mutation: the discarded items stay in the queue.                        *)
StopKeepsQueue(p) ==
  /\ server[p] = "accepting"
  /\ server' = [server EXCEPT ![p] = "stopping"]
  /\ status' = [u \in Uploads |-> IF u \in Tasks(p) /\ status[u] = "queued"
                                  THEN "failed" ELSE status[u]]
  /\ queue' = [queue EXCEPT ![p] = Append(@, StopItem)]
  /\ UNCHANGED <<stage, stored, consumer, lock>>

(* Mutation: the consumer is not told to stop.                             *)
StopWithoutItem(p) ==
  /\ server[p] = "accepting"
  /\ server' = [server EXCEPT ![p] = "stopping"]
  /\ status' = [u \in Uploads |-> IF u \in Tasks(p) /\ status[u] = "queued"
                                  THEN "failed" ELSE status[u]]
  /\ queue' = [queue EXCEPT ![p] = << >>]
  /\ UNCHANGED <<stage, stored, consumer, lock>>

(* stop up to its await: queued work is discarded, then the stop item is   *)
(* put into the empty queue.                                               *)
Stop(p) ==
  /\ server[p] = "accepting"
  /\ server' = [server EXCEPT ![p] = "stopping"]
  /\ status' = [u \in Uploads |-> IF u \in Tasks(p) /\ status[u] = "queued"
                                  THEN "failed" ELSE status[u]]
  /\ queue' = [queue EXCEPT ![p] = <<StopItem>>]
  /\ UNCHANGED <<stage, stored, consumer, lock>>

(* stop returns; what is still unfinished is marked FAILED.                *)
Stopped(p) ==
  /\ server' = [server EXCEPT ![p] = "stopped"]
  /\ status' = [u \in Uploads |-> IF u \in Tasks(p) /\ status[u] \in Unfinished
                                  THEN "failed" ELSE status[u]]

StopReturns(p) ==
  /\ server[p] = "stopping" /\ consumer[p] = "done"
  /\ Stopped(p)
  /\ UNCHANGED <<stage, stored, queue, consumer, lock>>

(* stop is cancelled while it awaits the consumer, and cancels it.         *)
Interrupted(p) ==
  /\ stage' = [u \in Uploads |-> IF u \in Tasks(p) THEN "none" ELSE stage[u]]
  /\ consumer' = [consumer EXCEPT ![p] = "done"]
  /\ lock' = IF lock \in Tasks(p) THEN Nobody ELSE lock

StopCancelled(p) ==
  /\ server[p] = "stopping" /\ consumer[p] # "done"
  /\ Interrupted(p)
  /\ Stopped(p)
  /\ UNCHANGED <<stored, queue>>

(* The process dies: its queue and its tasks are gone, PostgreSQL rolls    *)
(* back the open transaction.                                              *)
Crash(p) ==
  /\ server[p] # "dead"
  /\ server' = [server EXCEPT ![p] = "dead"]
  /\ Interrupted(p)
  /\ queue' = [queue EXCEPT ![p] = << >>]
  /\ status' = [u \in Uploads |-> IF u \in Tasks(p) /\ status[u] # "new"
                                  THEN "lost" ELSE status[u]]
  /\ UNCHANGED stored

Ingest(u) ==
  \/ ListNames(u) \/ Embed(u) \/ LockConfig(u)
  \/ CheckModel(u) \/ CheckContent(u) \/ CheckName(u)
  \/ Save(u) \/ Complete(u)

Next ==
  \/ \E u \in Uploads :
       Count(u) \/ Submit(u) \/ Ingest(u) \/ CallFails(u) \/ DeleteDocument(u)
  \/ \E p \in Processes :
       \/ Start(p) \/ Take(p)
       \/ Stop(p) \/ StopReturns(p) \/ StopCancelled(p) \/ Crash(p)

Spec == Init /\ [][Next]_vars

(* The event loop runs the consumer and the stopping task; calls to the    *)
(* provider and the database return or fail; the lock is handed over.      *)
FairSpec ==
  /\ Spec
  /\ \A u \in Uploads : WF_vars(Ingest(u)) /\ SF_vars(LockConfig(u))
  /\ \A p \in Processes : WF_vars(Take(p)) /\ WF_vars(StopReturns(p))

-----------------------------------------------------------------------------
(* Properties.                                                             *)

TypeOK ==
  /\ status \in [Uploads -> Statuses]
  /\ stage \in [Uploads -> Stages]
  /\ stored \subseteq Uploads
  /\ queue \in [Processes -> Seq(Uploads \cup {StopItem})]
  /\ consumer \in [Processes -> {"absent", "waiting", "busy", "done"}]
  /\ server \in [Processes -> {"new", "accepting", "stopping", "stopped", "dead"}]
  /\ lock \in Uploads \cup {Nobody}

(* One knowledge base, one embedding space: processes configured with      *)
(* different models never both store documents, however their transactions *)
(* interleave with each other, with deletions and with crashes             *)
(* (add_document reads the models, then inserts).                          *)
OneEmbeddingModel ==
  \A d, e \in stored : ModelOf[ProcessOf[d]] = ModelOf[ProcessOf[e]]

(* A tenant never has two documents of one name or of one content: the     *)
(* reads of add_document suffice, its unique constraints never fire.       *)
UniqueDocuments ==
  \A d, e \in stored :
    OwnerOf[d] = OwnerOf[e] /\ (NameOf[d] = NameOf[e] \/ ContentOf[d] = ContentOf[e])
      => d = e

(* The store stays one that a search can use: vectors of one model, no     *)
(* document twice.                                                         *)
StoreConsistent == OneEmbeddingModel /\ UniqueDocuments

(* What the task API once reported as COMPLETED or FAILED it never reports *)
(* as anything else while the process lives: stop, its cancellation and    *)
(* the consumer do not overwrite each other's verdicts.                    *)
VerdictIsFinal ==
  [][\A u \in Uploads :
       status[u] \in Finished => status'[u] \in {status[u], "lost"}]_vars

(* Tasks and queue agree: what is QUEUED is in the queue of its process    *)
(* exactly once, what is PROCESSING is in the hands of the one consumer,   *)
(* nothing else is; a refused upload leaves neither a task nor an item.    *)
QueueMatchesTasks ==
  \A p \in Processes :
    LET items == {i \in DOMAIN queue[p] : queue[p][i] # StopItem} IN
    /\ Len(queue[p]) <= QueueSize
    /\ {queue[p][i] : i \in items} = {u \in Tasks(p) : status[u] = "queued"}
    /\ Cardinality(items) = Cardinality({u \in Tasks(p) : status[u] = "queued"})
    /\ LET busy == {u \in Tasks(p) : status[u] = "processing"} IN
       /\ Cardinality(busy) = IF consumer[p] = "busy" THEN 1 ELSE 0
       /\ \A u \in Tasks(p) : stage[u] # "none" <=> u \in busy

(* Every accepted task gets its verdict and every stop returns, whatever   *)
(* the consumer is doing when the shutdown begins.  An upload is submitted *)
(* and a process stopped once, so that this is one state that is reached   *)
(* and kept.                                                               *)
QueuesDrain ==
  <>[](/\ \A u \in Uploads : status[u] \notin {"queued", "processing"}
       /\ \A p \in Processes : server[p] # "stopping")

(* "Refuse queueing beyond the plan's max_documents": no tenant gets more  *)
(* documents than its plan allows.                                         *)
CeilingRespected ==
  \A u \in Uploads : Cardinality(Documents(OwnerOf[u])) <= Ceiling

-----------------------------------------------------------------------------
(* The inductive invariant behind OneEmbeddingModel and UniqueDocuments.   *)

(* A document in the store transaction holds the lock.                     *)
LockHeld == \A u \in Uploads : stage[u] \in InStore => lock = u

(* What a read of the transaction has established stays true.              *)
ReadsHold ==
  \A u \in Uploads :
    /\ stage[u] \in {"modelOk", "contentOk", "nameOk"} =>
         \A d \in stored : ModelOf[ProcessOf[d]] = ModelOf[ProcessOf[u]]
    /\ stage[u] \in {"contentOk", "nameOk"} =>
         \A d \in Documents(OwnerOf[u]) : ContentOf[d] # ContentOf[u]
    /\ stage[u] = "nameOk" =>
         \A d \in Documents(OwnerOf[u]) : NameOf[d] # NameOf[u]

(* What the queue and the consumer hold has no verdict yet, and the queue  *)
(* holds nothing twice.                                                    *)
ItemsAreQueued ==
  \A p \in Processes : \A i \in 1..Len(queue[p]) :
    queue[p][i] # StopItem => /\ ProcessOf[queue[p][i]] = p
                              /\ status[queue[p][i]] = "queued"

ItemsAreDistinct ==
  \A p \in Processes : \A i, j \in 1..Len(queue[p]) :
    queue[p][i] # StopItem /\ i # j => queue[p][i] # queue[p][j]

(* The consumer of a process works on one task at a time.                  *)
AtWork ==
  \A u \in Uploads : stage[u] # "none" =>
    /\ status[u] = "processing"
    /\ consumer[ProcessOf[u]] = "busy"
    /\ \A v \in Uploads : stage[v] # "none" /\ ProcessOf[v] = ProcessOf[u] => v = u

(* A queue that stops holds no task, one that was not started no consumer. *)
Drained ==
  \A p \in Processes :
    /\ server[p] = "new" => consumer[p] = "absent"
    /\ server[p] \in {"stopping", "stopped", "dead"} =>
         \A i \in 1..Len(queue[p]) : queue[p][i] = StopItem

(* The inductive invariant behind VerdictIsFinal: a step that gives a      *)
(* verdict acts on a task that has none.                                   *)
VerdictInv ==
  TypeOK /\ ItemsAreQueued /\ ItemsAreDistinct /\ AtWork /\ Drained

(* Between its lock and its commit a document of add_document is alone in  *)
(* the store: nothing it has read is out of date when it is inserted.      *)
StoreInv ==
  TypeOK /\ LockHeld /\ ReadsHold /\ OneEmbeddingModel /\ UniqueDocuments
=============================================================================
