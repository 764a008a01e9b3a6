------------------------------ MODULE Memories ------------------------------
(***************************************************************************)
(* Long-term memories (app/memory).  An item is [id, owner, kind, used],   *)
(* where kind stands for all that an update can change and used tells      *)
(* whether a run has been given it.                                        *)
(***************************************************************************)
EXTENDS Integers, Sequences, FiniteSets

(* resolve_memory_owner_scope: a user of a workspace has a scope of its    *)
(* own; a key without a user shares that of its tenant.                    *)
ResolveMemoryOwnerScope(workspace, user) ==
  IF user = "none" THEN <<workspace>> ELSE <<workspace, user>>

(* PostgresMemoryRepository.get.                                           *)
GetMemory(items, id, owner) == {m \in items : m.id = id /\ m.owner = owner}

(* PostgresMemoryRepository.list.                                          *)
ListMemories(items, owner) == {m \in items : m.owner = owner}

(* PostgresMemoryRepository.create.                                        *)
CreateMemory(items, id, owner) ==
  items \cup {[id |-> id, owner |-> owner, kind |-> "fact", used |-> FALSE]}

(* PostgresMemoryRepository.update: last_used_at is not written.           *)
UpdateMemory(items, id, owner, kind) ==
  {IF m.id = id /\ m.owner = owner THEN [m EXCEPT !.kind = kind] ELSE m : m \in items}

(* PostgresMemoryRepository.delete.                                        *)
DeleteMemory(items, id, owner) == items \ GetMemory(items, id, owner)

(* PostgresMemoryRepository.mark_used.                                     *)
MarkUsed(items, id, owner) ==
  {IF m.id = id /\ m.owner = owner THEN [m EXCEPT !.used = TRUE] ELSE m : m \in items}

(* _overlap_score, as whether the item shares a term with the message.     *)
Overlaps(m) == m.kind # "unrelated"

(* MemoryService.list_memories with a query, and retrieve_for_agent before *)
(* it marks what it returns: at most limit of the items that share a term, *)
(* or of them all for a message that has no terms.                         *)
Retrieve(items, owner, limit) ==
  LET all == ListMemories(items, owner)
      cut(found) == {s \in SUBSET found : Cardinality(s) = IF Cardinality(found) < limit
                                                            THEN Cardinality(found) ELSE limit}
  IN  cut(all) \cup cut({m \in all : Overlaps(m)})
=============================================================================
