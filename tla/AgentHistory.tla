---------------------------- MODULE AgentHistory ----------------------------
(***************************************************************************)
(* One streamed run of a defined agent, from the definition it starts from *)
(* to the version its record names, while the catalog, the tools and the   *)
(* memories are edited.                                                    *)
(*                                                                         *)
(* AgentService._run reads the definition, its bindings, the state of each *)
(* tool, the template and the memories one after the other; the runtime    *)
(* touches none of these, so that it is one step here (AgentRuntime and    *)
(* AgentTrace have its steps); _persist_agent_run then reads the agent and *)
(* the template again to say which version the run has used.               *)
(***************************************************************************)
EXTENDS AgentCatalog, Memories

CONSTANTS
  Users,         \* members of the workspace; the run is one of theirs
  MemoryIds,     \* ids of memories
  ContextLimit,  \* AGENT_MEMORY_CONTEXT_LIMIT
  MaxEdits       \* bound: transactions of the catalog's requests

ASSUME HistoryAssumption == ContextLimit \in Nat /\ MaxEdits \in Nat

VARIABLES
  memory,     \* rows of memory_items
  forgotten,  \* history: ids of deleted memories
  editor,     \* an update_memory between its read and its write
  run,        \* what the run has read
  recalled,   \* memories it has been given, and those still to be marked
  record,     \* the prompt_version of agent_run_records
  inForce,    \* history: versions in force since the run has read its agent
  overlapped, \* history: scopes in which a version was inserted into an activation
  edits       \* how many transactions of the catalog there were

memoryVars == <<memory, forgotten, editor>>
runVars    == <<run, recalled, record>>
ghostVars  == <<inForce, overlapped, edits>>
vars       == <<catalogVars, memoryVars, runVars, ghostVars>>

Owner(u)  == ResolveMemoryOwnerScope("w", u)
Runner    == CHOOSE u \in Users : TRUE
NoRecord  == [version |-> 0, saved |-> FALSE, failed |-> FALSE]
NoEdit    == [id |-> "none", owner |-> <<>>]
NewRun    == [at |-> "new", agent |-> NoAgent, unread |-> {}, tools |-> {}, version |-> 0]

Init ==
  /\ CatalogInit
  /\ memory = {} /\ forgotten = {} /\ editor = NoEdit
  /\ run = NewRun /\ recalled = [items |-> {}, unmarked |-> {}]
  /\ record = NoRecord
  /\ inForce = {} /\ overlapped = {} /\ edits = 0

-----------------------------------------------------------------------------
(* The memory endpoints.                                                   *)

AddMemory(id, u) ==
  /\ id \notin {m.id : m \in memory} \cup forgotten
  /\ memory' = CreateMemory(memory, id, Owner(u))
  /\ UNCHANGED <<forgotten, editor, catalogVars, runVars, ghostVars>>

(* update_memory: read, 404 when it is not there ...                       *)
EditMemory(id, u) ==
  /\ editor = NoEdit /\ GetMemory(memory, id, Owner(u)) # {}
  /\ editor' = [id |-> id, owner |-> Owner(u)]
  /\ UNCHANGED <<memory, forgotten, catalogVars, runVars, ghostVars>>

(* ... and written, if it still is.                                        *)
WriteMemory ==
  /\ editor # NoEdit
  /\ \E kind \in {"fact", "unrelated"} :
       memory' = UpdateMemory(memory, editor.id, editor.owner, kind)
  /\ editor' = NoEdit
  /\ UNCHANGED <<forgotten, catalogVars, runVars, ghostVars>>

RemoveMemory(id, u) ==
  /\ GetMemory(memory, id, Owner(u)) # {}
  /\ memory' = DeleteMemory(memory, id, Owner(u))
  /\ forgotten' = forgotten \cup {id}
  /\ UNCHANGED <<editor, catalogVars, runVars, ghostVars>>

-----------------------------------------------------------------------------
(* AgentService._run, before the runtime.                                  *)

At(place) == run.at = place

(* The versions that the reference of an agent resolves to: two when two   *)
(* versions are active, none when there is no agent.                       *)
InForce(rows, a) ==
  CASE a.ref = "pinned" -> {a.pin}
    [] a.ref = "active" -> {r.version : r \in Render(rows)}
    [] OTHER -> {0}

(* What an edit puts in force during a run: for the agent it leaves, and   *)
(* for a reference to the template that was read before.                   *)
ChangedTo(rows, a) ==
  IF run.at \in {"new", "refused", "done"} THEN {}
  ELSE IF rows # prompts THEN InForce(rows, a) \cup {r.version : r \in Render(rows)}
  ELSE InForce(rows, a)

(* get_agent: a 422 when it is absent or disabled.                         *)
StartRun ==
  /\ At("new") /\ agent # NoAgent
  /\ run' = IF agent.enabled THEN [run EXCEPT !.at = "tools", !.agent = agent]
                             ELSE [run EXCEPT !.at = "refused"]
  /\ inForce' = InForce(prompts, agent)
  /\ UNCHANGED <<recalled, record, catalogVars, memoryVars, overlapped, edits>>

(* get_agent_tools: without bindings the run has the whole registry.       *)
ReadBindings ==
  /\ At("tools")
  /\ run' = IF bound = {} THEN [run EXCEPT !.at = "prompt", !.tools = Tools]
                          ELSE [run EXCEPT !.at = "enabled", !.unread = bound]
  /\ UNCHANGED <<recalled, record, catalogVars, memoryVars, ghostVars>>

(* is_tool_enabled, for one tool after the other.                          *)
ReadTool(t) ==
  /\ At("enabled") /\ t \in run.unread
  /\ run' = [run EXCEPT !.unread = @ \ {t},
                        !.tools = IF IsToolEnabled(t) THEN @ \cup {t} ELSE @,
                        !.at = IF run.unread = {t} THEN "prompt" ELSE @]
  /\ UNCHANGED <<recalled, record, catalogVars, memoryVars, ghostVars>>

(* _render_agent_base_prompt: a reference that resolves to nothing is a    *)
(* 422.                                                                    *)
RenderAgentBasePrompt ==
  LET rows == RenderPromptRef(prompts, run.agent)
  IN  /\ At("prompt")
      /\ IF rows = {} THEN run' = [run EXCEPT !.at = "refused"]
         ELSE \E r \in rows : run' = [run EXCEPT !.at = "memory", !.version = r.version]
      /\ UNCHANGED <<recalled, record, catalogVars, memoryVars, ghostVars>>

(* retrieve_for_agent: the items, as many as the characters of the context *)
(* allow and one at least ...                                              *)
RetrieveForAgent ==
  /\ At("memory")
  /\ \E found \in Retrieve(memory, Owner(Runner), ContextLimit) : \E items \in SUBSET found :
       /\ found # {} => items # {}
       /\ recalled' = [items |-> items, unmarked |-> {m.id : m \in items}]
  /\ run' = [run EXCEPT !.at = "marking"]
  /\ UNCHANGED <<record, catalogVars, memoryVars, ghostVars>>

(* ... and their marks, one transaction each; one that is gone is skipped. *)
MarkMemory(id) ==
  /\ At("marking") /\ id \in recalled.unmarked
  /\ memory' = MarkUsed(memory, id, Owner(Runner))
  /\ recalled' = [recalled EXCEPT !.unmarked = @ \ {id}]
  /\ UNCHANGED <<run, record, forgotten, editor, catalogVars, ghostVars>>

(* The runtime runs, and touches none of this.                             *)
Execute ==
  /\ At("marking") /\ recalled.unmarked = {}
  /\ run' = [run EXCEPT !.at = "lookup"]
  /\ UNCHANGED <<recalled, record, catalogVars, memoryVars, ghostVars>>

-----------------------------------------------------------------------------
(* _persist_agent_run.                                                     *)

(* Mutation: the pin is overlooked.                                        *)
LookUpUnpinned ==
  /\ At("lookup")
  /\ run' = [run EXCEPT !.at = IF agent = NoAgent THEN "save" ELSE "resolve"]
  /\ UNCHANGED <<recalled, record, catalogVars, memoryVars, ghostVars>>

(* get_agent again; the version of a pinned reference is the pin, and an   *)
(* agent that is gone has none.                                            *)
LookUpAgent ==
  /\ At("lookup")
  /\ run' = [run EXCEPT !.at = IF agent.ref = "active" THEN "resolve" ELSE "save"]
  /\ record' = [record EXCEPT !.version = IF agent.ref = "pinned" THEN agent.pin ELSE 0]
  /\ UNCHANGED <<recalled, catalogVars, memoryVars, ghostVars>>

(* resolve_version: a version that is active now, if there is one.         *)
ResolveVersion ==
  /\ At("resolve")
  /\ IF Render(prompts) = {} THEN UNCHANGED record
     ELSE \E r \in Render(prompts) : record' = [record EXCEPT !.version = r.version]
  /\ run' = [run EXCEPT !.at = "save"]
  /\ UNCHANGED <<recalled, catalogVars, memoryVars, ghostVars>>

(* Either read may raise: the record is saved without a reference and      *)
(* without a version.                                                      *)
LookUpFails ==
  /\ At("lookup") \/ At("resolve")
  /\ record' = [record EXCEPT !.version = 0, !.failed = TRUE]
  /\ run' = [run EXCEPT !.at = "save"]
  /\ UNCHANGED <<recalled, catalogVars, memoryVars, ghostVars>>

(* AgentRunRecordService.save; a failure is logged and leaves no record.   *)
SaveRecord ==
  /\ At("save")
  /\ \/ record' = [record EXCEPT !.saved = TRUE]
     \/ UNCHANGED record
  /\ run' = [run EXCEPT !.at = "done"]
  /\ UNCHANGED <<recalled, catalogVars, memoryVars, ghostVars>>

Run ==
  \/ StartRun \/ ReadBindings \/ RenderAgentBasePrompt \/ RetrieveForAgent \/ Execute
  \/ LookUpAgent \/ ResolveVersion \/ LookUpFails \/ SaveRecord
  \/ \E t \in Tools : ReadTool(t)
  \/ \E id \in MemoryIds : MarkMemory(id)

Remember ==
  \/ \E id \in MemoryIds, u \in Users : AddMemory(id, u) \/ EditMemory(id, u) \/ RemoveMemory(id, u)
  \/ WriteMemory

(* A version is inserted into scope s while an activation there is open.   *)
InsertedInto(s) ==
  /\ \E r \in prompts' \ prompts : r.scope = s /\ r.id \notin {p.id : p \in prompts}
  /\ \E c \in Clients : client[c].op = "activate" /\ client[c].scope = s

Edit ==
  /\ edits < MaxEdits /\ edits' = edits + 1
  /\ CatalogNext
  /\ inForce' = inForce \cup ChangedTo(prompts', agent')
  /\ overlapped' = overlapped \cup {s \in Scopes : InsertedInto(s)}
  /\ UNCHANGED <<memoryVars, runVars>>

Next == Run \/ Remember \/ Edit

Spec == Init /\ [][Next]_vars

-----------------------------------------------------------------------------
(* Properties.                                                             *)

(* What a reference can rely on, however creations, activations, edits and *)
(* failures interleave: two versions of a scope are active at once only if *)
(* one was inserted while an activation was open (set_active clears the    *)
(* rows its UPDATE has seen), no two rows of the workspace have one number *)
(* (uq_prompt_ws_name_version), and a reference that was validated when    *)
(* the agent was written resolves whenever a run renders it.               *)
VersionsResolve ==
  /\ \A s \in Scopes \ overlapped : Cardinality(FindActive(prompts, s)) <= 1
  /\ \A r1, r2 \in ListVersions(prompts, "workspace") : r1.version = r2.version => r1 = r2
  /\ agent # NoAgent => RenderPromptRef(prompts, agent) # {}
  /\ run.at \in {"tools", "enabled", "prompt"} => RenderPromptRef(prompts, run.agent) # {}

(* ... and a scope that has an active version never is without one: an     *)
(* activation clears and sets in one transaction, so that no run falls     *)
(* back from the workspace's prompt to the global one.                     *)
ActiveStays ==
  [][\A s \in Scopes : FindActive(prompts, s) # {} => FindActive(prompts', s) # {}]_vars

VersionsUsable == []VersionsResolve /\ ActiveStays

(* The version is looked up again when the record is written.  Unless that *)
(* fails, the record names a version that was in force at some moment      *)
(* after the run had read its agent, by the reference the agent had or by  *)
(* the one the look-up read: never one from before the run, never one that *)
(* the workspace's own hides, and without an edit the one it was given.    *)
RecordNamesVersion ==
  record.saved => (record.failed /\ record.version = 0) \/ record.version \in inForce

(* "record the exact prompt version an agent executed with"                *)
(* (PromptRegistryService.resolve_version).                                *)
RecordIsExact ==
  (record.saved /\ ~record.failed) => record.version = run.version

(* One version of a scope is the active one.                               *)
OneActiveVersion ==
  \A s \in Scopes : Cardinality(FindActive(prompts, s)) <= 1

(* A deleted agent does not come back through an update that had read it   *)
(* before, and no binding outlives it.                                     *)
AgentStaysDeleted ==
  [][/\ (used /\ agent = NoAgent /\ agent' # NoAgent)
          => \E c \in Clients : client[c].op = "create_agent"
     /\ agent' = NoAgent => bound' = {}]_vars

(* A deleted memory does not come back through an update that had read it  *)
(* before, and a run is given memories of its own user only.               *)
ForgottenStaysForgotten ==
  /\ {m.id : m \in memory} \cap forgotten = {}
  /\ \A m \in recalled.items : m.owner = Owner(Runner)

(* Nothing that was deleted comes back, neither an agent nor a memory.     *)
DeletedStaysGone == AgentStaysDeleted /\ []ForgottenStaysForgotten
=============================================================================
