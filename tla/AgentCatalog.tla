---------------------------- MODULE AgentCatalog ----------------------------
(***************************************************************************)
(* The agent definitions of a workspace, the prompt templates they refer   *)
(* to and the tools they are bound to (app/agent_config, app/prompts and   *)
(* their endpoints), over PostgreSQL.                                      *)
(*                                                                         *)
(* A request is a sequence of transactions.  What it has read and decided  *)
(* is kept in client[c] until the next one.  There is one template name,   *)
(* with rows of the workspace and global rows (workspace_id NULL), and one *)
(* agent id, which a creation uses once.                                   *)
(***************************************************************************)
EXTENDS Integers, Sequences, FiniteSets, FiniteSetsExt

CONSTANTS
  Clients,      \* requests that are served at the same time
  Tools,        \* the tool registry
  MaxVersions   \* bound: rows of the template

ASSUME CatalogAssumption == MaxVersions \in Nat \ {0}

VARIABLES
  prompts,    \* rows of prompt_templates
  agent,      \* the row of agents, or NoAgent
  used,       \* the agent's id has been given away
  bound,      \* rows of agent_tools, as tools
  override,   \* rows of workspace_tools: "on", "off", or "none"
  client      \* what a request keeps between two transactions

catalogVars == <<prompts, agent, used, bound, override, client>>

Scopes  == {"workspace", "global"}
NoAgent == [ref |-> "none", pin |-> 0, enabled |-> FALSE]
Idle    == [op |-> "idle"]

-----------------------------------------------------------------------------
(* PostgresPromptRepository.                                               *)

(* find_active, and the fallback to the global row: at most one of the     *)
(* rows comes back.                                                        *)
FindActive(rows, scope) == {r \in rows : r.scope = scope /\ r.active}

(* find_by_name_and_version.                                               *)
FindByNameAndVersion(rows, scope, version) ==
  {r \in rows : r.scope = scope /\ r.version = version}

(* list_versions.                                                          *)
ListVersions(rows, scope) == {r \in rows : r.scope = scope}

Row(rows, scope, version, active) ==
  [scope |-> scope, version |-> version, active |-> active, id |-> Cardinality(rows) + 1]

(* seed: what is there already is not touched.                             *)
Seed(rows) ==
  IF FindByNameAndVersion(rows, "global", 1) # {} THEN rows
  ELSE rows \cup {Row(rows, "global", 1, TRUE)}

(* Mutation: the own row is written before the others are cleared.         *)
OnlyCleared(rows, seen, target) ==
  {[r EXCEPT !.active = @ /\ r.id \notin seen] : r \in rows}

(* What the two UPDATEs of set_active leave: the first clears the rows it  *)
(* has seen, the second sets the target's flag.                            *)
OnlyActive(rows, seen, target) ==
  {[r EXCEPT !.active = r.id = target \/ (@ /\ r.id \notin seen)] : r \in rows}

-----------------------------------------------------------------------------
(* PromptRegistryService: the rows a reference can resolve to.             *)

(* render and resolve_version: the workspace's active row before the       *)
(* global one.                                                             *)
Render(rows) ==
  IF FindActive(rows, "workspace") # {} THEN FindActive(rows, "workspace")
  ELSE FindActive(rows, "global")

(* render_version.                                                         *)
RenderVersion(rows, version) ==
  IF FindByNameAndVersion(rows, "workspace", version) # {}
    THEN FindByNameAndVersion(rows, "workspace", version)
    ELSE FindByNameAndVersion(rows, "global", version)

(* split_prompt_ref, and _render_prompt_ref after it: "name" or "name@n".  *)
RenderPromptRef(rows, a) ==
  IF a.ref = "pinned" THEN RenderVersion(rows, a.pin) ELSE Render(rows)

(* _validate_prompt_ref: an agent without a reference is valid.            *)
ValidatePromptRef(rows, a) == a.ref = "none" \/ RenderPromptRef(rows, a) # {}

CatalogInit ==
  /\ prompts = Seed({})
  /\ agent = NoAgent /\ used = FALSE /\ bound = {}
  /\ override = [t \in Tools |-> "none"]
  /\ client = [c \in Clients |-> Idle]

Keep(c, state) == client' = [client EXCEPT ![c] = state]

(* create_version reads the versions there are ...                         *)
CreateVersion(c, scope) ==
  /\ client[c] = Idle
  /\ Cardinality(prompts) + Cardinality({d \in Clients : client[d].op = "create_version"})
       < MaxVersions
  /\ Keep(c, [op |-> "create_version", scope |-> scope,
              version |-> 1 + Max({0} \cup {r.version : r \in ListVersions(prompts, scope)})])
  /\ UNCHANGED <<prompts, agent, used, bound, override>>

(* ... and inserts the next.  uq_prompt_ws_name_version refuses a second   *)
(* one in the workspace; NULLs are distinct, so that it does not among the *)
(* global rows.                                                            *)
InsertVersion(c) ==
  /\ client[c].op = "create_version"
  /\ LET v == client[c].version
         s == client[c].scope
     IN  prompts' = IF s = "workspace" /\ FindByNameAndVersion(prompts, s, v) # {} THEN prompts
                    ELSE prompts \cup {Row(prompts, s, v, FALSE)}
  /\ Keep(c, Idle)
  /\ UNCHANGED <<agent, used, bound, override>>

(* set_active selects the target, 404 when there is none, and starts the   *)
(* UPDATE of all rows of the name, which sees those committed by now: the  *)
(* rows themselves never go away, so the two statements are one step.      *)
Activate(c, scope, version) ==
  /\ client[c] = Idle
  /\ \E target \in FindByNameAndVersion(prompts, scope, version) :
       Keep(c, [op |-> "activate", scope |-> scope, target |-> target.id,
                seen |-> {r.id : r \in ListVersions(prompts, scope)}])
  /\ UNCHANGED <<prompts, agent, used, bound, override>>

(* The UPDATE gets the locks of the rows it has seen, on which it may have *)
(* waited for other activations, and works on what these have left; the    *)
(* target is written and the transaction commits.                          *)
SetActive(c) ==
  /\ client[c].op = "activate"
  /\ prompts' = OnlyActive(prompts, client[c].seen, client[c].target)
  /\ Keep(c, Idle)
  /\ UNCHANGED <<agent, used, bound, override>>

(* The transaction rolls back: a deadlock of two UPDATEs, a lost           *)
(* connection.                                                             *)
ActivateFails(c) ==
  /\ client[c].op = "activate"
  /\ Keep(c, Idle)
  /\ UNCHANGED <<prompts, agent, used, bound, override>>

-----------------------------------------------------------------------------
(* AgentDefinitionService: tools.                                          *)

(* is_tool_enabled: the override, then the default of the registry's row.  *)
IsToolEnabled(t) == override[t] # "off"

(* set_tool_enabled.                                                       *)
SetToolEnabled(t, enabled) ==
  /\ override[t] # enabled
  /\ override' = [override EXCEPT ![t] = enabled]
  /\ UNCHANGED <<prompts, agent, used, bound, client>>

(* _validate_tool_names: a tool that is off is a 422, which undoes nothing *)
(* of what the request has done before.                                    *)
ValidateToolNames(c) ==
  /\ client[c].op = "tools"
  /\ Keep(c, IF \A t \in client[c].tools : IsToolEnabled(t)
               THEN [client[c] EXCEPT !.op = "bind"] ELSE Idle)
  /\ UNCHANGED <<prompts, agent, used, bound, override>>

(* set_agent_tools: the bindings are replaced; the foreign key refuses     *)
(* them when the agent is gone.                                            *)
SetAgentTools(c) ==
  /\ client[c].op = "bind"
  /\ bound' = IF agent = NoAgent THEN bound ELSE client[c].tools
  /\ Keep(c, Idle)
  /\ UNCHANGED <<prompts, agent, used, override>>

(* What follows the write of the row: the tools, when the request has any; *)
(* it has none or one set of them.                                         *)
ThenTools(c) ==
  IF client[c].request = {} THEN Keep(c, Idle)
  ELSE \E tools \in client[c].request : Keep(c, [op |-> "tools", tools |-> tools])

-----------------------------------------------------------------------------
(* AgentDefinitionService: agents.                                         *)

(* create_agent: the reference is validated ...                            *)
CreateAgent(c, definition, request) ==
  /\ client[c] = Idle /\ ~used
  /\ ValidatePromptRef(prompts, definition)
  /\ used' = TRUE
  /\ Keep(c, [op |-> "create_agent", row |-> definition, request |-> request])
  /\ UNCHANGED <<prompts, agent, bound, override>>

(* ... and the row is inserted, before the tools are looked at.            *)
InsertAgent(c) ==
  /\ client[c].op = "create_agent"
  /\ agent' = client[c].row
  /\ ThenTools(c)
  /\ UNCHANGED <<prompts, used, bound, override>>

(* update_agent: the row is read and changed in memory.                    *)
UpdateAgent(c, change, request) ==
  /\ client[c] = Idle /\ agent # NoAgent
  /\ LET row == [agent EXCEPT !.enabled = IF change.enabled = "keep" THEN @
                                           ELSE change.enabled = "on",
                              !.ref = IF change.ref = "keep" THEN @ ELSE change.ref,
                              !.pin = IF change.ref = "keep" THEN @ ELSE change.pin]
     IN  /\ change.ref = "keep" \/ ValidatePromptRef(prompts, row)
         /\ Keep(c, [op |-> "update_agent", row |-> row, request |-> request])
  /\ UNCHANGED <<prompts, agent, used, bound, override>>

(* Mutation: a row that is gone is put back.                               *)
UpsertAgentRow(c) ==
  /\ client[c].op = "update_agent"
  /\ agent' = client[c].row
  /\ ThenTools(c)
  /\ UNCHANGED <<prompts, used, bound, override>>

(* The whole row is written as it was read, but for the change; nothing    *)
(* when it is gone, and then the tools all the same.                       *)
UpdateAgentRow(c) ==
  /\ client[c].op = "update_agent"
  /\ agent' = IF agent = NoAgent THEN agent ELSE client[c].row
  /\ ThenTools(c)
  /\ UNCHANGED <<prompts, used, bound, override>>

(* delete_agent, with the bindings.                                        *)
DeleteAgent ==
  /\ agent # NoAgent
  /\ agent' = NoAgent /\ bound' = {}
  /\ UNCHANGED <<prompts, used, override, client>>

(* The changes a request asks for: a name, which is left out, the switch,  *)
(* the reference.                                                          *)
Changes ==
  {[ref |-> "keep", pin |-> 0, enabled |-> e] : e \in {"keep", "on", "off"}}
    \cup {[ref |-> "pinned", pin |-> 2, enabled |-> "keep"]}

Definitions ==
  {[ref |-> "active", pin |-> 0, enabled |-> TRUE],
   [ref |-> "pinned", pin |-> 1, enabled |-> TRUE]}

CatalogNext ==
  \/ \E c \in Clients :
       \/ \E s \in Scopes : CreateVersion(c, s)
       \/ \E d \in Definitions, request \in {{}, {Tools}} : CreateAgent(c, d, request)
       \/ \E d \in Changes, request \in {{}, {{}}, {Tools}} : UpdateAgent(c, d, request)
       \/ \E s \in Scopes, v \in 1..MaxVersions : Activate(c, s, v)
       \/ InsertVersion(c) \/ SetActive(c) \/ ActivateFails(c)
       \/ ValidateToolNames(c) \/ SetAgentTools(c)
       \/ InsertAgent(c) \/ UpdateAgentRow(c)
  \/ \E t \in Tools, e \in {"on", "off"} : SetToolEnabled(t, e)
  \/ DeleteAgent
=============================================================================
