-------------------------- MODULE DefinitionProofs --------------------------
(***************************************************************************)
(* Proofs about the two parts that run what others may edit meanwhile: the *)
(* agents (AgentHistory) and the workflow builder (WorkflowBuilder), for   *)
(* every number of requests, users, tools, memories, template versions and *)
(* definitions.                                                            *)
(*                                                                         *)
(* HistoryInv says, of the template, that an open activation has seen the  *)
(* rows of its scope, all of them unless one was inserted meanwhile, so    *)
(* that it leaves its target as the only active one; of the agent, that    *)
(* whatever a request still has to write refers to a version there is,     *)
(* which stays there; of the run, that what is in force while it goes on   *)
(* was noted, so that the second look-up finds nothing else; and of the    *)
(* memories, that an id has one owner, so that a deletion leaves none of   *)
(* its id behind.                                                          *)
(*                                                                         *)
(* BuilderInv says what the unlocked read, check and write of the workflow *)
(* builder rely on: a record that was read keeps its validated definition, *)
(* a run's row runs until its request persists the outcome or breaks off,  *)
(* and nothing but the creation writes a row that is not there.            *)
(*                                                                         *)
(* KahnInv, of the order of the nodes: a node's degree counts the edges    *)
(* into it whose origin is not ordered yet, and those without any are      *)
(* ordered or ready, each once; so what is never ordered has a predecessor *)
(* that is not, and finitely many such nodes hold a cycle.  PathInv, of    *)
(* the run: what was executed comes after its predecessors, what is still  *)
(* to be run is closed under successors, and together they are the whole   *)
(* graph or the whole branch that the last condition chose.                *)
(***************************************************************************)
EXTENDS AgentHistory, WorkflowBuilder, FiniteSetTheorems, SequenceTheorems,
        WellFoundedInduction, TLAPS

AgentRows == [ref : {"active", "pinned"}, pin : Nat, enabled : BOOLEAN]

(* The rows of the template: an id each, one active row at most in a scope *)
(* in which no version was inserted into an activation.                    *)
RowShape(r) ==
  /\ r = [scope |-> r.scope, version |-> r.version, active |-> r.active, id |-> r.id]
  /\ r.active \in BOOLEAN

RowsInv ==
  /\ IsFiniteSet(prompts)
  /\ \A r \in prompts : RowShape(r) /\ r.id \in Nat /\ r.id <= Cardinality(prompts)
  /\ \A r1, r2 \in prompts : r1.id = r2.id => r1 = r2
  /\ \E r \in prompts : r.scope = "global" /\ r.active
  /\ \A r1, r2 \in ListVersions(prompts, "workspace") : r1.version = r2.version => r1 = r2

OneActive ==
  \A s \in Scopes \ overlapped : \A r1, r2 \in FindActive(prompts, s) : r1 = r2

(* An open activation has seen rows of its scope, its target is one of the *)
(* scope, and unless one was inserted it has seen all of them.             *)
Opened(a) ==
  /\ a.scope \in Scopes
  /\ \E r \in prompts : r.id = a.target /\ r.scope = a.scope
  /\ \A i \in a.seen : \E r \in prompts : r.id = i /\ r.scope = a.scope
  /\ a.scope \notin overlapped => \A r \in prompts : r.scope = a.scope => r.id \in a.seen

PromptsInv ==
  /\ RowsInv /\ OneActive
  /\ \A c \in Clients : client[c].op = "activate" => Opened(client[c])

(* What a request keeps between its transactions.                          *)
Kept(c) ==
  /\ client[c].op \in {"create_agent", "update_agent"} => client[c].row \in AgentRows
  /\ client[c].op = "tools" => client[c] = [op |-> "tools", tools |-> client[c].tools]

AgentInv ==
  /\ agent \in AgentRows \cup {NoAgent}
  /\ agent = NoAgent => bound = {}
  /\ client = [c \in Clients |-> client[c]]
  /\ \A c \in Clients : Kept(c)

(* What is, or still will be, the agent refers to a version there is.      *)
Resolvable(a) == RenderPromptRef(prompts, a) # {}

RefsInv ==
  /\ agent # NoAgent => Resolvable(agent)
  /\ \A c \in Clients :
       client[c].op \in {"create_agent", "update_agent"} => Resolvable(client[c].row)
  /\ run.at \in {"tools", "enabled", "prompt"} => Resolvable(run.agent)

(* The run and its record.                                                 *)
Going == {"tools", "enabled", "prompt", "memory", "marking", "lookup", "resolve", "save"}

Whole == run = [at |-> run.at, agent |-> run.agent, unread |-> run.unread,
                tools |-> run.tools, version |-> run.version]

RunShape ==
  /\ Whole
  /\ record = [version |-> record.version, saved |-> record.saved, failed |-> record.failed]
  /\ record.saved \in BOOLEAN
  /\ run.at \in Going \cup {"new", "refused", "done"}
  /\ record.saved => run.at = "done"

(* While the run goes on everything that is in force has been noted, also  *)
(* what a reference to the template resolves to once it was read.          *)
RunInv ==
  /\ run.at \in Going => InForce(prompts, agent) \subseteq inForce
  /\ run.at = "resolve" => \A r \in Render(prompts) : r.version \in inForce
  /\ run.at \in {"save", "done"} =>
       (record.failed /\ record.version = 0) \/ record.version \in inForce

(* The memories.                                                           *)
ItemShape(m) == m = [id |-> m.id, owner |-> m.owner, kind |-> m.kind, used |-> m.used]

MemoryInv ==
  /\ recalled = [items |-> recalled.items, unmarked |-> recalled.unmarked]
  /\ \A m \in memory : ItemShape(m)
  /\ \A m1, m2 \in memory : m1.id = m2.id => m1 = m2
  /\ ForgottenStaysForgotten

HistoryInv == PromptsInv /\ AgentInv /\ RefsInv /\ RunShape /\ RunInv /\ MemoryInv

-----------------------------------------------------------------------------
(* Prompts.                                                                *)

(* Only two transactions write the rows of the template.                   *)
LEMMA PromptWriters ==
  ASSUME [Next]_vars
  PROVE  \/ UNCHANGED prompts /\ overlapped \subseteq overlapped'
         \/ Edit /\ \E c \in Clients : InsertVersion(c) \/ SetActive(c)
<1>1. CASE Run
  BY <1>1 DEF Run, StartRun, ReadBindings, RenderAgentBasePrompt, RetrieveForAgent, Execute,
              LookUpAgent, ResolveVersion, LookUpFails, SaveRecord, ReadTool, MarkMemory,
              catalogVars, ghostVars
<1>2. CASE Remember
  BY <1>2 DEF Remember, AddMemory, EditMemory, RemoveMemory, WriteMemory, catalogVars, ghostVars
<1>3. CASE Edit
  <2>1. CatalogNext /\ overlapped \subseteq overlapped'
    BY <1>3 DEF Edit
  <2> QED
    BY <1>3, <2>1
    DEF CatalogNext, CreateVersion, CreateAgent, UpdateAgent, Activate, ActivateFails,
        ValidateToolNames, SetAgentTools, InsertAgent, UpdateAgentRow, SetToolEnabled,
        DeleteAgent
<1>4. CASE UNCHANGED vars
  BY <1>4 DEF vars, catalogVars, ghostVars
<1> QED BY <1>1, <1>2, <1>3, <1>4 DEF Next

(* An open activation is one that was open before, or was opened now.      *)
LEMMA OpenedBy ==
  ASSUME client = [c \in Clients |-> client[c]], \A c \in Clients : Kept(c), [Next]_vars,
         NEW d \in Clients, client'[d].op = "activate"
  PROVE  \/ client'[d] = client[d]
         \/ \E s \in Scopes, v \in 1..MaxVersions : Activate(d, s, v)
<1>0. ASSUME NEW c \in Clients, NEW state, Keep(c, state), state.op # "activate"
      PROVE  client'[d] = client[d]
  BY <1>0 DEF Keep
<1>a. Idle.op = "idle"
  BY DEF Idle
<1>1. CASE UNCHANGED client
  BY <1>1
<1>2. ASSUME NEW c \in Clients, NEW s \in Scopes, CreateVersion(c, s)
      PROVE  client'[d] = client[d]
  <2>1. PICK state : Keep(c, state) /\ state.op = "create_version"
    BY <1>2 DEF CreateVersion
  <2> QED BY <1>0, <2>1
<1>3. ASSUME NEW c \in Clients, NEW x, NEW request,
             CreateAgent(c, x, request) \/ UpdateAgent(c, x, request)
      PROVE  client'[d] = client[d]
  <2>1. PICK state : Keep(c, state) /\ state.op \in {"create_agent", "update_agent"}
    BY <1>3 DEF CreateAgent, UpdateAgent
  <2> QED BY <1>0, <2>1
<1>4. ASSUME NEW c \in Clients, InsertVersion(c) \/ SetActive(c) \/ ActivateFails(c)
                                 \/ SetAgentTools(c)
      PROVE  client'[d] = client[d]
  <2>1. Keep(c, Idle)
    BY <1>4 DEF InsertVersion, SetActive, ActivateFails, SetAgentTools
  <2> QED BY <1>0, <1>a, <2>1
<1>5. ASSUME NEW c \in Clients, ValidateToolNames(c)
      PROVE  client'[d] = client[d]
  <2>1. client[c] = [op |-> "tools", tools |-> client[c].tools]
    BY <1>5 DEF ValidateToolNames, Kept
  <2>2. PICK state : Keep(c, state) /\ state \in {Idle, [client[c] EXCEPT !.op = "bind"]}
    BY <1>5 DEF ValidateToolNames
  <2>3. [client[c] EXCEPT !.op = "bind"].op = "bind"
    BY <2>1
  <2>4. state.op \in {"idle", "bind"}
    BY <1>a, <2>2, <2>3
  <2> QED BY <1>0, <2>2, <2>4
<1>6. ASSUME NEW c \in Clients, InsertAgent(c) \/ UpdateAgentRow(c)
      PROVE  client'[d] = client[d]
  <2>0. ThenTools(c)
    BY <1>6 DEF InsertAgent, UpdateAgentRow
  <2>1. PICK state : /\ Keep(c, state)
                     /\ state = Idle \/ \E tools : state = [op |-> "tools", tools |-> tools]
    BY <2>0 DEF ThenTools
  <2>2. state.op \in {"idle", "tools"}
    BY <1>a, <2>1
  <2> QED BY <1>0, <2>1, <2>2
<1>7. ASSUME NEW c \in Clients, NEW s \in Scopes, NEW v \in 1..MaxVersions, Activate(c, s, v)
      PROVE  client'[d] = client[d] \/ Activate(d, s, v)
  BY <1>7 DEF Activate, Keep
<1>8. CASE CatalogNext
  BY <1>1, <1>2, <1>3, <1>4, <1>5, <1>6, <1>7, <1>8 DEF CatalogNext, SetToolEnabled, DeleteAgent
<1>9. CASE Run \/ Remember \/ UNCHANGED vars
  BY <1>1, <1>9
  DEF Run, StartRun, ReadBindings, RenderAgentBasePrompt, RetrieveForAgent, Execute,
      LookUpAgent, ResolveVersion, LookUpFails, SaveRecord, ReadTool, MarkMemory, Remember,
      AddMemory, EditMemory, RemoveMemory, WriteMemory, catalogVars, vars
<1> QED BY <1>8, <1>9 DEF Next, Edit

(* A row that is inserted is not active, and its number is new in the      *)
(* workspace.                                                              *)
Inserted(s, v, x) ==
  /\ x = [scope |-> s, version |-> v, active |-> FALSE, id |-> Cardinality(prompts) + 1]
  /\ prompts' = prompts \cup {x}
  /\ s = "workspace" => \A r \in prompts : ~(r.scope = s /\ r.version = v)

LEMMA InsertedRow ==
  ASSUME NEW c \in Clients, InsertVersion(c)
  PROVE  UNCHANGED prompts \/ \E s, v, x : Inserted(s, v, x)
<1>1. PICK s, v, x : /\ s = client[c].scope /\ v = client[c].version
                     /\ x = [scope |-> s, version |-> v, active |-> FALSE,
                             id |-> Cardinality(prompts) + 1]
  OBVIOUS
<1>2. \/ prompts' = prompts
      \/ /\ prompts' = prompts \cup {x}
         /\ s = "workspace" => \A r \in prompts : ~(r.scope = s /\ r.version = v)
  BY <1>1 DEF InsertVersion, Row, FindByNameAndVersion
<1>3. CASE prompts' # prompts
  <2>1. Inserted(s, v, x)
    BY <1>1, <1>2, <1>3 DEF Inserted
  <2> QED BY <2>1
<1> QED BY <1>3

LEMMA InsertKeeps ==
  ASSUME RowsInv, NEW s, NEW v, NEW x, Inserted(s, v, x)
  PROVE  /\ RowsInv'
         /\ prompts' = prompts \cup {x} /\ x.scope = s /\ x.active = FALSE
         /\ \A r \in prompts : r.id # x.id
<1>0. Cardinality(prompts) \in Nat
  BY FS_CardinalityType DEF RowsInv
<1>1. /\ x.scope = s /\ x.version = v /\ x.active = FALSE /\ RowShape(x)
      /\ x.id = Cardinality(prompts) + 1
  BY DEF RowShape, Inserted
<1>2. \A r \in prompts : RowShape(r) /\ r.id \in Nat /\ r.id <= Cardinality(prompts)
  BY DEF RowsInv
<1>3. \A r \in prompts : r.id # x.id
  BY <1>0, <1>1, <1>2
<1>4. IsFiniteSet(prompts') /\ Cardinality(prompts') = Cardinality(prompts) + 1
  BY <1>3, FS_AddElement DEF RowsInv, Inserted
<1>5. prompts' = prompts \cup {x}
  BY DEF Inserted
<1>6. \A r \in prompts' : RowShape(r) /\ r.id \in Nat /\ r.id <= Cardinality(prompts')
  BY <1>0, <1>1, <1>2, <1>4, <1>5
<1>7. \A r1, r2 \in prompts' : r1.id = r2.id => r1 = r2
  BY <1>3, <1>5 DEF RowsInv
<1>8. \E r \in prompts' : r.scope = "global" /\ r.active
  BY <1>5 DEF RowsInv
<1>9. \A r1, r2 \in ListVersions(prompts', "workspace") : r1.version = r2.version => r1 = r2
  <2>1. s = "workspace" => \A r \in prompts : ~(r.scope = s /\ r.version = v)
    BY DEF Inserted
  <2>2. \A r1, r2 \in prompts : r1.scope = "workspace" /\ r2.scope = "workspace"
                                 /\ r1.version = r2.version => r1 = r2
    BY DEF RowsInv, ListVersions
  <2>3. \A r1, r2 \in prompts' : r1.scope = "workspace" /\ r2.scope = "workspace"
                                  /\ r1.version = r2.version => r1 = r2
    BY <1>1, <1>5, <2>1, <2>2
  <2> QED BY <2>3 DEF ListVersions
<1> QED BY <1>1, <1>3, <1>4, <1>5, <1>6, <1>7, <1>8, <1>9 DEF RowsInv, ListVersions

(* set_active changes the flags only: those it has seen go, the target's   *)
(* is set.                                                                 *)
Twin(r, x) == x.scope = r.scope /\ x.version = r.version /\ x.id = r.id

LEMMA Activated ==
  ASSUME RowsInv, NEW c \in Clients, SetActive(c), Opened(client[c])
  PROVE  /\ RowsInv'
         /\ \A r \in prompts : \E x \in prompts' : Twin(r, x)
         /\ \A x \in prompts' : \E r \in prompts :
              /\ Twin(r, x)
              /\ x.active <=> (r.id = client[c].target \/ (r.active /\ r.id \notin client[c].seen))
         /\ \A s : FindActive(prompts, s) # {} => FindActive(prompts', s) # {}
<1>1. PICK scope, target, seen : /\ scope = client[c].scope /\ target = client[c].target
                                 /\ seen = client[c].seen
  OBVIOUS
<1> DEFINE New(r) == [r EXCEPT !.active = r.id = target \/ (@ /\ r.id \notin seen)]
<1>2. prompts' = {New(r) : r \in prompts}
  BY <1>1 DEF SetActive, OnlyActive
<1>3. ASSUME NEW r \in prompts
      PROVE  /\ Twin(r, New(r)) /\ RowShape(New(r))
             /\ New(r).active <=> (r.id = target \/ (r.active /\ r.id \notin seen))
  <2>1. PICK b \in BOOLEAN : b = (r.id = target \/ (r.active /\ r.id \notin seen))
    OBVIOUS
  <2>2. RowShape(r)
    BY DEF RowsInv
  <2>3. [r EXCEPT !.active = b] = [scope |-> r.scope, version |-> r.version, active |-> b,
                                   id |-> r.id]
    BY <2>2 DEF RowShape
  <2> QED BY <2>1, <2>3 DEF RowShape, Twin
<1> HIDE DEF New
<1>4. /\ \A r \in prompts : Twin(r, New(r)) /\ New(r) \in prompts'
      /\ \A x \in prompts' : RowShape(x) /\ \E r \in prompts : x = New(r) /\ Twin(r, x)
  BY <1>2, <1>3
<1>5. \A r1, r2 \in prompts : New(r1) = New(r2) => r1 = r2
  BY <1>4 DEF RowsInv, Twin
<1>6. IsFiniteSet(prompts') /\ Cardinality(prompts') = Cardinality(prompts)
  <2>1. PICK f : f = [r \in prompts |-> New(r)]
    OBVIOUS
  <2>2. f \in Bijection(prompts, prompts')
    <3>1. f \in [prompts -> prompts'] /\ \A r \in prompts : f[r] = New(r)
      BY <1>2, <2>1
    <3>2. \A r1, r2 \in prompts : f[r1] = f[r2] => r1 = r2
      BY <1>5, <3>1
    <3>3. \A x \in prompts' : \E r \in prompts : f[r] = x
      BY <1>2, <3>1
    <3> QED BY <3>1, <3>2, <3>3 DEF Bijection, Injection, IsInjective, Surjection
  <2> QED BY <2>2, FS_Bijection DEF RowsInv, ExistsBijection
<1>7. \A x \in prompts' : RowShape(x) /\ x.id \in Nat /\ x.id <= Cardinality(prompts')
  BY <1>4, <1>6 DEF RowsInv, Twin
<1>8. \A x1, x2 \in prompts' : x1.id = x2.id => x1 = x2
  BY <1>4 DEF RowsInv, Twin
<1>9. ASSUME NEW s, FindActive(prompts, s) # {} PROVE FindActive(prompts', s) # {}
  <2>1. PICK t \in prompts : t.id = target /\ t.scope = scope
    BY <1>1 DEF Opened
  <2>2. CASE s = scope
    <3>1. New(t) \in prompts' /\ New(t).scope = s /\ New(t).active
      BY <1>3, <1>4, <2>1, <2>2 DEF Twin
    <3> QED BY <3>1 DEF FindActive
  <2>3. CASE s # scope
    <3>1. PICK r \in prompts : r.scope = s /\ r.active
      BY <1>9 DEF FindActive
    <3>2. r.id \notin seen
      <4>1. \A i \in seen : \E q \in prompts : q.id = i /\ q.scope = scope
        BY <1>1 DEF Opened
      <4> QED BY <2>3, <3>1, <4>1 DEF RowsInv
    <3>3. New(r) \in prompts' /\ New(r).scope = s /\ New(r).active
      BY <1>3, <1>4, <3>1, <3>2 DEF Twin
    <3> QED BY <3>3 DEF FindActive
  <2> QED BY <2>2, <2>3
<1>10. \E x \in prompts' : x.scope = "global" /\ x.active
  <2>1. FindActive(prompts, "global") # {}
    BY DEF RowsInv, FindActive
  <2> QED BY <1>9, <2>1 DEF FindActive
<1>11. \A x1, x2 \in ListVersions(prompts', "workspace") : x1.version = x2.version => x1 = x2
  <2> SUFFICES ASSUME NEW x1 \in prompts', NEW x2 \in prompts', x1.scope = "workspace",
                      x2.scope = "workspace", x1.version = x2.version
               PROVE  x1 = x2
    BY DEF ListVersions
  <2>1. PICK r1 \in prompts : x1 = New(r1) /\ Twin(r1, x1)
    BY <1>4
  <2>2. PICK r2 \in prompts : x2 = New(r2) /\ Twin(r2, x2)
    BY <1>4
  <2>3. r1 = r2
    BY <2>1, <2>2 DEF RowsInv, ListVersions, Twin
  <2> QED BY <2>1, <2>2, <2>3
<1>12. RowsInv'
  BY <1>6, <1>7, <1>8, <1>10, <1>11 DEF RowsInv, ListVersions
<1> QED BY <1>1, <1>3, <1>4, <1>9, <1>12

(* The rows stay, whatever is written.                                     *)
LEMMA RowsStay ==
  ASSUME PromptsInv, [Next]_vars
  PROVE  /\ RowsInv'
         /\ \A r \in prompts : \E x \in prompts' : Twin(r, x)
         /\ \A s : FindActive(prompts, s) # {} => FindActive(prompts', s) # {}
<1>0. RowsInv
  BY DEF PromptsInv
<1>1. CASE UNCHANGED prompts
  BY <1>0, <1>1 DEF RowsInv, ListVersions, Twin
<1>2. ASSUME NEW s, NEW v, NEW x, Inserted(s, v, x)
      PROVE  /\ RowsInv'
             /\ \A r \in prompts : \E y \in prompts' : Twin(r, y)
             /\ \A t : FindActive(prompts, t) # {} => FindActive(prompts', t) # {}
  <2>1. RowsInv' /\ prompts' = prompts \cup {x}
    BY <1>0, <1>2, InsertKeeps
  <2> QED BY <2>1 DEF Twin, FindActive
<1>3. ASSUME NEW c \in Clients, SetActive(c)
      PROVE  Opened(client[c])
  BY <1>3 DEF PromptsInv, SetActive
<1>4. CASE \E c \in Clients : SetActive(c)
  BY <1>0, <1>3, <1>4, Activated
<1> QED BY <1>1, <1>2, <1>4, InsertedRow, PromptWriters

LEMMA PromptsStep ==
  ASSUME PromptsInv, client = [c \in Clients |-> client[c]], \A c \in Clients : Kept(c),
         [Next]_vars
  PROVE  PromptsInv'
<1>0. RowsInv /\ RowsInv' /\ OneActive
  BY RowsStay DEF PromptsInv
<1>1. ASSUME UNCHANGED prompts, overlapped \subseteq overlapped' PROVE PromptsInv'
  <2>1. OneActive'
    BY <1>0, <1>1 DEF OneActive, FindActive
  <2>2. ASSUME NEW d \in Clients, client'[d].op = "activate" PROVE Opened(client[d])'
    <3>1. CASE client'[d] = client[d]
      BY <1>1, <2>2, <3>1 DEF PromptsInv, Opened
    <3>2. ASSUME NEW s \in Scopes, NEW v \in 1..MaxVersions, Activate(d, s, v)
          PROVE  Opened(client[d])'
      <4>1. PICK r \in prompts :
              /\ r.scope = s
              /\ client' = [client EXCEPT ![d] = [op |-> "activate", scope |-> s,
                             target |-> r.id, seen |-> {q.id : q \in ListVersions(prompts, s)}]]
        BY <3>2 DEF Activate, Keep, FindByNameAndVersion
      <4>2. PICK a : a = [op |-> "activate", scope |-> s, target |-> r.id,
                          seen |-> {q.id : q \in ListVersions(prompts, s)}]
        OBVIOUS
      <4>3. client'[d] = a /\ a.scope = s /\ a.target = r.id
        BY <4>1, <4>2
      <4>4. a.seen = {q.id : q \in {p \in prompts : p.scope = s}}
        BY <4>2 DEF ListVersions
      <4> QED BY <1>1, <4>1, <4>3, <4>4 DEF Opened
    <3> QED BY <2>2, <3>1, <3>2, OpenedBy
  <2> QED BY <1>0, <2>1, <2>2 DEF PromptsInv
<1>2. ASSUME Edit, NEW s, NEW v, NEW x, Inserted(s, v, x) PROVE PromptsInv'
  <2>1. /\ prompts' = prompts \cup {x} /\ x.scope = s /\ x.active = FALSE
        /\ \A r \in prompts : r.id # x.id
    BY <1>0, <1>2, InsertKeeps
  <2>2. overlapped \subseteq overlapped'
    BY <1>2 DEF Edit
  <2>3. OneActive'
    BY <1>0, <2>1, <2>2 DEF OneActive, FindActive
  <2>4. ASSUME NEW d \in Clients, client'[d].op = "activate" PROVE Opened(client[d])'
    <3>1. CASE client'[d] = client[d]
      <4>1. client[d].scope = s /\ s \in Scopes => s \in overlapped'
        <5> SUFFICES ASSUME client[d].scope = s, s \in Scopes PROVE s \in overlapped'
          OBVIOUS
        <5>1. InsertedInto(s)
          <6>1. x \in prompts' \ prompts /\ x.id \notin {p.id : p \in prompts}
            BY <2>1
          <6> QED BY <2>1, <2>4, <3>1, <6>1 DEF InsertedInto
        <5> QED BY <1>2, <5>1 DEF Edit
      <4>2. Opened(client[d])
        BY <2>4, <3>1 DEF PromptsInv
      <4>3. ASSUME client[d].scope \notin overlapped', NEW r \in prompts', r.scope = client[d].scope
            PROVE  r.id \in client[d].seen
        <5>1. CASE r \in prompts
          BY <2>2, <4>2, <4>3, <5>1 DEF Opened
        <5>2. CASE r = x
          BY <2>1, <4>1, <4>2, <4>3, <5>2 DEF Opened
        <5> QED BY <2>1, <5>1, <5>2
      <4> QED BY <2>1, <3>1, <4>2, <4>3 DEF Opened
    <3>2. ASSUME NEW z \in Scopes, NEW w \in 1..MaxVersions, Activate(d, z, w)
          PROVE  Opened(client[d])'
      <4>1. prompts' = prompts
        BY <3>2 DEF Activate
      <4> QED BY <2>1, <4>1
    <3> QED BY <2>4, <3>1, <3>2, OpenedBy
  <2> QED BY <1>0, <2>3, <2>4 DEF PromptsInv
<1>3. ASSUME Edit, NEW c \in Clients, SetActive(c) PROVE PromptsInv'
  <2>0. PICK a : a = client[c]
    OBVIOUS
  <2>1. Opened(a)
    BY <1>3, <2>0 DEF PromptsInv, SetActive
  <2>2. /\ \A r \in prompts : \E x \in prompts' : Twin(r, x)
        /\ \A x \in prompts' : \E r \in prompts :
             /\ Twin(r, x)
             /\ x.active <=> (r.id = a.target \/ (r.active /\ r.id \notin a.seen))
    BY <1>0, <1>3, <2>0, <2>1, Activated
  <2>3. overlapped \subseteq overlapped'
    BY <1>3 DEF Edit
  <2>4. OneActive'
    <3> SUFFICES ASSUME NEW s \in Scopes, s \notin overlapped', NEW x1 \in prompts',
                        NEW x2 \in prompts', x1.scope = s, x2.scope = s, x1.active, x2.active
                 PROVE  x1.id = x2.id
      BY <1>0 DEF OneActive, FindActive, RowsInv
    <3>1. PICK r1 \in prompts :
            Twin(r1, x1) /\ (r1.id = a.target \/ (r1.active /\ r1.id \notin a.seen))
      BY <2>2
    <3>2. PICK r2 \in prompts :
            Twin(r2, x2) /\ (r2.id = a.target \/ (r2.active /\ r2.id \notin a.seen))
      BY <2>2
    <3>3. r1.scope = s /\ r2.scope = s /\ r1.id = x1.id /\ r2.id = x2.id /\ s \notin overlapped
      BY <2>3, <3>1, <3>2 DEF Twin
    <3>4. CASE s = a.scope
      BY <2>1, <3>1, <3>2, <3>3, <3>4 DEF Opened
    <3>5. CASE s # a.scope
      <4>1. r1.id # a.target /\ r2.id # a.target
        BY <1>0, <2>1, <3>3, <3>5 DEF Opened, RowsInv
      <4>2. r1 \in FindActive(prompts, s) /\ r2 \in FindActive(prompts, s)
        BY <3>1, <3>2, <3>3, <4>1 DEF FindActive
      <4> QED BY <1>0, <3>3, <4>2 DEF OneActive
    <3> QED BY <3>4, <3>5
  <2>5. ASSUME NEW d \in Clients, client'[d].op = "activate" PROVE Opened(client[d])'
    <3>1. CASE client'[d] = client[d]
      <4>1. Opened(client[d])
        BY <2>5, <3>1 DEF PromptsInv
      <4> QED BY <2>2, <2>3, <3>1, <4>1 DEF Opened, Twin
    <3>2. ASSUME NEW z \in Scopes, NEW w \in 1..MaxVersions, Activate(d, z, w)
          PROVE  Opened(client[d])'
      <4>1. prompts' = prompts
        BY <3>2 DEF Activate
      <4> QED BY <1>1, <2>3, <2>5, <4>1 DEF PromptsInv
    <3> QED BY <2>5, <3>1, <3>2, OpenedBy
  <2> QED BY <1>0, <2>4, <2>5 DEF PromptsInv
<1>4. ASSUME Edit, NEW c \in Clients, InsertVersion(c) PROVE PromptsInv'
  <2>1. CASE UNCHANGED prompts
    BY <1>1, <1>4, <2>1 DEF Edit
  <2>2. CASE \E s, v, x : Inserted(s, v, x)
    BY <1>2, <1>4, <2>2
  <2> QED BY <1>4, <2>1, <2>2, InsertedRow
<1> QED BY <1>1, <1>3, <1>4, PromptWriters

-----------------------------------------------------------------------------
(* The agent and the requests that write it.                               *)

LEMMA AgentStep ==
  ASSUME AgentInv, [Next]_vars PROVE AgentInv'
<1>0. NoAgent \notin AgentRows
  BY DEF NoAgent, AgentRows
<1>a. /\ agent \in AgentRows \cup {NoAgent}
      /\ agent = NoAgent => bound = {}
      /\ client = [c \in Clients |-> client[c]] /\ \A c \in Clients : Kept(c)
  BY DEF AgentInv
<1>1. ASSUME UNCHANGED <<agent, bound, client>> PROVE AgentInv'
  BY <1>a, <1>1 DEF AgentInv, Kept
<1>2. ASSUME NEW c \in Clients, NEW state, Keep(c, state),
             /\ state.op \in {"create_agent", "update_agent"} => state.row \in AgentRows
             /\ state.op = "tools" => state = [op |-> "tools", tools |-> state.tools]
      PROVE  client' = [d \in Clients |-> client'[d]] /\ \A d \in Clients : Kept(d)'
  <2>1. /\ client' = [d \in Clients |-> client'[d]] /\ client'[c] = state
        /\ \A d \in Clients \ {c} : client'[d] = client[d]
    BY <1>a, <1>2 DEF Keep
  <2> QED BY <1>a, <1>2, <2>1 DEF Kept
<1>3. ASSUME NEW c \in Clients, ThenTools(c)
      PROVE  client' = [d \in Clients |-> client'[d]] /\ \A d \in Clients : Kept(d)'
  <2>1. PICK state : /\ Keep(c, state)
                     /\ state = Idle \/ \E tools : state = [op |-> "tools", tools |-> tools]
    BY <1>3 DEF ThenTools
  <2>2. /\ state.op \in {"create_agent", "update_agent"} => state.row \in AgentRows
        /\ state.op = "tools" => state = [op |-> "tools", tools |-> state.tools]
    BY <2>1 DEF Idle
  <2> QED BY <1>2, <2>1, <2>2
<1>4. ASSUME NEW c \in Clients, NEW s \in Scopes, CreateVersion(c, s) PROVE AgentInv'
  <2>1. PICK state : Keep(c, state) /\ state.op = "create_version"
    BY <1>4 DEF CreateVersion
  <2> QED BY <1>a, <1>2, <1>4, <2>1 DEF AgentInv, CreateVersion
<1>5. ASSUME NEW c \in Clients, NEW d \in Definitions, NEW request, CreateAgent(c, d, request)
      PROVE AgentInv'
  <2>1. d \in AgentRows
    <3>1. \/ d = [ref |-> "active", pin |-> 0, enabled |-> TRUE]
          \/ d = [ref |-> "pinned", pin |-> 1, enabled |-> TRUE]
      BY DEF Definitions
    <3>2. CASE d = [ref |-> "active", pin |-> 0, enabled |-> TRUE]
      BY <3>2 DEF AgentRows
    <3>3. CASE d = [ref |-> "pinned", pin |-> 1, enabled |-> TRUE]
      BY <3>3 DEF AgentRows
    <3> QED BY <3>1, <3>2, <3>3
  <2>2. PICK state : Keep(c, state) /\ state.op = "create_agent" /\ state.row = d
    BY <1>5 DEF CreateAgent
  <2> QED BY <1>a, <1>2, <1>5, <2>1, <2>2 DEF AgentInv, CreateAgent
<1>6. ASSUME NEW c \in Clients, NEW d \in Changes, NEW request, UpdateAgent(c, d, request)
      PROVE AgentInv'
  <2>1. agent \in AgentRows
    <3>1. agent # NoAgent
      BY <1>6, Zenon DEF UpdateAgent
    <3> QED BY <1>a, <3>1, Zenon
  <2>2. PICK new, state :
          /\ new = [agent EXCEPT !.enabled = IF d.enabled = "keep" THEN @ ELSE d.enabled = "on",
                                 !.ref = IF d.ref = "keep" THEN @ ELSE d.ref,
                                 !.pin = IF d.ref = "keep" THEN @ ELSE d.pin]
          /\ state = [op |-> "update_agent", row |-> new, request |-> request]
          /\ Keep(c, state)
    BY <1>6 DEF UpdateAgent
  <2>3. new \in AgentRows
    <3>1. d.ref \in {"keep", "pinned"} /\ d.pin \in Nat
      BY DEF Changes
    <3>2. PICK e \in BOOLEAN : e = IF d.enabled = "keep" THEN agent.enabled ELSE d.enabled = "on"
      BY <2>1 DEF AgentRows
    <3>3. PICK ref \in {"active", "pinned"} : ref = IF d.ref = "keep" THEN agent.ref ELSE d.ref
      BY <2>1, <3>1 DEF AgentRows
    <3>4. PICK pin \in Nat : pin = IF d.ref = "keep" THEN agent.pin ELSE d.pin
      BY <2>1, <3>1 DEF AgentRows
    <3>5. new = [agent EXCEPT !.enabled = e, !.ref = ref, !.pin = pin]
      BY <2>1, <2>2, <3>2, <3>3, <3>4 DEF AgentRows
    <3>6. new = [ref |-> ref, pin |-> pin, enabled |-> e]
      BY <2>1, <3>5 DEF AgentRows
    <3> QED BY <3>6 DEF AgentRows
  <2>4. state.op = "update_agent" /\ state.row = new
    BY <2>2
  <2> QED BY <1>a, <1>2, <1>6, <2>2, <2>3, <2>4 DEF AgentInv, UpdateAgent
<1>7. ASSUME NEW c \in Clients, InsertVersion(c) \/ SetActive(c) \/ ActivateFails(c)
      PROVE  AgentInv'
  <2>1. Keep(c, Idle) /\ UNCHANGED <<agent, bound>>
    BY <1>7 DEF InsertVersion, SetActive, ActivateFails
  <2>2. Idle.op = "idle"
    BY DEF Idle
  <2> QED BY <1>a, <1>2, <2>1, <2>2 DEF AgentInv
<1>8. ASSUME NEW c \in Clients, ValidateToolNames(c) PROVE AgentInv'
  <2>1. client[c] = [op |-> "tools", tools |-> client[c].tools]
    BY <1>a, <1>8 DEF ValidateToolNames, Kept
  <2>2. [client[c] EXCEPT !.op = "bind"].op = "bind" /\ Idle.op = "idle"
    BY <2>1 DEF Idle
  <2>3. PICK state : /\ Keep(c, state) /\ UNCHANGED <<agent, bound>>
                     /\ state \in {Idle, [client[c] EXCEPT !.op = "bind"]}
    BY <1>8 DEF ValidateToolNames
  <2>4. state.op \in {"bind", "idle"}
    BY <2>2, <2>3
  <2> QED BY <1>a, <1>2, <2>3, <2>4 DEF AgentInv
<1>9. ASSUME NEW c \in Clients, SetAgentTools(c) PROVE AgentInv'
  <2>1. /\ Keep(c, Idle) /\ UNCHANGED agent
        /\ bound' = IF agent = NoAgent THEN bound ELSE client[c].tools
    BY <1>9 DEF SetAgentTools
  <2>2. Idle.op = "idle"
    BY DEF Idle
  <2> QED BY <1>a, <1>2, <2>1, <2>2 DEF AgentInv
<1>10. ASSUME NEW c \in Clients, InsertAgent(c) PROVE AgentInv'
  <2>1. agent' \in AgentRows
    BY <1>a, <1>10 DEF InsertAgent, Kept
  <2> QED BY <1>0, <1>3, <1>10, <2>1 DEF AgentInv, InsertAgent
<1>11. ASSUME NEW c \in Clients, UpdateAgentRow(c) PROVE AgentInv'
  <2>1. agent' \in AgentRows \cup {NoAgent} /\ (agent' = NoAgent => agent = NoAgent)
    BY <1>0, <1>a, <1>11 DEF UpdateAgentRow, Kept
  <2> QED BY <1>a, <1>3, <1>11, <2>1 DEF AgentInv, UpdateAgentRow
<1>12. ASSUME NEW c \in Clients, NEW s \in Scopes, NEW v, Activate(c, s, v) PROVE AgentInv'
  <2>1. PICK state : Keep(c, state) /\ state.op = "activate"
    BY <1>12 DEF Activate
  <2> QED BY <1>a, <1>2, <1>12, <2>1 DEF AgentInv, Activate
<1>13. ASSUME NEW t \in Tools, NEW e, SetToolEnabled(t, e) PROVE AgentInv'
  BY <1>1, <1>13 DEF SetToolEnabled
<1>14. CASE DeleteAgent
  BY <1>a, <1>14 DEF DeleteAgent, AgentInv, Kept
<1>15. CASE CatalogNext
  BY <1>4, <1>5, <1>6, <1>7, <1>8, <1>9, <1>10, <1>11, <1>12, <1>13, <1>14, <1>15
  DEF CatalogNext
<1>16. CASE Run \/ Remember
  BY <1>1, <1>16
  DEF Run, StartRun, ReadBindings, RenderAgentBasePrompt, RetrieveForAgent, Execute,
      LookUpAgent, ResolveVersion, LookUpFails, SaveRecord, ReadTool, MarkMemory, Remember,
      AddMemory, EditMemory, RemoveMemory, WriteMemory, catalogVars
<1>17. CASE UNCHANGED vars
  BY <1>1, <1>17 DEF vars, catalogVars
<1> QED BY <1>15, <1>16, <1>17 DEF Next, Edit

(* A reference that resolves goes on to: the rows stay, and one of the     *)
(* global rows is always active.                                           *)
LEMMA StaysResolvable ==
  ASSUME PromptsInv, [Next]_vars, NEW a, Resolvable(a)
  PROVE  RenderPromptRef(prompts', a) # {}
<1>1. /\ RowsInv' /\ \A r \in prompts : \E x \in prompts' : Twin(r, x)
  BY RowsStay
<1>2. CASE a.ref = "pinned"
  <2>1. PICK r \in prompts : r.scope \in {"workspace", "global"} /\ r.version = a.pin
    BY <1>2 DEF Resolvable, RenderPromptRef, RenderVersion, FindByNameAndVersion
  <2>2. PICK x \in prompts' : x.scope = r.scope /\ x.version = a.pin
    BY <1>1, <2>1 DEF Twin
  <2> QED BY <1>2, <2>1, <2>2 DEF RenderPromptRef, RenderVersion, FindByNameAndVersion
<1>3. CASE a.ref # "pinned"
  BY <1>1, <1>3 DEF RowsInv, RenderPromptRef, Render, FindActive
<1> QED BY <1>2, <1>3

(* What a request is going to write was validated, or was read and keeps   *)
(* its reference.                                                          *)
LEMMA WrittenBy ==
  ASSUME AgentInv, RefsInv, [Next]_vars, NEW d \in Clients,
         client'[d].op \in {"create_agent", "update_agent"}
  PROVE  client'[d] = client[d] \/ Resolvable(client'[d].row)
<1>0. client = [c \in Clients |-> client[c]] /\ \A c \in Clients : Kept(c)
  BY DEF AgentInv
<1>a. ASSUME NEW c \in Clients, NEW state, Keep(c, state),
             state.op \notin {"create_agent", "update_agent"}
      PROVE  client'[d] = client[d]
  BY <1>0, <1>a DEF Keep
<1>b. Idle.op = "idle"
  BY DEF Idle
<1>1. CASE UNCHANGED client
  BY <1>1
<1>2. ASSUME NEW c \in Clients, NEW s \in Scopes, CreateVersion(c, s)
      PROVE  client'[d] = client[d]
  <2>1. PICK state : Keep(c, state) /\ state.op = "create_version"
    BY <1>2 DEF CreateVersion
  <2> QED BY <1>a, <2>1
<1>3. ASSUME NEW c \in Clients, NEW x \in Definitions, NEW request, CreateAgent(c, x, request)
      PROVE  client'[d] = client[d] \/ Resolvable(client'[d].row)
  <2>1. x.ref # "none"
    BY DEF Definitions
  <2>2. Resolvable(x)
    BY <1>3, <2>1 DEF CreateAgent, ValidatePromptRef, Resolvable
  <2>3. PICK state : Keep(c, state) /\ state.row = x
    BY <1>3 DEF CreateAgent
  <2>4. client'[d] = client[d] \/ client'[d] = state
    BY <1>0, <2>3 DEF Keep
  <2> QED BY <2>2, <2>3, <2>4
<1>4. ASSUME NEW c \in Clients, NEW x \in Changes, NEW request, UpdateAgent(c, x, request)
      PROVE  client'[d] = client[d] \/ Resolvable(client'[d].row)
  <2>1. agent # NoAgent
    BY <1>4, Zenon DEF UpdateAgent
  <2>2. agent \in AgentRows
    BY <2>1, Zenon DEF AgentInv
  <2>3. PICK new, state :
          /\ new = [agent EXCEPT !.enabled = IF x.enabled = "keep" THEN @ ELSE x.enabled = "on",
                                 !.ref = IF x.ref = "keep" THEN @ ELSE x.ref,
                                 !.pin = IF x.ref = "keep" THEN @ ELSE x.pin]
          /\ state = [op |-> "update_agent", row |-> new, request |-> request]
          /\ Keep(c, state)
          /\ x.ref = "keep" \/ ValidatePromptRef(prompts, new)
    BY <1>4 DEF UpdateAgent
  <2>4. PICK e : e = IF x.enabled = "keep" THEN agent.enabled ELSE x.enabled = "on"
    OBVIOUS
  <2>5. new = [agent EXCEPT !.enabled = e,
                            !.ref = IF x.ref = "keep" THEN @ ELSE x.ref,
                            !.pin = IF x.ref = "keep" THEN @ ELSE x.pin]
    BY <2>2, <2>3, <2>4 DEF AgentRows
  <2>6. /\ new.ref = IF x.ref = "keep" THEN agent.ref ELSE x.ref
        /\ new.pin = IF x.ref = "keep" THEN agent.pin ELSE x.pin
    BY <2>2, <2>5 DEF AgentRows
  <2>7. x.ref \in {"keep", "pinned"}
    BY DEF Changes
  <2>8. Resolvable(new)
    <3>1. CASE x.ref = "keep"
      <4>1. Resolvable(agent)
        BY <2>1, Zenon DEF RefsInv
      <4>2. new.ref = agent.ref /\ new.pin = agent.pin
        BY <2>6, <3>1
      <4> QED BY <4>1, <4>2 DEF Resolvable, RenderPromptRef
    <3>2. CASE x.ref = "pinned"
      BY <2>3, <2>6, <3>2 DEF ValidatePromptRef, Resolvable
    <3> QED BY <2>7, <3>1, <3>2
  <2>9. state.row = new /\ (client'[d] = client[d] \/ client'[d] = state)
    BY <1>0, <2>3 DEF Keep
  <2> QED BY <2>8, <2>9
<1>5. ASSUME NEW c \in Clients, InsertVersion(c) \/ SetActive(c) \/ ActivateFails(c)
                                 \/ SetAgentTools(c)
      PROVE  client'[d] = client[d]
  <2>1. Keep(c, Idle)
    BY <1>5 DEF InsertVersion, SetActive, ActivateFails, SetAgentTools
  <2> QED BY <1>a, <1>b, <2>1
<1>6. ASSUME NEW c \in Clients, ValidateToolNames(c)
      PROVE  client'[d] = client[d]
  <2>1. client[c] = [op |-> "tools", tools |-> client[c].tools]
    BY <1>0, <1>6 DEF ValidateToolNames, Kept
  <2>2. PICK state : Keep(c, state) /\ state \in {Idle, [client[c] EXCEPT !.op = "bind"]}
    BY <1>6 DEF ValidateToolNames
  <2>3. [client[c] EXCEPT !.op = "bind"].op = "bind"
    BY <2>1
  <2>4. state.op \in {"idle", "bind"}
    BY <1>b, <2>2, <2>3
  <2> QED BY <1>a, <2>2, <2>4
<1>7. ASSUME NEW c \in Clients, InsertAgent(c) \/ UpdateAgentRow(c)
      PROVE  client'[d] = client[d]
  <2>0. ThenTools(c)
    BY <1>7 DEF InsertAgent, UpdateAgentRow
  <2>1. PICK state : /\ Keep(c, state)
                     /\ state = Idle \/ \E tools : state = [op |-> "tools", tools |-> tools]
    BY <2>0 DEF ThenTools
  <2>2. state.op \in {"idle", "tools"}
    BY <1>b, <2>1
  <2> QED BY <1>a, <2>1, <2>2
<1>8. ASSUME NEW c \in Clients, NEW s \in Scopes, NEW v, Activate(c, s, v)
      PROVE  client'[d] = client[d]
  <2>1. PICK state : Keep(c, state) /\ state.op = "activate"
    BY <1>8 DEF Activate
  <2> QED BY <1>a, <2>1
<1>9. CASE CatalogNext
  BY <1>1, <1>2, <1>3, <1>4, <1>5, <1>6, <1>7, <1>8, <1>9
  DEF CatalogNext, SetToolEnabled, DeleteAgent
<1>10. CASE Run \/ Remember \/ UNCHANGED vars
  BY <1>1, <1>10
  DEF Run, StartRun, ReadBindings, RenderAgentBasePrompt, RetrieveForAgent, Execute,
      LookUpAgent, ResolveVersion, LookUpFails, SaveRecord, ReadTool, MarkMemory, Remember,
      AddMemory, EditMemory, RemoveMemory, WriteMemory, catalogVars, vars
<1> QED BY <1>9, <1>10 DEF Next, Edit

(* The row of the agent is one that a request has kept.                    *)
LEMMA AgentWrittenBy ==
  ASSUME [Next]_vars
  PROVE  \/ agent' = agent \/ agent' = NoAgent
         \/ \E c \in Clients : /\ client[c].op \in {"create_agent", "update_agent"}
                               /\ agent' = client[c].row
<1>1. CASE CatalogNext
  BY <1>1
  DEF CatalogNext, CreateVersion, CreateAgent, UpdateAgent, InsertVersion, Activate, SetActive,
      ActivateFails, ValidateToolNames, SetAgentTools, InsertAgent, UpdateAgentRow,
      SetToolEnabled, DeleteAgent
<1>2. CASE Run \/ Remember \/ UNCHANGED vars
  BY <1>2
  DEF Run, StartRun, ReadBindings, RenderAgentBasePrompt, RetrieveForAgent, Execute,
      LookUpAgent, ResolveVersion, LookUpFails, SaveRecord, ReadTool, MarkMemory, Remember,
      AddMemory, EditMemory, RemoveMemory, WriteMemory, catalogVars, vars
<1> QED BY <1>1, <1>2 DEF Next, Edit

-----------------------------------------------------------------------------
(* The run and its record.                                                 *)

LEMMA ToolRead ==
  ASSUME Whole, NEW t, ReadTool(t)
  PROVE  /\ Whole' /\ run'.at \in {"prompt", "enabled"}
         /\ run'.agent = run.agent /\ run'.version = run.version
<1>1. PICK unread, tools, at :
        /\ unread = run.unread \ {t}
        /\ tools = IF IsToolEnabled(t) THEN run.tools \cup {t} ELSE run.tools
        /\ at = IF run.unread = {t} THEN "prompt" ELSE run.at
  OBVIOUS
<1>2. at \in {"prompt", "enabled"}
  BY <1>1 DEF ReadTool, At
<1>3. run' = [run EXCEPT !.unread = unread, !.tools = tools, !.at = at]
  BY <1>1 DEF ReadTool, Whole
<1>4. run' = [at |-> at, agent |-> run.agent, unread |-> unread, tools |-> tools,
              version |-> run.version]
  BY <1>3 DEF Whole
<1> QED BY <1>2, <1>4 DEF Whole

LEMMA PromptRendered ==
  ASSUME Whole, RenderAgentBasePrompt
  PROVE  /\ Whole' /\ run'.agent = run.agent
         /\ \/ run'.at = "refused"
            \/ run'.at = "memory" /\ \E r \in RenderPromptRef(prompts, run.agent) :
                                        run'.version = r.version
<1>1. CASE run' = [run EXCEPT !.at = "refused"]
  <2>1. run' = [at |-> "refused", agent |-> run.agent, unread |-> run.unread,
                tools |-> run.tools, version |-> run.version]
    BY <1>1 DEF Whole
  <2> QED BY <2>1 DEF Whole
<1>2. ASSUME NEW r \in RenderPromptRef(prompts, run.agent),
             run' = [run EXCEPT !.at = "memory", !.version = r.version]
      PROVE  /\ Whole' /\ run'.agent = run.agent /\ run'.at = "memory"
             /\ run'.version = r.version
  <2>1. run' = [at |-> "memory", agent |-> run.agent, unread |-> run.unread,
                tools |-> run.tools, version |-> r.version]
    BY <1>2 DEF Whole
  <2> QED BY <2>1 DEF Whole
<1> QED BY <1>1, <1>2 DEF RenderAgentBasePrompt

(* The run takes its steps in order, and only the last one saves.          *)
LEMMA RunShapeStep ==
  ASSUME RunShape, [Next]_vars PROVE RunShape'
<1>0. /\ Whole
      /\ record = [version |-> record.version, saved |-> record.saved, failed |-> record.failed]
      /\ record.saved \in BOOLEAN /\ run.at \in Going \cup {"new", "refused", "done"}
      /\ record.saved => run.at = "done"
  BY DEF RunShape
<1>a. ASSUME Whole', run'.at \in Going \cup {"new", "refused"}, run.at # "done",
             UNCHANGED record
      PROVE  RunShape'
  BY <1>0, <1>a DEF RunShape, Whole
<1>1. CASE StartRun
  <2>1. CASE run' = [run EXCEPT !.at = "tools", !.agent = agent]
    <3>1. Whole' /\ run'.at = "tools"
      BY <1>0, <2>1 DEF Whole
    <3> QED BY <1>1, <1>a, <3>1 DEF StartRun, At, Going
  <2>2. CASE run' = [run EXCEPT !.at = "refused"]
    <3>1. Whole' /\ run'.at = "refused"
      BY <1>0, <2>2 DEF Whole
    <3> QED BY <1>1, <1>a, <3>1 DEF StartRun, At, Going
  <2> QED BY <1>1, <2>1, <2>2 DEF StartRun
<1>2. CASE ReadBindings
  <2>1. CASE run' = [run EXCEPT !.at = "prompt", !.tools = Tools]
    <3>1. Whole' /\ run'.at = "prompt"
      BY <1>0, <2>1 DEF Whole
    <3> QED BY <1>2, <1>a, <3>1 DEF ReadBindings, At, Going
  <2>2. CASE run' = [run EXCEPT !.at = "enabled", !.unread = bound]
    <3>1. Whole' /\ run'.at = "enabled"
      BY <1>0, <2>2 DEF Whole
    <3> QED BY <1>2, <1>a, <3>1 DEF ReadBindings, At, Going
  <2> QED BY <1>2, <2>1, <2>2 DEF ReadBindings
<1>3. ASSUME NEW t \in Tools, ReadTool(t) PROVE RunShape'
  BY <1>0, <1>3, <1>a, ToolRead DEF ReadTool, At, Going
<1>4. CASE RenderAgentBasePrompt
  BY <1>0, <1>4, <1>a, PromptRendered DEF RenderAgentBasePrompt, At, Going
<1>5. CASE RetrieveForAgent \/ Execute
  <2>1. PICK at \in {"marking", "lookup"} : run' = [run EXCEPT !.at = at]
    BY <1>5 DEF RetrieveForAgent, Execute
  <2>2. Whole' /\ run'.at = at
    BY <1>0, <2>1 DEF Whole
  <2>3. run.at # "done" /\ UNCHANGED record
    BY <1>5 DEF RetrieveForAgent, Execute, At
  <2> QED BY <1>a, <2>2, <2>3 DEF Going
<1>6. CASE LookUpAgent \/ ResolveVersion \/ LookUpFails
  <2>1. PICK v, f : record' = [version |-> v, saved |-> record.saved, failed |-> f]
    <3>1. CASE LookUpFails
      <4>1. PICK t : t = TRUE
        OBVIOUS
      <4>2. record' = [record EXCEPT !.version = 0, !.failed = t]
        BY <3>1, <4>1 DEF LookUpFails
      <4>3. record' = [version |-> 0, saved |-> record.saved, failed |-> t]
        BY <1>0, <4>2
      <4> QED BY <4>3
    <3>2. CASE LookUpAgent \/ ResolveVersion
      <4>1. record' = record \/ \E v : record' = [record EXCEPT !.version = v]
        BY <3>2 DEF LookUpAgent, ResolveVersion
      <4> QED BY <1>0, <4>1
    <3> QED BY <1>6, <3>1, <3>2
  <2>2. PICK at \in {"resolve", "save"} : run' = [run EXCEPT !.at = at]
    BY <1>6 DEF LookUpAgent, ResolveVersion, LookUpFails
  <2>3. Whole' /\ run'.at = at
    BY <1>0, <2>2 DEF Whole
  <2>4. record'.saved = record.saved
    BY <2>1
  <2>5. ~record.saved
    BY <1>0, <1>6 DEF LookUpAgent, ResolveVersion, LookUpFails, At
  <2> QED BY <1>0, <2>1, <2>3, <2>4, <2>5 DEF RunShape, Whole, Going
<1>7. CASE SaveRecord
  <2>1. run' = [run EXCEPT !.at = "done"]
    BY <1>7 DEF SaveRecord
  <2>2. Whole' /\ run'.at = "done"
    BY <1>0, <2>1 DEF Whole
  <2>3. PICK b \in BOOLEAN :
          record' = [version |-> record.version, saved |-> b, failed |-> record.failed]
    <3>1. CASE record' = [record EXCEPT !.saved = TRUE]
      <4>1. PICK t \in BOOLEAN : t = TRUE
        OBVIOUS
      <4>2. record' = [record EXCEPT !.saved = t]
        BY <3>1, <4>1
      <4> QED BY <1>0, <4>2
    <3>2. CASE UNCHANGED record
      BY <1>0, <3>2
    <3> QED BY <1>7, <3>1, <3>2 DEF SaveRecord
  <2> QED BY <2>2, <2>3 DEF RunShape, Whole, Going
<1>8. CASE UNCHANGED <<run, record>>
  BY <1>0, <1>8 DEF RunShape, Whole
<1> QED
  BY <1>1, <1>2, <1>3, <1>4, <1>5, <1>6, <1>7, <1>8
  DEF Next, Run, Remember, Edit, MarkMemory, AddMemory, EditMemory, RemoveMemory, WriteMemory,
      vars, runVars
(* What is in force is noted while the run goes on, and the look-up finds  *)
(* nothing else.                                                           *)
LEMMA RunStep ==
  ASSUME PromptsInv, AgentInv, RunShape, RunInv, [Next]_vars PROVE RunInv'
<1>0. /\ Whole
      /\ record = [version |-> record.version, saved |-> record.saved, failed |-> record.failed]
  BY DEF RunShape
<1>a. /\ run.at \in Going => InForce(prompts, agent) \subseteq inForce
      /\ run.at = "resolve" => \A r \in Render(prompts) : r.version \in inForce
      /\ run.at \in {"save", "done"} =>
           (record.failed /\ record.version = 0) \/ record.version \in inForce
  BY DEF RunInv
<1>b. ASSUME UNCHANGED <<prompts, agent, inForce>>, run.at \in Going,
             run'.at \in {"refused"} \cup (Going \ {"resolve", "save"})
      PROVE  RunInv'
  BY <1>a, <1>b DEF RunInv, Going, InForce, Render, FindActive
<1>1. CASE StartRun
  <2>1. /\ UNCHANGED <<prompts, agent>> /\ inForce' = InForce(prompts, agent)
        /\ \/ run' = [run EXCEPT !.at = "tools", !.agent = agent]
           \/ run' = [run EXCEPT !.at = "refused"]
    BY <1>1 DEF StartRun, catalogVars
  <2>2. run'.at \in {"tools", "refused"}
    BY <1>0, <2>1 DEF Whole
  <2>3. InForce(prompts', agent') = InForce(prompts, agent)
    BY <2>1
  <2> QED BY <2>1, <2>2, <2>3 DEF RunInv
<1>2. CASE ReadBindings \/ \E t \in Tools : ReadTool(t)
  <2>1. /\ run.at \in {"tools", "enabled"} /\ UNCHANGED <<prompts, agent, inForce>>
        /\ run'.at \in {"enabled", "prompt"}
    <3>1. CASE ReadBindings
      BY <1>0, <3>1 DEF ReadBindings, At, catalogVars, ghostVars, Whole
    <3>2. ASSUME NEW t \in Tools, ReadTool(t)
          PROVE  /\ run.at \in {"tools", "enabled"} /\ UNCHANGED <<prompts, agent, inForce>>
                 /\ run'.at \in {"enabled", "prompt"}
      <4>1. run'.at \in {"prompt", "enabled"}
        BY <1>0, <3>2, ToolRead
      <4> QED BY <3>2, <4>1 DEF ReadTool, At, catalogVars, ghostVars
    <3> QED BY <1>2, <3>1, <3>2
  <2> QED BY <1>b, <2>1 DEF Going
<1>3. CASE RenderAgentBasePrompt
  <2>1. run.at = "prompt" /\ UNCHANGED <<prompts, agent, inForce>>
    BY <1>3 DEF RenderAgentBasePrompt, At, catalogVars, ghostVars
  <2>2. run'.at \in {"refused", "memory"}
    BY <1>0, <1>3, PromptRendered
  <2> QED BY <1>b, <2>1, <2>2 DEF Going
<1>4. CASE RetrieveForAgent \/ Execute
  <2>1. PICK at \in {"marking", "lookup"} : run' = [run EXCEPT !.at = at]
    BY <1>4 DEF RetrieveForAgent, Execute
  <2>2. run'.at = at
    BY <1>0, <2>1 DEF Whole
  <2>3. run.at \in {"memory", "marking"} /\ UNCHANGED <<prompts, agent, inForce>>
    BY <1>4 DEF RetrieveForAgent, Execute, At, catalogVars, ghostVars
  <2> QED BY <1>b, <2>2, <2>3 DEF Going
<1>5. CASE LookUpAgent
  <2>1. /\ run.at = "lookup" /\ UNCHANGED <<prompts, agent, inForce>>
        /\ run' = [run EXCEPT !.at = IF agent.ref = "active" THEN "resolve" ELSE "save"]
        /\ record' = [record EXCEPT !.version = IF agent.ref = "pinned" THEN agent.pin ELSE 0]
    BY <1>5 DEF LookUpAgent, At, catalogVars, ghostVars
  <2>2. InForce(prompts, agent) \subseteq inForce
    BY <1>a, <2>1 DEF Going
  <2>3. /\ run'.at = IF agent.ref = "active" THEN "resolve" ELSE "save"
        /\ record'.version = IF agent.ref = "pinned" THEN agent.pin ELSE 0
    BY <1>0, <2>1 DEF Whole
  <2>4. InForce(prompts', agent') \subseteq inForce'
    BY <2>1, <2>2
  <2>5. agent.ref = "active" => \A r \in Render(prompts) : r.version \in inForce
    BY <2>2 DEF InForce
  <2>6. agent.ref = "active" => \A r \in Render(prompts') : r.version \in inForce'
    BY <2>1, <2>5
  <2>7. agent.ref # "active" => record'.version \in inForce'
    BY <2>1, <2>2, <2>3 DEF InForce
  <2> QED BY <2>3, <2>4, <2>6, <2>7 DEF RunInv
<1>6. CASE ResolveVersion
  <2>1. /\ run.at = "resolve" /\ UNCHANGED <<prompts, agent, inForce>>
        /\ run' = [run EXCEPT !.at = "save"]
    BY <1>6 DEF ResolveVersion, At, catalogVars, ghostVars
  <2>2. Render(prompts) # {}
    BY DEF PromptsInv, RowsInv, Render, FindActive
  <2>3. PICK r \in Render(prompts) : record' = [record EXCEPT !.version = r.version]
    BY <1>6, <2>2 DEF ResolveVersion
  <2>4. run'.at = "save" /\ record'.version = r.version
    BY <1>0, <2>1, <2>3 DEF Whole
  <2>5. r.version \in inForce'
    BY <1>a, <2>1
  <2>6. InForce(prompts', agent') \subseteq inForce'
    <3>1. InForce(prompts, agent) \subseteq inForce
      BY <1>a, <2>1 DEF Going
    <3> QED BY <2>1, <3>1
  <2> QED BY <2>4, <2>5, <2>6 DEF RunInv
<1>7. CASE LookUpFails
  <2>1. /\ run.at \in {"lookup", "resolve"} /\ UNCHANGED <<prompts, agent, inForce>>
        /\ run' = [run EXCEPT !.at = "save"]
        /\ record' = [record EXCEPT !.version = 0, !.failed = TRUE]
    BY <1>7 DEF LookUpFails, At, catalogVars, ghostVars
  <2>2. run'.at = "save"
    BY <1>0, <2>1 DEF Whole
  <2>3. record'.version = 0 /\ record'.failed
    BY <1>0, <2>1
  <2>4. InForce(prompts', agent') \subseteq inForce'
    <3>1. InForce(prompts, agent) \subseteq inForce
      BY <1>a, <2>1 DEF Going
    <3> QED BY <2>1, <3>1
  <2> QED BY <2>2, <2>3, <2>4 DEF RunInv
<1>8. CASE SaveRecord
  <2>1. /\ run.at = "save" /\ UNCHANGED inForce
        /\ run' = [run EXCEPT !.at = "done"]
        /\ record' = [record EXCEPT !.saved = TRUE] \/ record' = record
    BY <1>8 DEF SaveRecord, At, ghostVars
  <2>2. run'.at = "done"
    BY <1>0, <2>1 DEF Whole
  <2>3. record'.version = record.version /\ record'.failed = record.failed
    BY <1>0, <2>1
  <2> QED BY <1>a, <2>1, <2>2, <2>3 DEF RunInv, Going
<1>9. ASSUME UNCHANGED <<prompts, agent, run, record, inForce>> PROVE RunInv'
  BY <1>9, <1>a DEF RunInv, InForce, Render, FindActive
<1>10. CASE Edit
  <2>1. UNCHANGED <<run, record>> /\ inForce' = inForce \cup ChangedTo(prompts', agent')
    BY <1>10 DEF Edit, runVars
  <2>2. CASE run.at \in Going
    <3>1. InForce(prompts', agent') \subseteq inForce'
      BY <2>1, <2>2 DEF ChangedTo, Going
    <3>2. CASE prompts' = prompts
      BY <1>a, <2>1, <3>1, <3>2 DEF RunInv
    <3>3. CASE prompts' # prompts
      <4>1. \A r \in Render(prompts') : r.version \in inForce'
        BY <2>1, <2>2, <3>3 DEF ChangedTo, Going
      <4> QED BY <1>a, <2>1, <3>1, <4>1 DEF RunInv
    <3> QED BY <3>2, <3>3
  <2>3. CASE run.at \notin Going
    BY <1>a, <2>1, <2>3 DEF RunInv, Going
  <2> QED BY <2>2, <2>3
<1>11. CASE Remember \/ (\E id \in MemoryIds : MarkMemory(id)) \/ UNCHANGED vars
  BY <1>9, <1>11 DEF Remember, MarkMemory, AddMemory, EditMemory, RemoveMemory, WriteMemory,
                     catalogVars, runVars, ghostVars, vars
<1> QED
  BY <1>1, <1>2, <1>3, <1>4, <1>5, <1>6, <1>7, <1>8, <1>10, <1>11 DEF Next, Run

(* The agent, what is still to be written of it and what a run has read of *)
(* it refer to a version there is.                                         *)
LEMMA RefsStep ==
  ASSUME PromptsInv, AgentInv, RefsInv, RunShape, [Next]_vars PROVE RefsInv'
<1>0. \A a : Resolvable(a) => RenderPromptRef(prompts', a) # {}
  BY StaysResolvable
<1>1. agent' # NoAgent => RenderPromptRef(prompts', agent') # {}
  <2>1. agent' # NoAgent => Resolvable(agent')
    BY AgentWrittenBy, Zenon DEF RefsInv
  <2> QED BY <1>0, <2>1, Zenon
<1>2. ASSUME NEW d \in Clients, client'[d].op \in {"create_agent", "update_agent"}
      PROVE  RenderPromptRef(prompts', client'[d].row) # {}
  <2>1. Resolvable(client'[d].row)
    <3>1. CASE client'[d] = client[d]
      BY <1>2, <3>1 DEF RefsInv
    <3> QED BY <1>2, <3>1, WrittenBy
  <2> QED BY <1>0, <2>1, Zenon
<1>3. ASSUME run'.at \in {"tools", "enabled", "prompt"}
      PROVE  RenderPromptRef(prompts', run'.agent) # {}
  <2>0. Whole
    BY DEF RunShape
  <2>1. CASE StartRun
    <3>1. \/ run' = [run EXCEPT !.at = "tools", !.agent = agent]
          \/ run' = [run EXCEPT !.at = "refused"]
      BY <2>1 DEF StartRun
    <3>2. run'.agent = agent
      BY <1>3, <2>0, <3>1 DEF Whole
    <3>3. Resolvable(agent)
      BY <2>1, Zenon DEF StartRun, RefsInv
    <3> QED BY <1>0, <3>2, <3>3, Zenon
  <2>2. CASE run.at \in {"tools", "enabled", "prompt"} /\ run'.agent = run.agent
    <3>1. Resolvable(run.agent)
      BY <2>2 DEF RefsInv
    <3> QED BY <1>0, <2>2, <3>1, Zenon
  <2>3. CASE ReadBindings
    <3>1. run.at = "tools" /\ run'.agent = run.agent
      BY <2>0, <2>3 DEF ReadBindings, At, Whole
    <3> QED BY <2>2, <3>1
  <2>4. ASSUME NEW t \in Tools, ReadTool(t)
        PROVE  RenderPromptRef(prompts', run'.agent) # {}
    <3>1. run.at = "enabled" /\ run'.agent = run.agent
      BY <2>0, <2>4, ToolRead DEF ReadTool, At
    <3> QED BY <2>2, <3>1
  <2>5. CASE RenderAgentBasePrompt
    BY <1>3, <2>0, <2>5, PromptRendered
  <2>6. CASE RetrieveForAgent \/ Execute \/ LookUpAgent \/ ResolveVersion \/ LookUpFails
               \/ SaveRecord
    <3>1. PICK at \in {"marking", "lookup", "resolve", "save", "done"} :
            run' = [run EXCEPT !.at = at]
      BY <2>6 DEF RetrieveForAgent, Execute, LookUpAgent, ResolveVersion, LookUpFails, SaveRecord
    <3>2. run'.at = at
      BY <2>0, <3>1 DEF Whole
    <3> QED BY <1>3, <3>2
  <2>7. CASE UNCHANGED run
    BY <1>3, <2>2, <2>7
  <2> QED
    BY <2>1, <2>3, <2>4, <2>5, <2>6, <2>7
    DEF Next, Run, Remember, Edit, MarkMemory, AddMemory, EditMemory, RemoveMemory, WriteMemory,
        vars, runVars
<1> QED BY <1>1, <1>2, <1>3 DEF RefsInv, Resolvable

-----------------------------------------------------------------------------
(* Memories.                                                               *)

(* An update and a mark change an item in place.                           *)
LEMMA ItemsInPlace ==
  ASSUME MemoryInv, NEW id, NEW owner, NEW kind,
         \/ memory' = UpdateMemory(memory, id, owner, kind)
         \/ memory' = MarkUsed(memory, id, owner)
  PROVE  /\ \A m \in memory' : ItemShape(m) /\ \E n \in memory : m.id = n.id
         /\ \A m1, m2 \in memory' : m1.id = m2.id => m1 = m2
<1>0. ASSUME NEW m \in memory
      PROVE  /\ [m EXCEPT !.kind = kind] = [id |-> m.id, owner |-> m.owner, kind |-> kind,
                                            used |-> m.used]
             /\ [m EXCEPT !.used = TRUE] = [id |-> m.id, owner |-> m.owner, kind |-> m.kind,
                                            used |-> TRUE]
  <2>1. m = [id |-> m.id, owner |-> m.owner, kind |-> m.kind, used |-> m.used]
    BY DEF MemoryInv, ItemShape
  <2>2. [m EXCEPT !.kind = kind] = [id |-> m.id, owner |-> m.owner, kind |-> kind,
                                    used |-> m.used]
    BY <2>1
  <2>3. PICK b : b = TRUE
    OBVIOUS
  <2>4. [m EXCEPT !.used = b] = [id |-> m.id, owner |-> m.owner, kind |-> m.kind, used |-> b]
    BY <2>1
  <2> QED BY <2>2, <2>3, <2>4
<1>a. \A m \in memory : ItemShape(m)
  BY DEF MemoryInv
<1>b. \A m1, m2 \in memory : m1.id = m2.id => m1 = m2
  BY DEF MemoryInv
<1>1. CASE memory' = UpdateMemory(memory, id, owner, kind)
  <2> DEFINE New(m) == IF m.id = id /\ m.owner = owner THEN [m EXCEPT !.kind = kind] ELSE m
  <2>1. memory' = {New(m) : m \in memory}
    BY <1>1 DEF UpdateMemory
  <2>2. \A m \in memory : New(m).id = m.id /\ ItemShape(New(m))
    BY <1>0, <1>a DEF ItemShape
  <2> HIDE DEF New
  <2> QED BY <1>b, <2>1, <2>2
<1>2. CASE memory' = MarkUsed(memory, id, owner)
  <2> DEFINE New(m) == IF m.id = id /\ m.owner = owner THEN [m EXCEPT !.used = TRUE] ELSE m
  <2>1. memory' = {New(m) : m \in memory}
    BY <1>2 DEF MarkUsed
  <2>2. \A m \in memory : New(m).id = m.id /\ ItemShape(New(m))
    BY <1>0, <1>a DEF ItemShape
  <2> HIDE DEF New
  <2> QED BY <1>b, <2>1, <2>2
<1> QED BY <1>1, <1>2

LEMMA MemoryStep ==
  ASSUME MemoryInv, [Next]_vars PROVE MemoryInv'
<1>0. /\ \A m \in memory : ItemShape(m) /\ m.id \notin forgotten
      /\ \A m1, m2 \in memory : m1.id = m2.id => m1 = m2
      /\ \A m \in recalled.items : m.owner = Owner(Runner)
      /\ recalled = [items |-> recalled.items, unmarked |-> recalled.unmarked]
  BY DEF MemoryInv, ForgottenStaysForgotten
<1>a. ASSUME \A m \in memory' : ItemShape(m) /\ m.id \notin forgotten',
             \A m1, m2 \in memory' : m1.id = m2.id => m1 = m2,
             \A m \in recalled'.items : m.owner = Owner(Runner),
             recalled' = [items |-> recalled'.items, unmarked |-> recalled'.unmarked]
      PROVE  MemoryInv'
  BY <1>a DEF MemoryInv, ForgottenStaysForgotten, ItemShape, Owner, Runner
<1>1. ASSUME NEW id, NEW u, AddMemory(id, u) PROVE MemoryInv'
  <2>1. PICK x : x = [id |-> id, owner |-> Owner(u), kind |-> "fact", used |-> FALSE]
    OBVIOUS
  <2>2. x.id = id /\ ItemShape(x)
    BY <2>1 DEF ItemShape
  <2>3. /\ memory' = memory \cup {x} /\ UNCHANGED <<forgotten, recalled>>
        /\ id \notin forgotten /\ \A m \in memory : m.id # id
    BY <1>1, <2>1 DEF AddMemory, CreateMemory, runVars
  <2> QED BY <1>0, <1>a, <2>2, <2>3
<1>2. CASE WriteMemory
  <2>1. PICK kind : memory' = UpdateMemory(memory, editor.id, editor.owner, kind)
    BY <1>2 DEF WriteMemory
  <2>2. UNCHANGED <<forgotten, recalled>>
    BY <1>2 DEF WriteMemory, runVars
  <2> QED BY <1>0, <1>a, <2>1, <2>2, ItemsInPlace
<1>3. ASSUME NEW id, NEW u, RemoveMemory(id, u) PROVE MemoryInv'
  <2>1. PICK gone \in memory : gone.id = id /\ gone.owner = Owner(u)
    BY <1>3 DEF RemoveMemory, GetMemory
  <2>2. /\ memory' = {m \in memory : ~(m.id = id /\ m.owner = Owner(u))}
        /\ forgotten' = forgotten \cup {id} /\ UNCHANGED recalled
    BY <1>3 DEF RemoveMemory, DeleteMemory, GetMemory, runVars
  <2>3. \A m \in memory' : m \in memory /\ m.id # id
    BY <1>0, <2>1, <2>2
  <2> QED BY <1>0, <1>a, <2>2, <2>3
<1>4. CASE RetrieveForAgent
  <2>0. PICK found \in Retrieve(memory, Owner(Runner), ContextLimit) :
          \E items \in SUBSET found :
            recalled' = [items |-> items, unmarked |-> {m.id : m \in items}]
    BY <1>4 DEF RetrieveForAgent
  <2>1. PICK items \in SUBSET found :
          recalled' = [items |-> items, unmarked |-> {m.id : m \in items}]
    BY <2>0
  <2>2. recalled'.items = items
    BY <2>1
  <2>3. \A m \in items : m.owner = Owner(Runner)
    BY <2>1 DEF Retrieve, ListMemories
  <2>4. UNCHANGED <<memory, forgotten>>
    BY <1>4 DEF RetrieveForAgent, memoryVars
  <2>5. recalled' = [items |-> recalled'.items, unmarked |-> recalled'.unmarked]
    BY <2>1
  <2> QED BY <1>0, <1>a, <2>2, <2>3, <2>4, <2>5
<1>5. ASSUME NEW id, MarkMemory(id) PROVE MemoryInv'
  <2>1. memory' = MarkUsed(memory, id, Owner(Runner)) /\ UNCHANGED forgotten
    BY <1>5 DEF MarkMemory
  <2>2. recalled' = [recalled EXCEPT !.unmarked = @ \ {id}]
    BY <1>5 DEF MarkMemory
  <2>3. /\ recalled'.items = recalled.items
        /\ recalled' = [items |-> recalled'.items, unmarked |-> recalled'.unmarked]
    BY <1>0, <2>2
  <2> QED BY <1>0, <1>a, <2>1, <2>3, ItemsInPlace
<1>6. CASE UNCHANGED <<memory, forgotten, recalled>>
  BY <1>0, <1>6, <1>a
<1> QED
  BY <1>1, <1>2, <1>3, <1>4, <1>5, <1>6
  DEF Next, Run, StartRun, ReadBindings, RenderAgentBasePrompt, Execute, LookUpAgent,
      ResolveVersion, LookUpFails, SaveRecord, ReadTool, Remember, EditMemory, Edit,
      memoryVars, runVars, vars

-----------------------------------------------------------------------------
(* The theorems.                                                           *)

LEMMA HistoryInit == Init => HistoryInv
<1> SUFFICES ASSUME Init PROVE HistoryInv
  OBVIOUS
<1>1. PromptsInv
  <2>1. PICK x : x = [scope |-> "global", version |-> 1, active |-> TRUE,
                      id |-> Cardinality({}) + 1]
    OBVIOUS
  <2>2. prompts = {x}
    BY <2>1 DEF Init, CatalogInit, Seed, Row, FindByNameAndVersion
  <2>3. x.scope = "global" /\ x.active /\ RowShape(x) /\ x.id = 1
    BY <2>1, FS_EmptySet DEF RowShape
  <2>4. IsFiniteSet(prompts) /\ Cardinality(prompts) = 1
    BY <2>2, FS_Singleton
  <2>5. RowsInv
    BY <2>2, <2>3, <2>4 DEF RowsInv, ListVersions
  <2>6. \A c \in Clients : client[c].op # "activate"
    BY DEF Init, CatalogInit, Idle
  <2> QED BY <2>2, <2>5, <2>6 DEF PromptsInv, OneActive, FindActive
<1>2. AgentInv
  BY DEF Init, CatalogInit, AgentInv, Kept, Idle
<1>3. RefsInv
  BY DEF Init, CatalogInit, RefsInv, Idle, NewRun
<1>4. RunShape /\ RunInv
  BY DEF Init, NewRun, NoRecord, RunShape, Whole, RunInv, Going
<1>5. MemoryInv
  BY DEF Init, MemoryInv, ForgottenStaysForgotten
<1> QED BY <1>1, <1>2, <1>3, <1>4, <1>5 DEF HistoryInv

(* The invariant holds in every behaviour, also when activations overlap   *)
(* with each other and with insertions and when the look-up fails.         *)
THEOREM HistoryInvariant == Spec => []HistoryInv
<1>1. ASSUME HistoryInv, [Next]_vars PROVE HistoryInv'
  <2>1. PromptsInv /\ AgentInv /\ RefsInv /\ RunShape /\ RunInv /\ MemoryInv
    BY <1>1 DEF HistoryInv
  <2>2. PromptsInv'
    BY <1>1, <2>1, PromptsStep DEF AgentInv
  <2> QED
    BY <1>1, <2>1, <2>2, AgentStep, RefsStep, RunShapeStep, RunStep, MemoryStep DEF HistoryInv
<1> QED BY <1>1, HistoryInit, PTL DEF Spec

(* However creations, activations, edits and failures interleave: a scope  *)
(* has two active versions only after one was inserted into an activation, *)
(* a scope that has an active version never is without one, no number of   *)
(* the workspace is given twice, and a validated reference resolves        *)
(* whenever a run renders it.                                              *)
THEOREM VersionsStayUsable == Spec => VersionsUsable
<1>1. ASSUME HistoryInv PROVE VersionsResolve
  <2>1. RowsInv /\ OneActive /\ RefsInv
    BY <1>1 DEF HistoryInv, PromptsInv
  <2>2. ASSUME NEW s \in Scopes \ overlapped PROVE Cardinality(FindActive(prompts, s)) <= 1
    <3>1. \A r1, r2 \in FindActive(prompts, s) : r1 = r2
      BY <2>1 DEF OneActive
    <3>2. FindActive(prompts, s) = {} \/ \E x : FindActive(prompts, s) = {x}
      BY <3>1
    <3>3. Cardinality({}) = 0 /\ \A x : Cardinality({x}) = 1
      BY FS_EmptySet, FS_Singleton
    <3>4. Cardinality(FindActive(prompts, s)) \in {0, 1}
      BY <3>2, <3>3, Zenon
    <3> QED BY <3>4
  <2> QED BY <2>1, <2>2 DEF VersionsResolve, RowsInv, RefsInv, Resolvable
<1>2. ASSUME HistoryInv, [Next]_vars
      PROVE  \A s \in Scopes : FindActive(prompts, s) # {} => FindActive(prompts', s) # {}
  BY <1>2, RowsStay DEF HistoryInv
<1>3. HistoryInv /\ [Next]_vars =>
        [\A s \in Scopes : FindActive(prompts, s) # {} => FindActive(prompts', s) # {}]_vars
  BY <1>2
<1> QED BY <1>1, <1>3, HistoryInvariant, PTL DEF Spec, VersionsUsable, ActiveStays

(* A saved record names no version, its look-up having failed, or one that *)
(* was in force after the run had read its agent.                          *)
THEOREM RecordNamesItsVersion == Spec => []RecordNamesVersion
<1>1. HistoryInv => RecordNamesVersion
  BY DEF HistoryInv, RunShape, RunInv, RecordNamesVersion
<1> QED BY <1>1, HistoryInvariant, PTL

(* No update that had read an agent or a memory before its deletion brings *)
(* it back, no binding outlives its agent, and a run is given memories of  *)
(* its own user only.                                                      *)
THEOREM NothingComesBack == Spec => DeletedStaysGone
<1>1. HistoryInv => ForgottenStaysForgotten
  BY DEF HistoryInv, MemoryInv
<1>2. ASSUME HistoryInv, HistoryInv', [Next]_vars
      PROVE  /\ (used /\ agent = NoAgent /\ agent' # NoAgent)
                  => \E c \in Clients : client[c].op = "create_agent"
             /\ agent' = NoAgent => bound' = {}
  <2>1. ASSUME agent = NoAgent, agent' # NoAgent
        PROVE  \E c \in Clients : InsertAgent(c)
    <3>1. CASE CatalogNext
      BY <2>1, <3>1
      DEF CatalogNext, CreateVersion, CreateAgent, UpdateAgent, InsertVersion,
          ValidateToolNames, SetAgentTools, UpdateAgentRow, Activate, SetActive,
          ActivateFails, SetToolEnabled, DeleteAgent
    <3>2. CASE UNCHANGED agent
      BY <2>1, <3>2
    <3> QED
      BY <1>2, <3>1, <3>2
      DEF Next, Run, StartRun, ReadBindings, RenderAgentBasePrompt, RetrieveForAgent, Execute,
          LookUpAgent, ResolveVersion, LookUpFails, SaveRecord, ReadTool, MarkMemory, Remember,
          AddMemory, EditMemory, RemoveMemory, WriteMemory, Edit, vars, catalogVars
  <2>2. agent' = NoAgent => bound' = {}
    BY <1>2 DEF HistoryInv, AgentInv
  <2> QED BY <2>1, <2>2 DEF InsertAgent
<1>3. HistoryInv /\ HistoryInv' /\ [Next]_vars =>
        [/\ (used /\ agent = NoAgent /\ agent' # NoAgent)
              => \E c \in Clients : client[c].op = "create_agent"
         /\ agent' = NoAgent => bound' = {}]_vars
  BY <1>2
<1> QED
  BY <1>1, <1>3, HistoryInvariant, PTL DEF Spec, DeletedStaysGone, AgentStaysDeleted

-----------------------------------------------------------------------------
(* The workflow builder.                                                   *)

Functional ==
  /\ pc = [r \in Requests |-> pc[r]] /\ rec = [r \in Requests |-> rec[r]]
  /\ body = [r \in Requests |-> body[r]] /\ exec = [r \in Requests |-> exec[r]]
  /\ reply = [r \in Requests |-> reply[r]] /\ runs = [r \in Requests |-> runs[r]]

WorkflowShape(w) ==
  w = [status |-> w.status, version |-> w.version, name |-> w.name,
       definition |-> w.definition]
ResultShape(x) ==
  x = [status |-> x.status, definition |-> x.definition, node_results |-> x.node_results]
ExecShape(x) == x = [f \in DOMAIN x |-> x[f]] /\ "status" \in DOMAIN x

(* What was read and is still to be written is a definition that passed    *)
(* the validation, and one that the workflow has or had where it is only   *)
(* copied.                                                                 *)
Reading == {"update.check", "update.write", "create.write", "publish.check",
            "publish.write", "unpublish.write", "delete.write", "run.check", "run.create"}
Locals(r) ==
  /\ pc[r] \in Reading => WorkflowShape(rec[r]) /\ rec[r].definition \in Valid
  /\ pc[r] \in {"update.check", "run.check", "run.create"} => rec[r].definition \in history
  /\ pc[r] = "run.engine" => ExecShape(exec[r])
  /\ pc[r] \in {"run.finalize", "run.update"} => exec[r].status # "running"

(* A run's row is there from create_run on, and runs until update_run or   *)
(* the end of a request that was cancelled or has failed.                  *)
Outcome(r) ==
  /\ runs[r] # None => /\ ResultShape(runs[r])
                       /\ runs[r].definition \in Valid \cap history
  /\ pc[r] \notin {"run.engine", "run.finalize", "run.update", "run.read", "done"} =>
       runs[r] = None
  /\ pc[r] \in {"run.engine", "run.finalize", "run.update"} =>
       runs[r] = None \/ runs[r].status = "running"
  /\ pc[r] = "run.read" => runs[r] = None \/ runs[r].status # "running"
  /\ pc[r] = "done" /\ runs[r] # None =>
       /\ runs[r].status = "running" => reply[r].code \in Broken
       /\ reply[r].code = 201 => runs[r].status = reply[r].status

Stored ==
  row # None => WorkflowShape(row) /\ row.definition \in Valid \cap history

(* The workflow is created once, before every other request; in memory an  *)
(* update writes to the row it has read.                                   *)
CreatedFirst ==
  \A r \in Requests :
    /\ pc[r] \in {"create.check", "create.write"} => r = Creator
    /\ r = Creator /\ pc[r] \in {"idle", "create.check", "create.write"} => history = {}
    /\ r # Creator /\ history = {} => pc[r] = "idle"
UpdatesInPlace ==
  backend = "memory" => \A r \in Requests : pc[r] = "update.check" => row # None

BuilderInv ==
  /\ Functional /\ Stored /\ CreatedFirst /\ UpdatesInPlace
  /\ \A r \in Requests : Locals(r) /\ Outcome(r)

-----------------------------------------------------------------------------
(* What one request may change.                                            *)

LocalFunctions ==
  /\ pc = [r \in Requests |-> pc[r]] /\ rec = [r \in Requests |-> rec[r]]
  /\ body = [r \in Requests |-> body[r]] /\ exec = [r \in Requests |-> exec[r]]
  /\ reply = [r \in Requests |-> reply[r]]

Moves(q) ==
  \A r \in Requests \ {q} :
    /\ pc'[r] = pc[r] /\ rec'[r] = rec[r] /\ exec'[r] = exec[r] /\ reply'[r] = reply[r]

(* Respond ends its request and touches no other.                          *)
LEMMA RespondMoves ==
  ASSUME LocalFunctions, NEW q \in Requests, NEW code, NEW status,
         Respond(q, code, status)
  PROVE  /\ LocalFunctions' /\ Moves(q)
         /\ pc'[q] = "done" /\ reply'[q].code = code /\ reply'[q].status = status
BY DEF LocalFunctions, Moves, Respond

(* Continue gives its request the locals it names and touches no other.    *)
LEMMA ContinueMoves ==
  ASSUME LocalFunctions, NEW q \in Requests, NEW step, NEW w, NEW fields, NEW x,
         Continue(q, step, w, fields, x)
  PROVE  /\ LocalFunctions' /\ Moves(q)
         /\ pc'[q] = step /\ rec'[q] = w /\ exec'[q] = x
BY DEF LocalFunctions, Moves, Continue

(* What a step of q leaves to the other requests.                          *)
LEMMA OthersKept ==
  ASSUME BuilderInv, NEW q \in Requests, NEW r \in Requests \ {q}, Moves(q),
         history \subseteq history', runs'[r] \in {runs[r], None}
  PROVE  Locals(r)' /\ Outcome(r)'
<1>1. /\ pc'[r] = pc[r] /\ rec'[r] = rec[r] /\ exec'[r] = exec[r] /\ reply'[r] = reply[r]
  BY DEF Moves
<1>2. Locals(r) /\ Outcome(r)
  BY DEF BuilderInv
<1>3. Locals(r)'
  BY <1>1, <1>2 DEF Locals, WorkflowShape, ExecShape
<1>4. Outcome(r)'
  BY <1>1, <1>2 DEF Outcome, ResultShape
<1> QED BY <1>3, <1>4

(* A step of q keeps the invariant when it keeps what it says of q and of  *)
(* the row, and the creation stays the first thing that happens.           *)
LEMMA StepKeeps ==
  ASSUME BuilderInv, NEW q \in Requests, Moves(q), LocalFunctions',
         runs' = [r \in Requests |-> runs'[r]],
         backend' = backend, history \subseteq history',
         MayStep(q) \/ row' = row,
         \A r \in Requests \ {q} : runs'[r] \in {runs[r], None},
         pc'[q] \in {"create.check", "create.write"} => q = Creator /\ history' = {},
         pc'[q] # "idle",
         pc[q] = "idle" => history' = history /\ (q = Creator \/ history # {}),
         pc'[q] = "update.check" => row' # None,
         Stored', Locals(q)', Outcome(q)'
  PROVE  BuilderInv'
<1>1. \A r \in Requests : Locals(r)' /\ Outcome(r)'
  <2>1. SUFFICES ASSUME NEW r \in Requests \ {q} PROVE Locals(r)' /\ Outcome(r)'
    OBVIOUS
  <2> QED BY OthersKept
<1>2. Functional'
  BY DEF Functional, LocalFunctions
<1>3. CreatedFirst'
  BY DEF CreatedFirst, BuilderInv, Moves
<1>4. UpdatesInPlace'
  <2>1. SUFFICES ASSUME backend = "memory", NEW r \in Requests \ {q}, pc[r] = "update.check"
                 PROVE  row' # None
    BY DEF UpdatesInPlace, Moves
  <2>2. row # None
    BY <2>1 DEF UpdatesInPlace, BuilderInv
  <2> QED BY <2>1, <2>2 DEF MayStep
<1> QED BY <1>1, <1>2, <1>3, <1>4 DEF BuilderInv

(* A request that ends and writes nothing.                                 *)
LEMMA RespondKeeps ==
  ASSUME BuilderInv, NEW q \in Requests, NEW code, NEW status,
         Respond(q, code, status), UNCHANGED <<backend, row, runs, history>>,
         pc[q] = "idle" => q = Creator \/ history # {},
         pc[q] \in {"run.engine", "run.finalize", "run.update"} => code \in Broken,
         code = 201 /\ runs[q] # None => runs[q].status = status,
         pc[q] # "done"
  PROVE  BuilderInv'
<1>1. LocalFunctions /\ Stored /\ Locals(q) /\ Outcome(q) /\ runs = [r \in Requests |-> runs[r]]
  BY DEF BuilderInv, Functional, LocalFunctions
<1>2. /\ LocalFunctions' /\ Moves(q) /\ pc'[q] = "done"
      /\ reply'[q].code = code /\ reply'[q].status = status
  BY <1>1, RespondMoves
<1>3. Stored'
  BY <1>1 DEF Stored, WorkflowShape
<1>4. Locals(q)'
  BY <1>2 DEF Locals, Reading
<1>5. Outcome(q)'
  BY <1>1, <1>2 DEF Outcome, ResultShape
<1> QED BY <1>1, <1>2, <1>3, <1>4, <1>5, StepKeeps

(* A request that goes on and writes nothing, before its run has begun.    *)
Before == Steps \ {"idle", "run.engine", "run.finalize", "run.update", "run.read", "done"}

LEMMA ContinueKeeps ==
  ASSUME BuilderInv, NEW q \in Requests, NEW step \in Before, NEW w, NEW fields, NEW x,
         Continue(q, step, w, fields, x), UNCHANGED <<backend, row, runs, history>>,
         pc[q] \in Before \cup {"idle"},
         step \in {"create.check", "create.write"} => q = Creator /\ history = {},
         pc[q] = "idle" => q = Creator \/ history # {},
         step = "update.check" => row # None,
         step \in Reading => WorkflowShape(w) /\ w.definition \in Valid,
         step \in {"update.check", "run.check", "run.create"} => w.definition \in history
  PROVE  BuilderInv'
<1>1. LocalFunctions /\ Stored /\ Locals(q) /\ Outcome(q) /\ runs = [r \in Requests |-> runs[r]]
  BY DEF BuilderInv, Functional, LocalFunctions
<1>2. LocalFunctions' /\ Moves(q) /\ pc'[q] = step /\ pc'[q] # "idle" /\ rec'[q] = w
  BY <1>1, ContinueMoves DEF Before
<1>3. Stored'
  BY <1>1 DEF Stored, WorkflowShape
<1>4. Locals(q)'
  <2>1. step \notin {"run.engine", "run.finalize", "run.update"}
    BY DEF Before
  <2> QED BY <1>2, <2>1 DEF Locals, WorkflowShape
<1>5. Outcome(q)'
  <2>1. /\ runs[q] = None
        /\ pc'[q] \notin {"run.engine", "run.finalize", "run.update", "run.read", "done"}
    BY <1>1, <1>2 DEF Outcome, Before
  <2> QED BY <2>1 DEF Outcome, ResultShape
<1> QED BY <1>1, <1>2, <1>3, <1>4, <1>5, StepKeeps

(* A request that goes on with its run and writes nothing.                 *)
LEMMA EngineKeeps ==
  ASSUME BuilderInv, NEW q \in Requests,
         NEW step \in {"run.engine", "run.finalize", "run.update", "run.read"},
         NEW w, NEW fields, NEW x,
         Continue(q, step, w, fields, x), UNCHANGED <<backend, row, runs, history>>,
         pc[q] \in {"run.engine", "run.finalize"},
         step = "run.engine" => ExecShape(x),
         step \in {"run.finalize", "run.update"} => x.status # "running",
         step = "run.read" => runs[q] = None
  PROVE  BuilderInv'
<1>1. LocalFunctions /\ Stored /\ Locals(q) /\ Outcome(q) /\ runs = [r \in Requests |-> runs[r]]
  BY DEF BuilderInv, Functional, LocalFunctions
<1>2. LocalFunctions' /\ Moves(q) /\ pc'[q] = step /\ exec'[q] = x
  BY <1>1, ContinueMoves
<1>3. Stored'
  BY <1>1 DEF Stored, WorkflowShape
<1>4. Locals(q)'
  BY <1>2 DEF Locals, Reading, ExecShape
<1>5. Outcome(q)'
  BY <1>1, <1>2 DEF Outcome, ResultShape
<1> QED BY <1>1, <1>2, <1>3, <1>4, <1>5, StepKeeps

(* The engine's record of an execution stays one.                          *)
LEMMA SettleShape ==
  ASSUME NEW x, ExecShape(x)
  PROVE  ExecShape(Settle(x))
BY DEF ExecShape, Settle

LEMMA NodeDoneShape ==
  ASSUME NEW d, NEW x, NEW out, ExecShape(x)
  PROVE  ExecShape(NodeDone(d, x, out))
BY DEF ExecShape, NodeDone

-----------------------------------------------------------------------------
(* The operations.                                                         *)

LEMMA CreateStep ==
  ASSUME BuilderInv, NEW q \in Requests,
         \/ CreateRequest(q) \/ CreateWorkflow(q) \/ InsertWorkflow(q)
  PROVE  BuilderInv'
<1>1. /\ LocalFunctions /\ CreatedFirst /\ Locals(q) /\ Outcome(q)
      /\ runs = [r \in Requests |-> runs[r]]
  BY DEF BuilderInv, Functional, LocalFunctions
<1>2. CASE CreateRequest(q)
  <2>1. PICK fields : Continue(q, "create.check", None, fields, None)
    BY <1>2 DEF CreateRequest, Accept
  <2>2. q = Creator /\ history = {} /\ pc[q] = "idle"
    BY <1>1, <1>2 DEF CreateRequest, AtStep, CreatedFirst
  <2> QED
    BY <1>2, <2>1, <2>2, ContinueKeeps DEF CreateRequest, Before, Steps, Reading
<1>3. CASE CreateWorkflow(q)
  <2>1. q = Creator /\ history = {} /\ pc[q] = "create.check"
    BY <1>1, <1>3 DEF CreateWorkflow, AtStep, CreatedFirst
  <2>2. CASE ValidWithWorkspace(body[q].definition)
    <3> DEFINE w == [status |-> "draft", version |-> 1, name |-> body[q].name,
                     definition |-> body[q].definition]
    <3>1. WorkflowShape(w) /\ w.definition \in Valid
      BY <2>2 DEF WorkflowShape, ValidWithWorkspace
    <3>2. Continue(q, "create.write", w, body[q], exec[q])
      BY <1>3, <2>2 DEF CreateWorkflow, With
    <3> HIDE DEF w
    <3> QED
      BY <1>3, <2>1, <3>1, <3>2, ContinueKeeps
      DEF CreateWorkflow, Before, Steps, Reading
  <2>3. CASE ~ValidWithWorkspace(body[q].definition)
    BY <1>3, <2>1, <2>3, RespondKeeps DEF CreateWorkflow
  <2> QED BY <2>2, <2>3
<1>4. CASE InsertWorkflow(q)
  <2>1. /\ q = Creator /\ history = {} /\ pc[q] = "create.write" /\ MayStep(q)
        /\ runs' = runs /\ backend' = backend
        /\ row' = rec[q] /\ history' = history \cup {rec[q].definition}
        /\ \E code, status : Respond(q, code, status)
    BY <1>1, <1>4 DEF InsertWorkflow, RespondCommitted, AtStep, CreatedFirst
  <2>2. LocalFunctions' /\ Moves(q) /\ pc'[q] = "done"
    BY <1>1, <2>1, RespondMoves
  <2>3. WorkflowShape(rec[q]) /\ rec[q].definition \in Valid /\ runs[q] = None
    BY <1>1, <2>1 DEF Locals, Outcome, Reading
  <2>4. Stored'
    BY <2>1, <2>3 DEF Stored, WorkflowShape
  <2>5. Locals(q)' /\ Outcome(q)'
    BY <2>1, <2>2, <2>3 DEF Locals, Outcome, Reading
  <2> QED BY <1>1, <2>1, <2>2, <2>4, <2>5, StepKeeps
<1> QED BY <1>2, <1>3, <1>4

(* A write to the row by an update, a publication or an unpublication.     *)
LEMMA WriteKeeps ==
  ASSUME BuilderInv, NEW q \in Requests, NEW code, NEW status, NEW w,
         pc[q] \in {"update.write", "publish.write", "unpublish.write"}, MayStep(q),
         row' = w, history' = history \cup {w.definition},
         WorkflowShape(w), w.definition \in Valid,
         Respond(q, code, status), UNCHANGED <<backend, runs>>
  PROVE  BuilderInv'
<1>1. /\ LocalFunctions /\ Outcome(q) /\ runs = [r \in Requests |-> runs[r]]
  BY DEF BuilderInv, Functional, LocalFunctions
<1>2. LocalFunctions' /\ Moves(q) /\ pc'[q] = "done"
  BY <1>1, RespondMoves
<1>3. Stored'
  BY DEF Stored, WorkflowShape
<1>4. Locals(q)' /\ Outcome(q)'
  BY <1>1, <1>2 DEF Locals, Outcome, Reading
<1> QED BY <1>1, <1>2, <1>3, <1>4, StepKeeps

(* What the repository makes of a record and of the row is one of both.    *)
LEMMA UpdatedShape ==
  ASSUME NEW w, WorkflowShape(w), WorkflowShape(row)
  PROVE  /\ WorkflowShape(Updated(w)) /\ Updated(w).definition = w.definition
         /\ WorkflowShape(PublishedRow(w))
         /\ PublishedRow(w).definition = w.definition
BY DEF WorkflowShape, Updated, PublishedRow

(* A request other than the creation arrives.                              *)
LEMMA ArriveKeeps ==
  ASSUME BuilderInv, NEW q \in Requests, NEW step, NEW fields, Arrives(q),
         step \in {"update.get", "publish.get", "unpublish.get", "delete.get", "run.get"},
         Accept(q, step, fields), UNCHANGED <<backend, row, runs, history>>
  PROVE  BuilderInv'
<1>1. Continue(q, step, None, fields, None) /\ pc[q] = "idle" /\ history # {}
  BY DEF Accept, Arrives, AtStep
<1>2. step \in Before /\ step \notin Reading /\ step \notin {"create.check", "create.write"}
  BY DEF Before, Steps, Reading
<1> QED BY <1>1, <1>2, ContinueKeeps DEF Reading

LEMMA ArriveStep ==
  ASSUME BuilderInv, NEW q \in Requests,
         \/ UpdateRequest(q) \/ PublishRequest(q) \/ UnpublishRequest(q)
         \/ DeleteRequest(q) \/ RunRequest(q)
  PROVE  BuilderInv'
<1>1. CASE UpdateRequest(q)
  <2>1. PICK fields : \/ Respond(q, 422, None)
                      \/ Accept(q, "update.get", fields)
    BY <1>1 DEF UpdateRequest
  <2>2. CASE Respond(q, 422, None)
    BY <1>1, <2>2, RespondKeeps DEF UpdateRequest, Arrives, AtStep
  <2>3. CASE Accept(q, "update.get", fields)
    BY <1>1, <2>3, ArriveKeeps DEF UpdateRequest
  <2> QED BY <2>1, <2>2, <2>3
<1>2. CASE PublishRequest(q)
  BY <1>2, ArriveKeeps DEF PublishRequest
<1>3. CASE UnpublishRequest(q)
  BY <1>3, ArriveKeeps DEF UnpublishRequest
<1>4. CASE DeleteRequest(q)
  BY <1>4, ArriveKeeps DEF DeleteRequest
<1>5. CASE RunRequest(q)
  BY <1>5, ArriveKeeps DEF RunRequest
<1> QED BY <1>1, <1>2, <1>3, <1>4, <1>5

(* The record a request reads is the row.                                  *)
LEMMA LoadStep ==
  ASSUME BuilderInv, NEW q \in Requests, NEW from, NEW next,
         from \in {"update.get", "publish.get", "unpublish.get", "delete.get", "run.get"},
         next \in {"update.check", "publish.check", "unpublish.write", "delete.write",
                   "run.check"},
         Load(q, from, next)
  PROVE  BuilderInv'
<1>1. pc[q] = from /\ UNCHANGED <<backend, row, runs, history>>
  BY DEF Load, AtStep
<1>2. CASE row = None
  BY <1>1, <1>2, RespondKeeps DEF Load
<1>3. CASE row # None
  <2>1. Continue(q, next, row, body[q], exec[q])
    BY <1>3 DEF Load, With
  <2>2. WorkflowShape(row) /\ row.definition \in Valid /\ row.definition \in history
    BY <1>3 DEF BuilderInv, Stored
  <2>3. next \in Before /\ from \in Before
    BY DEF Before, Steps
  <2> QED BY <1>1, <1>3, <2>1, <2>2, <2>3, ContinueKeeps
<1> QED BY <1>2, <1>3

(* The check of an update, which in memory renames the row it refuses.     *)
LEMMA UpdateStep ==
  ASSUME BuilderInv, NEW q \in Requests, UpdateWorkflow(q)
  PROVE  BuilderInv'
<1> DEFINE d == body[q].definition
<1>1. /\ pc[q] = "update.check" /\ MayStep(q) /\ UNCHANGED <<backend, runs, history>>
  BY DEF UpdateWorkflow, AtStep
<1>2. /\ LocalFunctions /\ Stored /\ Outcome(q) /\ runs = [r \in Requests |-> runs[r]]
      /\ WorkflowShape(rec[q])
      /\ rec[q].definition \in Valid /\ rec[q].definition \in history
  BY <1>1 DEF BuilderInv, Functional, LocalFunctions, Locals, Reading
<1>3. /\ WorkflowShape(Renamed(q))
      /\ Renamed(q).definition = rec[q].definition
  BY <1>2 DEF Renamed, WorkflowShape
<1>4. CASE rec[q].status = "published"
  BY <1>1, <1>4, RespondKeeps DEF UpdateWorkflow
<1>5. CASE rec[q].status # "published" /\ d # None /\ ~ValidWithWorkspace(d)
  <2>1. Respond(q, 422, None) /\ Store(Renamed(q))
    BY <1>5 DEF UpdateWorkflow
  <2>2. LocalFunctions' /\ Moves(q) /\ pc'[q] = "done"
    BY <1>2, <2>1, RespondMoves
  <2>3. row' = Renamed(q) \/ row' = row
    BY <2>1 DEF Store
  <2>4. Stored'
    BY <1>1, <1>2, <1>3, <2>3 DEF Stored, WorkflowShape
  <2>5. Locals(q)' /\ Outcome(q)'
    BY <1>1, <1>2, <2>2 DEF Locals, Outcome, Reading
  <2> QED BY <1>1, <1>2, <2>2, <2>4, <2>5, StepKeeps
<1>6. CASE rec[q].status # "published" /\ ~(d # None /\ ~ValidWithWorkspace(d))
  <2>1. Continue(q, "update.write", Edited(q), body[q], exec[q]) /\ row' = row
    BY <1>6 DEF UpdateWorkflow, With
  <2>2. WorkflowShape(Edited(q)) /\ Edited(q).definition \in Valid
    <3>1. d = None \/ d \in Valid
      BY <1>6 DEF ValidWithWorkspace
    <3> QED BY <1>2, <1>3, <3>1 DEF Edited, WorkflowShape
  <2> QED BY <1>1, <2>1, <2>2, ContinueKeeps DEF Before, Steps
<1> QED BY <1>4, <1>5, <1>6

(* The writes of the three operations on the row.                          *)
LEMMA SaveStep ==
  ASSUME BuilderInv, NEW q \in Requests,
         \/ SaveWorkflow(q, "update.write") \/ SavePublished(q)
         \/ UnpublishWorkflow(q)
  PROVE  BuilderInv'
<1>1. /\ pc[q] \in {"update.write", "publish.write", "unpublish.write"} /\ MayStep(q)
      /\ UNCHANGED <<backend, runs>>
  BY DEF SaveWorkflow, SavePublished, UnpublishWorkflow, AtStep
<1>2. WorkflowShape(rec[q]) /\ rec[q].definition \in Valid
  BY <1>1 DEF BuilderInv, Locals, Reading
<1>3. CASE row = None
  <2>1. Respond(q, 404, None) /\ UNCHANGED <<row, history>>
    BY <1>3 DEF SaveWorkflow, SavePublished, UnpublishWorkflow
  <2> QED BY <1>1, <2>1, RespondKeeps
<1>4. CASE row # None
  <2>1. WorkflowShape(row)
    BY <1>4 DEF BuilderInv, Stored
  <2>2. CASE SaveWorkflow(q, "update.write")
    <3>1. /\ row' = Updated(rec[q]) /\ history' = history \cup {rec[q].definition}
          /\ \E code, status : Respond(q, code, status)
      BY <1>4, <2>2 DEF SaveWorkflow, RespondCommitted
    <3> QED BY <1>1, <1>2, <2>1, <3>1, UpdatedShape, WriteKeeps
  <2>3. CASE SavePublished(q)
    <3>1. /\ row' = PublishedRow(rec[q]) /\ history' = history \cup {rec[q].definition}
          /\ \E code, status : Respond(q, code, status)
      BY <1>4, <2>3 DEF SavePublished, RespondCommitted
    <3> QED BY <1>1, <1>2, <2>1, <3>1, UpdatedShape, WriteKeeps
  <2>4. CASE UnpublishWorkflow(q)
    <3> DEFINE w == [rec[q] EXCEPT !.status = "draft"]
    <3>1. /\ row' = Updated(w) /\ history' = history \cup {w.definition}
          /\ \E code, status : Respond(q, code, status)
      BY <1>4, <2>4 DEF UnpublishWorkflow, RespondCommitted
    <3>2. WorkflowShape(w) /\ w.definition \in Valid
      BY <1>2 DEF WorkflowShape
    <3> HIDE DEF w
    <3>3. /\ WorkflowShape(Updated(w))
          /\ Updated(w).definition = w.definition
      BY <2>1, <3>2, UpdatedShape
    <3> QED BY <1>1, <3>1, <3>2, <3>3, WriteKeeps
  <2> QED BY <2>2, <2>3, <2>4
<1> QED BY <1>3, <1>4

LEMMA PublishStep ==
  ASSUME BuilderInv, NEW q \in Requests, PublishWorkflow(q)
  PROVE  BuilderInv'
<1>1. pc[q] = "publish.check" /\ UNCHANGED <<backend, row, runs, history>>
  BY DEF PublishWorkflow, AtStep
<1>2. WorkflowShape(rec[q]) /\ rec[q].definition \in Valid
  BY <1>1 DEF BuilderInv, Locals, Reading
<1>3. CASE ValidWithWorkspace(rec[q].definition)
  <2>1. PICK v : Continue(q, "publish.write",
                   [rec[q] EXCEPT !.status = "published", !.version = v], body[q], exec[q])
    BY <1>3 DEF PublishWorkflow, With
  <2> DEFINE w == [rec[q] EXCEPT !.status = "published", !.version = v]
  <2>2. PICK u : u = [rec[q] EXCEPT !.status = "published"]
    OBVIOUS
  <2>3. WorkflowShape(u) /\ u.definition \in Valid
    BY <1>2, <2>2 DEF WorkflowShape
  <2>4. w = [u EXCEPT !.version = v]
    BY <1>2, <2>2 DEF WorkflowShape
  <2> HIDE DEF w
  <2>5. WorkflowShape(w) /\ w.definition \in Valid
    BY <2>3, <2>4 DEF WorkflowShape
  <2> QED BY <1>1, <2>1, <2>5, ContinueKeeps DEF Before, Steps, w
<1>4. CASE ~ValidWithWorkspace(rec[q].definition)
  BY <1>1, <1>4, RespondKeeps DEF PublishWorkflow
<1> QED BY <1>3, <1>4

(* A deletion takes the row and, on PostgreSQL, the rows of all runs.      *)
LEMMA DeleteStep ==
  ASSUME BuilderInv, NEW q \in Requests, DeleteWorkflow(q)
  PROVE  BuilderInv'
<1>1. pc[q] = "delete.write" /\ MayStep(q) /\ UNCHANGED <<backend, history>>
  BY DEF DeleteWorkflow, AtStep
<1>2. CASE rec[q].status = "published"
  BY <1>1, <1>2, RespondKeeps DEF DeleteWorkflow
<1>3. CASE rec[q].status # "published"
  <2>1. /\ LocalFunctions /\ Outcome(q) /\ runs = [r \in Requests |-> runs[r]]
    BY DEF BuilderInv, Functional, LocalFunctions
  <2>2. PICK code : Respond(q, code, None)
    BY <1>3 DEF DeleteWorkflow, RespondCommitted
  <2>3. row' = None /\ (runs' = [r \in Requests |-> None] \/ runs' = runs)
    BY <1>3 DEF DeleteWorkflow, RemoveRow
  <2>4. /\ runs' = [r \in Requests |-> runs'[r]]
        /\ \A r \in Requests : runs'[r] \in {runs[r], None}
    BY <2>1, <2>3
  <2>5. LocalFunctions' /\ Moves(q) /\ pc'[q] = "done"
    BY <2>1, <2>2, RespondMoves
  <2>6. Locals(q)' /\ Outcome(q)' /\ Stored'
    <3>1. runs[q] = None /\ runs'[q] = None
      BY <1>1, <2>1, <2>4 DEF Outcome
    <3> QED BY <2>3, <2>5, <3>1 DEF Locals, Outcome, Reading, Stored
  <2> QED BY <1>1, <2>1, <2>4, <2>5, <2>6, StepKeeps
<1> QED BY <1>2, <1>3

(* The steps of a run.                                                     *)
LEMMA WorkflowRunStep ==
  ASSUME BuilderInv, NEW q \in Requests,
         \/ CheckRun(q) \/ CreateRun(q) \/ ExecuteNode(q)
         \/ EngineReturns(q) \/ CancelRun(q)
         \/ FinalizeRun(q) \/ UpdateRun(q) \/ ReadRun(q)
  PROVE  BuilderInv'
<1>1. /\ LocalFunctions /\ Stored /\ Locals(q) /\ Outcome(q)
      /\ runs = [r \in Requests |-> runs[r]]
  BY DEF BuilderInv, Functional, LocalFunctions
<1>2. CASE CheckRun(q)
  <2>1. pc[q] = "run.check" /\ UNCHANGED <<backend, row, runs, history>>
    BY <1>2 DEF CheckRun, AtStep
  <2>2. CASE ValidWithWorkspace(rec[q].definition)
    <3>1. Continue(q, "run.create", rec[q], body[q], exec[q])
      BY <1>2, <2>2 DEF CheckRun, Goto
    <3>2. /\ WorkflowShape(rec[q]) /\ rec[q].definition \in Valid
          /\ rec[q].definition \in history
      BY <1>1, <2>1 DEF Locals, Reading
    <3> QED BY <2>1, <3>1, <3>2, ContinueKeeps DEF Before, Steps
  <2>3. CASE ~ValidWithWorkspace(rec[q].definition)
    BY <1>2, <2>1, <2>3, RespondKeeps DEF CheckRun
  <2> QED BY <2>2, <2>3
<1>3. CASE CreateRun(q)
  <2>1. pc[q] = "run.create" /\ UNCHANGED <<backend, row, history>>
    BY <1>3 DEF CreateRun, AtStep
  <2>2. CASE backend = "postgres" /\ row = None
    BY <1>3, <2>1, <2>2, RespondKeeps DEF CreateRun
  <2>3. CASE ~(backend = "postgres" /\ row = None)
    <3> DEFINE d == rec[q].definition
               x == Begin(d, Order[d], body[q])
    <3>1. /\ runs' = [runs EXCEPT ![q] = RunRow(d)]
          /\ \/ Continue(q, "run.engine", rec[q], None, Settle(x))
             \/ \E broken \in Broken : Respond(q, broken, None)
      BY <1>3, <2>3 DEF CreateRun
    <3>2. ExecShape(Settle(x))
      <4>1. ExecShape(x)
        BY DEF ExecShape, Begin
      <4> QED BY <4>1, SettleShape
    <3>3. d \in Valid /\ d \in history
      BY <1>1, <2>1 DEF Locals, Reading
    <3> HIDE DEF d, x
    <3>4. /\ LocalFunctions' /\ Moves(q)
          /\ \/ pc'[q] = "run.engine" /\ exec'[q] = Settle(x)
             \/ pc'[q] = "done" /\ reply'[q].code \in Broken
      BY <1>1, <3>1, ContinueMoves, RespondMoves
    <3>5. /\ runs' = [r \in Requests |-> runs'[r]]
          /\ \A r \in Requests \ {q} : runs'[r] = runs[r]
          /\ runs'[q] = [status |-> "running", definition |-> d, node_results |-> <<>>]
      BY <1>1, <3>1 DEF RunRow
    <3>6. Outcome(q)'
      BY <2>1, <3>3, <3>4, <3>5 DEF Outcome, ResultShape, Broken
    <3>7. Locals(q)'
      BY <3>2, <3>4 DEF Locals, Reading, ExecShape
    <3>8. Stored'
      BY <1>1, <2>1 DEF Stored, WorkflowShape
    <3> QED BY <1>1, <2>1, <3>4, <3>5, <3>6, <3>7, <3>8, StepKeeps
  <2> QED BY <2>2, <2>3
<1>4. CASE ExecuteNode(q)
  <2>1. pc[q] = "run.engine" /\ UNCHANGED <<backend, row, runs, history>>
    BY <1>4 DEF ExecuteNode, AtStep
  <2>2. PICK out : Continue(q, "run.engine", rec[q], None,
                     Settle(NodeDone(rec[q].definition, exec[q], out)))
    BY <1>4 DEF ExecuteNode
  <2>3. ExecShape(exec[q])
    BY <1>1, <2>1 DEF Locals
  <2>4. ExecShape(Settle(NodeDone(rec[q].definition, exec[q], out)))
    BY <2>3, NodeDoneShape, SettleShape
  <2> QED BY <2>1, <2>2, <2>4, EngineKeeps
<1>5. CASE EngineReturns(q)
  BY <1>5, EngineKeeps DEF EngineReturns, AtStep, Goto
<1>6. CASE CancelRun(q)
  <2> DEFINE x == [exec[q] EXCEPT !.status = "cancelled", !.results = <<>>, !.todo = <<>>]
  <2>1. /\ pc[q] = "run.engine" /\ UNCHANGED <<backend, row, runs, history>>
        /\ Continue(q, "run.finalize", rec[q], None, x)
    BY <1>6 DEF CancelRun, AtStep
  <2>2. ExecShape(exec[q])
    BY <1>1, <2>1 DEF Locals
  <2>3. x.status = "cancelled"
    BY <2>2 DEF ExecShape
  <2> HIDE DEF x
  <2> QED BY <2>1, <2>3, EngineKeeps
<1>7. CASE FinalizeRun(q)
  <2>1. /\ pc[q] = "run.finalize" /\ UNCHANGED <<backend, row, runs, history>>
        /\ \/ runs[q] = None /\ Continue(q, "run.read", rec[q], body[q], exec[q])
           \/ Continue(q, "run.update", rec[q], body[q], exec[q])
    BY <1>7 DEF FinalizeRun, AtStep, Goto
  <2>2. exec[q].status # "running"
    BY <1>1, <2>1 DEF Locals
  <2> QED BY <2>1, <2>2, EngineKeeps
<1>8. CASE UpdateRun(q)
  <2>1. /\ pc[q] = "run.update" /\ UNCHANGED <<backend, row, history>>
        /\ \/ Continue(q, "run.read", rec[q], body[q], exec[q])
           \/ \E broken \in Broken : Respond(q, broken, None)
    BY <1>8 DEF UpdateRun, AtStep, Goto
  <2>2. /\ LocalFunctions' /\ Moves(q)
        /\ pc'[q] = "run.read" \/ (pc'[q] = "done" /\ reply'[q].code \in Broken)
    BY <1>1, <2>1, ContinueMoves, RespondMoves
  <2>3. exec[q].status # "running"
    BY <1>1, <2>1 DEF Locals
  <2>4. /\ runs' = [r \in Requests |-> runs'[r]]
        /\ \A r \in Requests \ {q} : runs'[r] = runs[r]
        /\ \/ runs'[q] = None
           \/ /\ runs[q] # None
              /\ runs'[q] = [runs[q] EXCEPT !.status = exec[q].status,
                                            !.node_results = exec[q].results]
    BY <1>1, <1>8 DEF UpdateRun, Finished
  <2>5. Outcome(q)'
    <3>1. CASE runs'[q] = None
      BY <2>2, <3>1 DEF Outcome
    <3>2. CASE runs'[q] # None
      <4>1. ResultShape(runs[q]) /\ runs[q].definition \in Valid \cap history
        BY <1>1, <2>4, <3>2 DEF Outcome
      <4>2. runs'[q] = [status |-> exec[q].status, definition |-> runs[q].definition,
                        node_results |-> exec[q].results]
        BY <2>4, <3>2, <4>1 DEF ResultShape
      <4>3. /\ ResultShape(runs'[q]) /\ runs'[q].status # "running"
            /\ runs'[q].definition \in Valid \cap history'
        BY <2>1, <2>3, <4>1, <4>2 DEF ResultShape
      <4>4. reply'[q].code \in Broken => reply'[q].code # 201
        BY DEF Broken
      <4> QED BY <2>2, <4>3, <4>4 DEF Outcome, ResultShape
    <3> QED BY <3>1, <3>2
  <2>6. Locals(q)'
    BY <2>2 DEF Locals, Reading
  <2>7. Stored'
    BY <1>1, <2>1 DEF Stored, WorkflowShape
  <2> QED BY <1>1, <2>1, <2>2, <2>4, <2>5, <2>6, <2>7, StepKeeps
<1>9. CASE ReadRun(q)
  <2>1. pc[q] = "run.read" /\ UNCHANGED <<backend, row, runs, history>>
    BY <1>9 DEF ReadRun, AtStep
  <2>2. PICK code, status : /\ Respond(q, code, status)
                            /\ code = 201 => status = runs[q].status
    BY <1>9 DEF ReadRun
  <2> QED BY <2>1, <2>2, RespondKeeps
<1> QED BY <1>2, <1>3, <1>4, <1>5, <1>6, <1>7, <1>8, <1>9

LEMMA InterruptStep ==
  ASSUME BuilderInv, NEW q \in Requests, Interrupt(q)
  PROVE  BuilderInv'
BY RespondKeeps DEF Interrupt, Broken

-----------------------------------------------------------------------------
(* The invariant.                                                          *)

LEMMA BuilderStep ==
  ASSUME BuilderInv, BuilderNext
  PROVE  BuilderInv'
<1>1. ASSUME NEW q \in Requests, RequestStep(q) PROVE BuilderInv'
  <2>1. \/ CreateRequest(q) \/ CreateWorkflow(q) \/ InsertWorkflow(q)
        \/ \/ UpdateRequest(q) \/ PublishRequest(q)
           \/ UnpublishRequest(q) \/ DeleteRequest(q) \/ RunRequest(q)
        \/ \/ Load(q, "update.get", "update.check")
           \/ Load(q, "publish.get", "publish.check")
           \/ Load(q, "unpublish.get", "unpublish.write")
           \/ Load(q, "delete.get", "delete.write")
           \/ Load(q, "run.get", "run.check")
        \/ UpdateWorkflow(q) \/ PublishWorkflow(q) \/ DeleteWorkflow(q)
        \/ \/ SaveWorkflow(q, "update.write") \/ SavePublished(q)
           \/ UnpublishWorkflow(q)
        \/ \/ CheckRun(q) \/ CreateRun(q) \/ ExecuteNode(q)
           \/ EngineReturns(q) \/ FinalizeRun(q) \/ UpdateRun(q) \/ ReadRun(q)
    BY <1>1 DEF RequestStep
  <2>2. CASE \/ Load(q, "update.get", "update.check")
             \/ Load(q, "publish.get", "publish.check")
             \/ Load(q, "unpublish.get", "unpublish.write")
             \/ Load(q, "delete.get", "delete.write")
             \/ Load(q, "run.get", "run.check")
    BY <2>2, LoadStep
  <2> QED
    BY <1>1, <2>1, <2>2, CreateStep, ArriveStep, UpdateStep, PublishStep, DeleteStep, SaveStep,
       WorkflowRunStep
<1>2. ASSUME NEW x \in Switches, SetEnabled(x) PROVE BuilderInv'
  BY <1>2
  DEF SetEnabled, BuilderInv, Functional, Stored, CreatedFirst, UpdatesInPlace, Locals,
      Outcome, WorkflowShape, ResultShape, ExecShape
<1> QED BY <1>1, <1>2, WorkflowRunStep, InterruptStep DEF BuilderNext

(* The invariant of the workflow builder, for any number of requests, any  *)
(* definitions and either storage: what a request has read, or has checked *)
(* and not yet written, stays a validated definition whatever the others   *)
(* write in between.                                                       *)
THEOREM BuilderInvariant == BuilderSpec => []BuilderInv
<1>1. BuilderInit => BuilderInv
  BY DEF BuilderInit, BuilderInv, Functional, Stored, CreatedFirst, UpdatesInPlace, Locals,
         Outcome, Reading
<1>2. BuilderInv /\ UNCHANGED builderVars => BuilderInv'
  BY DEF builderVars, BuilderInv, Functional, Stored, CreatedFirst, UpdatesInPlace, Locals,
         Outcome, WorkflowShape, ResultShape, ExecShape
<1> QED BY <1>1, <1>2, BuilderStep, PTL DEF BuilderSpec

(* RunsAreSound of the workflow builder: the stored definition and the     *)
(* snapshot of every run were validated and are definitions the workflow   *)
(* has had, a run is recorded as running only while its request works on   *)
(* it or when it was cancelled or failed, and what a request answers about *)
(* its run is what is stored.                                              *)
THEOREM StoredRunsAreSound == BuilderSpec => []RunsAreSound
<1>1. BuilderInv => SnapshotsAreWhole
  BY DEF BuilderInv, Stored, Outcome, SnapshotsAreWhole
<1>2. BuilderInv => RunningIsLive
  <2> SUFFICES ASSUME BuilderInv, NEW r \in Requests, runs[r] # None
               PROVE  /\ runs[r].status = "running" =>
                           \/ pc[r] \in {"run.engine", "run.finalize", "run.update"}
                           \/ pc[r] = "done" /\ reply[r].code \in Broken
                      /\ (pc[r] = "done" /\ reply[r].code = 201) =>
                           runs[r].status = reply[r].status
    BY DEF RunningIsLive
  <2> QED BY DEF BuilderInv, Outcome
<1> QED BY <1>1, <1>2, BuilderInvariant, PTL DEF RunsAreSound

(* A write to the rows of runs: none, a deletion, the insert of a run that *)
(* has no row yet, or the outcome of one that is still running.            *)
LEMMA RunRowStep ==
  ASSUME BuilderInv, BuilderNext, NEW r \in Requests, runs[r] # None, runs'[r] # None
  PROVE  /\ runs'[r].definition = runs[r].definition
         /\ runs[r].status \in Terminal => runs'[r] = runs[r]
<1>1. CASE runs' = runs
  BY <1>1
<1>2. ASSUME NEW q \in Requests, DeleteWorkflow(q) PROVE runs'[r] = runs[r]
  BY <1>2 DEF DeleteWorkflow, RemoveRow
<1>3. ASSUME NEW q \in Requests, CreateRun(q) PROVE runs'[r] = runs[r]
  <2>1. runs[q] = None
    BY <1>3 DEF BuilderInv, Outcome, CreateRun, AtStep
  <2>2. runs = [s \in Requests |-> runs[s]] /\ r # q
    BY <2>1 DEF BuilderInv, Functional
  <2> QED BY <1>3, <2>2 DEF CreateRun
<1>4. ASSUME NEW q \in Requests, UpdateRun(q)
      PROVE  \/ runs'[r] = runs[r]
             \/ /\ runs'[r].definition = runs[r].definition
                /\ runs[r].status \notin Terminal
  <2>1. runs[q] = None \/ runs[q].status = "running"
    BY <1>4 DEF BuilderInv, Outcome, UpdateRun, AtStep
  <2>2. CASE r # q
    BY <1>4, <2>2 DEF UpdateRun
  <2>3. CASE r = q
    <3>1. ResultShape(runs[r]) /\ runs = [s \in Requests |-> runs[s]]
      BY DEF BuilderInv, Outcome, Functional
    <3>2. runs'[r].definition = runs[r].definition
      BY <1>4, <2>3, <3>1 DEF UpdateRun, Finished, ResultShape
    <3> QED BY <2>1, <2>3, <3>2 DEF Terminal
  <2> QED BY <2>2, <2>3
<1>5. ASSUME NEW q \in Requests,
             \/ CreateRequest(q) \/ CreateWorkflow(q) \/ InsertWorkflow(q)
             \/ UpdateRequest(q) \/ PublishRequest(q)
             \/ UnpublishRequest(q) \/ DeleteRequest(q) \/ RunRequest(q)
      PROVE  runs' = runs
  BY <1>5 DEF CreateRequest, CreateWorkflow, InsertWorkflow,
              UpdateRequest, PublishRequest, UnpublishRequest,
              DeleteRequest, RunRequest
<1>6. ASSUME NEW q \in Requests, NEW from, NEW next, Load(q, from, next)
      PROVE  runs' = runs
  BY <1>6 DEF Load
<1>7. ASSUME NEW q \in Requests,
             \/ UpdateWorkflow(q) \/ SaveWorkflow(q, "update.write")
             \/ PublishWorkflow(q) \/ SavePublished(q)
             \/ UnpublishWorkflow(q) \/ CheckRun(q)
      PROVE  runs' = runs
  BY <1>7 DEF UpdateWorkflow, SaveWorkflow, PublishWorkflow,
              SavePublished, UnpublishWorkflow, CheckRun
<1>8. ASSUME NEW q \in Requests,
             \/ ExecuteNode(q) \/ EngineReturns(q) \/ ReadRun(q)
             \/ FinalizeRun(q) \/ CancelRun(q) \/ Interrupt(q)
      PROVE  runs' = runs
  BY <1>8 DEF ExecuteNode, EngineReturns, ReadRun, FinalizeRun, CancelRun,
              Interrupt
<1>9. ASSUME NEW x \in Switches, SetEnabled(x) PROVE runs' = runs
  BY <1>9 DEF SetEnabled
<1>10. CASE \E q \in Requests : RequestStep(q)
  <2>1. PICK q \in Requests : RequestStep(q)
    BY <1>10
  <2>2. CASE runs'[r] # runs[r]
    BY <1>2, <1>3, <1>4, <1>5, <1>6, <1>7, <1>8, <2>1, <2>2 DEF RequestStep
  <2> QED BY <2>2
<1> QED BY <1>1, <1>8, <1>9, <1>10 DEF BuilderNext

(* A write to the workflow's row: the insert precedes every other request, *)
(* the later ones find a row or write nothing.                             *)
LEMMA RowStep ==
  ASSUME BuilderInv, BuilderNext, row = None, history # {}
  PROVE  row' = None
<1>1. CASE row' = row
  BY <1>1
<1>2. ASSUME NEW q \in Requests, InsertWorkflow(q) PROVE FALSE
  BY <1>2 DEF BuilderInv, CreatedFirst, InsertWorkflow, AtStep
<1>3. ASSUME NEW q \in Requests, UpdateWorkflow(q) PROVE row' = row
  BY <1>3 DEF BuilderInv, UpdatesInPlace, UpdateWorkflow, AtStep, Store
<1>4. ASSUME NEW q \in Requests,
             \/ SaveWorkflow(q, "update.write") \/ SavePublished(q)
             \/ UnpublishWorkflow(q) \/ DeleteWorkflow(q)
      PROVE  row' = None
  BY <1>4 DEF SaveWorkflow, SavePublished, UnpublishWorkflow,
              DeleteWorkflow, RemoveRow
<1>5. ASSUME NEW q \in Requests,
             \/ CreateRequest(q) \/ CreateWorkflow(q) \/ UpdateRequest(q)
             \/ PublishRequest(q) \/ UnpublishRequest(q)
             \/ DeleteRequest(q) \/ RunRequest(q)
      PROVE  row' = row
  BY <1>5 DEF CreateRequest, CreateWorkflow, UpdateRequest,
              PublishRequest, UnpublishRequest, DeleteRequest,
              RunRequest
<1>6. ASSUME NEW q \in Requests, NEW from, NEW next, Load(q, from, next)
      PROVE  row' = row
  BY <1>6 DEF Load
<1>7. ASSUME NEW q \in Requests,
             \/ PublishWorkflow(q) \/ CheckRun(q) \/ CreateRun(q)
             \/ ExecuteNode(q) \/ EngineReturns(q)
      PROVE  row' = row
  BY <1>7 DEF PublishWorkflow, CheckRun, CreateRun, ExecuteNode,
              EngineReturns
<1>8. ASSUME NEW q \in Requests,
             \/ FinalizeRun(q) \/ UpdateRun(q) \/ ReadRun(q) \/ CancelRun(q)
             \/ Interrupt(q)
      PROVE  row' = row
  BY <1>8 DEF FinalizeRun, UpdateRun, ReadRun, CancelRun, Interrupt
<1>9. ASSUME NEW x \in Switches, SetEnabled(x) PROVE row' = row
  BY <1>9 DEF SetEnabled
<1>10. CASE \E q \in Requests : RequestStep(q)
  <2>1. PICK q \in Requests : RequestStep(q)
    BY <1>10
  <2> QED
    BY <1>2, <1>3, <1>4, <1>5, <1>6, <1>7, <1>8, <2>1 DEF RequestStep
<1> QED BY <1>1, <1>8, <1>9, <1>10 DEF BuilderNext

(* HistoryKept of the workflow builder: the definition of a run and a run  *)
(* that has ended never change, whatever is edited or published, and no    *)
(* write that was decided on before a delete brings the workflow back.     *)
THEOREM RunHistoryIsKept == BuilderSpec => HistoryKept
<1> DEFINE Frozen == \A r \in Requests : (runs[r] # None /\ runs'[r] # None) =>
                       /\ runs'[r].definition = runs[r].definition
                       /\ (runs[r].status \in Terminal => runs'[r] = runs[r])
           Gone   == (row = None /\ history # {}) => row' = None
<1>1. BuilderInv /\ [BuilderNext]_builderVars => [Frozen]_builderVars
  BY RunRowStep
<1>2. BuilderInv /\ [BuilderNext]_builderVars => [Gone]_builderVars
  BY RowStep
<1>3. BuilderSpec => [][Frozen]_builderVars
  BY <1>1, BuilderInvariant, PTL DEF BuilderSpec
<1>4. BuilderSpec => [][Gone]_builderVars
  BY <1>2, BuilderInvariant, PTL DEF BuilderSpec
<1> QED
  BY <1>3, <1>4, PTL DEF HistoryKept, HistoryFrozen, DeletedStaysDeleted

-----------------------------------------------------------------------------
(* Induction and recursion over the naturals, with sets and functions for  *)
(* the formulas and the operators that the provers cannot substitute.      *)

(* The least of some numbers.                                              *)
LEMMA Least ==
  ASSUME NEW S \in SUBSET Nat, S # {}
  PROVE  \E n \in S : \A m \in S : n <= m
<1> DEFINE R == OpToRel(<, Nat)
<1>1. \E x \in S : \A y \in S : ~ (<<y, x>> \in R)
  BY WFMin, NatLessThanWellFounded
<1>2. PICK x \in S : \A y \in S : ~ (<<y, x>> \in R)
  BY <1>1
<1>3. \A y \in S : x <= y
  <2> TAKE y \in S
  <2>1. <<y, x>> \notin R
    BY <1>2
  <2> QED BY <2>1 DEF OpToRel
<1> QED BY <1>3

LEMMA UpTo ==
  ASSUME NEW N \in Nat, NEW S, 0 \in S, \A i \in 1..N : i - 1 \in S => i \in S
  PROVE  \A i \in 0..N : i \in S
<1> SUFFICES ASSUME NEW j \in 0..N, j \notin S PROVE FALSE
  OBVIOUS
<1> DEFINE Missing == {i \in 0..N : i \notin S}
<1>1. Missing \in SUBSET Nat /\ Missing # {}
  OBVIOUS
<1>2. PICK i \in Missing : \A m \in Missing : i <= m
  BY <1>1, Least
<1>3. i \in 1..N /\ i - 1 \in 0..N
  OBVIOUS
<1>4. i - 1 \notin Missing
  BY <1>2, <1>3
<1> QED BY <1>3, <1>4

(* A recursion whose steps stay in D is a function.                        *)
Recurses(f, N, D, base, g) ==
  /\ f \in [0..N -> D] /\ f[0] = base
  /\ \A i \in 1..N : f[i] = g[<<i, f[i - 1]>>]

LEMMA Recursion ==
  ASSUME NEW N \in Nat, NEW D, NEW base \in D, NEW g \in [(1..N) \X D -> D]
  PROVE  \E f : Recurses(f, N, D, base, g)
<1> DEFINE S == {n \in 0..N : \E f : Recurses(f, n, D, base, g)}
<1>1. 0 \in S
  <2>1. Recurses([i \in 0..0 |-> base], 0, D, base, g)
    BY DEF Recurses
  <2> QED BY <2>1
<1>2. ASSUME NEW n \in 1..N, n - 1 \in S PROVE n \in S
  <2>1. PICK f : Recurses(f, n - 1, D, base, g)
    BY <1>2
  <2> DEFINE h == [i \in 0..n |-> IF i = n THEN g[<<n, f[n - 1]>>] ELSE f[i]]
  <2>2. f[n - 1] \in D
    BY <2>1 DEF Recurses
  <2>3. h \in [0..n -> D] /\ h[0] = base
    BY <2>1, <2>2 DEF Recurses
  <2>4. ASSUME NEW i \in 1..n PROVE h[i] = g[<<i, h[i - 1]>>]
    <3>1. i - 1 \in 0..n /\ i - 1 # n /\ h[i - 1] = f[i - 1]
      OBVIOUS
    <3>2. CASE i = n
      BY <3>1, <3>2
    <3>3. CASE i # n
      BY <2>1, <3>1, <3>3 DEF Recurses
    <3> QED BY <3>2, <3>3
  <2>5. Recurses(h, n, D, base, g)
    BY <2>3, <2>4 DEF Recurses
  <2> QED BY <2>5
<1> HIDE DEF S
<1>3. N \in S
  BY <1>1, <1>2, UpTo
<1> QED BY <1>3 DEF S

LEMMA RecursionStays ==
  ASSUME NEW N \in Nat, NEW D, NEW base \in D, NEW g \in [(1..N) \X D -> D],
         NEW f, f = [i \in 0..N |-> f[i]], f[0] = base,
         \A i \in 1..N : f[i - 1] \in D => f[i] = g[<<i, f[i - 1]>>]
  PROVE  Recurses(f, N, D, base, g)
<1> DEFINE S == {i \in 0..N : f[i] \in D}
<1>1. 0 \in S
  OBVIOUS
<1>2. ASSUME NEW i \in 1..N, i - 1 \in S PROVE i \in S
  <2>1. <<i, f[i - 1]>> \in (1..N) \X D
    BY <1>2
  <2>2. g[<<i, f[i - 1]>>] \in D
    BY <2>1
  <2>3. f[i] = g[<<i, f[i - 1]>>]
    BY <1>2
  <2> QED BY <2>2, <2>3
<1>3. \A i \in 0..N : i \in S
  <2> HIDE DEF S
  <2> QED BY <1>1, <1>2, UpTo
<1>4. f \in [0..N -> D]
  BY <1>3
<1>5. ASSUME NEW i \in 1..N PROVE f[i] = g[<<i, f[i - 1]>>]
  <2>1. i - 1 \in 0..N
    OBVIOUS
  <2> QED BY <1>4, <2>1
<1> QED BY <1>4, <1>5 DEF Recurses

-----------------------------------------------------------------------------
(* Sequences without repetition.                                           *)

Distinct(s) == \A i, j \in DOMAIN s : s[i] = s[j] => i = j

LEMMA AppendDistinct ==
  ASSUME NEW X, NEW s \in Seq(X), NEW e \in X, Distinct(s), e \notin ToSet(s)
  PROVE  /\ Append(s, e) \in Seq(X) /\ Distinct(Append(s, e))
         /\ ToSet(Append(s, e)) = ToSet(s) \cup {e}
<1>1. /\ Append(s, e) \in Seq(X) /\ Len(s) \in Nat /\ DOMAIN s = 1..Len(s)
      /\ DOMAIN Append(s, e) = 1..(Len(s) + 1)
      /\ \A i \in 1..Len(s) : Append(s, e)[i] = s[i]
      /\ Append(s, e)[Len(s) + 1] = e
  OBVIOUS
<1>2. \A i \in 1..Len(s) : s[i] # e
  BY <1>1 DEF ToSet
<1>3. Distinct(Append(s, e))
  BY <1>1, <1>2 DEF Distinct
<1>4. ToSet(Append(s, e)) = ToSet(s) \cup {e}
  <2>1. \A i \in 1..(Len(s) + 1) : i \in 1..Len(s) \/ i = Len(s) + 1
    BY <1>1
  <2>2. Len(s) + 1 \in 1..(Len(s) + 1) /\ 1..Len(s) \subseteq 1..(Len(s) + 1)
    BY <1>1
  <2> QED BY <1>1, <2>1, <2>2 DEF ToSet
<1> QED BY <1>1, <1>3, <1>4

LEMMA TailDistinct ==
  ASSUME NEW X, NEW s \in Seq(X), s # <<>>, Distinct(s)
  PROVE  /\ Head(s) \in X /\ Tail(s) \in Seq(X) /\ Distinct(Tail(s))
         /\ Head(s) \in ToSet(s) /\ ToSet(Tail(s)) = ToSet(s) \ {Head(s)}
<1>1. /\ Len(s) \in Nat /\ Len(s) >= 1 /\ DOMAIN s = 1..Len(s) /\ Head(s) = s[1]
      /\ Tail(s) \in Seq(X) /\ DOMAIN Tail(s) = 1..(Len(s) - 1) /\ Head(s) \in X
      /\ \A i \in 1..(Len(s) - 1) : Tail(s)[i] = s[i + 1]
  OBVIOUS
<1>2. Distinct(Tail(s))
  BY <1>1 DEF Distinct
<1>3. ASSUME NEW e \in ToSet(s) \ {Head(s)} PROVE e \in ToSet(Tail(s))
  <2>1. PICK i \in 1..Len(s) : s[i] = e
    BY <1>1 DEF ToSet
  <2>2. i - 1 \in 1..(Len(s) - 1) /\ Tail(s)[i - 1] = e
    BY <1>1, <1>3, <2>1
  <2> QED BY <1>1, <2>2 DEF ToSet
<1>4. ASSUME NEW e \in ToSet(Tail(s)) PROVE e \in ToSet(s) \ {Head(s)}
  <2>1. PICK i \in 1..(Len(s) - 1) : s[i + 1] = e
    BY <1>1, <1>4 DEF ToSet
  <2>2. i + 1 \in 1..Len(s) /\ i + 1 # 1 /\ 1 \in 1..Len(s)
    BY <1>1
  <2> QED BY <1>1, <2>1, <2>2 DEF ToSet, Distinct
<1>5. Head(s) \in ToSet(s)
  BY <1>1 DEF ToSet
<1> QED BY <1>1, <1>2, <1>3, <1>4, <1>5

(* Among keeps what is in S of a sequence without repetition.              *)
KeptStep(s, S, i, q) == IF s[i] \in S THEN Append(q, s[i]) ELSE q
KeptBy(s, S, f) ==
  [i \in 0..Len(s) |-> IF i = 0 THEN <<>>
                       ELSE IF s[i] \in S THEN Append(f[i - 1], s[i])
                       ELSE f[i - 1]]

Keeps(f, s, S, X) ==
  /\ f \in [0..Len(s) -> Seq(X)]
  /\ Among(s, S) = f[Len(s)] /\ f[0] = <<>>
  /\ \A i \in 1..Len(s) : f[i] = KeptStep(s, S, i, f[i - 1])

LEMMA AmongSteps ==
  ASSUME NEW X, NEW s \in Seq(X), NEW S
  PROVE  \E f : Keeps(f, s, S, X)
<1> DEFINE D == Seq(X)
           N == Len(s)
           g == [p \in (1..N) \X D |-> KeptStep(s, S, p[1], p[2])]
           kept == CHOOSE f : f = KeptBy(s, S, f)
<1>1. N \in Nat /\ <<>> \in D /\ \A i \in 1..N : s[i] \in X
  OBVIOUS
<1>2. g \in [(1..N) \X D -> D]
  <2>1. ASSUME NEW p \in (1..N) \X D PROVE KeptStep(s, S, p[1], p[2]) \in D
    <3>1. p[1] \in 1..N /\ p[2] \in Seq(X) /\ s[p[1]] \in X
      BY <1>1
    <3> QED BY <3>1 DEF KeptStep
  <2> HIDE DEF D, N
  <2> QED BY <2>1
<1>3. PICK f : Recurses(f, N, D, <<>>, g)
  <2> HIDE DEF g, D, N
  <2> QED BY <1>1, <1>2, Recursion
<1>4. ASSUME NEW i \in 1..N PROVE f[i] = KeptStep(s, S, i, f[i - 1])
  <2>1. f[i - 1] \in D /\ f[i] = g[<<i, f[i - 1]>>]
    <3> HIDE DEF D, N, g
    <3> QED BY <1>1, <1>3 DEF Recurses
  <2>2. <<i, f[i - 1]>> \in (1..N) \X D
    BY <2>1
  <2> HIDE DEF D, N
  <2> QED BY <2>1, <2>2
<1>5. f = KeptBy(s, S, f)
  <2>1. f = [i \in 0..N |-> f[i]]
    BY <1>3 DEF Recurses
  <2>2. ASSUME NEW i \in 0..N
        PROVE  f[i] = IF i = 0 THEN <<>>
                      ELSE IF s[i] \in S THEN Append(f[i - 1], s[i]) ELSE f[i - 1]
    <3>1. CASE i = 0
      BY <1>3, <3>1 DEF Recurses
    <3>2. CASE i # 0
      <4>1. i \in 1..N
        BY <1>1, <3>2
      <4> HIDE DEF N, D
      <4> QED BY <1>4, <3>2, <4>1 DEF KeptStep
    <3> QED BY <3>1, <3>2
  <2> QED BY <2>1, <2>2 DEF KeptBy
<1>6. kept = KeptBy(s, S, kept)
  BY <1>5
<1>7. Among(s, S) = kept[N]
  BY DEF Among, KeptBy
<1>8. Recurses(kept, N, D, <<>>, g)
  <2>1. kept = [i \in 0..N |-> kept[i]]
    BY <1>6 DEF KeptBy
  <2>2. kept[0] = <<>>
    <3>1. KeptBy(s, S, kept)[0] = <<>>
      BY <1>1 DEF KeptBy
    <3> QED BY <1>6, <3>1
  <2>3. ASSUME NEW i \in 1..N, kept[i - 1] \in D PROVE kept[i] = g[<<i, kept[i - 1]>>]
    <3>1. KeptBy(s, S, kept)[i] = KeptStep(s, S, i, kept[i - 1])
      <4>1. i \in 0..N /\ i # 0
        BY <1>1
      <4> QED BY <4>1 DEF KeptBy, KeptStep
    <3>2. <<i, kept[i - 1]>> \in (1..N) \X D
      BY <2>3
    <3>3. g[<<i, kept[i - 1]>>] = KeptStep(s, S, i, kept[i - 1])
      <4> HIDE DEF N, D, kept
      <4> QED BY <3>2
    <3> QED BY <1>6, <3>1, <3>3
  <2> HIDE DEF N, D, g, kept
  <2> QED BY <1>1, <1>2, <2>1, <2>2, <2>3, RecursionStays
<1>9. ASSUME NEW i \in 1..N PROVE kept[i] = KeptStep(s, S, i, kept[i - 1])
  <2>1. kept[i - 1] \in D /\ kept[i] = g[<<i, kept[i - 1]>>]
    <3> HIDE DEF N, D, g, kept
    <3> QED BY <1>1, <1>8 DEF Recurses
  <2>2. <<i, kept[i - 1]>> \in (1..N) \X D
    BY <2>1
  <2> HIDE DEF D, N, kept
  <2> QED BY <2>1, <2>2
<1> HIDE DEF kept
<1> QED BY <1>7, <1>8, <1>9 DEF Recurses, Keeps

LEMMA AmongKeeps ==
  ASSUME NEW X, NEW s \in Seq(X), NEW S, Distinct(s)
  PROVE  /\ Among(s, S) \in Seq(X) /\ Distinct(Among(s, S))
         /\ ToSet(Among(s, S)) = ToSet(s) \cap S
<1> DEFINE N == Len(s)
<1>0. PICK f : Keeps(f, s, S, X)
  BY AmongSteps
<1>1. /\ f \in [0..N -> Seq(X)] /\ Among(s, S) = f[N] /\ f[0] = <<>>
      /\ \A i \in 1..N : f[i] = KeptStep(s, S, i, f[i - 1])
  BY <1>0 DEF Keeps
<1> DEFINE Upto(i) == {s[j] : j \in 1..i}
           Good(i) == /\ f[i] \in Seq(X) /\ Distinct(f[i])
                      /\ ToSet(f[i]) = Upto(i) \cap S
           T == {i \in 0..N : Good(i)}
<1>2. N \in Nat /\ DOMAIN s = 1..N /\ \A i \in 1..N : s[i] \in X
  OBVIOUS
<1>3. 0 \in T
  <2>1. Upto(0) = {}
    OBVIOUS
  <2>2. <<>> \in Seq(X) /\ Distinct(<<>>) /\ ToSet(<<>>) = {}
    BY DEF Distinct, ToSet
  <2>3. Good(0)
    BY <1>1, <2>1, <2>2
  <2> HIDE DEF Good
  <2> QED BY <1>2, <2>3
<1>4. ASSUME NEW i \in 1..N, i - 1 \in T PROVE i \in T
  <2>1. Upto(i) = Upto(i - 1) \cup {s[i]} /\ s[i] \in X
    <3>1. 1..i = 1..(i - 1) \cup {i}
      BY <1>2
    <3> QED BY <1>2, <3>1
  <2>2. s[i] \notin Upto(i - 1)
    BY <1>2 DEF Distinct
  <2>3. Good(i - 1)
    BY <1>4
  <2> HIDE DEF Upto
  <2>4. CASE s[i] \in S
    <3>1. f[i] = Append(f[i - 1], s[i])
      BY <1>1, <2>4 DEF KeptStep
    <3>2. s[i] \notin ToSet(f[i - 1])
      BY <2>2, <2>3
    <3>3. Good(i)
      BY <2>1, <2>3, <2>4, <3>1, <3>2, AppendDistinct
    <3> HIDE DEF Good
    <3> QED BY <1>2, <3>3
  <2>5. CASE s[i] \notin S
    <3>1. f[i] = f[i - 1]
      BY <1>1, <2>5 DEF KeptStep
    <3>2. Good(i)
      BY <2>1, <2>3, <2>5, <3>1
    <3> HIDE DEF Good
    <3> QED BY <1>2, <3>2
  <2> QED BY <2>4, <2>5
<1>5. Good(N)
  <2>1. N \in T
    <3> HIDE DEF T, N
    <3>1. \A i \in 0..N : i \in T
      BY <1>2, <1>3, <1>4, UpTo
    <3> QED BY <1>2, <3>1
  <2> HIDE DEF Good
  <2> QED BY <2>1
<1>6. Upto(N) = ToSet(s)
  BY <1>2 DEF ToSet
<1> QED BY <1>1, <1>5, <1>6

(* A sequence has as many members as places exactly when nothing repeats.  *)
LEMMA DistinctCounts ==
  ASSUME NEW X, NEW s \in Seq(X)
  PROVE  /\ IsFiniteSet(ToSet(s)) /\ Cardinality(ToSet(s)) \in Nat
         /\ Cardinality(ToSet(s)) = Len(s) <=> Distinct(s)
         /\ ToSet(s) \subseteq X
<1>1. /\ Len(s) \in Nat /\ DOMAIN s = 1..Len(s) /\ s \in [1..Len(s) -> ToSet(s)]
      /\ ToSet(s) \subseteq X
  BY DEF ToSet
<1>2. s \in Surjection(1..Len(s), ToSet(s))
  BY <1>1 DEF Surjection, ToSet
<1>3. IsFiniteSet(1..Len(s)) /\ Cardinality(1..Len(s)) = Len(s)
  <2>1. 1 \in Int /\ Len(s) \in Int
    BY <1>1
  <2>2. /\ IsFiniteSet(1..Len(s))
        /\ Cardinality(1..Len(s)) = IF 1 > Len(s) THEN 0 ELSE Len(s) - 1 + 1
    BY ONLY <2>1, FS_Interval
  <2> QED BY <1>1, <2>2
<1>4. /\ IsFiniteSet(ToSet(s))
      /\ Cardinality(ToSet(s)) = Len(s) <=> s \in Injection(1..Len(s), ToSet(s))
  BY <1>2, <1>3, FS_Surjection
<1>5. s \in Injection(1..Len(s), ToSet(s)) <=> Distinct(s)
  BY <1>1 DEF Injection, IsInjective, Distinct
<1> QED BY <1>1, <1>4, <1>5, FS_CardinalityType

-----------------------------------------------------------------------------
(* The links of a definition.                                              *)

LEMMA LinksAreEdges ==
  ASSUME NEW d, IsDefinition(d), NEW n \in NodeSet(d)
  PROVE  /\ n \in Nodes /\ Len(Links(d, n)) \in Nat
         /\ Branches(d, n) \in Seq([condition : Conditions, target : Nodes])
         /\ Links(d, n) \in Seq(Nodes \X Nodes)
         /\ DOMAIN Links(d, n) = 1..Len(Links(d, n))
         /\ Len(Links(d, n)) = Len(d.edges) + Len(Branches(d, n))
         /\ \A i \in 1..Len(d.edges) : Links(d, n)[i] = d.edges[i]
         /\ \A j \in 1..Len(Branches(d, n)) :
               Links(d, n)[Len(d.edges) + j] = <<n, Branches(d, n)[j].target>>
<1> DEFINE E == d.edges
           B == Branches(d, n)
           L == [j \in 1..Len(B) |-> <<n, B[j].target>>]
<1>1. n \in Nodes
  BY DEF NodeSet, IsDefinition, ToSet
<1>2. E \in Seq(Nodes \X Nodes) /\ B \in Seq([condition : Conditions, target : Nodes])
  <2> DEFINE R == [condition : Conditions, target : Nodes]
  <2>1. E \in Seq(Nodes \X Nodes) /\ d.branches \in [Nodes -> Seq(R)]
    BY DEF IsDefinition
  <2> HIDE DEF R
  <2>2. d.branches[n] \in Seq(R) /\ <<>> \in Seq(R)
    BY <1>1, <2>1
  <2>3. B \in Seq(R)
    BY <2>2 DEF Branches
  <2> QED BY <2>1, <2>3 DEF R
<1>3. L \in Seq(Nodes \X Nodes) /\ Len(L) = Len(B) /\ \A j \in 1..Len(B) : L[j] = <<n, B[j].target>>
  <2>1. Len(B) \in Nat /\ \A j \in 1..Len(B) : B[j].target \in Nodes
    <3> DEFINE R == [condition : Conditions, target : Nodes]
    <3>1. B \in Seq(R)
      BY <1>2
    <3>2. \A b \in R : b.target \in Nodes
      OBVIOUS
    <3> HIDE DEF B, R
    <3> QED BY <3>1, <3>2
  <2> HIDE DEF B
  <2> QED BY <1>1, <2>1
<1>4. Links(d, n) = E \o L
  BY DEF Links
<1> HIDE DEF L, B, E
<1>5. /\ E \o L \in Seq(Nodes \X Nodes) /\ Len(E \o L) = Len(E) + Len(L)
      /\ Len(E) \in Nat /\ Len(L) \in Nat
      /\ DOMAIN (E \o L) = 1..Len(E \o L)
      /\ \A i \in 1..Len(E) : (E \o L)[i] = E[i]
      /\ \A j \in 1..Len(L) : (E \o L)[Len(E) + j] = L[j]
  <2>1. ASSUME NEW X, NEW e \in Seq(X), NEW l \in Seq(X)
        PROVE  /\ e \o l \in Seq(X) /\ Len(e \o l) = Len(e) + Len(l)
               /\ Len(e) \in Nat /\ Len(l) \in Nat
               /\ DOMAIN (e \o l) = 1..Len(e \o l)
               /\ \A i \in 1..Len(e) : (e \o l)[i] = e[i]
               /\ \A j \in 1..Len(l) : (e \o l)[Len(e) + j] = l[j]
    OBVIOUS
  <2> DEFINE X == Nodes \X Nodes
  <2>2. E \in Seq(X) /\ L \in Seq(X)
    BY <1>2, <1>3
  <2> HIDE DEF X
  <2>3. E \o L \in Seq(X)
    BY <2>1, <2>2
  <2> QED BY <2>1, <2>2, <2>3 DEF X
<1>6. /\ Links(d, n) \in Seq(Nodes \X Nodes) /\ Len(Links(d, n)) \in Nat
      /\ DOMAIN Links(d, n) = 1..Len(Links(d, n))
  BY <1>4, <1>5
<1>7. Len(Links(d, n)) = Len(E) + Len(B)
  BY <1>3, <1>4, <1>5
<1>8. \A i \in 1..Len(E) : Links(d, n)[i] = E[i]
  BY <1>4, <1>5
<1>9. \A j \in 1..Len(B) : Links(d, n)[Len(E) + j] = <<n, B[j].target>>
  BY <1>3, <1>4, <1>5
<1> QED BY <1>1, <1>2, <1>6, <1>7, <1>8, <1>9 DEF B, E

LEMMA NodesAreFinite ==
  ASSUME NEW d, IsDefinition(d)
  PROVE  /\ IsFiniteSet(NodeSet(d)) /\ NodeSet(d) \subseteq Nodes
         /\ Cardinality(NodeSet(d)) \in Nat /\ Len(d.nodes) \in Nat
         /\ Cardinality(NodeSet(d)) = Len(d.nodes) <=> Distinct(d.nodes)
<1>1. d.nodes \in Seq(Nodes)
  BY DEF IsDefinition
<1> QED BY <1>1, DistinctCounts DEF NodeSet

LEMMA OutFacts ==
  ASSUME NEW d, IsDefinition(d), NEW n \in NodeSet(d)
  PROVE  /\ Out(d, n) \subseteq 1..Len(Links(d, n)) /\ IsFiniteSet(Out(d, n))
         /\ \A i \in Out(d, n) : Links(d, n)[i][1] = n /\ Links(d, n)[i][2] \in NodeSet(d)
         /\ Targets(d, n) \subseteq NodeSet(d)
         /\ \A t : t \in Targets(d, n) <=> \E i \in Out(d, n) : Links(d, n)[i][2] = t
<1>1. Out(d, n) \subseteq 1..Len(Links(d, n))
  BY LinksAreEdges DEF Out
<1>2. IsFiniteSet(Out(d, n))
  <2>1. Len(Links(d, n)) \in Nat
    BY LinksAreEdges
  <2>2. 1 \in Int /\ Len(Links(d, n)) \in Int
    BY <2>1
  <2>3. IsFiniteSet(1..Len(Links(d, n)))
    BY ONLY <2>2, FS_Interval
  <2> QED BY <1>1, <2>3, FS_Subset
<1>3. \A i \in Out(d, n) : Links(d, n)[i][1] = n /\ Links(d, n)[i][2] \in NodeSet(d)
  BY DEF Out
<1> QED BY <1>1, <1>2, <1>3 DEF Targets

LEMMA IncomingFacts ==
  ASSUME NEW d, IsDefinition(d), NEW t
  PROVE  /\ IsFiniteSet(Incoming(d, t)) /\ InDegree(d, t) \in Nat
         /\ \A p \in Incoming(d, t) :
               /\ p = <<p[1], p[2]>> /\ p[1] \in NodeSet(d) /\ p[2] \in Out(d, p[1])
               /\ Links(d, p[1])[p[2]][2] = t /\ t \in Targets(d, p[1])
         /\ \A m, i : <<m, i>> \in Incoming(d, t) <=>
               m \in NodeSet(d) /\ i \in Out(d, m) /\ Links(d, m)[i][2] = t
<1> DEFINE V == NodeSet(d)
           Into(m) == {i \in Out(d, m) : Links(d, m)[i][2] = t}
           In(m) == {m} \X Into(m)
           T == {In(m) : m \in V}
<1>1. Incoming(d, t) = UNION T
  BY DEF Incoming
<1>2. IsFiniteSet(T)
  <2> DEFINE f == [m \in V |-> In(m)]
  <2>1. f \in Surjection(V, T)
    <3> HIDE DEF V, In
    <3> QED BY DEF Surjection
  <2>2. IsFiniteSet(V)
    BY NodesAreFinite
  <2> HIDE DEF f, V, T
  <2> QED BY <2>1, <2>2, FS_Surjection
<1>3. ASSUME NEW S \in T PROVE IsFiniteSet(S)
  <2>1. PICK m \in V : S = In(m)
    OBVIOUS
  <2>2. IsFiniteSet(Into(m))
    <3>1. IsFiniteSet(Out(d, m)) /\ Into(m) \subseteq Out(d, m)
      BY OutFacts
    <3> HIDE DEF At
    <3> QED BY <3>1, FS_Subset
  <2>3. IsFiniteSet({m})
    BY FS_Singleton
  <2> HIDE DEF At
  <2> QED BY <2>1, <2>2, <2>3, FS_Product
<1>4. IsFiniteSet(Incoming(d, t))
  <2> HIDE DEF T
  <2> QED BY <1>1, <1>2, <1>3, FS_UNION
<1>5. ASSUME NEW m, NEW i
      PROVE  <<m, i>> \in Incoming(d, t) <=> m \in V /\ i \in Out(d, m) /\ Links(d, m)[i][2] = t
  BY <1>1
<1>6. ASSUME NEW p \in Incoming(d, t)
      PROVE  /\ p = <<p[1], p[2]>> /\ p[1] \in V /\ p[2] \in Out(d, p[1])
             /\ Links(d, p[1])[p[2]][2] = t
  <2>1. PICK m \in V : p \in In(m)
    BY <1>1
  <2> QED BY <2>1
<1>7. \A p \in Incoming(d, t) : t \in Targets(d, p[1])
  BY <1>6, OutFacts
<1> QED BY <1>4, <1>5, <1>6, <1>7, FS_CardinalityType DEF InDegree

-----------------------------------------------------------------------------
(* Kahn's loop.                                                            *)

KahnState(d) ==
  [ready : Seq(NodeSet(d)), degree : [NodeSet(d) -> Int], ordered : Seq(NodeSet(d))]

LEMMA VisitStays ==
  ASSUME NEW d, NEW k \in KahnState(d), NEW t \in NodeSet(d)
  PROVE  /\ Visit(k, t) \in KahnState(d)
         /\ Visit(k, t).ordered = k.ordered
         /\ Visit(k, t).degree = [k.degree EXCEPT ![t] = @ - 1]
         /\ Visit(k, t).ready = IF k.degree[t] = 1 THEN Append(k.ready, t) ELSE k.ready
<1> DEFINE r == IF k.degree[t] = 1 THEN Append(k.ready, t) ELSE k.ready
           g == [k.degree EXCEPT ![t] = @ - 1]
<1>1. /\ k.ready \in Seq(NodeSet(d)) /\ k.degree \in [NodeSet(d) -> Int]
      /\ k.ordered \in Seq(NodeSet(d))
      /\ k = [ready |-> k.ready, degree |-> k.degree, ordered |-> k.ordered]
  BY DEF KahnState
<1>2. r \in Seq(NodeSet(d)) /\ g \in [NodeSet(d) -> Int]
  <2> DEFINE V == NodeSet(d)
  <2>1. k.ready \in Seq(V) /\ k.degree \in [V -> Int] /\ t \in V
    BY <1>1
  <2> HIDE DEF V
  <2>2. r \in Seq(V) /\ g \in [V -> Int]
    BY <2>1
  <2> QED BY <2>2 DEF V
<1>3. Visit(k, t) = [ready |-> r, degree |-> g, ordered |-> k.ordered]
  <2>1. Visit(k, t) = [k EXCEPT !.degree = g, !.ready = r]
    BY <1>1 DEF Visit
  <2> HIDE DEF r, g
  <2> QED BY <1>1, <2>1
<1> HIDE DEF r, g
<1>4. Visit(k, t) \in KahnState(d) /\ Visit(k, t).ordered = k.ordered
      /\ Visit(k, t).degree = g /\ Visit(k, t).ready = r
  BY <1>1, <1>2, <1>3 DEF KahnState
<1> QED BY <1>4 DEF r, g

(* The head of the queue is ordered, before its targets are visited.       *)
Taken(k) == [k EXCEPT !.ready = Tail(@), !.ordered = Append(@, Head(k.ready))]
VisitStep(d, n, i, k) == IF i \in Out(d, n) THEN Visit(k, Links(d, n)[i][2]) ELSE k
VisitedBy(d, k, f) ==
  [i \in 0..Len(Links(d, Head(k.ready))) |->
     IF i = 0 THEN [k EXCEPT !.ready = Tail(@), !.ordered = Append(@, Head(k.ready))]
     ELSE IF i \in Out(d, Head(k.ready))
     THEN Visit(f[i - 1], Links(d, Head(k.ready))[i][2])
     ELSE f[i - 1]]
VisitsAre(f, d, k, n) ==
  /\ f \in [0..Len(Links(d, n)) -> KahnState(d)]
  /\ KahnTurn(d, k) = f[Len(Links(d, n))] /\ f[0] = Taken(k)
  /\ \A i \in 1..Len(Links(d, n)) : f[i] = VisitStep(d, n, i, f[i - 1])

LEMMA TakenFacts ==
  ASSUME NEW d, NEW k \in KahnState(d), k.ready # <<>>
  PROVE  /\ Taken(k) \in KahnState(d) /\ Head(k.ready) \in NodeSet(d)
         /\ Taken(k).ready = Tail(k.ready) /\ Taken(k).degree = k.degree
         /\ Taken(k).ordered = Append(k.ordered, Head(k.ready))
<1> DEFINE r == Tail(k.ready)
           o == Append(k.ordered, Head(k.ready))
<1>1. /\ k.ready \in Seq(NodeSet(d)) /\ k.degree \in [NodeSet(d) -> Int]
      /\ k.ordered \in Seq(NodeSet(d))
      /\ k = [ready |-> k.ready, degree |-> k.degree, ordered |-> k.ordered]
  BY DEF KahnState
<1>2. r \in Seq(NodeSet(d)) /\ o \in Seq(NodeSet(d)) /\ Head(k.ready) \in NodeSet(d)
  <2> DEFINE V == NodeSet(d)
  <2>1. k.ready \in Seq(V) /\ k.ordered \in Seq(V) /\ k.ready # <<>>
    BY <1>1
  <2> HIDE DEF V
  <2>2. Head(k.ready) \in V /\ r \in Seq(V)
    BY <2>1
  <2>3. o \in Seq(V)
    BY <2>1, <2>2
  <2> QED BY <2>2, <2>3 DEF V
<1>3. Taken(k) = [ready |-> r, degree |-> k.degree, ordered |-> o]
  <2>1. Taken(k) = [k EXCEPT !.ready = r, !.ordered = o]
    BY <1>1 DEF Taken
  <2> HIDE DEF r, o
  <2> QED BY <1>1, <2>1
<1> HIDE DEF r, o
<1>4. Taken(k) \in KahnState(d) /\ Taken(k).ready = r
      /\ Taken(k).degree = k.degree /\ Taken(k).ordered = o
  BY <1>1, <1>2, <1>3 DEF KahnState
<1> QED BY <1>2, <1>4 DEF r, o

LEMMA TurnSteps ==
  ASSUME NEW d, IsDefinition(d), NEW k \in KahnState(d), k.ready # <<>>
  PROVE  \E f : VisitsAre(f, d, k, Head(k.ready))
<1> DEFINE n == Head(k.ready)
           D == KahnState(d)
           N == Len(Links(d, n))
           g == [p \in (1..N) \X D |-> VisitStep(d, n, p[1], p[2])]
           done == CHOOSE f : f = VisitedBy(d, k, f)
<1>0. n \in NodeSet(d) /\ Taken(k) \in D
  BY TakenFacts
<1>1. N \in Nat
  BY <1>0, LinksAreEdges
<1>2. g \in [(1..N) \X D -> D]
  <2>1. ASSUME NEW p \in (1..N) \X D PROVE VisitStep(d, n, p[1], p[2]) \in D
    <3>1. p[2] \in KahnState(d)
      BY <1>1
    <3> HIDE DEF D, N, n
    <3>2. CASE p[1] \in Out(d, n)
      <4>1. Links(d, n)[p[1]][2] \in NodeSet(d)
        BY <1>0, <3>2, OutFacts
      <4>2. Visit(p[2], Links(d, n)[p[1]][2]) \in KahnState(d)
        BY <3>1, <4>1, VisitStays
      <4> QED BY <3>2, <4>2 DEF VisitStep, D
    <3>3. CASE p[1] \notin Out(d, n)
      BY <3>1, <3>3 DEF VisitStep, D
    <3> QED BY <3>2, <3>3
  <2> HIDE DEF D, N, n
  <2> QED BY <2>1
<1>3. PICK f : Recurses(f, N, D, Taken(k), g)
  <2> HIDE DEF g, D, N
  <2> QED BY <1>0, <1>1, <1>2, Recursion
<1>4. ASSUME NEW i \in 1..N PROVE f[i] = VisitStep(d, n, i, f[i - 1])
  <2>1. f[i - 1] \in D /\ f[i] = g[<<i, f[i - 1]>>]
    <3> HIDE DEF D, N, g
    <3> QED BY <1>1, <1>3 DEF Recurses
  <2>2. <<i, f[i - 1]>> \in (1..N) \X D
    BY <2>1
  <2> HIDE DEF D, N, n
  <2> QED BY <2>1, <2>2
<1>5. f = VisitedBy(d, k, f)
  <2>1. f = [i \in 0..N |-> f[i]]
    <3> HIDE DEF D, N, g
    <3> QED BY <1>3 DEF Recurses
  <2>2. ASSUME NEW i \in 0..N
        PROVE  f[i] = IF i = 0 THEN [k EXCEPT !.ready = Tail(@), !.ordered = Append(@, n)]
                      ELSE IF i \in Out(d, n) THEN Visit(f[i - 1], Links(d, n)[i][2])
                      ELSE f[i - 1]
    <3>1. CASE i = 0
      <4>1. f[0] = Taken(k)
        BY <1>3 DEF Recurses
      <4> QED BY <3>1, <4>1 DEF Taken
    <3>2. CASE i # 0
      <4>1. i \in 1..N
        BY <1>1, <3>2
      <4> HIDE DEF N, D, n
      <4> QED BY <1>4, <3>2, <4>1 DEF VisitStep
    <3> QED BY <3>1, <3>2
  <2> QED BY <2>1, <2>2 DEF VisitedBy
<1>6. done = VisitedBy(d, k, done)
  <2> QED BY <1>5
<1>7. KahnTurn(d, k) = done[N]
  BY DEF KahnTurn, Visits, VisitedBy
<1>8. Recurses(done, N, D, Taken(k), g)
  <2>1. done = [i \in 0..N |-> done[i]]
    <3>1. VisitedBy(d, k, done) = [i \in 0..N |-> VisitedBy(d, k, done)[i]]
      <4> HIDE DEF done
      <4> QED BY DEF VisitedBy
    <3> HIDE DEF done
    <3> QED BY <1>6, <3>1
  <2>2. done[0] = Taken(k)
    <3>1. VisitedBy(d, k, done)[0] = Taken(k)
      <4> HIDE DEF done
      <4> QED BY <1>1 DEF VisitedBy, Taken
    <3> QED BY <1>6, <3>1
  <2>3. ASSUME NEW i \in 1..N, done[i - 1] \in D PROVE done[i] = g[<<i, done[i - 1]>>]
    <3>1. VisitedBy(d, k, done)[i] = VisitStep(d, n, i, done[i - 1])
      <4>1. i \in 0..N /\ i # 0
        BY <1>1
      <4> HIDE DEF done
      <4> QED BY <4>1 DEF VisitedBy, VisitStep
    <3>2. <<i, done[i - 1]>> \in (1..N) \X D
      BY <2>3
    <3>3. g[<<i, done[i - 1]>>] = VisitStep(d, n, i, done[i - 1])
      <4> HIDE DEF N, D, n, done
      <4> QED BY <3>2
    <3> QED BY <1>6, <3>1, <3>3
  <2> HIDE DEF N, D, g, done
  <2> QED BY <1>0, <1>1, <1>2, <2>1, <2>2, <2>3, RecursionStays
<1>9. ASSUME NEW i \in 1..N PROVE done[i] = VisitStep(d, n, i, done[i - 1])
  <2>1. done[i - 1] \in D /\ done[i] = g[<<i, done[i - 1]>>]
    <3> HIDE DEF N, D, g, done
    <3> QED BY <1>1, <1>8 DEF Recurses
  <2>2. <<i, done[i - 1]>> \in (1..N) \X D
    BY <2>1
  <2> HIDE DEF D, N, n, done
  <2> QED BY <2>1, <2>2
<1> HIDE DEF done, g
<1> QED BY <1>7, <1>8, <1>9 DEF Recurses, VisitsAre

(* The edges into a node that have not been visited: those of the nodes    *)
(* that are not ordered, and those of n beyond position i.                 *)
Pending(d, Done) ==
  [t \in NodeSet(d) |-> {p \in Incoming(d, t) : p[1] \notin Done}]
Left(d, Done, n, i) ==
  [t \in NodeSet(d) |->
     {p \in Incoming(d, t) : p[1] \notin Done \/ (p[1] = n /\ p[2] > i)}]

Forward(d, o) ==
  \A j \in 1..Len(o), m \in NodeSet(d) :
    o[j] \in Targets(d, m) => \E h \in 1..(j - 1) : o[h] = m

(* A node's degree counts the edges R[t] that are left; the nodes without  *)
(* any are ordered or in the queue, each once, and edges go forward.       *)
KahnInv(d, k, R) ==
  /\ k \in KahnState(d)
  /\ Distinct(k.ordered) /\ Distinct(k.ready)
  /\ ToSet(k.ordered) \cap ToSet(k.ready) = {}
  /\ Forward(d, k.ordered)
  /\ \A t \in NodeSet(d) :
        /\ k.degree[t] = Cardinality(R[t])
        /\ t \in ToSet(k.ordered) \cup ToSet(k.ready) <=> R[t] = {}

KahnReached(d, k) == KahnInv(d, k, Pending(d, ToSet(k.ordered)))

LEMMA KahnTyped ==
  ASSUME NEW d, NEW k \in KahnState(d)
  PROVE  /\ k.ready \in Seq(NodeSet(d)) /\ k.degree \in [NodeSet(d) -> Int]
         /\ k.ordered \in Seq(NodeSet(d))
         /\ ToSet(k.ready) \subseteq NodeSet(d) /\ ToSet(k.ordered) \subseteq NodeSet(d)
BY DEF KahnState, ToSet

LEMMA KahnBegins ==
  ASSUME NEW d, IsDefinition(d), Distinct(d.nodes)
  PROVE  KahnReached(d, KahnStart(d)) /\ KahnStart(d).ordered = <<>>
<1> DEFINE V == NodeSet(d)
           S == {n \in V : InDegree(d, n) = 0}
           q == Among(d.nodes, S)
           g == [n \in V |-> InDegree(d, n)]
           k == KahnStart(d)
           R == Pending(d, {})
<1>1. d.nodes \in Seq(V) /\ ToSet(d.nodes) = V
  <2>1. d.nodes \in Seq(Nodes)
    BY DEF IsDefinition
  <2>2. d.nodes \in [1..Len(d.nodes) -> ToSet(d.nodes)] /\ Len(d.nodes) \in Nat
    BY <2>1 DEF ToSet
  <2> QED BY <2>2 DEF NodeSet
<1>2. q \in Seq(V) /\ Distinct(q) /\ ToSet(q) = S
  <2> HIDE DEF V
  <2>1. S \subseteq V
    OBVIOUS
  <2> HIDE DEF S
  <2>2. /\ Among(d.nodes, S) \in Seq(V) /\ Distinct(Among(d.nodes, S))
        /\ ToSet(Among(d.nodes, S)) = ToSet(d.nodes) \cap S
    BY <1>1, AmongKeeps
  <2> QED BY <1>1, <2>1, <2>2
<1>3. k = [ready |-> q, degree |-> g, ordered |-> <<>>]
  BY DEF KahnStart
<1>4. g \in [V -> Int]
  <2>1. \A n \in V : InDegree(d, n) \in Nat
    BY IncomingFacts
  <2> HIDE DEF V
  <2> QED BY <2>1
<1>5. k \in KahnState(d) /\ k.ready = q /\ k.degree = g /\ k.ordered = <<>>
  <2> HIDE DEF q, g, k
  <2> QED BY <1>2, <1>3, <1>4 DEF KahnState
<1>6. ToSet(<<>>) = {} /\ Distinct(<<>>) /\ Forward(d, <<>>)
  BY DEF ToSet, Distinct, Forward
<1>7. ASSUME NEW t \in V
      PROVE  /\ g[t] = Cardinality(R[t])
             /\ t \in S <=> R[t] = {}
  <2>1. R[t] = Incoming(d, t)
    BY DEF Pending
  <2>2. IsFiniteSet(Incoming(d, t))
    BY IncomingFacts
  <2>3. g[t] = Cardinality(R[t])
    BY <2>1 DEF InDegree
  <2>4. t \in S <=> Cardinality(R[t]) = 0
    BY <2>1 DEF InDegree
  <2>5. Cardinality(R[t]) = 0 <=> R[t] = {}
    <3> HIDE DEF R
    <3> QED BY <2>1, <2>2, FS_EmptySet
  <2> HIDE DEF R, S, g
  <2> QED BY <2>3, <2>4, <2>5
<1> HIDE DEF k, q, g, S, R
<1>8. Pending(d, ToSet(k.ordered)) = R
  BY <1>5, <1>6 DEF R
<1>9. KahnInv(d, k, R)
  BY <1>2, <1>5, <1>6, <1>7 DEF KahnInv
<1> QED BY <1>5, <1>8, <1>9 DEF KahnReached, k

(* A visit takes one edge away from those that are left.                   *)
LEMMA VisitTakes ==
  ASSUME NEW d, IsDefinition(d), NEW n \in NodeSet(d), NEW Done, n \in Done,
         NEW i \in 1..Len(Links(d, n)), NEW t \in NodeSet(d)
  PROVE  /\ Left(d, Done, n, i)[t] = Left(d, Done, n, i - 1)[t] \ {<<n, i>>}
         /\ <<n, i>> \in Left(d, Done, n, i - 1)[t] <=>
               i \in Out(d, n) /\ Links(d, n)[i][2] = t
         /\ IsFiniteSet(Left(d, Done, n, i - 1)[t])
<1> DEFINE I == Incoming(d, t)
           A == {p \in I : p[1] \notin Done \/ (p[1] = n /\ p[2] > i)}
           B == {p \in I : p[1] \notin Done \/ (p[1] = n /\ p[2] > i - 1)}
<1>1. Left(d, Done, n, i)[t] = A /\ Left(d, Done, n, i - 1)[t] = B
  BY DEF Left
<1>2. i \in Nat
  BY LinksAreEdges
<1>3. ASSUME NEW p \in I, p[1] = n
      PROVE  p = <<n, p[2]>> /\ p[2] \in Nat
  <2>1. p = <<p[1], p[2]>> /\ p[2] \in Out(d, n)
    BY <1>3, IncomingFacts
  <2>2. p[2] \in 1..Len(Links(d, n)) /\ Len(Links(d, n)) \in Nat
    BY <2>1, OutFacts, LinksAreEdges
  <2> QED BY <1>3, <2>1, <2>2
<1>4. <<n, i>> \in I <=> i \in Out(d, n) /\ Links(d, n)[i][2] = t
  BY IncomingFacts
<1>5. IsFiniteSet(I)
  BY IncomingFacts
<1> HIDE DEF I
<1>6. IsFiniteSet(B)
  BY <1>5, FS_Subset
<1>7. <<n, i>> \in B <=> <<n, i>> \in I
  BY <1>2
<1>8. ASSUME NEW p \in A PROVE p \in B \ {<<n, i>>}
  BY <1>2, <1>3
<1>9. ASSUME NEW p \in B \ {<<n, i>>} PROVE p \in A
  <2>1. CASE p[1] \notin Done
    BY <2>1
  <2>2. CASE p[1] \in Done
    <3>1. p[1] = n /\ p[2] > i - 1 /\ p \in I
      BY <2>2
    <3>2. p = <<n, p[2]>> /\ p[2] \in Nat
      BY <1>3, <3>1
    <3>3. p[2] # i
      BY <3>2
    <3> QED BY <1>2, <3>1, <3>2, <3>3
  <2> QED BY <2>1, <2>2
<1>10. A = B \ {<<n, i>>}
  BY <1>8, <1>9
<1> HIDE DEF A, B
<1> QED BY <1>1, <1>4, <1>6, <1>7, <1>10

LEMMA VisitKeeps ==
  ASSUME NEW d, IsDefinition(d), NEW n \in NodeSet(d), NEW k,
         NEW Done, Done = ToSet(k.ordered), n \in Done,
         NEW i \in 1..Len(Links(d, n)), KahnInv(d, k, Left(d, Done, n, i - 1))
  PROVE  /\ VisitStep(d, n, i, k).ordered = k.ordered
         /\ KahnInv(d, VisitStep(d, n, i, k), Left(d, Done, n, i))
<1> DEFINE V == NodeSet(d)
           R == Left(d, Done, n, i - 1)
           Q == Left(d, Done, n, i)
           next == VisitStep(d, n, i, k)
<1>1. /\ k \in KahnState(d) /\ Distinct(k.ordered) /\ Distinct(k.ready)
      /\ ToSet(k.ordered) \cap ToSet(k.ready) = {} /\ Forward(d, k.ordered)
      /\ \A t \in V : /\ k.degree[t] = Cardinality(R[t])
                      /\ t \in ToSet(k.ordered) \cup ToSet(k.ready) <=> R[t] = {}
  BY DEF KahnInv
<1>2. \A t \in V : /\ Q[t] = R[t] \ {<<n, i>>}
                   /\ <<n, i>> \in R[t] <=> i \in Out(d, n) /\ Links(d, n)[i][2] = t
                   /\ IsFiniteSet(R[t])
  BY VisitTakes
<1> HIDE DEF R, Q
<1>3. CASE i \notin Out(d, n)
  <2>1. next = k
    BY <1>3 DEF VisitStep
  <2>2. \A t \in V : Q[t] = R[t]
    BY <1>2, <1>3
  <2> HIDE DEF next
  <2>3. KahnInv(d, k, Q)
    BY <1>1, <2>2 DEF KahnInv
  <2> QED BY <2>1, <2>3 DEF next, Q
<1>4. CASE i \in Out(d, n)
  <2> DEFINE u == Links(d, n)[i][2]
  <2>1. u \in V /\ next = Visit(k, u)
    BY <1>4, OutFacts DEF VisitStep
  <2>2. ASSUME NEW t \in V, t # u PROVE Q[t] = R[t]
    <3>1. <<n, i>> \notin R[t]
      BY <1>2, <2>2
    <3>2. Q[t] = R[t] \ {<<n, i>>}
      BY <1>2
    <3> QED BY <3>1, <3>2
  <2>3. <<n, i>> \in R[u] /\ Q[u] = R[u] \ {<<n, i>>} /\ IsFiniteSet(R[u])
    BY <1>2, <1>4, <2>1
  <2> HIDE DEF u, next
  <2>4. /\ next \in KahnState(d) /\ next.ordered = k.ordered
        /\ next.degree = [k.degree EXCEPT ![u] = @ - 1]
        /\ next.ready = IF k.degree[u] = 1 THEN Append(k.ready, u) ELSE k.ready
    BY <1>1, <2>1, VisitStays
  <2>5. /\ Cardinality(Q[u]) = Cardinality(R[u]) - 1
        /\ Cardinality(R[u]) \in Nat /\ IsFiniteSet(Q[u])
        /\ Cardinality(Q[u]) = 0 <=> Q[u] = {}
    <3> DEFINE e == <<n, i>>
    <3>1. /\ IsFiniteSet(R[u] \ {e})
          /\ Cardinality(R[u] \ {e}) = IF e \in R[u] THEN Cardinality(R[u]) - 1
                                       ELSE Cardinality(R[u])
      <4> HIDE DEF e
      <4> QED BY <2>3, FS_RemoveElement
    <3>2. Cardinality(R[u]) \in Nat
      BY <2>3, FS_CardinalityType
    <3>3. Cardinality(Q[u]) = 0 <=> Q[u] = {}
      BY <2>3, <3>1, FS_EmptySet
    <3> QED BY <2>3, <3>1, <3>2, <3>3
  <2>6. u \notin ToSet(k.ordered) \cup ToSet(k.ready)
    BY <1>1, <2>1, <2>3
  <2>7. /\ k.degree \in [V -> Int] /\ k.ready \in Seq(V)
    BY <1>1, KahnTyped
  <2>8. k.degree[u] = 1 <=> Q[u] = {}
    BY <1>1, <2>1, <2>5
  <2>9. /\ Distinct(next.ready)
        /\ ToSet(next.ready) = ToSet(k.ready) \cup IF Q[u] = {} THEN {u} ELSE {}
    <3>1. CASE Q[u] = {}
      <4>1. next.ready = Append(k.ready, u)
        BY <2>4, <2>8, <3>1
      <4> QED BY <1>1, <2>1, <2>6, <2>7, <3>1, <4>1, AppendDistinct
    <3>2. CASE Q[u] # {}
      BY <1>1, <2>4, <2>8, <3>2
    <3> QED BY <3>1, <3>2
  <2>10. ASSUME NEW t \in V
         PROVE  /\ next.degree[t] = Cardinality(Q[t])
                /\ t \in ToSet(next.ordered) \cup ToSet(next.ready) <=> Q[t] = {}
    <3>1. CASE t = u
      <4>1. next.degree[u] = Cardinality(Q[u])
        BY <1>1, <2>1, <2>4, <2>5, <2>7
      <4>2. u \in ToSet(next.ordered) \cup ToSet(next.ready) <=> Q[u] = {}
        BY <2>4, <2>6, <2>9
      <4> QED BY <3>1, <4>1, <4>2
    <3>2. CASE t # u
      <4>1. next.degree[t] = Cardinality(R[t]) /\ Q[t] = R[t]
        BY <1>1, <2>2, <2>4, <2>7, <3>2
      <4>2. t \in ToSet(next.ordered) \cup ToSet(next.ready) <=>
              t \in ToSet(k.ordered) \cup ToSet(k.ready)
        BY <2>4, <2>9, <3>2
      <4> QED BY <1>1, <4>1, <4>2
    <3> QED BY <3>1, <3>2
  <2>11. ToSet(next.ordered) \cap ToSet(next.ready) = {}
    BY <1>1, <2>4, <2>6, <2>9
  <2>12. KahnInv(d, next, Q)
    BY <1>1, <2>4, <2>9, <2>10, <2>11 DEF KahnInv
  <2> QED BY <2>4, <2>12 DEF next, Q
<1> QED BY <1>3, <1>4

(* Taking the head of the queue keeps the invariant: its predecessors are  *)
(* all ordered.                                                            *)
LEMMA TakeKeeps ==
  ASSUME NEW d, IsDefinition(d), NEW k, KahnReached(d, k), k.ready # <<>>,
         NEW n, n = Head(k.ready), NEW Done, Done = ToSet(k.ordered) \cup {n}
  PROVE  /\ n \in NodeSet(d) /\ Done = ToSet(Taken(k).ordered)
         /\ Len(Taken(k).ordered) = Len(k.ordered) + 1
         /\ KahnInv(d, Taken(k), Left(d, Done, n, 0))
<1> DEFINE V == NodeSet(d)
           R == Pending(d, ToSet(k.ordered))
           Q == Left(d, Done, n, 0)
           next == Taken(k)
<1>1. /\ k \in KahnState(d) /\ Distinct(k.ordered) /\ Distinct(k.ready)
      /\ ToSet(k.ordered) \cap ToSet(k.ready) = {} /\ Forward(d, k.ordered)
      /\ \A t \in V : /\ k.degree[t] = Cardinality(R[t])
                      /\ t \in ToSet(k.ordered) \cup ToSet(k.ready) <=> R[t] = {}
  BY DEF KahnReached, KahnInv
<1>2. /\ next \in KahnState(d) /\ n \in V /\ next.ready = Tail(k.ready)
      /\ next.degree = k.degree /\ next.ordered = Append(k.ordered, n)
  BY <1>1, TakenFacts
<1>3. k.ready \in Seq(V) /\ k.ordered \in Seq(V)
  BY <1>1, KahnTyped
<1>4. /\ Distinct(next.ready) /\ n \in ToSet(k.ready)
      /\ ToSet(next.ready) = ToSet(k.ready) \ {n}
  BY <1>1, <1>2, <1>3, TailDistinct
<1>5. Distinct(next.ordered) /\ ToSet(next.ordered) = Done
  <2>1. n \notin ToSet(k.ordered)
    BY <1>1, <1>4
  <2> QED BY <1>1, <1>2, <1>3, <2>1, AppendDistinct
<1>6. ASSUME NEW t \in V PROVE Q[t] = R[t]
  <2>1. \A p \in Incoming(d, t) : p[1] = n => p[2] > 0
    <3> TAKE p \in Incoming(d, t)
    <3> HAVE p[1] = n
    <3>1. p[2] \in 1..Len(Links(d, n)) /\ Len(Links(d, n)) \in Nat
      BY IncomingFacts, OutFacts, LinksAreEdges
    <3> QED BY <3>1
  <2>2. n \notin ToSet(k.ordered)
    BY <1>1, <1>4
  <2>3. Q[t] = {p \in Incoming(d, t) : p[1] \notin Done \/ (p[1] = n /\ p[2] > 0)}
    BY DEF Left
  <2>4. R[t] = {p \in Incoming(d, t) : p[1] \notin ToSet(k.ordered)}
    BY DEF Pending
  <2> HIDE DEF Q, R
  <2> QED BY <2>1, <2>2, <2>3, <2>4
<1>7. Forward(d, next.ordered)
  <2> DEFINE o == k.ordered
             a == next.ordered
  <2>1. /\ Len(o) \in Nat /\ Len(a) = Len(o) + 1 /\ a[Len(o) + 1] = n
        /\ \A h \in 1..Len(o) : a[h] = o[h]
    BY <1>2, <1>3
  <2> SUFFICES ASSUME NEW j \in 1..Len(a), NEW m \in V, a[j] \in Targets(d, m)
               PROVE  \E h \in 1..(j - 1) : a[h] = m
    BY DEF Forward
  <2>2. CASE j = Len(o) + 1
    <3>1. n \in Targets(d, m)
      BY <2>1, <2>2
    <3>2. PICK i \in Out(d, m) : Links(d, m)[i][2] = n
      BY <3>1, OutFacts
    <3>3. <<m, i>> \in Incoming(d, n)
      BY <3>2, IncomingFacts
    <3>4. R[n] = {}
      BY <1>1, <1>2, <1>4
    <3>5. R[n] = {p \in Incoming(d, n) : p[1] \notin ToSet(o)}
      BY <1>2 DEF Pending
    <3>6. m \in ToSet(o)
      <4> HIDE DEF R
      <4> QED BY <3>3, <3>4, <3>5
    <3>7. PICK h \in 1..Len(o) : o[h] = m
      BY <1>3, <3>6 DEF ToSet
    <3> QED BY <2>1, <2>2, <3>7
  <2>3. CASE j # Len(o) + 1
    <3>1. j \in 1..Len(o) /\ o[j] \in Targets(d, m)
      BY <2>1, <2>3
    <3>2. PICK h \in 1..(j - 1) : o[h] = m
      BY <1>1, <3>1 DEF Forward
    <3> QED BY <2>1, <3>1, <3>2
  <2> QED BY <2>2, <2>3
<1> HIDE DEF R, Q, next
<1>8. KahnInv(d, next, Q)
  <2>1. ToSet(next.ordered) \cap ToSet(next.ready) = {}
    BY <1>1, <1>4, <1>5
  <2>2. ASSUME NEW t \in V
        PROVE  /\ next.degree[t] = Cardinality(Q[t])
               /\ t \in ToSet(next.ordered) \cup ToSet(next.ready) <=> Q[t] = {}
    BY <1>1, <1>2, <1>4, <1>5, <1>6
  <2> QED BY <1>2, <1>4, <1>5, <1>7, <2>1, <2>2 DEF KahnInv
<1>9. Len(next.ordered) = Len(k.ordered) + 1
  BY <1>2, <1>3
<1> QED BY <1>2, <1>5, <1>8, <1>9 DEF next, Q

LEMMA TurnKeeps ==
  ASSUME NEW d, IsDefinition(d), NEW k, KahnReached(d, k), k.ready # <<>>
  PROVE  /\ KahnReached(d, KahnTurn(d, k))
         /\ Len(KahnTurn(d, k).ordered) = Len(k.ordered) + 1
<1> DEFINE n == Head(k.ready)
           Done == ToSet(k.ordered) \cup {n}
           N == Len(Links(d, n))
           o == Taken(k).ordered
<1>1. /\ n \in NodeSet(d) /\ Done = ToSet(o)
      /\ Len(o) = Len(k.ordered) + 1
      /\ KahnInv(d, Taken(k), Left(d, Done, n, 0))
  BY TakeKeeps
<1>2. PICK f : VisitsAre(f, d, k, n)
  <2>1. k \in KahnState(d)
    BY DEF KahnReached, KahnInv
  <2> QED BY <2>1, TurnSteps
<1>3. N \in Nat /\ n \in Done
  BY <1>1, LinksAreEdges
<1> DEFINE Good(i) == f[i].ordered = o /\ KahnInv(d, f[i], Left(d, Done, n, i))
           T == {i \in 0..N : Good(i)}
<1> HIDE DEF n, Done, o
<1>4. 0 \in T
  <2>1. Good(0)
    BY <1>1, <1>2 DEF VisitsAre, o
  <2> HIDE DEF Good
  <2> QED BY <1>3, <2>1
<1>5. ASSUME NEW i \in 1..N, i - 1 \in T PROVE i \in T
  <2>1. Good(i - 1)
    BY <1>5
  <2>2. f[i] = VisitStep(d, n, i, f[i - 1])
    BY <1>2 DEF VisitsAre
  <2>3. Good(i)
    BY <1>1, <1>3, <2>1, <2>2, VisitKeeps
  <2> HIDE DEF Good
  <2> QED BY <1>3, <2>3
<1>6. Good(N)
  <2>1. N \in T
    <3> HIDE DEF T, N
    <3>1. \A i \in 0..N : i \in T
      BY <1>3, <1>4, <1>5, UpTo
    <3> QED BY <1>3, <3>1
  <2> HIDE DEF Good
  <2> QED BY <2>1
<1>7. KahnTurn(d, k) = f[N]
  BY <1>2 DEF VisitsAre
<1>8. Left(d, Done, n, N) = Pending(d, Done)
  <2>1. ASSUME NEW t \in NodeSet(d)
        PROVE  {p \in Incoming(d, t) : p[1] \notin Done \/ (p[1] = n /\ p[2] > N)}
               = {p \in Incoming(d, t) : p[1] \notin Done}
    <3>1. \A p \in Incoming(d, t) : p[1] = n => ~ p[2] > N
      <4> TAKE p \in Incoming(d, t)
      <4> HAVE p[1] = n
      <4>1. p[2] \in 1..N
        BY IncomingFacts, <1>1, OutFacts
      <4> QED BY <1>3, <4>1
    <3> QED BY <3>1
  <2> HIDE DEF N
  <2> QED BY <2>1 DEF Left, Pending
<1> QED BY <1>1, <1>6, <1>7, <1>8 DEF KahnReached

KahnStates(d) == {k \in KahnState(d) : KahnReached(d, k)}
TurnsBy(d, f) ==
  [i \in 0..Len(d.nodes) |->
     IF i = 0 THEN KahnStart(d)
     ELSE IF f[i - 1].ready = <<>> THEN f[i - 1]
     ELSE KahnTurn(d, f[i - 1])]

LEMMA TurnsAreReached ==
  ASSUME NEW d, IsDefinition(d), Distinct(d.nodes)
  PROVE  /\ KahnTurns(d) \in [0..Len(d.nodes) -> KahnStates(d)]
         /\ KahnTurns(d)[0] = KahnStart(d)
         /\ \A i \in 1..Len(d.nodes) :
              KahnTurns(d)[i] = IF KahnTurns(d)[i - 1].ready = <<>> THEN KahnTurns(d)[i - 1]
                                ELSE KahnTurn(d, KahnTurns(d)[i - 1])
<1> DEFINE D == KahnStates(d)
           N == Len(d.nodes)
           step(k) == IF k.ready = <<>> THEN k ELSE KahnTurn(d, k)
           g == [p \in (1..N) \X D |-> step(p[2])]
           done == CHOOSE f : f = TurnsBy(d, f)
<1>1. N \in Nat
  BY NodesAreFinite
<1>2. KahnStart(d) \in D
  BY KahnBegins DEF KahnStates, KahnReached, KahnInv
<1>3. ASSUME NEW k \in D PROVE step(k) \in D
  BY TurnKeeps DEF KahnStates, KahnReached, KahnInv
<1>4. g \in [(1..N) \X D -> D]
  <2>1. ASSUME NEW p \in (1..N) \X D PROVE step(p[2]) \in D
    BY <1>3
  <2> HIDE DEF D, N, step
  <2> QED BY <2>1
<1>5. PICK f : Recurses(f, N, D, KahnStart(d), g)
  <2> HIDE DEF g, D, N
  <2> QED BY <1>1, <1>2, <1>4, Recursion
<1>6. f = TurnsBy(d, f)
  <2>1. f = [i \in 0..N |-> f[i]]
    <3> HIDE DEF D, N, g
    <3> QED BY <1>5 DEF Recurses
  <2>2. ASSUME NEW i \in 0..N
        PROVE  f[i] = IF i = 0 THEN KahnStart(d) ELSE step(f[i - 1])
    <3>1. CASE i = 0
      BY <1>5, <3>1 DEF Recurses
    <3>2. CASE i # 0
      <4>1. i \in 1..N
        BY <1>1, <3>2
      <4>2. f[i - 1] \in D /\ f[i] = g[<<i, f[i - 1]>>]
        <5> HIDE DEF D, N, g
        <5> QED BY <1>1, <1>5, <4>1 DEF Recurses
      <4>3. <<i, f[i - 1]>> \in (1..N) \X D
        BY <4>1, <4>2
      <4> HIDE DEF N, D, step
      <4> QED BY <3>2, <4>2, <4>3
    <3> QED BY <3>1, <3>2
  <2> QED BY <2>1, <2>2 DEF TurnsBy
<1>7. done = TurnsBy(d, done)
  BY <1>6
<1>8. KahnTurns(d) = done
  BY DEF KahnTurns, TurnsBy
<1>9. done = [i \in 0..N |-> done[i]]
  <2>1. TurnsBy(d, done) = [i \in 0..N |-> TurnsBy(d, done)[i]]
    <3> HIDE DEF done
    <3> QED BY DEF TurnsBy
  <2> HIDE DEF done
  <2> QED BY <1>7, <2>1
<1>10. done[0] = KahnStart(d)
  <2>1. TurnsBy(d, done)[0] = KahnStart(d)
    <3> HIDE DEF done
    <3> QED BY <1>1 DEF TurnsBy
  <2> QED BY <1>7, <2>1
<1>11. ASSUME NEW i \in 1..N PROVE done[i] = step(done[i - 1])
  <2>1. TurnsBy(d, done)[i] = step(done[i - 1])
    <3>1. i \in 0..N /\ i # 0
      BY <1>1
    <3> HIDE DEF done
    <3> QED BY <3>1 DEF TurnsBy
  <2> QED BY <1>7, <2>1
<1>12. Recurses(done, N, D, KahnStart(d), g)
  <2>1. ASSUME NEW i \in 1..N, done[i - 1] \in D PROVE done[i] = g[<<i, done[i - 1]>>]
    <3>1. <<i, done[i - 1]>> \in (1..N) \X D
      BY <2>1
    <3>2. g[<<i, done[i - 1]>>] = step(done[i - 1])
      <4> HIDE DEF N, D, done, step
      <4> QED BY <3>1
    <3> QED BY <1>11, <3>2
  <2> HIDE DEF N, D, g, done
  <2> QED BY <1>1, <1>2, <1>4, <1>9, <1>10, <2>1, RecursionStays
<1> HIDE DEF done, g, D
<1> QED BY <1>8, <1>10, <1>11, <1>12 DEF Recurses, D

(* After as many turns as there are nodes, that many are ordered or the    *)
(* queue has run dry.                                                      *)
LEMMA KahnEnds ==
  ASSUME NEW d, IsDefinition(d), Distinct(d.nodes),
         NEW k, k = KahnTurns(d)[Len(d.nodes)]
  PROVE  /\ KahnReached(d, k)
         /\ Len(k.ordered) = Len(d.nodes) \/ k.ready = <<>>
<1> DEFINE N == Len(d.nodes)
           f == KahnTurns(d)
           Good(i) == Len(f[i].ordered) = i \/ f[i].ready = <<>>
           T == {i \in 0..N : Good(i)}
<1>1. N \in Nat
  BY NodesAreFinite
<1>2. \A i \in 0..N : KahnReached(d, f[i])
  BY TurnsAreReached DEF KahnStates
<1>3. f[0].ordered = <<>>
  BY TurnsAreReached, KahnBegins
<1>4. 0 \in T
  BY <1>1, <1>3
<1>5. ASSUME NEW i \in 1..N, i - 1 \in T PROVE i \in T
  <2>1. KahnReached(d, f[i - 1]) /\ Good(i - 1)
    BY <1>1, <1>2, <1>5
  <2>2. f[i] = IF f[i - 1].ready = <<>> THEN f[i - 1] ELSE KahnTurn(d, f[i - 1])
    BY TurnsAreReached
  <2> HIDE DEF f
  <2>3. CASE f[i - 1].ready = <<>>
    BY <1>1, <2>2, <2>3
  <2>4. CASE f[i - 1].ready # <<>>
    <3>1. Len(f[i].ordered) = Len(f[i - 1].ordered) + 1
      BY <2>1, <2>2, <2>4, TurnKeeps
    <3> QED BY <1>1, <2>1, <2>4, <3>1
  <2> QED BY <2>3, <2>4
<1>6. Good(N)
  <2>1. N \in T
    <3> HIDE DEF T, N
    <3>1. \A i \in 0..N : i \in T
      BY <1>1, <1>4, <1>5, UpTo
    <3> QED BY <1>1, <3>1
  <2> HIDE DEF Good
  <2> QED BY <2>1
<1> QED BY <1>1, <1>2, <1>6

-----------------------------------------------------------------------------
(* Reachability.                                                           *)

LEMMA DescendantsClosed ==
  ASSUME NEW d, IsDefinition(d), NEW n \in NodeSet(d)
  PROVE  /\ Descendants(d, n) \subseteq NodeSet(d)
         /\ Targets(d, n) \subseteq Descendants(d, n)
         /\ \A m \in Descendants(d, n) : Targets(d, m) \subseteq Descendants(d, n)
<1>1. \A m \in NodeSet(d) : Targets(d, m) \subseteq NodeSet(d)
  BY OutFacts
<1> QED BY <1>1 DEF Descendants

LEMMA DescendantsLeast ==
  ASSUME NEW d, NEW n, NEW S \in SUBSET NodeSet(d), Targets(d, n) \subseteq S,
         \A m \in S : Targets(d, m) \subseteq S
  PROVE  Descendants(d, n) \subseteq S
BY DEF Descendants

LEMMA DescendantsGrow ==
  ASSUME NEW d, IsDefinition(d), NEW n \in NodeSet(d), NEW m \in Targets(d, n)
  PROVE  m \in Descendants(d, n) /\ Descendants(d, m) \subseteq Descendants(d, n)
<1>1. /\ Descendants(d, n) \subseteq NodeSet(d) /\ m \in Descendants(d, n)
      /\ \A l \in Descendants(d, n) : Targets(d, l) \subseteq Descendants(d, n)
  BY DescendantsClosed
<1> DEFINE S == Descendants(d, n)
<1>2. S \in SUBSET NodeSet(d) /\ Targets(d, m) \subseteq S /\ \A l \in S : Targets(d, l) \subseteq S
  BY <1>1
<1> HIDE DEF S
<1>3. Descendants(d, m) \subseteq S
  BY <1>2, DescendantsLeast
<1> QED BY <1>1, <1>3 DEF S

(* When every node of a set has a predecessor in it, there is a cycle: the *)
(* node with the most descendants is one of its own.                       *)
LEMMA CycleExists ==
  ASSUME NEW d, IsDefinition(d), NEW R \in SUBSET NodeSet(d), R # {},
         \A t \in R : \E p \in R : t \in Targets(d, p)
  PROVE  \E n \in NodeSet(d) : n \in Descendants(d, n)
<1> DEFINE V == NodeSet(d)
           size(n) == Cardinality(Descendants(d, n))
           gap(n) == Cardinality(V) - size(n)
           S == {gap(n) : n \in R}
<1> SUFFICES ASSUME \A n \in V : n \notin Descendants(d, n) PROVE FALSE
  OBVIOUS
<1>1. IsFiniteSet(V) /\ Cardinality(V) \in Nat
  BY NodesAreFinite
<1>2. ASSUME NEW n \in V
      PROVE  IsFiniteSet(Descendants(d, n)) /\ size(n) \in Nat /\ size(n) <= Cardinality(V)
  <2>1. Descendants(d, n) \subseteq V
    BY DescendantsClosed
  <2> HIDE DEF V
  <2> QED BY <1>1, <2>1, FS_Subset, FS_CardinalityType
<1>3. S \in SUBSET Nat /\ S # {}
  <2>1. \A n \in R : gap(n) \in Nat
    BY <1>1, <1>2
  <2> HIDE DEF gap
  <2> QED BY <2>1
<1>4. PICK least \in S : \A m \in S : least <= m
  <2> HIDE DEF S
  <2> QED BY <1>3, Least
<1>5. PICK t \in R : least = gap(t)
  BY <1>4
<1>6. PICK p \in R : t \in Targets(d, p)
  OBVIOUS
<1>7. t \in Descendants(d, p) /\ Descendants(d, t) \subseteq Descendants(d, p)
  BY <1>6, DescendantsGrow
<1>8. size(t) < size(p)
  <2>1. /\ Cardinality(Descendants(d, t)) <= Cardinality(Descendants(d, p))
        /\ Cardinality(Descendants(d, p)) = Cardinality(Descendants(d, t))
             => Descendants(d, p) = Descendants(d, t)
    BY <1>2, <1>7, FS_Subset
  <2>2. Descendants(d, p) # Descendants(d, t)
    BY <1>7
  <2>3. size(t) \in Nat /\ size(p) \in Nat
    BY <1>2
  <2> QED BY <2>1, <2>2, <2>3
<1>9. gap(t) <= gap(p)
  BY <1>4, <1>5
<1>10. size(t) \in Nat /\ size(p) \in Nat
  BY <1>2
<1> HIDE DEF size
<1> QED BY <1>1, <1>8, <1>9, <1>10

(* The members of a sequence from position p on.                           *)
From(o, p) == {o[j] : j \in p..Len(o)}

(* Where all edges go forward in an order of all nodes, no node reaches    *)
(* itself.                                                                 *)
LEMMA ForwardIsAcyclic ==
  ASSUME NEW d, IsDefinition(d), NEW o \in Seq(NodeSet(d)), Distinct(o),
         ToSet(o) = NodeSet(d), Forward(d, o), NEW i \in 1..Len(o)
  PROVE  Descendants(d, o[i]) \subseteq From(o, i + 1)
<1> DEFINE S == {o[j] : j \in (i + 1)..Len(o)}
<1>1. Len(o) \in Nat /\ DOMAIN o = 1..Len(o) /\ \A j \in 1..Len(o) : o[j] \in NodeSet(d)
  OBVIOUS
<1>2. ASSUME NEW j \in i..Len(o), NEW t \in Targets(d, o[j]) PROVE t \in S
  <2>1. j \in 1..Len(o) /\ o[j] \in NodeSet(d)
    BY <1>1
  <2>2. t \in NodeSet(d)
    BY <2>1, OutFacts
  <2>3. PICK l \in 1..Len(o) : o[l] = t
    BY <1>1, <2>2 DEF ToSet
  <2>4. PICK h \in 1..(l - 1) : o[h] = o[j]
    BY <2>1, <2>3 DEF Forward
  <2>5. h = j
    BY <1>1, <2>1, <2>3, <2>4 DEF Distinct
  <2> QED BY <1>1, <2>3, <2>4, <2>5
<1>3. S \in SUBSET NodeSet(d) /\ Targets(d, o[i]) \subseteq S
  BY <1>1, <1>2
<1>4. \A m \in S : Targets(d, m) \subseteq S
  <2> TAKE m \in S
  <2>1. PICK j \in (i + 1)..Len(o) : m = o[j]
    OBVIOUS
  <2>2. j \in i..Len(o)
    BY <1>1
  <2> HIDE DEF S
  <2> QED BY <1>2, <2>1, <2>2
<1> HIDE DEF S
<1>5. Descendants(d, o[i]) \subseteq S
  BY <1>3, <1>4, DescendantsLeast
<1> QED BY <1>5 DEF From, S

LEMMA IndexOfIs ==
  ASSUME NEW X, NEW s \in Seq(X), Distinct(s), NEW i \in 1..Len(s)
  PROVE  IndexOf(s, s[i]) = i
<1>1. \A j \in 1..Len(s) : s[j] = s[i] => j = i
  BY DEF Distinct
<1> QED BY <1>1 DEF IndexOf

(* The order of distinct nodes: each at most once, edges forward; all      *)
(* nodes exactly when no node reaches itself.                              *)
LEMMA OrderIsSound ==
  ASSUME NEW d, IsDefinition(d), Distinct(d.nodes),
         NEW o, o = TopologicalOrder(d)
  PROVE  /\ o \in Seq(NodeSet(d)) /\ Distinct(o) /\ Forward(d, o)
         /\ Len(o) = Len(d.nodes) => ToSet(o) = NodeSet(d)
         /\ (\A n \in NodeSet(d) : n \notin Descendants(d, n)) <=> Len(o) = Len(d.nodes)
<1> DEFINE V == NodeSet(d)
           k == KahnTurns(d)[Len(d.nodes)]
           R == Pending(d, ToSet(k.ordered))
<1>1. o = k.ordered
  BY DEF TopologicalOrder
<1>2. KahnReached(d, k) /\ (Len(k.ordered) = Len(d.nodes) \/ k.ready = <<>>)
  BY KahnEnds
<1> HIDE DEF k
<1>3. /\ k \in KahnState(d) /\ Distinct(k.ordered) /\ Forward(d, k.ordered)
      /\ \A t \in V : t \in ToSet(k.ordered) \cup ToSet(k.ready) <=> R[t] = {}
  BY <1>2 DEF KahnReached, KahnInv
<1>4. k.ordered \in Seq(V) /\ ToSet(k.ordered) \subseteq V
  BY <1>3, KahnTyped
<1>5. IsFiniteSet(V) /\ Cardinality(V) = Len(d.nodes) /\ Len(d.nodes) \in Nat
  BY NodesAreFinite
<1>6. IsFiniteSet(ToSet(o)) /\ Cardinality(ToSet(o)) = Len(o)
  BY <1>1, <1>3, <1>4, DistinctCounts
<1>7. Len(o) = Len(d.nodes) => ToSet(o) = V
  <2> HIDE DEF V
  <2> QED BY <1>1, <1>4, <1>5, <1>6, FS_Subset
<1>8. ASSUME Len(o) = Len(d.nodes), NEW n \in V PROVE n \notin Descendants(d, n)
  <2>1. ToSet(o) = V
    BY <1>7, <1>8
  <2>2. PICK i \in 1..Len(o) : o[i] = n
    BY <1>1, <1>4, <2>1 DEF ToSet
  <2>3. Descendants(d, o[i]) \subseteq From(o, i + 1)
    <3>1. o \in Seq(NodeSet(d)) /\ Distinct(o) /\ ToSet(o) = NodeSet(d) /\ Forward(d, o)
      BY <1>1, <1>3, <1>4, <2>1
    <3>2. i \in 1..Len(o)
      BY <2>2
    <3>3. \A l \in 1..Len(o) : Descendants(d, o[l]) \subseteq From(o, l + 1)
      BY <3>1, ForwardIsAcyclic
    <3> QED BY <3>2, <3>3
  <2>4. n \notin From(o, i + 1)
    <3> SUFFICES ASSUME NEW j \in (i + 1)..Len(o), o[j] = n PROVE FALSE
      BY DEF From
    <3>1. j \in 1..Len(o) /\ i # j /\ DOMAIN o = 1..Len(o)
      BY <1>1, <1>4
    <3> QED BY <1>1, <1>3, <2>2, <3>1 DEF Distinct
  <2> QED BY <2>2, <2>3, <2>4
<1>9. ASSUME Len(o) # Len(d.nodes) PROVE \E n \in V : n \in Descendants(d, n)
  <2> DEFINE Rest == V \ ToSet(o)
  <2>1. k.ready = <<>> /\ ToSet(k.ready) = {}
    BY <1>1, <1>2, <1>9 DEF ToSet
  <2>2. Rest \in SUBSET V /\ Rest # {}
    <3>1. ToSet(o) # V
      BY <1>5, <1>6, <1>9
    <3> QED BY <1>1, <1>4, <3>1
  <2>3. ASSUME NEW t \in Rest PROVE \E p \in Rest : t \in Targets(d, p)
    <3>1. R[t] # {}
      BY <1>1, <1>3, <2>1
    <3>2. R[t] = {p \in Incoming(d, t) : p[1] \notin ToSet(o)}
      BY <1>1 DEF Pending
    <3>3. PICK p \in Incoming(d, t) : p[1] \notin ToSet(o)
      <4> HIDE DEF R
      <4> QED BY <3>1, <3>2
    <3>4. p[1] \in V /\ t \in Targets(d, p[1])
      BY IncomingFacts
    <3> QED BY <3>3, <3>4
  <2> HIDE DEF Rest
  <2> QED BY <2>2, <2>3, CycleExists
<1> QED BY <1>1, <1>3, <1>4, <1>7, <1>8, <1>9

(* The conclusion of OrderAgrees for one definition.                       *)
LEMMA OrderIsRight ==
  ASSUME NEW d, IsDefinition(d), Cardinality(NodeSet(d)) = Len(d.nodes)
  PROVE  LET order == TopologicalOrder(d)
         IN  /\ (\A n \in NodeSet(d) : n \notin Descendants(d, n)) <=> Len(order) = Len(d.nodes)
             /\ Len(order) = Len(d.nodes) =>
                  /\ ToSet(order) = NodeSet(d)
                  /\ \A e \in Edges(d) : IndexOf(order, e[1]) < IndexOf(order, e[2])
<1> DEFINE o == TopologicalOrder(d)
<1>1. Distinct(d.nodes)
  BY NodesAreFinite
<1>2. /\ o \in Seq(NodeSet(d)) /\ Distinct(o) /\ Forward(d, o)
      /\ Len(o) = Len(d.nodes) => ToSet(o) = NodeSet(d)
      /\ (\A n \in NodeSet(d) : n \notin Descendants(d, n)) <=> Len(o) = Len(d.nodes)
  BY <1>1, OrderIsSound
<1> HIDE DEF o
<1>3. ASSUME Len(o) = Len(d.nodes), NEW e \in Edges(d)
      PROVE  IndexOf(o, e[1]) < IndexOf(o, e[2])
  <2>1. e[1] \in NodeSet(d) /\ e[2] \in NodeSet(d) /\ e[2] \in Targets(d, e[1])
    BY DEF Edges
  <2>2. PICK j \in 1..Len(o) : o[j] = e[2]
    BY <1>2, <1>3, <2>1 DEF ToSet
  <2>3. PICK h \in 1..(j - 1) : o[h] = e[1]
    BY <1>2, <2>1, <2>2 DEF Forward
  <2>4. h \in 1..Len(o) /\ h < j
    BY <1>2
  <2>5. IndexOf(o, e[1]) = h /\ IndexOf(o, e[2]) = j
    BY <1>2, <2>2, <2>3, <2>4, IndexOfIs
  <2> QED BY <2>4, <2>5
<1> QED BY <1>2, <1>3 DEF o

-----------------------------------------------------------------------------
(* The path of an execution.                                               *)

Live(x) == x.active \cap ToSet(x.todo)
IsCondition(d, n) == d.type[n] = "condition"

ExecRecord(d, x) ==
  /\ x = [todo |-> x.todo, active |-> x.active, vars |-> x.vars,
          results |-> x.results, status |-> x.status]
  /\ x.results \in Seq([node : NodeSet(d), status : {"completed", "failed"}])
  /\ x.active \subseteq NodeSet(d)

(* The nodes to visit are the end of the order from position p on.         *)
Suffix(o, p, todo) ==
  /\ p \in 1..(Len(o) + 1)
  /\ todo \in Seq(ToSet(o)) /\ Len(todo) = Len(o) - p + 1
  /\ \A j \in 1..Len(todo) : todo[j] = o[p + j - 1]

(* The results so far are a path: each node once, after its predecessors.  *)
ResultsFollow(d, x) ==
  /\ \A i, j \in 1..Len(x.results) : x.results[i].node = x.results[j].node => i = j
  /\ \A i \in 1..Len(x.results), m \in NodeSet(d) :
       x.results[i].node \in Targets(d, m) =>
         \E h \in 1..(i - 1) : x.results[h].node = m
  /\ \A i \in 1..Len(x.results) :
       x.results[i].status = "failed" <=> i = Len(x.results) /\ x.status = "failed"

(* Of the branches of an executed condition at most one is executed or     *)
(* live.                                                                   *)
OneBranch(d, x) ==
  \A n \in Executed(x) : \A b, c \in ToSet(Branches(d, n)) :
    {b.target, c.target} \subseteq Executed(x) \cup Live(x) => b.target = c.target

(* What is live is closed: the successors of a live node are live, and its *)
(* predecessors are executed or live.                                      *)
LiveIsClosed(d, x) ==
  /\ Executed(x) \cap ToSet(x.todo) = {}
  /\ \A n \in Live(x) : Targets(d, n) \subseteq Live(x)
  /\ \A m \in NodeSet(d) : \A n \in Targets(d, m) \cap Live(x) : m \in Executed(x) \cup Live(x)
  /\ OneBranch(d, x)

(* The nodes executed after the result at position i.                      *)
After(r, i) == {r[j].node : j \in (i + 1)..Len(r)}

(* What was executed after the last condition and what is live are         *)
(* together the branch it chose.                                           *)
BranchIsWhole(d, x) ==
  x.status \in {"running", "completed"} =>
    /\ \/ Executed(x) \cup Live(x) = NodeSet(d)
       \/ \E n \in Executed(x) : IsCondition(d, n)
    /\ \A i \in 1..Len(x.results) :
         /\ IsCondition(d, x.results[i].node)
         /\ \A j \in (i + 1)..Len(x.results) : ~IsCondition(d, x.results[j].node)
         => \E b \in ToSet(Branches(d, x.results[i].node)) :
              After(x.results, i) \cup Live(x) = {b.target} \cup Descendants(d, b.target)

Follows(d, x) ==
  /\ ExecRecord(d, x)
  /\ \E p \in 1..(Len(TopologicalOrder(d)) + 1) : Suffix(TopologicalOrder(d), p, x.todo)
  /\ ResultsFollow(d, x) /\ LiveIsClosed(d, x) /\ BranchIsWhole(d, x)

(* Between two nodes: the next node is live, or there is none.             *)
Settled(x) ==
  /\ x.status = "running" => x.todo # <<>> /\ Head(x.todo) \in x.active
  /\ x.status # "running" => x.todo = <<>>

(* The locals of a request at a step: a graph to create is one that was    *)
(* sent, an execution is there from create_run on and follows its graph.   *)
Engine == {"run.engine", "run.finalize", "run.update", "run.read"}
Follow(step, w, fields, x) ==
  /\ step = "create.check" => fields.definition \in Drafts
  /\ step \in Engine => /\ w.definition \in Valid
                        /\ Follows(w.definition, x) /\ Settled(x)
  /\ step \notin Engine => x = None

PathInv == \A r \in Requests : Follow(pc[r], rec[r], body[r], exec[r])

(* What a validated definition offers the engine.                          *)
Runnable(d, o) ==
  /\ IsDefinition(d)
  /\ o \in Seq(NodeSet(d)) /\ Distinct(o) /\ ToSet(o) = NodeSet(d) /\ Forward(d, o)
  /\ \A n \in NodeSet(d) : InDegree(d, n) <= 1
  /\ \A n \in NodeSet(d) : IsCondition(d, n) =>
       \A i \in 1..Len(d.branches[n]) : d.branches[n][i].target \in NodeSet(d)

LEMMA ValidIsRunnable ==
  ASSUME NEW d \in Valid
  PROVE  Runnable(d, TopologicalOrder(d)) /\ Order[d] = TopologicalOrder(d)
<1>1. IsDefinition(d) /\ ValidDefinition(d)
  BY BuilderAssumption DEF Valid, WorkflowDefinitions
<1>2. Distinct(d.nodes)
  BY <1>1, NodesAreFinite DEF ValidDefinition
<1>3. Len(TopologicalOrder(d)) = Len(d.nodes)
  BY <1>1 DEF ValidDefinition
<1>4. /\ TopologicalOrder(d) \in Seq(NodeSet(d)) /\ Distinct(TopologicalOrder(d))
      /\ Forward(d, TopologicalOrder(d)) /\ ToSet(TopologicalOrder(d)) = NodeSet(d)
  BY <1>1, <1>2, <1>3, OrderIsSound
<1>5. /\ \A n \in NodeSet(d) : InDegree(d, n) <= 1
      /\ \A n \in NodeSet(d) : IsCondition(d, n) => ValidCondition(d, n)
  BY <1>1 DEF ValidDefinition, IsCondition
<1>6. Order[d] = TopologicalOrder(d)
  BY DEF Order
<1> QED BY <1>1, <1>4, <1>5, <1>6 DEF Runnable, ValidCondition

(* At most one edge or branch leads to a node.                             *)
LEMMA OnePredecessor ==
  ASSUME NEW d, NEW o, Runnable(d, o), NEW t \in NodeSet(d),
         NEW p \in Incoming(d, t), NEW q \in Incoming(d, t)
  PROVE  p = q
<1> DEFINE I == Incoming(d, t)
<1>1. IsFiniteSet(I) /\ Cardinality(I) <= 1 /\ Cardinality(I) \in Nat
  BY IncomingFacts DEF Runnable, InDegree
<1> HIDE DEF I
<1> SUFFICES ASSUME p # q PROVE FALSE
  OBVIOUS
<1>2. IsFiniteSet(I \ {p}) /\ Cardinality(I \ {p}) = Cardinality(I) - 1
  <2>1. p \in I
    BY DEF I
  <2> QED BY <1>1, <2>1, FS_RemoveElement
<1>3. I \ {p} # {}
  BY DEF I
<1>4. Cardinality(I \ {p}) # 0 /\ Cardinality(I \ {p}) \in Nat
  BY <1>2, <1>3, FS_EmptySet, FS_CardinalityType
<1> QED BY <1>1, <1>2, <1>4

LEMMA OneSource ==
  ASSUME NEW d, NEW o, Runnable(d, o), NEW m \in NodeSet(d), NEW n \in NodeSet(d),
         NEW t \in Targets(d, m), t \in Targets(d, n)
  PROVE  m = n
<1>1. IsDefinition(d)
  BY DEF Runnable
<1>2. PICK i \in Out(d, m) : Links(d, m)[i][2] = t
  BY <1>1, OutFacts
<1>3. PICK j \in Out(d, n) : Links(d, n)[j][2] = t
  BY <1>1, OutFacts
<1>4. <<m, i>> \in Incoming(d, t) /\ <<n, j>> \in Incoming(d, t) /\ t \in NodeSet(d)
  BY <1>1, <1>2, <1>3, IncomingFacts, OutFacts
<1>5. <<m, i>> = <<n, j>>
  BY <1>4, OnePredecessor
<1> QED BY <1>5

(* The branches of a condition lead to different nodes.                    *)
LEMMA BranchesLead ==
  ASSUME NEW d, NEW o, Runnable(d, o), NEW n \in NodeSet(d)
  PROVE  /\ \A b \in ToSet(Branches(d, n)) : b.target \in Targets(d, n)
         /\ \A b, c \in ToSet(Branches(d, n)) : b.target = c.target => b = c
<1> DEFINE B == Branches(d, n)
           L == Links(d, n)
           E == Len(d.edges)
<1>1. IsDefinition(d)
  BY DEF Runnable
<1>2. /\ B \in Seq([condition : Conditions, target : Nodes])
      /\ Len(L) = E + Len(B) /\ DOMAIN L = 1..Len(L)
      /\ \A j \in 1..Len(B) : L[E + j] = <<n, B[j].target>>
  BY <1>1, LinksAreEdges
<1>3. E \in Nat /\ Len(B) \in Nat /\ DOMAIN B = 1..Len(B)
  <2>1. d.edges \in Seq(Nodes \X Nodes)
    BY <1>1 DEF IsDefinition
  <2> HIDE DEF B
  <2> QED BY <1>2, <2>1
<1>4. \A j \in 1..Len(B) : B[j].target \in NodeSet(d)
  BY DEF Branches, Runnable, IsCondition
<1> HIDE DEF B, L
<1>5. ASSUME NEW j \in 1..Len(B) PROVE E + j \in Out(d, n) /\ L[E + j][2] = B[j].target
  <2>1. E + j \in DOMAIN L
    BY <1>2, <1>3
  <2>2. L[E + j] = <<n, B[j].target>> /\ B[j].target \in NodeSet(d)
    BY <1>2, <1>4
  <2>3. L[E + j] \in {n} \X NodeSet(d) /\ L[E + j][2] = B[j].target
    BY <2>2
  <2>4. Out(d, n) = {i \in DOMAIN L : L[i] \in {n} \X NodeSet(d)}
    BY DEF Out, L
  <2> QED BY <2>1, <2>3, <2>4
<1>6. ASSUME NEW j \in 1..Len(B) PROVE B[j].target \in Targets(d, n)
  BY <1>1, <1>5, OutFacts DEF L
<1>7. ASSUME NEW j \in 1..Len(B), NEW h \in 1..Len(B), B[j].target = B[h].target
      PROVE  j = h
  <2> DEFINE t == B[j].target
  <2>1. <<n, E + j>> \in Incoming(d, t) /\ <<n, E + h>> \in Incoming(d, t)
    BY <1>1, <1>5, <1>7, IncomingFacts DEF L
  <2>2. t \in NodeSet(d)
    BY <1>4
  <2> HIDE DEF t
  <2>3. <<n, E + j>> = <<n, E + h>>
    BY <2>1, <2>2, OnePredecessor
  <2> QED BY <1>3, <2>3
<1> QED BY <1>3, <1>6, <1>7 DEF ToSet, B

(* A descendant is a target, or a target of another descendant.            *)
LEMMA DescendantsBackwards ==
  ASSUME NEW d, IsDefinition(d), NEW n \in NodeSet(d), NEW u \in Descendants(d, n)
  PROVE  u \in Targets(d, n) \/ \E q \in Descendants(d, n) : u \in Targets(d, q)
<1> DEFINE D == Descendants(d, n)
           S == Targets(d, n) \cup UNION {Targets(d, q) : q \in D}
<1>1. /\ D \subseteq NodeSet(d) /\ Targets(d, n) \subseteq D
      /\ \A m \in D : Targets(d, m) \subseteq D
  BY DescendantsClosed
<1>2. S \subseteq D
  BY <1>1
<1>3. S \in SUBSET NodeSet(d) /\ Targets(d, n) \subseteq S /\ \A m \in S : Targets(d, m) \subseteq S
  BY <1>1, <1>2
<1> HIDE DEF S
<1>4. D \subseteq S
  BY <1>3, DescendantsLeast
<1> QED BY <1>4 DEF S

(* A target and its descendants; they are closed, and of the edges into    *)
(* them from outside all leave n and end in t.                             *)
Below(d, t) == {t} \cup Descendants(d, t)
Encloses(d, n, t, D) ==
  /\ D \subseteq NodeSet(d) /\ \A m \in D : Targets(d, m) \subseteq D
  /\ \A m \in NodeSet(d) : \A u \in Targets(d, m) \cap D : m = n \/ m \in D
  /\ Targets(d, n) \cap D = {t}

(* The part of a graph below one target of a node: it is closed, it lies   *)
(* after the node, and only the node leads into it.                        *)
LEMMA BranchBelow ==
  ASSUME NEW d, NEW o, Runnable(d, o), NEW i \in 1..Len(o),
         NEW n, n = o[i], NEW t \in Targets(d, n)
  PROVE  Below(d, t) \subseteq From(o, i + 1) /\ Encloses(d, n, t, Below(d, t))
<1> DEFINE D == Below(d, t)
<1>0. /\ IsDefinition(d) /\ o \in Seq(NodeSet(d)) /\ Distinct(o) /\ ToSet(o) = NodeSet(d)
      /\ Forward(d, o) /\ n \in NodeSet(d) /\ Len(o) \in Nat
  BY DEF Runnable
<1>1. Descendants(d, n) \subseteq From(o, i + 1)
  BY <1>0, ForwardIsAcyclic
<1>2. t \in NodeSet(d) /\ t \in Descendants(d, n) /\ Descendants(d, t) \subseteq Descendants(d, n)
  BY <1>0, OutFacts, DescendantsGrow
<1>3. D = {t} \cup Descendants(d, t) /\ D \subseteq Descendants(d, n)
  BY <1>2 DEF Below
<1> HIDE DEF D
<1>4. n \notin D
  <2>1. n \notin From(o, i + 1)
    <3> SUFFICES ASSUME NEW j \in (i + 1)..Len(o), o[j] = n PROVE FALSE
      BY DEF From
    <3>1. j \in 1..Len(o) /\ i \in 1..Len(o) /\ i # j /\ DOMAIN o = 1..Len(o)
      BY <1>0
    <3> QED BY <1>0, <3>1 DEF Distinct
  <2> QED BY <1>1, <1>3, <2>1
<1>5. D \subseteq NodeSet(d) /\ \A m \in D : Targets(d, m) \subseteq D
  BY <1>0, <1>2, <1>3, DescendantsClosed
<1>6. ASSUME NEW m \in NodeSet(d), NEW u \in Targets(d, m), u \in D PROVE m = n \/ m \in D
  <2>1. CASE u = t
    <3>1. m = n
      BY <1>0, <1>6, <2>1, OneSource
    <3> QED BY <3>1
  <2>2. CASE u # t
    <3>1. u \in Descendants(d, t)
      BY <1>3, <1>6, <2>2
    <3>2. PICK q \in D : u \in Targets(d, q)
      BY <1>0, <1>2, <1>3, <3>1, DescendantsBackwards
    <3>3. q \in NodeSet(d)
      BY <1>5
    <3>4. m = q
      BY <3>2, <3>3, OneSource
    <3> QED BY <3>4
  <2> QED BY <2>1, <2>2
<1>7. ASSUME NEW u \in Targets(d, n), u \in D PROVE u = t
  <2> SUFFICES ASSUME u # t PROVE FALSE
    OBVIOUS
  <2>1. u \in Descendants(d, t)
    BY <1>3, <1>7
  <2>2. PICK q \in D : u \in Targets(d, q)
    BY <1>0, <1>2, <1>3, <2>1, DescendantsBackwards
  <2>3. q \in NodeSet(d)
    BY <1>5
  <2>4. n = q
    BY <1>0, <2>2, <2>3, OneSource
  <2> QED BY <1>4, <2>4
<1>8. D \subseteq From(o, i + 1)
  BY <1>1, <1>3
<1>9. Encloses(d, n, t, D)
  BY <1>0, <1>2, <1>3, <1>5, <1>6, <1>7 DEF Encloses
<1> QED BY <1>8, <1>9 DEF D

LEMMA MinIs ==
  ASSUME NEW S \in SUBSET Nat, S # {}
  PROVE  Min(S) \in S /\ \A m \in S : Min(S) <= m
BY Least DEF Min

(* A condition that completes has selected one of its branches.            *)
LEMMA ConditionSelects ==
  ASSUME NEW d, NEW o, Runnable(d, o), NEW n \in NodeSet(d), IsCondition(d, n),
         NEW values, NEW offered, NEW out \in Outcomes(d, n, values, offered), out.ok
  PROVE  \E b \in ToSet(Branches(d, n)) : SelectedTarget(d, n, values) = b.target
<1> DEFINE own == d.branches[n]
           R == [condition : Conditions, target : Nodes]
           conds == {i \in DOMAIN own : ~IsDefault(own[i])}
           undef == {i \in conds : own[i].condition.var \notin DOMAIN values}
           stops == undef \cup {i \in conds \ undef : EvaluateCondition(own[i].condition, values)}
           dflt  == DOMAIN own \ conds
<1>1. out \in NativeNode(d, n, values)
  BY DEF IsCondition, Outcomes
<1>2. SelectedTarget(d, n, values) # "raise"
  <2> SUFFICES ASSUME SelectedTarget(d, n, values) = "raise" PROVE FALSE
    OBVIOUS
  <2>1. out \in {Error}
    BY <1>1 DEF IsCondition, NativeNode
  <2> QED BY <2>1 DEF Error
<1>3. own \in Seq(R)
  <2>1. IsDefinition(d)
    BY DEF Runnable
  <2>2. n \in Nodes
    BY <2>1, NodesAreFinite
  <2>3. d.branches \in [Nodes -> Seq(R)]
    BY <2>1 DEF IsDefinition
  <2> HIDE DEF R
  <2> QED BY <2>2, <2>3
<1>4. DOMAIN own \subseteq Nat
  <2> HIDE DEF R, own
  <2> QED BY <1>3
<1>5. SelectedTarget(d, n, values) = IF stops # {}
        THEN IF Min(stops) \in undef THEN "raise" ELSE own[Min(stops)].target
        ELSE IF dflt # {} THEN own[Min(dflt)].target ELSE "raise"
  BY DEF SelectedTarget
<1>6. stops \in SUBSET DOMAIN own /\ dflt \in SUBSET DOMAIN own
  OBVIOUS
<1> HIDE DEF own, conds, undef, stops, dflt
<1>7. PICK i \in DOMAIN own : SelectedTarget(d, n, values) = own[i].target
  <2>1. CASE stops # {}
    <3>1. Min(stops) \in DOMAIN own
      BY <1>4, <1>6, <2>1, MinIs
    <3> QED BY <1>2, <1>5, <2>1, <3>1
  <2>2. CASE stops = {}
    <3>1. dflt # {}
      BY <1>2, <1>5, <2>2
    <3>2. Min(dflt) \in DOMAIN own
      BY <1>4, <1>6, <3>1, MinIs
    <3> QED BY <1>5, <2>2, <3>1, <3>2
  <2> QED BY <2>1, <2>2
<1>8. Branches(d, n) = own
  BY DEF Branches, IsCondition, own
<1> QED BY <1>7, <1>8 DEF ToSet

LEMMA SuffixFacts ==
  ASSUME NEW X, NEW o \in Seq(X), NEW p, NEW todo, Suffix(o, p, todo)
  PROVE  /\ Len(o) \in Nat /\ p \in 1..(Len(o) + 1) /\ Len(todo) \in Nat
         /\ DOMAIN todo = 1..Len(todo)
         /\ ToSet(todo) = From(o, p)
         /\ todo # <<>> => /\ p \in 1..Len(o) /\ Head(todo) = o[p]
                           /\ Suffix(o, p + 1, Tail(todo))
<1>1. /\ Len(o) \in Nat /\ p \in 1..(Len(o) + 1) /\ Len(todo) = Len(o) - p + 1
      /\ todo \in Seq(ToSet(o)) /\ DOMAIN todo = 1..Len(todo)
      /\ \A j \in 1..Len(todo) : todo[j] = o[p + j - 1]
  BY DEF Suffix
<1>2. ASSUME NEW j \in p..Len(o) PROVE o[j] \in ToSet(todo)
  <2>1. j - p + 1 \in 1..Len(todo) /\ p + (j - p + 1) - 1 = j
    BY <1>1
  <2>2. todo[j - p + 1] = o[p + (j - p + 1) - 1]
    BY <1>1, <2>1
  <2>3. todo[j - p + 1] = o[j]
    BY <2>1, <2>2
  <2> QED BY <1>1, <2>1, <2>3 DEF ToSet
<1>3. ASSUME NEW e \in ToSet(todo) PROVE e \in {o[j] : j \in p..Len(o)}
  <2>1. PICK j \in 1..Len(todo) : todo[j] = e
    BY <1>1 DEF ToSet
  <2>2. p + j - 1 \in p..Len(o) /\ o[p + j - 1] = e
    BY <1>1, <2>1
  <2> QED BY <2>2
<1>4. ASSUME todo # <<>>
      PROVE  p \in 1..Len(o) /\ Head(todo) = o[p] /\ Suffix(o, p + 1, Tail(todo))
  <2>1. Len(todo) >= 1 /\ p \in 1..Len(o) /\ Head(todo) = todo[1]
    BY <1>1, <1>4
  <2>2. /\ Tail(todo) \in Seq(ToSet(o)) /\ Len(Tail(todo)) = Len(todo) - 1
        /\ \A j \in 1..(Len(todo) - 1) : Tail(todo)[j] = todo[j + 1]
    BY <1>1, <1>4
  <2>3. todo[1] = o[p]
    <3>1. 1 \in 1..Len(todo) /\ p + 1 - 1 = p
      BY <1>1, <2>1
    <3> QED BY <1>1, <3>1
  <2>4. ASSUME NEW j \in 1..(Len(todo) - 1) PROVE Tail(todo)[j] = o[p + 1 + j - 1]
    <3>1. j + 1 \in 1..Len(todo) /\ p + (j + 1) - 1 = p + 1 + j - 1
      BY <1>1
    <3> QED BY <1>1, <2>2, <3>1
  <2> QED BY <1>1, <2>1, <2>2, <2>3, <2>4 DEF Suffix
<1>5. ToSet(todo) = From(o, p)
  BY <1>2, <1>3 DEF From
<1> QED BY <1>1, <1>4, <1>5

(* Passing over nodes that are not active changes nothing that counts.     *)
LEMMA FollowsAlike ==
  ASSUME NEW d, NEW o, o = TopologicalOrder(d), NEW x, NEW y, Follows(d, x), ExecRecord(d, y),
         y.results = x.results, y.active = x.active,
         Live(y) = Live(x), ToSet(y.todo) \subseteq ToSet(x.todo),
         \E p \in 1..(Len(o) + 1) : Suffix(o, p, y.todo),
         y.status = x.status \/ (x.status = "running" /\ y.status = "completed")
  PROVE  Follows(d, y)
<1>1. Executed(y) = Executed(x)
  BY DEF Executed
<1>2. ResultsFollow(d, y)
  BY DEF Follows, ResultsFollow
<1>3. LiveIsClosed(d, y)
  BY <1>1 DEF Follows, LiveIsClosed, OneBranch
<1>4. BranchIsWhole(d, y)
  <2>1. y.status \in {"running", "completed"} => x.status \in {"running", "completed"}
    OBVIOUS
  <2>2. BranchIsWhole(d, x)
    BY DEF Follows
  <2> DEFINE B(E, L, r) ==
        /\ \/ E \cup L = NodeSet(d)
           \/ \E n \in E : IsCondition(d, n)
        /\ \A i \in 1..Len(r) :
             /\ IsCondition(d, r[i].node)
             /\ \A j \in (i + 1)..Len(r) : ~IsCondition(d, r[j].node)
             => \E b \in ToSet(Branches(d, r[i].node)) :
                  After(r, i) \cup L = {b.target} \cup Descendants(d, b.target)
  <2>3. x.status \in {"running", "completed"} => B(Executed(x), Live(x), x.results)
    BY <2>2 DEF BranchIsWhole
  <2>4. B(Executed(y), Live(y), y.results) => BranchIsWhole(d, y)
    BY DEF BranchIsWhole
  <2>5. y.results = x.results /\ Executed(y) = Executed(x) /\ Live(y) = Live(x)
    BY <1>1
  <2> HIDE DEF B
  <2>6. CASE y.status \in {"running", "completed"}
    BY <2>1, <2>3, <2>4, <2>5, <2>6
  <2>7. CASE y.status \notin {"running", "completed"}
    BY <2>7 DEF BranchIsWhole
  <2> QED BY <2>6, <2>7
<1> QED BY <1>2, <1>3, <1>4 DEF Follows

LEMMA SettleFollows ==
  ASSUME NEW d, NEW x, Runnable(d, TopologicalOrder(d)), Follows(d, x),
         x.status # "running" => x.todo = <<>>
  PROVE  Follows(d, Settle(x)) /\ Settled(Settle(x))
<1> DEFINE o == TopologicalOrder(d)
           live == {i \in 1..Len(x.todo) : x.todo[i] \in x.active}
           y == Settle(x)
<1>1. /\ ExecRecord(d, x) /\ o \in Seq(NodeSet(d))
  BY DEF Follows, Runnable
<1>2. PICK p \in 1..(Len(o) + 1) : Suffix(o, p, x.todo)
  BY DEF Follows
<1> HIDE DEF o
<1>3. /\ Len(o) \in Nat /\ p \in 1..(Len(o) + 1) /\ Len(x.todo) \in Nat
      /\ DOMAIN x.todo = 1..Len(x.todo) /\ x.todo \in Seq(ToSet(o))
      /\ Len(x.todo) = Len(o) - p + 1
      /\ \A j \in 1..Len(x.todo) : x.todo[j] = o[p + j - 1]
  <2>1. /\ Len(o) \in Nat /\ p \in 1..(Len(o) + 1) /\ Len(x.todo) \in Nat
        /\ DOMAIN x.todo = 1..Len(x.todo)
    BY <1>1, <1>2, SuffixFacts
  <2>2. /\ x.todo \in Seq(ToSet(o)) /\ Len(x.todo) = Len(o) - p + 1
        /\ \A j \in 1..Len(x.todo) : x.todo[j] = o[p + j - 1]
    BY <1>2 DEF Suffix
  <2> QED BY <2>1, <2>2
<1>4. CASE live = {}
  <2>1. y = [x EXCEPT !.todo = <<>>,
                      !.status = IF @ = "running" THEN "completed" ELSE @]
    BY <1>4 DEF Settle
  <2>2. /\ ExecRecord(d, y) /\ y.results = x.results /\ y.active = x.active
        /\ y.todo = <<>>
        /\ y.status = IF x.status = "running" THEN "completed" ELSE x.status
    BY <1>1, <2>1 DEF ExecRecord
  <2> HIDE DEF y
  <2>3. Live(x) = {} /\ ToSet(y.todo) = {} /\ Live(y) = {}
    BY <1>3, <1>4, <2>2 DEF Live, ToSet
  <2>4. Suffix(o, Len(o) + 1, y.todo) /\ Len(o) + 1 \in 1..(Len(o) + 1)
    BY <1>3, <2>2 DEF Suffix
  <2>5. Follows(d, y)
    BY <2>2, <2>3, <2>4, FollowsAlike DEF o
  <2> QED BY <2>2, <2>5 DEF Settled, y
<1>5. CASE live # {}
  <2> DEFINE m == Min(live)
             n == Len(x.todo)
  <2>1. live \in SUBSET Nat
    BY <1>3
  <2>2. m \in 1..n /\ x.todo[m] \in x.active /\ \A i \in 1..n : x.todo[i] \in x.active => m <= i
    <3>1. m \in live /\ \A i \in live : m <= i
      <4> HIDE DEF live
      <4> QED BY <1>5, <2>1, MinIs
    <3> HIDE DEF m
    <3> QED BY <3>1
  <2>3. y = [x EXCEPT !.todo = SubSeq(@, m, Len(@))]
    BY <1>5 DEF Settle
  <2>4. /\ ExecRecord(d, y) /\ y.results = x.results /\ y.active = x.active
        /\ y.todo = SubSeq(x.todo, m, n) /\ y.status = x.status
    BY <1>1, <2>3 DEF ExecRecord
  <2> HIDE DEF y, m, live
  <2>5. /\ y.todo \in Seq(ToSet(o)) /\ Len(y.todo) = n - m + 1
        /\ \A i \in 1..(n - m + 1) : y.todo[i] = x.todo[m + i - 1]
    <3>1. \A i \in m..n : x.todo[i] \in ToSet(o)
      BY <1>3, <2>2
    <3>2. m \in Int /\ n \in Int /\ m <= n
      BY <1>3, <2>2
    <3> DEFINE t == x.todo
               S == ToSet(o)
    <3> HIDE DEF n, t, S
    <3>3. /\ SubSeq(t, m, n) \in Seq(S)
          /\ Len(SubSeq(t, m, n)) = n - m + 1
          /\ \A i \in 1..(n - m + 1) : SubSeq(t, m, n)[i] = t[m + i - 1]
      BY <3>1, <3>2, SubSeqProperties DEF t, S
    <3> QED BY <2>4, <3>3 DEF t, S
  <2>6. Suffix(o, p + m - 1, y.todo)
    <3>1. p + m - 1 \in 1..(Len(o) + 1) /\ Len(y.todo) = Len(o) - (p + m - 1) + 1
      BY <1>3, <2>2, <2>5
    <3>2. ASSUME NEW j \in 1..Len(y.todo) PROVE y.todo[j] = o[(p + m - 1) + j - 1]
      <4>1. m + j - 1 \in 1..n /\ p + (m + j - 1) - 1 = (p + m - 1) + j - 1
        BY <1>3, <2>2, <2>5
      <4>2. y.todo[j] = x.todo[m + j - 1]
        BY <2>5
      <4>3. x.todo[m + j - 1] = o[p + (m + j - 1) - 1]
        BY <1>3, <4>1
      <4> QED BY <4>1, <4>2, <4>3
    <3> QED BY <2>5, <3>1, <3>2 DEF Suffix
  <2>7. ToSet(y.todo) \subseteq ToSet(x.todo)
    <3> SUFFICES ASSUME NEW e \in ToSet(y.todo) PROVE e \in ToSet(x.todo)
      OBVIOUS
    <3>1. PICK i \in 1..(n - m + 1) : y.todo[i] = e
      BY <2>5 DEF ToSet
    <3>2. m + i - 1 \in 1..n
      BY <1>3, <2>2
    <3> QED BY <1>3, <2>5, <3>1, <3>2 DEF ToSet
  <2>8. Live(y) = Live(x)
    <3>1. ASSUME NEW e \in Live(x) PROVE e \in ToSet(y.todo)
      <4>1. PICK i \in 1..n : x.todo[i] = e
        BY <1>3, <3>1 DEF Live, ToSet
      <4>2. m <= i
        BY <2>2, <3>1, <4>1 DEF Live
      <4>3. i - m + 1 \in 1..(n - m + 1) /\ m + (i - m + 1) - 1 = i
        BY <1>3, <2>2, <4>2
      <4>4. y.todo[i - m + 1] = x.todo[m + (i - m + 1) - 1]
        BY <2>5, <4>3
      <4>5. y.todo[i - m + 1] = e
        BY <4>1, <4>3, <4>4
      <4> QED BY <2>5, <4>3, <4>5 DEF ToSet
    <3> QED BY <2>4, <2>7, <3>1 DEF Live
  <2>9. Follows(d, y)
    <3>1. p + m - 1 \in 1..(Len(o) + 1)
      BY <2>6 DEF Suffix
    <3> QED BY <2>4, <2>6, <2>7, <2>8, <3>1, FollowsAlike DEF o
  <2>10. x.status = "running"
    <3>1. x.todo # <<>>
      BY <2>2
    <3> QED BY <3>1
  <2>11. y.todo # <<>> /\ Head(y.todo) \in x.active
    <3>1. 1 \in 1..(n - m + 1) /\ m + 1 - 1 = m
      BY <1>3, <2>2
    <3>2. y.todo[1] = x.todo[m + 1 - 1]
      BY <2>5, <3>1
    <3>3. y.todo[1] = x.todo[m] /\ Len(y.todo) >= 1
      BY <2>5, <3>1, <3>2
    <3> QED BY <2>2, <2>5, <3>3
  <2> QED BY <2>4, <2>9, <2>10, <2>11 DEF Settled, y
<1> QED BY <1>4, <1>5

(* The next node: first of what is left to visit, its predecessors are     *)
(* executed and its successors live.                                       *)
LEMMA NextNode ==
  ASSUME NEW d, NEW o, o = TopologicalOrder(d), Runnable(d, o), NEW x, Follows(d, x),
         x.todo # <<>>, NEW n, n = Head(x.todo), n \in x.active
  PROVE  /\ n \in NodeSet(d) /\ n \in Live(x) /\ n \notin Executed(x)
         /\ \E p \in 1..Len(o) : /\ n = o[p] /\ Suffix(o, p + 1, Tail(x.todo))
                                 /\ ToSet(Tail(x.todo)) = From(o, p + 1)
         /\ ToSet(x.todo) = {n} \cup ToSet(Tail(x.todo)) /\ n \notin ToSet(Tail(x.todo))
         /\ \A m \in NodeSet(d) : n \in Targets(d, m) => m \in Executed(x)
         /\ Targets(d, n) \subseteq Live(x) /\ Targets(d, n) \subseteq ToSet(Tail(x.todo))
<1>1. /\ IsDefinition(d) /\ o \in Seq(NodeSet(d)) /\ Distinct(o) /\ ToSet(o) = NodeSet(d)
      /\ Forward(d, o) /\ Len(o) \in Nat /\ DOMAIN o = 1..Len(o)
  BY DEF Runnable
<1>2. PICK p \in 1..(Len(o) + 1) : Suffix(o, p, x.todo)
  BY DEF Follows
<1>3. /\ p \in 1..Len(o) /\ n = o[p] /\ Suffix(o, p + 1, Tail(x.todo))
      /\ ToSet(x.todo) = {o[j] : j \in p..Len(o)}
  <2> DEFINE todo == x.todo
  <2>1. Suffix(o, p, todo) /\ todo # <<>>
    BY <1>2
  <2> HIDE DEF todo
  <2>2. /\ ToSet(todo) = From(o, p)
        /\ p \in 1..Len(o) /\ Head(todo) = o[p] /\ Suffix(o, p + 1, Tail(todo))
    BY <1>1, <2>1, SuffixFacts
  <2> QED BY <2>2 DEF todo, From
<1>4. ToSet(Tail(x.todo)) = {o[j] : j \in (p + 1)..Len(o)}
  <2> DEFINE todo == Tail(x.todo)
             q == p + 1
  <2>1. Suffix(o, q, todo)
    BY <1>3
  <2> HIDE DEF todo, q
  <2>2. ToSet(todo) = From(o, q)
    BY <1>1, <2>1, SuffixFacts
  <2> QED BY <2>2 DEF todo, q, From
<1>5. n \in NodeSet(d) /\ n \in ToSet(x.todo)
  BY <1>1, <1>3
<1>6. n \in Live(x) /\ LiveIsClosed(d, x)
  BY <1>5 DEF Live, Follows
<1>7. n \notin Executed(x)
  BY <1>5, <1>6 DEF LiveIsClosed
<1>8. n \notin ToSet(Tail(x.todo))
  <2> SUFFICES ASSUME NEW j \in (p + 1)..Len(o), o[j] = n PROVE FALSE
    BY <1>4
  <2>1. j \in 1..Len(o) /\ j # p
    BY <1>1, <1>3
  <2> QED BY <1>1, <1>3, <2>1 DEF Distinct
<1>9. ToSet(x.todo) = {n} \cup ToSet(Tail(x.todo))
  <2>1. \A j \in p..Len(o) : j = p \/ j \in (p + 1)..Len(o)
    BY <1>1, <1>3
  <2>2. p \in p..Len(o) /\ (p + 1)..Len(o) \subseteq p..Len(o)
    BY <1>1, <1>3
  <2> QED BY <1>3, <1>4, <2>1, <2>2
<1>10. ASSUME NEW m \in NodeSet(d), n \in Targets(d, m) PROVE m \in Executed(x)
  <2>1. m \in Executed(x) \cup Live(x)
    BY <1>6, <1>10 DEF LiveIsClosed
  <2>2. m \notin ToSet(x.todo)
    <3>1. PICK h \in 1..(p - 1) : o[h] = m
      BY <1>1, <1>3, <1>10 DEF Forward
    <3> SUFFICES ASSUME NEW j \in p..Len(o), o[j] = m PROVE FALSE
      BY <1>3
    <3>2. h \in 1..Len(o) /\ j \in 1..Len(o) /\ h # j
      BY <1>1, <1>3
    <3> QED BY <1>1, <3>1, <3>2 DEF Distinct
  <2> QED BY <2>1, <2>2 DEF Live
<1>11. Targets(d, n) \subseteq Live(x)
  BY <1>6 DEF LiveIsClosed
<1>12. n \notin Targets(d, n)
  BY <1>5, <1>7, <1>10
<1>13. Targets(d, n) \subseteq ToSet(Tail(x.todo))
  BY <1>9, <1>11, <1>12 DEF Live
<1>14. ToSet(Tail(x.todo)) = From(o, p + 1)
  BY <1>4 DEF From
<1> QED BY <1>3, <1>14, <1>5, <1>6, <1>7, <1>8, <1>9, <1>10, <1>11, <1>13

(* A node that comes next on the path.                                     *)
MayRun(d, x, n) ==
  /\ ExecRecord(d, x) /\ ResultsFollow(d, x) /\ x.status = "running"
  /\ n \in NodeSet(d) /\ n \notin Executed(x)
  /\ \A m \in NodeSet(d) : n \in Targets(d, m) => m \in Executed(x)

(* A node's result is appended; the execution fails with it.               *)
AddsResult(x, y, n, s) ==
  /\ s \in {"completed", "failed"}
  /\ y.results = Append(x.results, [node |-> n, status |-> s])
  /\ s = "failed" <=> y.status = "failed"
LongerBy(r, s, n) ==
  /\ Len(r) \in Nat /\ Len(s) = Len(r) + 1 /\ s[Len(r) + 1].node = n
  /\ \A i \in 1..Len(r) : s[i].node = r[i].node
NodeResults(d) == Seq([node : NodeSet(d), status : {"completed", "failed"}])

(* The result of a node continues the path.                                *)
LEMMA ResultAdded ==
  ASSUME NEW d, NEW x, NEW n, MayRun(d, x, n), NEW s, NEW y, AddsResult(x, y, n, s)
  PROVE  /\ y.results \in NodeResults(d) /\ LongerBy(x.results, y.results, n)
         /\ ResultsFollow(d, y) /\ Executed(y) = Executed(x) \cup {n}
<1> DEFINE R == [node : NodeSet(d), status : {"completed", "failed"}]
           e == [node |-> n, status |-> s]
           N == Len(x.results)
<1>0. /\ ExecRecord(d, x) /\ ResultsFollow(d, x) /\ x.status = "running"
      /\ n \in NodeSet(d) /\ n \notin Executed(x)
      /\ \A m \in NodeSet(d) : n \in Targets(d, m) => m \in Executed(x)
  BY DEF MayRun
<1>1. /\ x.results \in Seq(R) /\ e \in R /\ e.node = n /\ e.status = s
      /\ y.results = Append(x.results, e) /\ (s = "failed" <=> y.status = "failed")
  BY <1>0 DEF ExecRecord, AddsResult
<1> HIDE DEF R, e
<1>2. /\ y.results \in Seq(R) /\ N \in Nat /\ Len(y.results) = N + 1
      /\ y.results[N + 1] = e
      /\ \A i \in 1..N : y.results[i] = x.results[i]
  BY <1>1
<1>3. /\ \A i, j \in 1..N : x.results[i].node = x.results[j].node => i = j
      /\ \A i \in 1..N, m \in NodeSet(d) :
           x.results[i].node \in Targets(d, m) => \E h \in 1..(i - 1) : x.results[h].node = m
      /\ \A i \in 1..N : x.results[i].status # "failed"
  BY <1>0 DEF ResultsFollow
<1>4. \A i \in 1..(N + 1) : i \in 1..N \/ i = N + 1
  BY <1>2
<1>5. N + 1 \in 1..(N + 1) /\ 1..N \subseteq 1..(N + 1)
  BY <1>2
<1>6. Executed(y) = Executed(x) \cup {n}
  BY <1>1, <1>2, <1>4, <1>5 DEF Executed
<1>7. \A i \in 1..N : x.results[i].node # n
  BY <1>0 DEF Executed
<1>8. ASSUME NEW i \in 1..(N + 1), NEW j \in 1..(N + 1), y.results[i].node = y.results[j].node
      PROVE  i = j
  BY <1>1, <1>2, <1>3, <1>4, <1>7, <1>8
<1>9. ASSUME NEW i \in 1..(N + 1), NEW m \in NodeSet(d), y.results[i].node \in Targets(d, m)
      PROVE  \E h \in 1..(i - 1) : y.results[h].node = m
  <2>1. CASE i \in 1..N
    <3>1. PICK h \in 1..(i - 1) : x.results[h].node = m
      BY <1>2, <1>3, <1>9, <2>1
    <3>2. h \in 1..N
      BY <1>2, <2>1
    <3> QED BY <1>2, <3>1, <3>2
  <2>2. CASE i = N + 1
    <3>1. m \in Executed(x)
      BY <1>0, <1>1, <1>2, <1>9, <2>2
    <3>2. PICK h \in 1..N : x.results[h].node = m
      BY <3>1 DEF Executed
    <3>3. h \in 1..(i - 1)
      BY <1>2, <2>2
    <3> QED BY <1>2, <3>2, <3>3
  <2> QED BY <1>4, <2>1, <2>2
<1>10. ASSUME NEW i \in 1..(N + 1)
       PROVE  y.results[i].status = "failed" <=> i = N + 1 /\ y.status = "failed"
  BY <1>0, <1>1, <1>2, <1>3, <1>4
<1>11. ResultsFollow(d, y)
  BY <1>2, <1>8, <1>9, <1>10 DEF ResultsFollow
<1>12. LongerBy(x.results, y.results, n)
  BY <1>1, <1>2 DEF LongerBy
<1> QED BY <1>2, <1>6, <1>11, <1>12 DEF NodeResults, R

(* Of an executed condition's branches at most one is executed or live,    *)
(* when that held before, nothing else came to life and the node that was  *)
(* added has only one live target.                                         *)
Narrows(d, n, x, y) ==
  /\ Executed(y) = Executed(x) \cup {n}
  /\ Executed(y) \cup Live(y) \subseteq Executed(x) \cup Live(x)
  /\ Targets(d, n) \cap Executed(y) = {}
  /\ \A t, u \in Targets(d, n) \cap Live(y) : IsCondition(d, n) => t = u

LEMMA OneBranchKept ==
  ASSUME NEW d, NEW o, Runnable(d, o), NEW x, LiveIsClosed(d, x), NEW n \in NodeSet(d), NEW y,
         Narrows(d, n, x, y)
  PROVE  OneBranch(d, y)
<1> SUFFICES ASSUME NEW m \in Executed(y),
                    NEW b \in ToSet(Branches(d, m)), NEW c \in ToSet(Branches(d, m)),
                    {b.target, c.target} \subseteq Executed(y) \cup Live(y)
             PROVE  b.target = c.target
  BY DEF OneBranch
<1>1. CASE m \in Executed(x)
  BY <1>1 DEF LiveIsClosed, OneBranch, Narrows
<1>2. CASE m = n
  <2>1. b.target \in Targets(d, n) /\ c.target \in Targets(d, n)
    BY <1>2, BranchesLead
  <2>2. IsCondition(d, n)
    <3>1. Branches(d, n) # <<>>
      BY <1>2 DEF ToSet
    <3> QED BY <3>1 DEF Branches, IsCondition
  <2> QED BY <2>1, <2>2 DEF Narrows
<1> QED BY <1>1, <1>2 DEF Narrows

(* The nodes after a result once one more is appended.                     *)
LEMMA AfterAdded ==
  ASSUME NEW r, NEW s, NEW n, LongerBy(r, s, n)
  PROVE  /\ \A i \in 1..Len(r) : After(s, i) = After(r, i) \cup {n}
         /\ After(s, Len(r) + 1) = {}
<1> DEFINE N == Len(r)
<1>0. N \in Nat /\ Len(s) = N + 1 /\ s[N + 1].node = n /\ \A i \in 1..N : s[i].node = r[i].node
  BY DEF LongerBy
<1>1. ASSUME NEW i \in 1..N PROVE After(s, i) = After(r, i) \cup {n}
  <2>1. \A j \in (i + 1)..(N + 1) : j \in (i + 1)..N \/ j = N + 1
    BY <1>0
  <2>2. N + 1 \in (i + 1)..(N + 1) /\ (i + 1)..N \subseteq (i + 1)..(N + 1)
        /\ (i + 1)..N \subseteq 1..N
    BY <1>0
  <2> DEFINE A == {s[j].node : j \in (i + 1)..(N + 1)}
             B == {r[j].node : j \in (i + 1)..N}
  <2>3. \A e \in A : e \in B \cup {n}
    BY <1>0, <2>1, <2>2
  <2>4. \A e \in B \cup {n} : e \in A
    BY <1>0, <2>1, <2>2
  <2>5. After(s, i) = A /\ After(r, i) = B
    BY <1>0 DEF After
  <2> HIDE DEF A, B
  <2> QED BY <2>3, <2>4, <2>5
<1>2. After(s, N + 1) = {}
  BY <1>0 DEF After
<1> QED BY <1>1, <1>2

(* One node of an execution, failed, completed or a condition's choice.    *)
LEMMA NodeFollows ==
  ASSUME NEW d, Runnable(d, TopologicalOrder(d)), NEW x, Follows(d, x),
         x.status = "running", x.todo # <<>>, Head(x.todo) \in x.active,
         NEW offered, NEW out \in Outcomes(d, Head(x.todo), x.vars, offered),
         NEW y, y = NodeDone(d, x, out)
  PROVE  Follows(d, y) /\ (y.status # "running" => y.todo = <<>>)
<1> DEFINE n == Head(x.todo)
           o == TopologicalOrder(d)
           T == Tail(x.todo)
           N == Len(x.results)
<1>1. /\ ExecRecord(d, x) /\ ResultsFollow(d, x) /\ LiveIsClosed(d, x) /\ BranchIsWhole(d, x)
      /\ IsDefinition(d) /\ Len(o) \in Nat
  BY DEF Follows, Runnable
<1>2. /\ n \in NodeSet(d) /\ n \in Live(x) /\ n \notin Executed(x)
      /\ ToSet(x.todo) = {n} \cup ToSet(T) /\ n \notin ToSet(T)
      /\ \A m \in NodeSet(d) : n \in Targets(d, m) => m \in Executed(x)
      /\ Targets(d, n) \subseteq Live(x) /\ Targets(d, n) \subseteq ToSet(T)
  BY NextNode
<1>3. PICK p \in 1..Len(o) : /\ n = o[p] /\ Suffix(o, p + 1, T)
                             /\ ToSet(T) = From(o, p + 1)
  BY NextNode
<1> HIDE DEF n, o, T, N
<1>4. /\ Executed(x) \cap ToSet(x.todo) = {}
      /\ \A m \in Live(x) : Targets(d, m) \subseteq Live(x)
      /\ \A m \in NodeSet(d) : \A t \in Targets(d, m) \cap Live(x) : m \in Executed(x) \cup Live(x)
  BY <1>1 DEF LiveIsClosed
<1>0. MayRun(d, x, n)
  BY <1>1, <1>2 DEF MayRun
<1>5. CASE ~out.ok
  <2>1. /\ y.results = Append(x.results, [node |-> n, status |-> "failed"])
        /\ y.todo = <<>> /\ y.status = "failed" /\ y.active = x.active
        /\ y = [todo |-> y.todo, active |-> y.active, vars |-> y.vars,
                results |-> y.results, status |-> y.status]
    BY <1>1, <1>5 DEF NodeDone, ExecRecord, n
  <2>2. /\ y.results \in NodeResults(d)
        /\ ResultsFollow(d, y) /\ Executed(y) = Executed(x) \cup {n}
    <3>1. AddsResult(x, y, n, "failed")
      BY <2>1 DEF AddsResult
    <3> QED BY <1>0, <3>1, ResultAdded
  <2>3. ToSet(y.todo) = {} /\ Live(y) = {}
    BY <2>1 DEF ToSet, Live
  <2>4. LiveIsClosed(d, y)
    <3>1. Targets(d, n) \cap Executed(y) = {}
      BY <1>2, <1>4, <2>2
    <3>2. OneBranch(d, y)
      <4>1. Narrows(d, n, x, y)
        BY <1>2, <2>2, <2>3, <3>1 DEF Narrows
      <4> QED BY <1>1, <1>2, <4>1, OneBranchKept
    <3> QED BY <2>3, <3>2 DEF LiveIsClosed
  <2>5. BranchIsWhole(d, y)
    BY <2>1 DEF BranchIsWhole
  <2>6. Suffix(o, Len(o) + 1, y.todo) /\ Len(o) + 1 \in 1..(Len(o) + 1)
    BY <1>1, <2>1 DEF Suffix
  <2>7. ExecRecord(d, y)
    BY <1>1, <2>1, <2>2 DEF ExecRecord, NodeResults
  <2> QED BY <2>1, <2>2, <2>4, <2>5, <2>6, <2>7 DEF Follows, o
<1>6. CASE out.ok /\ ~IsCondition(d, n)
  <2>1. /\ y.results = Append(x.results, [node |-> n, status |-> "completed"])
        /\ y.todo = T /\ y.status = "running" /\ y.active = x.active
        /\ y = [todo |-> y.todo, active |-> y.active, vars |-> y.vars,
                results |-> y.results, status |-> y.status]
    BY <1>1, <1>6 DEF NodeDone, ExecRecord, Reactivate, IsCondition, n, T
  <2>2. /\ y.results \in NodeResults(d) /\ LongerBy(x.results, y.results, n)
        /\ N \in Nat /\ Len(y.results) = N + 1 /\ y.results[N + 1].node = n
        /\ \A i \in 1..N : y.results[i].node = x.results[i].node
        /\ ResultsFollow(d, y) /\ Executed(y) = Executed(x) \cup {n}
    <3>1. AddsResult(x, y, n, "completed")
      BY <2>1 DEF AddsResult
    <3>2. /\ y.results \in NodeResults(d) /\ LongerBy(x.results, y.results, n)
          /\ ResultsFollow(d, y) /\ Executed(y) = Executed(x) \cup {n}
      BY <1>0, <3>1, ResultAdded
    <3> QED BY <3>2 DEF LongerBy, N
  <2>3. Live(y) = Live(x) \ {n}
    BY <1>2, <2>1 DEF Live
  <2>4. LiveIsClosed(d, y)
    <3>1. Executed(y) \cap ToSet(y.todo) = {}
      BY <1>2, <1>4, <2>1, <2>2
    <3>2. ASSUME NEW m \in Live(y) PROVE Targets(d, m) \subseteq Live(y)
      <4>1. m \in Live(x) /\ m \notin Executed(x) /\ m \in NodeSet(d)
        BY <1>1, <1>4, <2>3 DEF Live, ExecRecord
      <4> QED BY <1>2, <1>4, <2>3, <4>1
    <3>3. Targets(d, n) \cap Executed(y) = {}
      BY <1>2, <1>4, <2>2
    <3>4. OneBranch(d, y)
      <4>1. Narrows(d, n, x, y)
        BY <1>2, <1>6, <2>2, <2>3, <3>3 DEF Narrows
      <4> QED BY <1>1, <1>2, <4>1, OneBranchKept
    <3> QED BY <1>4, <2>2, <2>3, <3>1, <3>2, <3>4 DEF LiveIsClosed
  <2>5. BranchIsWhole(d, y)
    <3>1. /\ \/ Executed(x) \cup Live(x) = NodeSet(d)
             \/ \E m \in Executed(x) : IsCondition(d, m)
      BY <1>1 DEF BranchIsWhole
    <3>2. \A i \in 1..N : After(y.results, i) = After(x.results, i) \cup {n}
      BY <2>2, AfterAdded DEF N
    <3>3. ASSUME NEW i \in 1..(N + 1), IsCondition(d, y.results[i].node),
                 \A j \in (i + 1)..(N + 1) : ~IsCondition(d, y.results[j].node)
          PROVE  \E b \in ToSet(Branches(d, y.results[i].node)) :
                   After(y.results, i) \cup Live(y) = {b.target} \cup Descendants(d, b.target)
      <4>1. i \in 1..N /\ y.results[i].node = x.results[i].node
        BY <1>6, <2>2, <3>3
      <4>2. \A j \in (i + 1)..N : y.results[j].node = x.results[j].node
        BY <2>2, <4>1
      <4>3. \A j \in (i + 1)..N : ~IsCondition(d, x.results[j].node)
        BY <2>2, <3>3, <4>1, <4>2
      <4>4. PICK b \in ToSet(Branches(d, x.results[i].node)) :
              After(x.results, i) \cup Live(x) = {b.target} \cup Descendants(d, b.target)
        BY <1>1, <3>3, <4>1, <4>3 DEF BranchIsWhole, N
      <4>5. After(y.results, i) \cup Live(y) = After(x.results, i) \cup Live(x)
        BY <1>2, <2>3, <3>2, <4>1
      <4> QED BY <4>1, <4>4, <4>5
    <3>4. \/ Executed(y) \cup Live(y) = NodeSet(d)
          \/ \E m \in Executed(y) : IsCondition(d, m)
      BY <1>2, <2>2, <2>3, <3>1
    <3> QED BY <2>2, <3>3, <3>4 DEF BranchIsWhole
  <2>6. Suffix(o, p + 1, y.todo) /\ p + 1 \in 1..(Len(o) + 1)
    BY <1>1, <1>3, <2>1
  <2>7. ExecRecord(d, y)
    BY <1>1, <2>1, <2>2 DEF ExecRecord, NodeResults
  <2> QED BY <2>1, <2>2, <2>4, <2>5, <2>6, <2>7 DEF Follows, o
<1>7. CASE out.ok /\ IsCondition(d, n)
  <2>0. PICK b \in ToSet(Branches(d, n)) : SelectedTarget(d, n, x.vars) = b.target
    BY <1>2, <1>7, ConditionSelects DEF n
  <2> DEFINE t == b.target
             D == Below(d, t)
  <2>1. /\ y.results = Append(x.results, [node |-> n, status |-> "completed"])
        /\ y.todo = T /\ y.status = "running" /\ y.active = D
        /\ y = [todo |-> y.todo, active |-> y.active, vars |-> y.vars,
                results |-> y.results, status |-> y.status]
    BY <1>1, <1>7, <2>0 DEF Below, NodeDone, ExecRecord, Reactivate, IsCondition, n, T
  <2>2. /\ y.results \in NodeResults(d) /\ LongerBy(x.results, y.results, n)
        /\ N \in Nat /\ Len(y.results) = N + 1 /\ y.results[N + 1].node = n
        /\ \A i \in 1..N : y.results[i].node = x.results[i].node
        /\ ResultsFollow(d, y) /\ Executed(y) = Executed(x) \cup {n}
    <3>1. AddsResult(x, y, n, "completed")
      BY <2>1 DEF AddsResult
    <3>2. /\ y.results \in NodeResults(d) /\ LongerBy(x.results, y.results, n)
          /\ ResultsFollow(d, y) /\ Executed(y) = Executed(x) \cup {n}
      BY <1>0, <3>1, ResultAdded
    <3> QED BY <3>2 DEF LongerBy, N
  <2>3. t \in Targets(d, n) /\ t \in NodeSet(d)
    <3>1. t \in Targets(d, n)
      BY <1>2, BranchesLead DEF o
    <3> QED BY <1>1, <1>2, <3>1, OutFacts
  <2> HIDE DEF t
  <2>4. /\ D \subseteq ToSet(T) /\ D \subseteq NodeSet(d)
        /\ \A m \in D : Targets(d, m) \subseteq D
        /\ \A m \in NodeSet(d) : \A u \in Targets(d, m) \cap D : m = n \/ m \in D
        /\ Targets(d, n) \cap D = {t}
    <3>1. p \in 1..Len(o) /\ n = o[p] /\ Runnable(d, o)
      BY <1>3 DEF o
    <3> HIDE DEF D
    <3>2. D \subseteq From(o, p + 1) /\ Encloses(d, n, t, D)
      BY <2>3, <3>1, BranchBelow DEF D
    <3> QED BY <1>3, <3>2 DEF Encloses
  <2>5. Live(y) = D
    BY <2>1, <2>4 DEF Live
  <2>6. D \subseteq Live(x)
    <3> DEFINE S == Live(x)
    <3>1. S \in SUBSET NodeSet(d) /\ t \in S /\ Targets(d, t) \subseteq S
          /\ \A m \in S : Targets(d, m) \subseteq S
      BY <1>1, <1>2, <1>4, <2>3 DEF Live, ExecRecord
    <3> HIDE DEF S
    <3>2. Descendants(d, t) \subseteq S
      BY <3>1, DescendantsLeast
    <3> QED BY <3>1, <3>2 DEF S, Below
  <2> HIDE DEF D
  <2>7. LiveIsClosed(d, y)
    <3>1. Executed(y) \cap ToSet(y.todo) = {}
      BY <1>2, <1>4, <2>1, <2>2
    <3>2. Targets(d, n) \cap Executed(y) = {}
      BY <1>2, <1>4, <2>2
    <3>3. OneBranch(d, y)
      <4>1. Executed(y) \cup Live(y) \subseteq Executed(x) \cup Live(x)
        BY <1>2, <2>2, <2>5, <2>6
      <4>2. \A u, v \in Targets(d, n) \cap Live(y) : IsCondition(d, n) => u = v
        BY <2>4, <2>5
      <4>3. Narrows(d, n, x, y)
        BY <2>2, <3>2, <4>1, <4>2 DEF Narrows
      <4> QED BY <1>1, <1>2, <4>3, OneBranchKept
    <3>4. \A m \in NodeSet(d) : \A u \in Targets(d, m) \cap Live(y) : m \in Executed(y) \cup Live(y)
      BY <2>2, <2>4, <2>5
    <3> QED BY <2>4, <2>5, <3>1, <3>3, <3>4 DEF LiveIsClosed
  <2>8. BranchIsWhole(d, y)
    <3>0. After(y.results, N + 1) = {}
      BY <2>2, AfterAdded DEF N
    <3>1. ASSUME NEW i \in 1..(N + 1), IsCondition(d, y.results[i].node),
                 \A j \in (i + 1)..(N + 1) : ~IsCondition(d, y.results[j].node)
          PROVE  \E c \in ToSet(Branches(d, y.results[i].node)) :
                   After(y.results, i) \cup Live(y) = {c.target} \cup Descendants(d, c.target)
      <4>1. i = N + 1
        <5> SUFFICES ASSUME i # N + 1 PROVE FALSE
          OBVIOUS
        <5>1. N + 1 \in (i + 1)..(N + 1)
          BY <2>2
        <5> QED BY <1>7, <2>2, <3>1, <5>1
      <4> QED BY <2>0, <2>2, <2>5, <3>0, <4>1 DEF Below, D, t
    <3>2. \E m \in Executed(y) : IsCondition(d, m)
      BY <1>7, <2>2
    <3> QED BY <2>2, <3>1, <3>2 DEF BranchIsWhole
  <2>9. Suffix(o, p + 1, y.todo) /\ p + 1 \in 1..(Len(o) + 1)
    BY <1>1, <1>3, <2>1
  <2>10. ExecRecord(d, y)
    BY <2>1, <2>2, <2>4 DEF ExecRecord, NodeResults
  <2> QED BY <2>1, <2>2, <2>7, <2>8, <2>9, <2>10 DEF Follows, o
<1> QED BY <1>5, <1>6, <1>7

(* The start of an execution, and a cancelled one.                         *)
LEMMA BeginFollows ==
  ASSUME NEW d, Runnable(d, TopologicalOrder(d)), NEW inputs,
         NEW x, x = Begin(d, TopologicalOrder(d), inputs)
  PROVE  Follows(d, x) /\ x.status = "running"
<1> DEFINE o == TopologicalOrder(d)
<1>1. /\ o \in Seq(NodeSet(d)) /\ ToSet(o) = NodeSet(d) /\ Len(o) \in Nat
      /\ IsDefinition(d)
  BY DEF Runnable
<1>2. /\ x = [todo |-> o, active |-> NodeSet(d), vars |-> inputs,
              results |-> <<>>, status |-> "running"]
  BY DEF Begin
<1> HIDE DEF o
<1>3. /\ x.todo = o /\ x.active = NodeSet(d) /\ x.results = <<>> /\ x.status = "running"
      /\ Live(x) = NodeSet(d) /\ Executed(x) = {}
  BY <1>1, <1>2 DEF Live, Executed
<1>4. ExecRecord(d, x)
  <2>1. x.results \in Seq([node : NodeSet(d), status : {"completed", "failed"}])
    BY <1>3
  <2> QED BY <1>2, <2>1 DEF ExecRecord
<1>5. Suffix(o, 1, x.todo) /\ 1 \in 1..(Len(o) + 1)
  <2>1. o \in Seq(ToSet(o))
    BY <1>1
  <2> QED BY <1>1, <1>3, <2>1 DEF Suffix
<1>6. ResultsFollow(d, x)
  BY <1>3 DEF ResultsFollow
<1>7. LiveIsClosed(d, x)
  <2>1. \A n \in NodeSet(d) : Targets(d, n) \subseteq NodeSet(d)
    BY <1>1, OutFacts
  <2> QED BY <1>3, <2>1 DEF LiveIsClosed, OneBranch
<1>8. BranchIsWhole(d, x)
  BY <1>3 DEF BranchIsWhole
<1> QED BY <1>3, <1>4, <1>5, <1>6, <1>7, <1>8 DEF Follows, o

LEMMA CancelFollows ==
  ASSUME NEW d, Runnable(d, TopologicalOrder(d)), NEW x, Follows(d, x), NEW y,
         y = [x EXCEPT !.status = "cancelled", !.results = <<>>, !.todo = <<>>]
  PROVE  Follows(d, y) /\ Settled(y)
<1> DEFINE o == TopologicalOrder(d)
<1>1. Len(o) \in Nat /\ ExecRecord(d, x)
  BY DEF Runnable, Follows
<1>2. /\ y = [todo |-> <<>>, active |-> x.active, vars |-> x.vars,
              results |-> <<>>, status |-> "cancelled"]
      /\ x.active \subseteq NodeSet(d)
  BY <1>1 DEF ExecRecord
<1> HIDE DEF o
<1>3. /\ y.todo = <<>> /\ y.active \subseteq NodeSet(d) /\ y.results = <<>>
      /\ y.status = "cancelled" /\ Executed(y) = {} /\ ToSet(y.todo) = {} /\ Live(y) = {}
  BY <1>2 DEF Live, Executed, ToSet
<1>4. ExecRecord(d, y)
  <2>1. y.results \in Seq([node : NodeSet(d), status : {"completed", "failed"}])
    BY <1>3
  <2> QED BY <1>2, <2>1 DEF ExecRecord
<1>5. Suffix(o, Len(o) + 1, y.todo) /\ Len(o) + 1 \in 1..(Len(o) + 1)
  BY <1>1, <1>3 DEF Suffix
<1>6. ResultsFollow(d, y)
  BY <1>3 DEF ResultsFollow
<1>7. LiveIsClosed(d, y)
  BY <1>3 DEF LiveIsClosed, OneBranch
<1>8. BranchIsWhole(d, y)
  BY <1>3 DEF BranchIsWhole
<1> QED BY <1>3, <1>4, <1>5, <1>6, <1>7, <1>8 DEF Follows, Settled, o

(* The position of a result is the one its node was appended at.           *)
LEMMA PositionIs ==
  ASSUME NEW d, NEW x, ResultsFollow(d, x), NEW i \in 1..Len(x.results)
  PROVE  Position(x, x.results[i].node) = i
<1> DEFINE n == x.results[i].node
<1>1. x.results[Position(x, n)].node = n /\ Position(x, n) \in 1..Len(x.results)
  BY DEF Position
<1> HIDE DEF n
<1>2. x.results[Position(x, n)].node = x.results[i].node
  BY <1>1 DEF n
<1> QED BY <1>1, <1>2 DEF ResultsFollow, n

(* Of the branches of an executed condition at most one is executed.       *)
LEMMA OneBranchRuns ==
  ASSUME NEW d, NEW o, Runnable(d, o), NEW x, LiveIsClosed(d, x),
         NEW n \in Executed(x), n \in NodeSet(d)
  PROVE  Cardinality({b \in ToSet(Branches(d, n)) : b.target \in Executed(x)}) <= 1
<1> DEFINE S == {b \in ToSet(Branches(d, n)) : b.target \in Executed(x)}
<1>1. ASSUME NEW b \in S, NEW c \in S PROVE b = c
  <2>1. b \in ToSet(Branches(d, n)) /\ c \in ToSet(Branches(d, n))
        /\ {b.target, c.target} \subseteq Executed(x) \cup Live(x)
    OBVIOUS
  <2>2. b.target = c.target
    BY <2>1 DEF LiveIsClosed, OneBranch
  <2> QED BY <2>1, <2>2, BranchesLead
<1> HIDE DEF S
<1>2. CASE S = {}
  BY <1>2, FS_EmptySet DEF S
<1>3. CASE S # {}
  <2>1. PICK b \in S : TRUE
    BY <1>3
  <2>2. S = {b}
    BY <1>1, <2>1
  <2>3. Cardinality(S) = 1
    BY <2>2, FS_Singleton
  <2> QED BY <2>3 DEF S
<1> QED BY <1>2, <1>3

(* The last condition of a sequence of results.                            *)
LEMMA LastCondition ==
  ASSUME NEW d, NEW x, Len(x.results) \in Nat, NEW n \in Executed(x), IsCondition(d, n)
  PROVE  \E i \in 1..Len(x.results) :
           /\ IsCondition(d, x.results[i].node)
           /\ \A j \in (i + 1)..Len(x.results) : ~IsCondition(d, x.results[j].node)
<1> DEFINE N == Len(x.results)
           S == {k \in 0..(N - 1) : IsCondition(d, x.results[N - k].node)}
<1>1. PICK h \in 1..N : x.results[h].node = n
  BY DEF Executed
<1>2. N - h \in 0..(N - 1) /\ N - (N - h) = h
  OBVIOUS
<1>3. N - h \in S
  <2>1. IsCondition(d, x.results[N - (N - h)].node)
    BY <1>1, <1>2
  <2> QED BY <1>2, <2>1
<1>4. S \in SUBSET Nat /\ S # {}
  <2>1. \A k \in S : k \in Nat
    OBVIOUS
  <2> HIDE DEF S
  <2> QED BY <1>3, <2>1
<1>5. PICK k \in S : \A m \in S : k <= m
  <2> HIDE DEF S
  <2> QED BY <1>4, Least
<1>6. k \in 0..(N - 1) /\ IsCondition(d, x.results[N - k].node)
  OBVIOUS
<1>7. ASSUME NEW j \in (N - k + 1)..N, IsCondition(d, x.results[j].node) PROVE FALSE
  <2>1. N - j \in 0..(N - 1) /\ N - (N - j) = j /\ N - j < k
    BY <1>6
  <2>2. N - j \in S
    BY <1>7, <2>1
  <2>3. k <= N - j
    <3> HIDE DEF S
    <3> QED BY <1>5, <2>2
  <2> QED BY <1>6, <2>1, <2>3
<1>8. N - k \in 1..N
  BY <1>6
<1> QED BY <1>6, <1>7, <1>8

(* A completed execution ran the whole of the branch that its last         *)
(* condition chose.                                                        *)
LEMMA CompletedIsWhole ==
  ASSUME NEW d, Runnable(d, TopologicalOrder(d)), NEW x, Follows(d, x), Settled(x),
         x.status = "completed"
  PROVE  BranchRunsWhole(d, x)
<1> DEFINE N == Len(x.results)
           conds == {n \in Executed(x) : d.type[n] = "condition"}
           last == CHOOSE n \in conds : \A m \in conds : Position(x, m) <= Position(x, n)
           after == {n \in Executed(x) : Position(x, n) > Position(x, last)}
<1>1. /\ ResultsFollow(d, x) /\ BranchIsWhole(d, x) /\ N \in Nat
  BY DEF Follows, ExecRecord
<1>2. x.todo = <<>> /\ ToSet(x.todo) = {} /\ Live(x) = {}
  BY DEF Settled, Live, ToSet
<1>3. CASE conds = {}
  <2>1. Executed(x) = NodeSet(d)
    BY <1>1, <1>2, <1>3 DEF BranchIsWhole, IsCondition
  <2> QED BY <1>3, <2>1 DEF BranchRunsWhole
<1>4. CASE conds # {}
  <2>1. PICK i \in 1..N : /\ IsCondition(d, x.results[i].node)
                          /\ \A j \in (i + 1)..N : ~IsCondition(d, x.results[j].node)
    <3>1. PICK n \in Executed(x) : IsCondition(d, n)
      BY <1>4 DEF IsCondition
    <3> QED BY <1>1, <3>1, LastCondition
  <2> DEFINE c == x.results[i].node
  <2>2. c \in conds
    BY <2>1 DEF Executed, IsCondition
  <2>3. ASSUME NEW m \in conds PROVE Position(x, m) <= Position(x, c)
    <3>1. PICK j \in 1..N : x.results[j].node = m
      BY <2>3 DEF Executed
    <3>2. Position(x, m) = j /\ Position(x, c) = i
      BY <1>1, <3>1, PositionIs
    <3>3. j <= i
      <4> SUFFICES ASSUME ~(j <= i) PROVE FALSE
        OBVIOUS
      <4>1. j \in (i + 1)..N
        BY <1>1
      <4> QED BY <2>1, <2>3, <3>1, <4>1 DEF IsCondition
    <3> QED BY <3>2, <3>3
  <2> HIDE DEF conds
  <2>4. last \in conds /\ Position(x, c) <= Position(x, last)
    <3>1. last \in conds /\ \A m \in conds : Position(x, m) <= Position(x, last)
      BY <2>2, <2>3
    <3> HIDE DEF last
    <3> QED BY <2>2, <3>1
  <2> HIDE DEF last
  <2>5. PICK l \in 1..N : x.results[l].node = last
    BY <2>4 DEF Executed, conds
  <2>6. Position(x, last) = i /\ Position(x, c) = i /\ l = i
    <3>1. Position(x, last) = l /\ Position(x, c) = i
      BY <1>1, <2>5, PositionIs
    <3>2. ~(l > i)
      <4> SUFFICES ASSUME l > i PROVE FALSE
        OBVIOUS
      <4>1. l \in (i + 1)..N
        BY <1>1
      <4> QED BY <2>1, <2>4, <2>5, <4>1 DEF IsCondition, conds
    <3> QED BY <1>1, <2>4, <3>1, <3>2
  <2>7. PICK b \in ToSet(Branches(d, c)) :
          After(x.results, i) = {b.target} \cup Descendants(d, b.target)
    BY <1>1, <1>2, <2>1 DEF BranchIsWhole
  <2>8. after = After(x.results, i)
    <3>1. ASSUME NEW n \in after PROVE n \in After(x.results, i)
      <4>1. PICK j \in 1..N : x.results[j].node = n
        BY <3>1 DEF Executed
      <4>2. j > i
        BY <1>1, <2>6, <3>1, <4>1, PositionIs
      <4>3. j \in (i + 1)..N
        BY <1>1, <4>2
      <4> QED BY <4>1, <4>3 DEF After
    <3>2. ASSUME NEW n \in After(x.results, i) PROVE n \in after
      <4>1. PICK j \in (i + 1)..N : x.results[j].node = n
        BY <3>2 DEF After
      <4>2. j \in 1..N /\ j > i
        BY <1>1, <4>1
      <4>3. Position(x, n) = j /\ n \in Executed(x)
        BY <1>1, <4>1, <4>2, PositionIs DEF Executed
      <4> QED BY <2>6, <4>2, <4>3
    <3> HIDE DEF after
    <3> QED BY <3>1, <3>2
  <2>9. b \in ToSet(d.branches[last])
    BY <2>1, <2>5, <2>6, <2>7 DEF Branches, IsCondition
  <2>10. \E a \in ToSet(d.branches[last]) : after = {a.target} \cup Descendants(d, a.target)
    BY <2>7, <2>8, <2>9
  <2>11. BranchRunsWhole(d, x)
         <=> IF conds = {} THEN Executed(x) = NodeSet(d)
             ELSE \E a \in ToSet(d.branches[last]) :
                    after = {a.target} \cup Descendants(d, a.target)
    BY DEF BranchRunsWhole, conds, last
  <2> QED BY <1>4, <2>10, <2>11
<1> QED BY <1>3, <1>4

(* A settled execution that follows the graph is a path of it.             *)
LEMMA PathShown ==
  ASSUME NEW d, Runnable(d, TopologicalOrder(d)), NEW x, Follows(d, x), Settled(x)
  PROVE  /\ \A i, j \in 1..Len(x.results) :
              i # j => x.results[i].node # x.results[j].node
         /\ \A i \in 1..Len(x.results) :
              x.results[i].status = "failed" <=> i = Len(x.results) /\ x.status = "failed"
         /\ \A e \in Edges(d) :
              e[2] \in Executed(x) => /\ e[1] \in Executed(x)
                                      /\ Position(x, e[1]) < Position(x, e[2])
         /\ \A n \in Executed(x) :
              Cardinality({b \in ToSet(Branches(d, n)) : b.target \in Executed(x)}) <= 1
         /\ x.status = "completed" => BranchRunsWhole(d, x)
<1> DEFINE N == Len(x.results)
<1>1. ExecRecord(d, x) /\ ResultsFollow(d, x) /\ LiveIsClosed(d, x) /\ N \in Nat
  BY DEF Follows, ExecRecord
<1>2. ASSUME NEW e \in Edges(d), e[2] \in Executed(x)
      PROVE  e[1] \in Executed(x) /\ Position(x, e[1]) < Position(x, e[2])
  <2>1. e[1] \in NodeSet(d) /\ e[2] \in Targets(d, e[1])
    BY DEF Edges
  <2>2. PICK i \in 1..N : x.results[i].node = e[2]
    BY <1>2 DEF Executed
  <2>3. PICK h \in 1..(i - 1) : x.results[h].node = e[1]
    BY <1>1, <2>1, <2>2 DEF ResultsFollow
  <2>4. h \in 1..N /\ h < i
    BY <1>1
  <2>5. Position(x, e[1]) = h /\ Position(x, e[2]) = i
    BY <1>1, <2>2, <2>3, <2>4, PositionIs
  <2>6. e[1] \in Executed(x)
    BY <2>3, <2>4 DEF Executed
  <2> QED BY <2>4, <2>5, <2>6
<1>3. ASSUME NEW n \in Executed(x)
      PROVE  Cardinality({b \in ToSet(Branches(d, n)) : b.target \in Executed(x)}) <= 1
  <2>1. PICK i \in 1..N : x.results[i].node = n
    BY DEF Executed
  <2> DEFINE R == [node : NodeSet(d), status : {"completed", "failed"}]
  <2>2. x.results \in Seq(R)
    BY <1>1 DEF ExecRecord
  <2>3. x.results[i] \in R
    <3> HIDE DEF R
    <3> QED BY <1>1, <2>2
  <2>4. n \in NodeSet(d)
    BY <2>1, <2>3
  <2> QED BY <1>1, <2>4, OneBranchRuns
<1>4. x.status = "completed" => BranchRunsWhole(d, x)
  BY CompletedIsWhole
<1> QED BY <1>1, <1>2, <1>3, <1>4 DEF ResultsFollow

-----------------------------------------------------------------------------
(* The steps of a request keep the path.                                   *)

Ends(q) == \E code, status : Respond(q, code, status)
GoesOn(q) ==
  \E step, w, fields, x : Continue(q, step, w, fields, x) /\ Follow(step, w, fields, x)

(* A step that gives the execution on as it is, outside of the engine.     *)
LEMMA GoesOnOutside ==
  ASSUME PathInv, NEW q \in Requests, pc[q] \notin Engine, NEW step, NEW w, NEW fields,
         Continue(q, step, w, fields, exec[q]),
         step \notin Engine \cup {"create.check"}
  PROVE  GoesOn(q)
<1>1. exec[q] = None
  BY DEF PathInv, Follow
<1>2. Follow(step, w, fields, exec[q])
  BY <1>1 DEF Follow
<1> QED BY <1>2 DEF GoesOn

(* The requests but the run's.                                             *)
LEMMA DefinitionMoves ==
  ASSUME BuilderInv, PathInv, NEW q \in Requests,
         \/ CreateRequest(q) \/ CreateWorkflow(q) \/ InsertWorkflow(q)
         \/ UpdateRequest(q) \/ UpdateWorkflow(q) \/ SaveWorkflow(q, "update.write")
         \/ PublishRequest(q) \/ PublishWorkflow(q) \/ SavePublished(q)
         \/ UnpublishRequest(q) \/ UnpublishWorkflow(q)
         \/ DeleteRequest(q) \/ DeleteWorkflow(q) \/ RunRequest(q)
  PROVE  Ends(q) \/ GoesOn(q)
<1>1. CASE CreateRequest(q)
  <2>1. PICK d \in Drafts, n \in Names :
          Accept(q, "create.check", [name |-> n, definition |-> d])
    BY <1>1 DEF CreateRequest
  <2> DEFINE fields == [name |-> n, definition |-> d]
  <2>2. fields.definition \in Drafts
    OBVIOUS
  <2>3. Continue(q, "create.check", None, fields, None)
    BY <2>1 DEF Accept
  <2> HIDE DEF fields
  <2>4. Follow("create.check", None, fields, None)
    BY <2>2 DEF Follow, Engine
  <2> QED BY <2>3, <2>4 DEF GoesOn
<1>2. ASSUME NEW step, NEW fields, Accept(q, step, fields),
             step \notin Engine \cup {"create.check"}
      PROVE  GoesOn(q)
  <2>1. Continue(q, step, None, fields, None)
    BY <1>2 DEF Accept
  <2>2. Follow(step, None, fields, None)
    BY <1>2 DEF Follow
  <2> QED BY <2>1, <2>2 DEF GoesOn
<1>3. CASE UpdateRequest(q)
  <2>1. PICK fields : Respond(q, 422, None) \/ Accept(q, "update.get", fields)
    BY <1>3 DEF UpdateRequest
  <2> QED BY <1>2, <2>1 DEF Ends, Engine
<1>4. CASE PublishRequest(q) \/ UnpublishRequest(q) \/ DeleteRequest(q) \/ RunRequest(q)
  <2>1. \/ Accept(q, "publish.get", None) \/ Accept(q, "unpublish.get", None)
        \/ Accept(q, "delete.get", None) \/ \E i \in Inputs : Accept(q, "run.get", i)
    BY <1>4 DEF PublishRequest, UnpublishRequest, DeleteRequest, RunRequest
  <2> QED BY <1>2, <2>1 DEF Engine
<1>5. CASE InsertWorkflow(q) \/ SaveWorkflow(q, "update.write") \/ SavePublished(q)
           \/ UnpublishWorkflow(q) \/ DeleteWorkflow(q)
  BY <1>5
  DEF InsertWorkflow, SaveWorkflow, SavePublished, UnpublishWorkflow, DeleteWorkflow,
      RespondCommitted, Ends
<1>6. CASE CreateWorkflow(q) \/ UpdateWorkflow(q) \/ PublishWorkflow(q)
  <2>1. pc[q] \in {"create.check", "update.check", "publish.check"}
    BY <1>6 DEF CreateWorkflow, UpdateWorkflow, PublishWorkflow, AtStep
  <2>2. \/ \E code : Respond(q, code, None)
        \/ \E w : \/ Continue(q, "create.write", w, body[q], exec[q])
                  \/ Continue(q, "update.write", w, body[q], exec[q])
                  \/ Continue(q, "publish.write", w, body[q], exec[q])
    BY <1>6 DEF CreateWorkflow, UpdateWorkflow, PublishWorkflow, With
  <2>3. CASE \E code : Respond(q, code, None)
    BY <2>3 DEF Ends
  <2>4. ASSUME NEW w,
               \/ Continue(q, "create.write", w, body[q], exec[q])
               \/ Continue(q, "update.write", w, body[q], exec[q])
               \/ Continue(q, "publish.write", w, body[q], exec[q])
        PROVE  GoesOn(q)
    BY <2>1, <2>4, GoesOnOutside DEF Engine
  <2> QED BY <2>2, <2>3, <2>4
<1> QED BY <1>1, <1>3, <1>4, <1>5, <1>6

LEMMA ReadMoves ==
  ASSUME BuilderInv, PathInv, NEW q \in Requests, NEW from, NEW next,
         from \notin Engine, next \notin Engine \cup {"create.check"}, Load(q, from, next)
  PROVE  Ends(q) \/ GoesOn(q)
<1>1. pc[q] = from /\ (Ends(q) \/ Continue(q, next, row, body[q], exec[q]))
  BY DEF Load, AtStep, With, Ends
<1> QED BY <1>1, GoesOnOutside

(* The run's own steps.                                                    *)
LEMMA RunMoves ==
  ASSUME BuilderInv, PathInv, NEW q \in Requests,
         \/ CheckRun(q) \/ CreateRun(q) \/ ExecuteNode(q) \/ EngineReturns(q)
         \/ CancelRun(q) \/ FinalizeRun(q) \/ UpdateRun(q) \/ ReadRun(q)
  PROVE  Ends(q) \/ GoesOn(q)
<1> DEFINE d == rec[q].definition
           x == exec[q]
<1>1. CASE CheckRun(q)
  <2>1. pc[q] = "run.check" /\ (Ends(q) \/ Continue(q, "run.create", rec[q], body[q], exec[q]))
    BY <1>1 DEF CheckRun, AtStep, Goto, Ends
  <2> QED BY <2>1, GoesOnOutside DEF Engine
<1>2. CASE CreateRun(q)
  <2> DEFINE start == Begin(d, TopologicalOrder(d), body[q])
  <2>1. d \in Valid
    BY <1>2 DEF CreateRun, AtStep, BuilderInv, Locals, Reading
  <2>2. Runnable(d, TopologicalOrder(d)) /\ Order[d] = TopologicalOrder(d)
    BY <2>1, ValidIsRunnable
  <2>3. Ends(q) \/ Continue(q, "run.engine", rec[q], None, Settle(start))
    BY <1>2, <2>2 DEF CreateRun, Ends
  <2>4. Follows(d, start) /\ start.status = "running"
    BY <2>2, BeginFollows
  <2> HIDE DEF start
  <2>5. Follows(d, Settle(start)) /\ Settled(Settle(start))
    BY <2>2, <2>4, SettleFollows
  <2>6. Follow("run.engine", rec[q], None, Settle(start))
    BY <2>1, <2>5 DEF Follow, Engine
  <2> QED BY <2>3, <2>6 DEF GoesOn
<1>3. ASSUME pc[q] \in Engine
      PROVE  /\ d \in Valid /\ Runnable(d, TopologicalOrder(d)) /\ Follows(d, x) /\ Settled(x)
  <2>1. d \in Valid /\ Follows(d, x) /\ Settled(x)
    BY <1>3 DEF PathInv, Follow
  <2> QED BY <2>1, ValidIsRunnable
<1>4. CASE ExecuteNode(q)
  <2>1. pc[q] = "run.engine" /\ x.status = "running"
    BY <1>4 DEF ExecuteNode, AtStep
  <2>2. PICK out \in Outcomes(d, Head(x.todo), x.vars, enabled) :
          Continue(q, "run.engine", rec[q], None, Settle(NodeDone(d, x, out)))
    BY <1>4 DEF ExecuteNode
  <2>3. /\ d \in Valid /\ Runnable(d, TopologicalOrder(d)) /\ Follows(d, x)
        /\ x.todo # <<>> /\ Head(x.todo) \in x.active
    BY <1>3, <2>1 DEF Engine, Settled
  <2> DEFINE y == NodeDone(d, x, out)
  <2> HIDE DEF d, x
  <2>4. Follows(d, y) /\ (y.status # "running" => y.todo = <<>>)
    BY <2>1, <2>3, NodeFollows
  <2> HIDE DEF y
  <2>5. Follows(d, Settle(y)) /\ Settled(Settle(y))
    BY <2>3, <2>4, SettleFollows
  <2>6. Follow("run.engine", rec[q], None, Settle(y))
    BY <2>3, <2>5 DEF Follow, Engine, d
  <2> QED BY <2>2, <2>6 DEF GoesOn, y
<1>5. CASE EngineReturns(q) \/ FinalizeRun(q) \/ UpdateRun(q)
  <2>1. /\ pc[q] \in Engine
        /\ \/ Ends(q)
           \/ \E step \in {"run.finalize", "run.update", "run.read"} :
                Continue(q, step, rec[q], body[q], exec[q])
    BY <1>5 DEF EngineReturns, FinalizeRun, UpdateRun, AtStep, Goto, Engine, Ends
  <2>2. ASSUME NEW step \in {"run.finalize", "run.update", "run.read"},
               Continue(q, step, rec[q], body[q], exec[q])
        PROVE  GoesOn(q)
    <3>1. Follow(step, rec[q], body[q], exec[q])
      BY <1>3, <2>1 DEF Follow, Engine
    <3> QED BY <2>2, <3>1 DEF GoesOn
  <2> QED BY <2>1, <2>2
<1>6. CASE CancelRun(q)
  <2> DEFINE y == [x EXCEPT !.status = "cancelled", !.results = <<>>, !.todo = <<>>]
  <2>1. pc[q] = "run.engine" /\ Continue(q, "run.finalize", rec[q], None, y)
    BY <1>6 DEF CancelRun, AtStep
  <2>2. d \in Valid /\ Runnable(d, TopologicalOrder(d)) /\ Follows(d, x)
    BY <1>3, <2>1 DEF Engine
  <2> HIDE DEF d, x
  <2>3. Follows(d, y) /\ Settled(y)
    BY <2>2, CancelFollows
  <2> HIDE DEF y
  <2>4. Follow("run.finalize", rec[q], None, y)
    BY <2>2, <2>3 DEF Follow, Engine, d
  <2> QED BY <2>1, <2>4 DEF GoesOn
<1>7. CASE ReadRun(q)
  BY <1>7 DEF ReadRun, Ends
<1> QED BY <1>1, <1>2, <1>4, <1>5, <1>6, <1>7

LEMMA PathStep ==
  ASSUME BuilderInv, PathInv, BuilderNext
  PROVE  PathInv'
<1>1. ASSUME NEW q \in Requests, Ends(q) \/ GoesOn(q) PROVE PathInv'
  <2> SUFFICES ASSUME NEW r \in Requests PROVE Follow(pc[r], rec[r], body[r], exec[r])'
    BY DEF PathInv
  <2>1. /\ pc = [p \in Requests |-> pc[p]] /\ rec = [p \in Requests |-> rec[p]]
        /\ body = [p \in Requests |-> body[p]] /\ exec = [p \in Requests |-> exec[p]]
    BY DEF BuilderInv, Functional
  <2>2. Follow(pc[r], rec[r], body[r], exec[r])
    BY DEF PathInv
  <2>3. CASE Ends(q)
    <3>1. PICK code, status : Respond(q, code, status)
      BY <2>3 DEF Ends
    <3>2. \/ pc'[r] = "done" /\ exec'[r] = None
          \/ /\ pc'[r] = pc[r] /\ rec'[r] = rec[r] /\ body'[r] = body[r]
             /\ exec'[r] = exec[r]
      BY <2>1, <3>1 DEF Respond
    <3> QED BY <2>2, <3>2 DEF Follow, Engine
  <2>4. CASE GoesOn(q)
    <3>1. PICK step, w, fields, x :
            Continue(q, step, w, fields, x) /\ Follow(step, w, fields, x)
      BY <2>4 DEF GoesOn
    <3>2. \/ pc'[r] = step /\ rec'[r] = w /\ body'[r] = fields /\ exec'[r] = x
          \/ /\ pc'[r] = pc[r] /\ rec'[r] = rec[r] /\ body'[r] = body[r]
             /\ exec'[r] = exec[r]
      BY <2>1, <3>1 DEF Continue
    <3> QED BY <2>2, <3>1, <3>2
  <2> QED BY <1>1, <2>3, <2>4
<1>2. ASSUME NEW q \in Requests, RequestStep(q) PROVE Ends(q) \/ GoesOn(q)
  <2>1. CASE \/ Load(q, "update.get", "update.check")
             \/ Load(q, "publish.get", "publish.check")
             \/ Load(q, "unpublish.get", "unpublish.write")
             \/ Load(q, "delete.get", "delete.write")
             \/ Load(q, "run.get", "run.check")
    BY <2>1, ReadMoves DEF Engine
  <2> QED BY <1>2, <2>1, DefinitionMoves, RunMoves DEF RequestStep
<1>3. ASSUME NEW q \in Requests, CancelRun(q) \/ Interrupt(q) PROVE Ends(q) \/ GoesOn(q)
  BY <1>3, RunMoves DEF Interrupt, Ends
<1>4. ASSUME NEW s \in Switches, SetEnabled(s) PROVE PathInv'
  BY <1>4 DEF SetEnabled, PathInv, Follow
<1> QED BY <1>1, <1>2, <1>3, <1>4 DEF BuilderNext

(* The invariant of the engine, for any definitions: what is executed and  *)
(* what is live follow the graph at every moment of every run.             *)
THEOREM PathInvariant == BuilderSpec => []PathInv
<1>1. BuilderInit => PathInv
  BY DEF BuilderInit, PathInv, Follow, Engine
<1>2. PathInv /\ UNCHANGED builderVars => PathInv'
  BY DEF builderVars, PathInv, Follow
<1> QED BY <1>1, <1>2, PathStep, BuilderInvariant, PTL DEF BuilderSpec

(* ExecutionIsPath of the workflow builder, for any definitions that pass  *)
(* the validation: the node results of a run are a path of its graph, each *)
(* node once and after its predecessors, at most one branch of a           *)
(* condition, nothing after a failed node, and when the run is completed,  *)
(* the whole of the branch that the last condition chose.                  *)
THEOREM ExecutionsArePaths == BuilderSpec => []ExecutionIsPath
<1>1. PathInv => ExecutionIsPath
  <2> SUFFICES ASSUME PathInv, NEW r \in Requests, exec[r] # None,
                      NEW x, x = exec[r], NEW d, d = rec[r].definition
               PROVE  /\ \A i, j \in 1..Len(x.results) :
                           i # j => x.results[i].node # x.results[j].node
                      /\ \A i \in 1..Len(x.results) :
                           x.results[i].status = "failed"
                             <=> i = Len(x.results) /\ x.status = "failed"
                      /\ \A e \in Edges(d) :
                           e[2] \in Executed(x) =>
                             /\ e[1] \in Executed(x)
                             /\ Position(x, e[1]) < Position(x, e[2])
                      /\ \A n \in Executed(x) :
                           Cardinality({b \in ToSet(Branches(d, n)) :
                                          b.target \in Executed(x)}) <= 1
                      /\ x.status = "completed" => BranchRunsWhole(d, x)
    BY DEF ExecutionIsPath
  <2>1. d \in Valid /\ Follows(d, x) /\ Settled(x)
    BY DEF PathInv, Follow
  <2>2. Runnable(d, TopologicalOrder(d))
    BY <2>1, ValidIsRunnable
  <2> QED BY <2>1, <2>2, PathShown
<1> QED BY <1>1, PathInvariant, PTL

(* OrderAgrees of the workflow builder, for any graph that is sent: Kahn's *)
(* loop orders all nodes exactly when no node reaches itself, and then     *)
(* every edge goes forward.                                                *)
THEOREM OrderIsTopological == BuilderSpec => []OrderAgrees
<1>1. PathInv => OrderAgrees
  <2> SUFFICES ASSUME PathInv, NEW r \in Requests, pc[r] = "create.check",
                      NEW d, d = body[r].definition,
                      Cardinality(NodeSet(d)) = Len(d.nodes)
               PROVE  LET order == TopologicalOrder(d)
                      IN  /\ (\A n \in NodeSet(d) : n \notin Descendants(d, n))
                               <=> Len(order) = Len(d.nodes)
                          /\ Len(order) = Len(d.nodes) =>
                               /\ ToSet(order) = NodeSet(d)
                               /\ \A e \in Edges(d) :
                                    IndexOf(order, e[1]) < IndexOf(order, e[2])
    BY DEF OrderAgrees
  <2>1. IsDefinition(d)
    BY BuilderAssumption DEF PathInv, Follow
  <2> QED BY <2>1, OrderIsRight
<1> QED BY <1>1, PathInvariant, PTL
=============================================================================
