---------------------------- MODULE WorkflowEngine ----------------------------
(***************************************************************************)
(* The workflow engine: the validation of a workflow definition and the    *)
(* execution of its graph, one node at a time.  Everything here is a pure  *)
(* operator on a definition and on the state of one execution; the module  *)
(* WorkflowBuilder runs executions beside edits of the stored definition.  *)
(*                                                                         *)
(* A text is abstracted to the set of its words: a template concatenates   *)
(* the texts of its variables, and the three forms of a condition look at  *)
(* the words of one variable.  The JSON text an input node returns holds   *)
(* the word "json" and is never empty.                                     *)
(***************************************************************************)
EXTENDS Naturals, Sequences, FiniteSets, SequencesExt, Lists

CONSTANTS
  Nodes,      \* node ids that definitions may use
  Keys,       \* keys of the inputs of a run
  Words       \* the words of texts

Texts == SUBSET Words

NodeType == {"input", "llm", "knowledge", "tool", "code", "condition", "agent",
             "output"}

(* A condition expression; the form "default" stands for the missing       *)
(* condition of a default branch.                                          *)
Conditions ==
  [form : {"contains", "is_empty", "equals", "default"}, var : Nodes \cup Keys,
   lit : Words]
IsDefault(b) == b.condition.form = "default"

(* A definition: the nodes and the edges in the order of the JSON arrays,  *)
(* and of each node's config its type, its branches and the variables its  *)
(* templates mention ({{n.output}} is n, {{input.k}} is k).                *)
IsDefinition(d) ==
  /\ d.nodes \in Seq(Nodes)
  /\ d.edges \in Seq(Nodes \X Nodes)
  /\ d.type \in [Nodes -> NodeType]
  /\ d.branches \in [Nodes -> Seq([condition : Conditions, target : Nodes])]
  /\ d.refs \in [Nodes -> SUBSET (Nodes \cup Keys)]

-----------------------------------------------------------------------------
(* Validation.                                                             *)

NodeSet(d) == ToSet(d.nodes)

(* _branches: only condition nodes have branches.                          *)
Branches(d, n) == IF d.type[n] = "condition" THEN d.branches[n] ELSE <<>>

(* The edges a node may take: the edges proper, then its own branches.     *)
(* Those at the positions Out leave n for a node, and their targets, in    *)
(* this order, are adjacency[n].                                           *)
Links(d, n) ==
  d.edges \o [j \in 1..Len(Branches(d, n)) |-> <<n, Branches(d, n)[j].target>>]
Out(d, n) == {i \in DOMAIN Links(d, n) : Links(d, n)[i] \in {n} \X NodeSet(d)}

Targets(d, n) == {Links(d, n)[i][2] : i \in Out(d, n)}
Edges(d) == {e \in NodeSet(d) \X NodeSet(d) : e[2] \in Targets(d, e[1])}

(* incoming[n]: the places where n is in the adjacency lists.              *)
Incoming(d, n) ==
  UNION {{m} \X {i \in Out(d, m) : Links(d, m)[i][2] = n} : m \in NodeSet(d)}
InDegree(d, n) == Cardinality(Incoming(d, n))

(* Mutation: every target of an ordered node becomes ready.                *)
VisitEager(k, t) == [k EXCEPT !.degree[t] = @ - 1, !.ready = Append(@, t)]

(* A target of an ordered node: ready when its in-degree reaches zero.     *)
Visit(k, t) ==
  [k EXCEPT !.degree[t] = @ - 1,
            !.ready = IF k.degree[t] = 1 THEN Append(@, t) ELSE @]

(* One turn of Kahn's loop: the first ready node is ordered, and its       *)
(* targets are visited.                                                    *)
Visits(d, k) ==
  LET n == Head(k.ready)
      visited[i \in 0..Len(Links(d, n))] ==
        IF i = 0 THEN [k EXCEPT !.ready = Tail(@), !.ordered = Append(@, n)]
        ELSE IF i \in Out(d, n) THEN Visit(visited[i - 1], Links(d, n)[i][2])
        ELSE visited[i - 1]
  IN  visited
KahnTurn(d, k) == Visits(d, k)[Len(Links(d, Head(k.ready)))]

KahnStart(d) ==
  [ready   |-> Among(d.nodes, {n \in NodeSet(d) : InDegree(d, n) = 0}),
   degree  |-> [n \in NodeSet(d) |-> InDegree(d, n)],
   ordered |-> <<>>]

KahnTurns(d) ==
  LET turns[i \in 0..Len(d.nodes)] ==
        IF i = 0 THEN KahnStart(d)
        ELSE IF turns[i - 1].ready = <<>> THEN turns[i - 1]
        ELSE KahnTurn(d, turns[i - 1])
  IN  turns

(* topological_order: the nodes Kahn's loop orders; a shorter list than    *)
(* the nodes means there is a cycle.                                       *)
TopologicalOrder(d) == KahnTurns(d)[Len(d.nodes)].ordered

IndexOf(s, e) == CHOOSE i \in 1..Len(s) : s[i] = e

(* _validate_condition_node: at least one branch, every target a node, at  *)
(* most one default branch.                                                *)
ValidCondition(d, n) ==
  /\ d.branches[n] # <<>>
  /\ \A i \in 1..Len(d.branches[n]) : d.branches[n][i].target \in NodeSet(d)
  /\ Cardinality({i \in DOMAIN d.branches[n] : IsDefault(d.branches[n][i])}) <= 1

(* The node outputs that a node's config mentions, conditions included     *)
(* (_walk_strings collects every string of the config).                    *)
References(d, n) ==
  d.refs[n] \cup
  {b.condition.var : b \in {c \in ToSet(Branches(d, n)) : ~IsDefault(c)}}

(* _validate_template_references: a mentioned node exists, is another      *)
(* node, and is ordered earlier.  Input keys are not looked at.            *)
ValidReferences(d, n) ==
  LET topo == TopologicalOrder(d)
  IN  \A m \in References(d, n) \ Keys :
         /\ m # n
         /\ m \in NodeSet(d)
         /\ IndexOf(topo, m) < IndexOf(topo, n)

(* validate_definition, as the conjunction of its checks in their order.   *)
ValidDefinition(d) ==
  /\ Cardinality(NodeSet(d)) = Len(d.nodes)
  /\ \A i \in 1..Len(d.edges) :
        /\ {d.edges[i][1], d.edges[i][2]} \subseteq NodeSet(d)
        /\ d.edges[i][1] # d.edges[i][2]
  /\ \E n \in NodeSet(d) : d.type[n] = "input"
  /\ \E n \in NodeSet(d) : d.type[n] = "output"
  /\ \A n \in NodeSet(d) :
        d.type[n] = "input" =>
          Cardinality({i \in DOMAIN d.edges : d.edges[i][1] = n}) = 1
  /\ \A n \in NodeSet(d) : InDegree(d, n) <= 1
  /\ Len(TopologicalOrder(d)) = Len(d.nodes)
  /\ \A n \in NodeSet(d) : d.type[n] = "condition" => ValidCondition(d, n)
  /\ \A n \in NodeSet(d) : ValidReferences(d, n)

-----------------------------------------------------------------------------
(* Evaluation.  vars maps the variables defined so far to their texts.     *)

(* render_template: undefined when some variable is; a template without    *)
(* variables is literal text.                                              *)
Defined(refs, vars) == refs \subseteq DOMAIN vars
RenderTemplate(refs, vars) ==
  IF refs = {} THEN {"json"} ELSE UNION {vars[v] : v \in refs}

(* evaluate_condition on a defined variable.                               *)
EvaluateCondition(c, vars) ==
  CASE c.form = "contains" -> c.lit \in vars[c.var]
    [] c.form = "is_empty" -> vars[c.var] = {}
    [] c.form = "equals"   -> vars[c.var] = {c.lit}

(* _selected_target: the first branch whose condition holds, otherwise the *)
(* default branch; "raise" when a condition read before a match mentions   *)
(* an undefined variable, or when nothing matches and there is no default. *)
SelectedTarget(d, n, vars) ==
  LET own   == d.branches[n]
      conds == {i \in DOMAIN own : ~IsDefault(own[i])}
      undef == {i \in conds : own[i].condition.var \notin DOMAIN vars}
      stops == undef \cup {i \in conds \ undef : EvaluateCondition(own[i].condition, vars)}
      dflt  == DOMAIN own \ conds
  IN  IF stops # {}
      THEN IF Min(stops) \in undef THEN "raise" ELSE own[Min(stops)].target
      ELSE IF dflt # {} THEN own[Min(dflt)].target ELSE "raise"

(* _descendants: the nodes reached from n through the adjacency lists, the *)
(* least set that holds n's targets and with a node its targets.           *)
Descendants(d, n) ==
  LET closed == {S \in SUBSET NodeSet(d) :
                   Targets(d, n) \subseteq S /\ \A m \in S : Targets(d, m) \subseteq S}
  IN  {m \in NodeSet(d) : \A S \in closed : m \in S}

-----------------------------------------------------------------------------
(* The node executors: the outcomes of one node.  An exception of a        *)
(* service and NodeOutput.error both fail the node.                        *)

Error == [ok |-> FALSE, text |-> {}]
Output(t) == [ok |-> TRUE, text |-> t]
AnyAnswer == {Error} \cup {Output(t) : t \in Texts}

(* A template that must be defined and not blank before a service is used. *)
Usable(d, n, vars) == Defined(d.refs[n], vars) /\ RenderTemplate(d.refs[n], vars) # {}

(* LlmNodeExecutor: chat answers with any text, or fails.                  *)
LlmNode(d, n, vars) == IF Usable(d, n, vars) THEN AnyAnswer ELSE {Error}

(* KnowledgeNodeExecutor: prepare and answer; a missing RAG service and    *)
(* the known RAG errors are node errors.                                   *)
KnowledgeNode(d, n, vars) ==
  IF Usable(d, n, vars) THEN AnyAnswer ELSE {Error}

(* ToolNodeExecutor: the arguments are rendered, blank ones are accepted.  *)
ToolNode(d, n, vars) ==
  IF Defined(d.refs[n], vars) THEN AnyAnswer ELSE {Error}

(* CodeNodeExecutor: the sandbox's error text is a node error.             *)
CodeNode(d, n, vars) == IF Usable(d, n, vars) THEN AnyAnswer ELSE {Error}

(* AgentNodeExecutor: the definition is read again; a blank prompt falls   *)
(* back to the input "text" of the run.                                    *)
AgentNode(d, n, vars, enabled) ==
  LET prompt  == IF Defined(d.refs[n], vars) THEN RenderTemplate(d.refs[n], vars) ELSE {}
      message == IF prompt # {} THEN prompt
                 ELSE IF "text" \in DOMAIN vars THEN vars["text"] ELSE {}
  IN  IF "agent" \in enabled /\ Defined(d.refs[n], vars) /\ message # {}
      THEN AnyAnswer ELSE {Error}

(* The nodes the engine executes itself.                                   *)
NativeNode(d, n, vars) ==
  CASE d.type[n] = "input" -> {Output(UNION {vars[k] : k \in DOMAIN vars \cap Keys} \cup {"json"})}
    [] d.type[n] = "condition" -> IF SelectedTarget(d, n, vars) = "raise"
                                  THEN {Error} ELSE {Output({})}
    [] d.type[n] = "output" -> IF Defined(d.refs[n], vars)
                               THEN {Output(RenderTemplate(d.refs[n], vars))} ELSE {Error}

(* _execute_node.                                                          *)
Outcomes(d, n, vars, enabled) ==
  CASE d.type[n] = "llm"       -> LlmNode(d, n, vars)
    [] d.type[n] = "knowledge" -> KnowledgeNode(d, n, vars)
    [] d.type[n] = "tool"      -> ToolNode(d, n, vars)
    [] d.type[n] = "code"      -> CodeNode(d, n, vars)
    [] d.type[n] = "agent"     -> AgentNode(d, n, vars, enabled)
    [] OTHER                   -> NativeNode(d, n, vars)

-----------------------------------------------------------------------------
(* WorkflowEngine.run as a machine: the nodes still to visit, the active   *)
(* nodes, the variables and the node results.                              *)

Begin(d, order, inputs) ==
  [todo |-> order, active |-> NodeSet(d), vars |-> inputs,
   results |-> <<>>, status |-> "running"]

(* Mutation: only the target of the selected branch is run.                *)
TargetOnly(d, x, n) ==
  IF d.type[n] = "condition" THEN {SelectedTarget(d, n, x.vars)} ELSE x.active

(* A condition keeps the selected target and its descendants only.         *)
Reactivate(d, x, n) ==
  IF d.type[n] = "condition"
  THEN LET t == SelectedTarget(d, n, x.vars) IN {t} \cup Descendants(d, t)
  ELSE x.active

(* One node with outcome out: an error ends the run as failed, otherwise   *)
(* the output becomes a variable (not that of a condition or output node). *)
NodeDone(d, x, out) ==
  LET n == Head(x.todo)
  IN  IF ~out.ok
      THEN [x EXCEPT !.results = Append(@, [node |-> n, status |-> "failed"]),
                     !.todo = <<>>, !.status = "failed"]
      ELSE [x EXCEPT !.results = Append(@, [node |-> n, status |-> "completed"]),
                     !.vars = IF d.type[n] \in {"output", "condition"} THEN @
                              ELSE [v \in DOMAIN @ \cup {n} |->
                                      IF v = n THEN out.text ELSE @[v]],
                     !.active = Reactivate(d, x, n),
                     !.todo = Tail(@)]

(* The loop passes over inactive nodes; past the last one the run is done. *)
Settle(x) ==
  LET live == {i \in 1..Len(x.todo) : x.todo[i] \in x.active}
  IN  IF live # {}
      THEN [x EXCEPT !.todo = SubSeq(@, Min(live), Len(@))]
      ELSE [x EXCEPT !.todo = <<>>,
                     !.status = IF @ = "running" THEN "completed" ELSE @]
=============================================================================
