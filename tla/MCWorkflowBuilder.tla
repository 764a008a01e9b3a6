-------------------------- MODULE MCWorkflowBuilder --------------------------
(* An instance with four nodes.  A create sends any graph over six edges   *)
(* and four lists of branches, cyclic ones and joins included.             *)
EXTENDS WorkflowBuilder

CONSTANTS r1, r2, r3

(* The creator is told apart, the other requests are not.                  *)
Symmetry == Permutations({r2, r3})

Definition(edges, middle, branches, refs) ==
  [nodes |-> <<"i", "c", "a", "o">>, edges |-> edges,
   type |-> [i |-> "input", c |-> middle, a |-> "agent", o |-> "output"],
   branches |-> [n \in Nodes |-> IF n = "c" THEN branches ELSE <<>>],
   refs |-> [n \in Nodes |-> IF n = "o" THEN refs ELSE IF n = "a" THEN {"text"} ELSE {}]]

IfX(t) == [condition |-> [form |-> "contains", var |-> "text", lit |-> "x"], target |-> t]
Else(t) == [condition |-> [form |-> "default", var |-> "text", lit |-> "x"], target |-> t]

BranchLists == {<<>>, <<IfX("a"), Else("o")>>, <<IfX("a")>>, <<Else("a"), Else("o")>>}
EdgeSets == SUBSET {<<"i", "c">>, <<"i", "a">>, <<"a", "c">>, <<"a", "o">>,
                    <<"c", "a">>, <<"c", "o">>}

(* The output mentions a node of one branch only.                          *)
Branching == Definition(<<<<"i", "c">>>>, "condition", <<IfX("a"), Else("o")>>, {"a"})

MCDrafts ==
  {Definition(SetToSeq(e), "condition", b, {"text"}) : e \in EdgeSets, b \in BranchLists}
  \cup {Definition(SetToSeq(e), "tool", <<>>, {"a"}) : e \in EdgeSets}
  \cup {Branching}

Serial    == Definition(<<<<"i", "c">>, <<"c", "a">>, <<"a", "o">>>>, "tool", <<>>, {"a"})
Cyclic    == Definition(<<<<"i", "c">>, <<"a", "o">>, <<"o", "a">>>>, "tool", <<>>, {})
MCEdits == {Serial, Cyclic}
MCInputs == {("text" :> {"x"}), ("text" :> {})}
=============================================================================
