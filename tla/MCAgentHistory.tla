--------------------------- MODULE MCAgentHistory ---------------------------
(* Two requests at a time, one tool, three rows of the template, one       *)
(* memory, which either of two users may hold.                             *)
EXTENDS AgentHistory, TLC

CONSTANTS c1, c2

Symmetry == Permutations(Clients)
=============================================================================
