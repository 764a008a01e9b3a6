--------------------------- MODULE MCRunTimeline ---------------------------
(* Two subtasks whose agents report an event each, one INSERT that fails,  *)
(* and a recorder that stops before the run does.                          *)
EXTENDS RunTimeline, TLC

CONSTANTS t1, t2

Symmetry == Permutations(Subtasks)
=============================================================================
