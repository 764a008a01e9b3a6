SPECIFICATION TimelineSpec
CONSTANTS
  t1 = t1
  t2 = t2
  Subtasks = {t1, t2}
  MaxDeltas = 1
  MaxFailures = 1
  Cap = 8
  Scopes = {"w1"}
SYMMETRY Symmetry
INVARIANTS
  TimelineNested
  ReplayIsSettled
