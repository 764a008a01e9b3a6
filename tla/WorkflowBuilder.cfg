SPECIFICATION BuilderSpec
CONSTANTS
  Nodes = {"i", "c", "a", "o"}
  Keys = {"text"}
  Words = {"x"}
  r1 = r1
  r2 = r2
  r3 = r3
  Requests = {r1, r2, r3}
  Creator = r1
  Switches = {"agent"}
  Drafts <- MCDrafts
  Edits <- MCEdits
  Names = {n1}
  Inputs <- MCInputs
  None = None
SYMMETRY Symmetry
CHECK_DEADLOCK FALSE
INVARIANTS
  ExecutionIsPath
  OrderAgrees
  RunsAreSound
PROPERTIES
  HistoryKept
