SPECIFICATION Spec
CONSTANTS
  c1 = c1
  c2 = c2
  Clients = {c1, c2}
  Tools = {"calculator"}
  MaxVersions = 3
  Users = {"u1", "u2"}
  MemoryIds = {"m1"}
  ContextLimit = 5
  MaxEdits = 7
SYMMETRY Symmetry
CHECK_DEADLOCK FALSE

  
PROPERTIES
  VersionsUsable
  DeletedStaysGone
