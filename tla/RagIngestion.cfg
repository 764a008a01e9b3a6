SPECIFICATION FairSpec
CONSTANTS
  u1 = u1
  u2 = u2
  u3 = u3
  u4 = u4
  p1 = p1
  p2 = p2
  Uploads = {u1, u2, u3, u4}
  Processes = {p1, p2}
  ProcessOf <- TwoQueues
  OwnerOf <- OneOwner
  NameOf <- SameName
  ContentOf <- SameContent
  ModelOf <- TwoModels
  Unreadable = {u4}
  Ceiling = 3
  QueueSize = 1
  StopItem = StopItem
  Nobody = Nobody
CHECK_DEADLOCK FALSE
INVARIANTS
  StoreConsistent
  QueueMatchesTasks
PROPERTIES
  VerdictIsFinal
  QueuesDrain
