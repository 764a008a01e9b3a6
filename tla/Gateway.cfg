SPECIFICATION Spec
CONSTANTS
  r1 = r1
  r2 = r2
  r3 = r3
  k1 = k1
  k2 = k2
  k3 = k3
  ann = ann
  bob = bob
  old = old
  hi = hi
  Callers = {k1, k2, k3}
  Owners = {ann, bob}
  Limit = 1
  Window = 1
  NoQueue = NoQueue
  Threads = {r1, r2, old}
  ContextLimit = 3
  ContextBudget = 3
  SummaryRoom = 3
  NoThread = NoThread
  NoTokens = NoTokens
  Requests = {r1, r2}
  Asks <- MCAsks
  Says <- MCSays
  Histories <- MCHistories
  OldThread = old
  OldOwner = ann
  Lines <- MCLines
  MaxLines = 2
  NoCall = NoCall
SYMMETRY Symmetry
CHECK_DEADLOCK FALSE
INVARIANTS
  DoneIsEarned
  ConversationKept
PROPERTIES
  ExchangeKept
