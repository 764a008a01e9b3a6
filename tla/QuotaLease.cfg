SPECIFICATION Spec
CONSTANTS
  q1 = q1
  q2 = q2
  q3 = q3
  s1 = s1
  NoLimit = NoLimit
  Nobody = Nobody
  Requests <- TwoRequests
  Scopes = {s1}
  Workers <- TwoRequests
  WorkerOf <- OwnWorker
  PoolSize = 2
  ScopeOf <- Shared
  Amounts = {1}
  Settings <- DailyTwoMonthlyThree
  Plans <- None
  Overrides <- None
  TTL = 2
  MaxTokens = 2
  MaxOveruse = 0
  MaxClock = 3
  MaxDay = 1
  DayOf <- TwoDays
  DaysPerMonth = 2
CHECK_DEADLOCK FALSE
SYMMETRY Symmetric
INVARIANTS
  NoLeakedReservation
PROPERTIES
  LeasesHold
