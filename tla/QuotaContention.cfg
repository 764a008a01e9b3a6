SPECIFICATION FairSpec
CONSTANTS
  q1 = q1
  q2 = q2
  q3 = q3
  s1 = s1
  NoLimit = NoLimit
  Nobody = Nobody
  Requests <- ThreeRequests
  Scopes = {s1}
  Workers <- OneWorker
  WorkerOf <- SameWorker
  PoolSize = 2
  ScopeOf <- Shared
  Amounts = {2}
  Settings <- DailyTwo
  Plans <- StricterPlan
  Overrides <- StricterOverride
  TTL = 1
  MaxTokens = 2
  MaxOveruse = 0
  MaxClock = 0
  MaxDay = 0
  DayOf <- SameDay
  DaysPerMonth = 1
CHECK_DEADLOCK FALSE
INVARIANTS
  OversubscriptionBounded
PROPERTIES
  EveryWaitEnds
