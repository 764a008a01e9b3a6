SPECIFICATION FairSpec
CONSTANTS
  a = a
  b = b
  c = c
  d = d
  e = e
  Unknown = Unknown
  Tasks = {a, b, c, d, e}
  Plans <- AllPlans
  Policies = {"fail_fast", "skip", "retry_once"}
  Unconfigured = {d}
  Malformed = {e}
  MaxConcurrency = 2
  Budget = 1
  MaxTokens = 1
  Timed = TRUE
CHECK_DEADLOCK FALSE
INVARIANTS
  DependenciesHonoured
  ReportsAreTrue
  NoOrphans
PROPERTIES
  RunEnds
