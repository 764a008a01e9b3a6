SPECIFICATION FairSpec
CONSTANTS
  c1 = c1
  c2 = c2
  Calls = {c1, c2}
  Calculator = {c1}
  MaxCalls = 2
  MaxSteps = 3
  Budget = 5
  MaxPrompt = 1
  MaxCompletion = 2
  Reports = {TRUE, FALSE}
CHECK_DEADLOCK FALSE
INVARIANTS
  StreamContract
  BudgetKept
  OncePerRun
PROPERTIES
  CancelWins
  RunEnds
