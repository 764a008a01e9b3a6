SPECIFICATION TraceSpec
CONSTANTS
  RrfK = 60
  CandidateK = 3
  TopK = 2
  MaxDistance = 35
  MaxContextChars = 100
  MaxQueryChars = 4000
  MaxExpressionChars = 256
  MaxCodeChars = 1000
  Bases <- MCBases
  Limits <- MCLimits
  Servers <- MCServers
  Decisions <- MCDecisions
  Effects <- MCEffects
  MaxSteps = 2
  Size <- Chars
  Conforms <- ValidateSchema
  Shortened <- Shorten
  Smallest <- SchemaFallback
INVARIANTS
  LiveAgreesWithRecord
  OutputFits
  SourcesAreRelevant
  AnswerIsOwn
CHECK_DEADLOCK FALSE
