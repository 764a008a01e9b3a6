SPECIFICATION FairSpec
CONSTANTS
  Starter = Starter
  Reviewers = {r1, r2, f1}
  Foreign = {f1}
  RevisionLimits = {0, 2}
  Nobody = Nobody
CHECK_DEADLOCK FALSE
INVARIANTS
  RunCoherent
  DecisionsKept
PROPERTIES
  FinalIsFinal
  RunEnds
