SPECIFICATION Safe
CONSTANTS
  Versions = {v1, v2, v3}
  Dead = {v3}
  First = v1
  None = None
  MaxOffers = 2
  MaxTests = 1
  MaxCrashes = 3
  MaxCuts = 1
INVARIANTS
  RollbackTargetWorks
  TwoStartsUnlessCut
PROPERTIES
  GuardLostOnlyInRollback
  DirectoryLostOnlyByRollback
  RetryOnlyInKnownCases
