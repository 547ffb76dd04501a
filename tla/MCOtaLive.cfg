SPECIFICATION Spec
CONSTANTS
  Versions = {v1, v2, v3}
  Dead = {v3}
  First = v1
  None = None
  MaxOffers = 2
  MaxTests = 1
  MaxCrashes = 2
  MaxCuts = 0
PROPERTIES
  EndsWorking
  RolloutSettles
