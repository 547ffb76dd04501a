SPECIFICATION Spec
CONSTANTS
  None = None
  Damaged = Damaged
  Other = Other
  ops = ops
  dev1 = dev1
  cet = cet
  utc = utc
  MaxKeys = 2
  Day = 3
  Percents = {30, 100}
  MaxPeriods = 8
  KeySets <- MCKeySets
  Zones = {cet, utc}
  Plans <- MCPlans
  MaxEdits = 3
  MaxFaults = 2
INVARIANTS RegisteredIsKnown SecondTryIsInTime AppliedIsInForce
PROPERTIES ShutOutOnlyByClearing CheckSavesPlan
SYMMETRY Symmetry
