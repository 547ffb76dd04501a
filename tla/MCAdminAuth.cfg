SPECIFICATION Spec
CONSTANTS
  None = None
  Tokens = {t1, t2, t3}
  Sources = {office}
  Requests = {r1, r2}
  FreeTries = 1
  LockSteps <- MCLockSteps
  ForgetAfter = 3
  MaxSeen = 2
  MaxClock = 4
  MaxChanges = 2
  MaxFaults = 1
INVARIANTS TokenInForceDecides InForceIsStored
PROPERTIES LadderIsClimbed
CHECK_DEADLOCK FALSE
SYMMETRY Symmetry
