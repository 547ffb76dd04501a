SPECIFICATION Spec
CONSTANTS
  Scenes = {scene1, scene2}
  Settings = {full, night}
  Full = full
  None = None
  MaxOrders = 2
  MaxPauses = 2
  MaxFaults = 1
INVARIANTS SettledIsDesired
PROPERTIES PauseReleasesDisplay ResumePlaysAgain HungIsReplaced CallsReturn
