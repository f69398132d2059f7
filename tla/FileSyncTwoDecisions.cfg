SPECIFICATION Spec
CONSTANTS
  Client = {1, 2}
  MaxClockSize = 2
  MaxEdits <- TwoOfFirst
  MaxRecent = 1
  Overwriters = {1, 2}
  Events = {"lost"}
  MaxFaults = 1
INVARIANTS NoSilentGap
CHECK_DEADLOCK FALSE
