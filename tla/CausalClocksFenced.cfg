\* Imports and edits of two devices behind the fence, clocks of two entries.
SPECIFICATION Spec
CONSTANTS
  Device = {1, 2}
  Client = {1, 2, 3}
  Entity = {"t1", "t2"}
  FirstId <- MCFirstId
  MaxClockSize = 2
  Fenced = TRUE
  Migrates = FALSE
  MaxOps = 5
  MaxCounter = 2
  MaxImports = 1
INVARIANTS AcceptedEditsKnowEarlierOnes
PROPERTIES NoRejectionLoop
CHECK_DEADLOCK FALSE
