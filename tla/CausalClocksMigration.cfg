\* A device uploads its state as a SYNC_IMPORT, then two devices edit one entity.
SPECIFICATION Spec
CONSTANTS
  Device = {1, 2}
  Client = {1, 2}
  Entity = {"t1"}
  FirstId <- MCFirstId
  MaxClockSize = 2
  Fenced = TRUE
  Migrates = TRUE
  MaxOps = 3
  MaxCounter = 2
  MaxImports = 1
INVARIANTS AcceptedEditsKnowEarlierOnes
CHECK_DEADLOCK FALSE
