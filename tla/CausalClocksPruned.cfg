\* Clocks of three devices and four client ids, at most two entries kept.
SPECIFICATION Spec
CONSTANTS
  Device = {1, 2, 3}
  Client = {1, 2, 3, 4}
  Entity = {"t1"}
  FirstId <- MCFirstId
  MaxClockSize = 2
  Fenced = FALSE
  Migrates = TRUE
  MaxOps = 4
  MaxCounter = 2
  MaxImports = 1
INVARIANTS TypeOK FilterKeepsExactlyInformedOps
CHECK_DEADLOCK FALSE
