\* DELETE /data, the retention sweep, quota cleanup and uploads in two processes; all are answered.
SPECIFICATION FairSpec
CONSTANTS
  Client = {1, 2}
  MaxClockSize = 2
  Op = {"a1", "backup"}
  Entity = {"t1", "t2"}
  Request = {r1, r2}
  Process = {p1, p2}
  Nobody = nobody
  LostImports = {}
  Events = {"quota", "sweep", "wipe"}
  MaxBatch = 1
  MaxSeq = 3
  r1 = r1
  r2 = r2
  p1 = p1
  p2 = p2
  Content <- MCContent
  Batches <- Singles
  Home <- TwoProcesses
  History <- NoHistory
INVARIANTS TypeOK
PROPERTIES CommitsAboveEverything EveryRequestIsAnswered
CHECK_DEADLOCK FALSE
