\* Imports, repairs and edits on an account from before the replacement marker existed.
SPECIFICATION Spec
CONSTANTS
  Client = {1, 2}
  MaxClockSize = 2
  Op = {"a1", "b1", "fix", "sync"}
  Entity = {"t1", "t2"}
  Request = {r1, r2}
  Process = {p1, p2}
  Nobody = nobody
  LostImports = {1}
  Events = {"sweep", "quota", "restart"}
  MaxBatch = 1
  MaxSeq = 6
  r1 = r1
  r2 = r2
  p1 = p1
  p2 = p2
  Content <- MCContent
  Batches <- Singles
  Home <- TwoProcesses
  History <- RepairedHistory
SYMMETRY Swap
INVARIANTS FencedByImports RepairsIncludeEverything StoredOnce MarkerCoversHistory GapsAreSuperseded
CHECK_DEADLOCK FALSE
