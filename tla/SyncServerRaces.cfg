\* Two processes race edits of shared entities; clients repeat their requests.
SPECIFICATION Spec
CONSTANTS
  Client = {1, 2}
  MaxClockSize = 1
  Op = {"a1", "a2", "b1", "da", "db"}
  Entity = {"t1", "t2"}
  Request = {r1, r2}
  Process = {p1, p2}
  Nobody = nobody
  LostImports = {}
  Events = {"timeout", "requestId", "expiry"}
  MaxBatch = 2
  MaxSeq = 5
  r1 = r1
  r2 = r2
  p1 = p1
  p2 = p2
  Content <- MCContent
  Batches <- Edits
  Home <- TwoProcesses
  History <- NoHistory
SYMMETRY Swap
INVARIANTS NoLostUpdate AnswersAreTrue
CHECK_DEADLOCK FALSE
