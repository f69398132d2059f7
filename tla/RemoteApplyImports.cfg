SPECIFICATION FairSpec

CONSTANTS
  OwnOps = {1}
  TabOps = {}
  Feed <- ThreeOps
  Imports = {22}
  Broken = {23}
  Events = {"crash", "throw", "archive", "write"}
  Anchored = 0
  MaxFaults = 1

INVARIANTS
  NothingPassedIsUnfinished
  SnapshotCoversLog

PROPERTIES
  ImplementsDurableLog
  EverythingArrives
