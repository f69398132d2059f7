SPECIFICATION Spec

CONSTANTS
  OwnOps = {1}
  TabOps = {11}
  Feed <- TwoOps
  Imports = {}
  Broken = {21}
  Events = {"crash", "throw", "archive", "write", "tab", "stall"}
  Anchored = 1
  MaxFaults = 2

INVARIANTS
  TypeOK
  NothingPassedIsLost
  NothingPassedIsUnfinished
  AppliedOnce
  SnapshotCoversLog
  LiveMatchesLog

PROPERTIES
  EffectsFollowReducers
  WritesKnowRemote
  CountersAreFresh
  ImplementsDurableLog
