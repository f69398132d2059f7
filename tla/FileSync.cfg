SPECIFICATION FolderSpec
CONSTANTS
  Client = {1, 2}
  MaxClockSize = 2
  MaxEdits <- TwoOfFirst
  MaxRecent = 1
  Overwriters = {2}
  Events = {"crash", "lost", "torn", "cancel", "prune", "slow"}
  MaxFaults = 1
INVARIANTS TypeOK AcknowledgedIsStored NoSilentGap
PROPERTIES ImplementsSyncFolder TheFolderCatchesUp EveryDeviceCatchesUp
CHECK_DEADLOCK FALSE
