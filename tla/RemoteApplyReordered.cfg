SPECIFICATION Spec

CONSTANTS
  OwnOps = {1, 2}
  TabOps = {}
  Feed <- OneOp
  Imports = {}
  Broken = {}
  Events = {}
  Anchored = 0
  MaxFaults = 0

INVARIANTS
  LoggedInDispatchOrder
