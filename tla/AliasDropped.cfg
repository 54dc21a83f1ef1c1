SPECIFICATION Spec
CONSTANTS
  k1 = k1
  k2 = k2
  w1 = w1
  w2 = w2
  Workers <- MCWorker
  IDs = {1, 2}
  First <- MCFirst
  Keys <- MCKeys
  Denied = {}
  Allowed = {}
  AliasLimit = 5
  GroupLimit = 32
  Contents <- MCPairs
  MaxImports = 3
  MaxCrashes = 0
  MaxFaults = 0
INVARIANT DroppedIsUpdated
CHECK_DEADLOCK FALSE
