SPECIFICATION Spec
CONSTANTS
  k1 = k1
  k2 = k2
  w1 = w1
  w2 = w2
  Workers <- MCWorkers
  IDs = {1, 2, 3, 4}
  First <- MCFirst
  Keys <- MCKeys
  Denied = {}
  Allowed = {3}
  AliasLimit = 1
  GroupLimit = 3
  Contents <- MCContents
  MaxImports = 3
  MaxCrashes = 1
  MaxFaults = 1
SYMMETRY MCSymmetry
INVARIANTS
  TypeOK
  GroupsAreComponents
  MembersShowGroup
