SPECIFICATION FairSpec
CONSTANTS
  w1 = w1
  w2 = w2
  Workers <- MCOneWorker
  Paths = {"p", "q"}
  Versions <- MCOneVersion
  RawModified <- MCOneModified
  RawWithdrawn <- MCOneWithdrawn
  GroupValues = {"a"}
  MaxTime = 2
  MaxFaults = 1
  MaxRegroups = 1
  MaxDeliveries = 2
  TypedPreconditionError = TRUE
INVARIANTS
  IndexedIsOwed
PROPERTIES
  DeletesOwnPath
  MergeKeepsContent
  
  BecomesPublic
CHECK_DEADLOCK FALSE
