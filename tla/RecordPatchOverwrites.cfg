SPECIFICATION Spec
CONSTANTS
  w1 = w1
  w2 = w2
  Workers <- MCOneWorker
  Paths = {"p"}
  Versions <- MCVersions
  RawModified <- MCRawModified
  RawWithdrawn <- MCNeverWithdrawn
  GroupValues = {"a"}
  MaxTime = 2
  MaxFaults = 0
  MaxDeliveries = 2
  MaxRegroups = 1
  TypedPreconditionError = TRUE
PROPERTIES
  PatchKeepsContent
CHECK_DEADLOCK FALSE
