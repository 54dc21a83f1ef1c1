SPECIFICATION Spec
CONSTANTS
  w1 = w1
  w2 = w2
  Workers <- MCWorkers
  Paths = {"p"}
  Versions <- MCVersions
  RawModified <- MCRawModified
  RawWithdrawn <- MCRawWithdrawn
  GroupValues = {}
  MaxTime = 2
  MaxFaults = 2
  MaxDeliveries = 2
  MaxRegroups = 0
  TypedPreconditionError = FALSE
SYMMETRY WorkerSymmetry
INVARIANTS
  TypeOK
  IndexedIsOwed
  PublicIsIndexed
  ModifiedCoversWithdrawn
  WithdrawnUnlisted
CHECK_DEADLOCK FALSE
