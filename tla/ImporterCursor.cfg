SPECIFICATION Spec
CONSTANTS
  p = p
  q = q
  r = r
  s = s
  None = None
  Paths = {p, q}
  Ids = {r, s}
  IdOf <- MCIdOf
  Kinds = {"git", "bucket", "REST"}
  Jobs = {"import", "delete"}
  Skipped = FALSE
  NumWorkers = 1
  Threshold = 101
  Leniency = 1
  Backdates = FALSE
  MaxTime = 2
  MaxFaults = 1
SYMMETRY Swapped
INVARIANTS
  TypeOK
  NothingPassedOver
  OnlyMissingAreWithdrawn
