SPECIFICATION FairSpec
CONSTANTS
  p = p
  q = q
  r = r
  s = s
  None = None
  Paths = {p, q}
  Ids = {r, s}
  IdOf <- MCIdOf
  Kinds = {"git", "bucket", "REST"}
  Jobs = {"reconcile"}
  Skipped = FALSE
  NumWorkers = 1
  Threshold = 101
  Leniency = 1
  Backdates = FALSE
  MaxTime = 3
  MaxFaults = 1
PROPERTIES
  CaughtUp
