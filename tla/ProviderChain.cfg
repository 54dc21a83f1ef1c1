SPECIFICATION FairSpec
CONSTANTS
  q1 = q1
  q2 = q2
  q3 = q3
  MaxFailures = 2
  HalfOpenMaxRequests = 1
  N = 2
  Embeds = {2}
  Flaky = {1}
  Requests = {q1, q2, q3}
  MaxGone = 1
INVARIANTS
  TypeOK
  HalfOpenIsDecided
  OneReliableIsEnough
PROPERTY CircuitsClose
