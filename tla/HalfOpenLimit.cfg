SPECIFICATION Spec
CONSTANTS
  q1 = q1
  q2 = q2
  q3 = q3
  MaxFailures = 2
  HalfOpenMaxRequests = 2
  N = 1
  Embeds = {1}
  Flaky = {1}
  Requests = {q1, q2, q3}
  MaxGone = 0
INVARIANT HalfOpenIsLimited
