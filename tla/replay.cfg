SPECIFICATION Spec
CONSTANTS
  r1 = r1
  r2 = r2
  r3 = r3
  p1 = p1
  p2 = p2
  n1 = n1
  n2 = n2
  h1 = h1
  h2 = h2
  Requests = {r1, r2, r3}
  Req <- MCReq
  Handlers = {h1, h2}
  Skew = 1
  Retention = 2
  MaxLag = 1
  MaxClock = 7
INVARIANTS
  AcceptedOnce
  RefusedOnlyReplays
CHECK_DEADLOCK FALSE
