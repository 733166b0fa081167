SPECIFICATION Spec
CONSTANTS
  h1 = h1
  h2 = h2
  ip1 = ip1
  ip2 = ip2
  ip3 = ip3
  t1 = t1
  Handlers = {h1, h2}
  Keys = {ip1, ip2, ip3}
  Tokens = {t1}
  Limit = 2
  Window = 2
  MaxKeys = 2
  Lifetime = 2
  MaxLag = 1
  MaxClock = 3
SYMMETRY Symmetry
INVARIANTS
  TypeOK
  Spaced
  RefusedForCause
  LiveKept
  DeadStaysOut
PROPERTIES
  EvictsIdleFirst
