SPECIFICATION FairSpec
CONSTANTS
  p1 = p1
  p2 = p2
  p3 = p3
  i1 = i1
  i2 = i2
  Procs = {p1, p2, p3}
  Ids = {i1, i2}
  NoId = NoId
  Supported = 2
  MaxFaults = 2
INVARIANTS
  TypeOK
  StampHonest
  OpenComplete
PROPERTIES
  UpgradeKept
  NewerUntouched
  EventuallyOpens
