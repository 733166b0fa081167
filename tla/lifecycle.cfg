SPECIFICATION FairSpec
CONSTANTS
  Signals = {g1, g2}
  g1 = g1
  g2 = g2
  Tls = {"federation"}
  Slots = 1
INVARIANTS
  TypeOK
  SlotsConserved
  StoreClosedLast
  ReturnedMeansStopped
  StopNotLost
PROPERTIES
  StopCompletes
CHECK_DEADLOCK FALSE
