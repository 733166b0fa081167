SPECIFICATION FairSpec
CONSTANTS
  Signals = {g1, g2}
  g1 = g1
  g2 = g2
  Tls = {"federation"}
  Slots = 1
PROPERTIES
  StopIsHeeded
CHECK_DEADLOCK FALSE
