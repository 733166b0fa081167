SPECIFICATION Spec
CONSTANTS
  s1 = s1
  s2 = s2
  alice = alice
  bob = bob
  carol = carol
  m1 = m1
  m2 = m2
  m3 = m3
  phone = phone
  Servers = {s1, s2}
  Accounts = {alice, bob, carol}
  Devices = {phone}
  Home <- MCHome
  Events = {m1, m2, m3}
  Msg <- Mixed
  MaxAttempts = 1
  MaxPerPeer = 1
  Quota = 1
  Mortal = {m1, m2}
  MaxFaults = 0
INVARIANTS
  CounterIsLastStored
PROPERTIES
  StoredOnce
