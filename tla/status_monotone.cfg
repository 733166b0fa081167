SPECIFICATION Spec
CONSTANTS
  s1 = s1
  s2 = s2
  alice = alice
  bob = bob
  carol = carol
  m1 = m1
  m2 = m2
  m3 = m3
  phone = phone
  Servers = {s1, s2}
  Accounts = {alice, bob, carol}
  Devices = {phone}
  Home <- MCHome
  Events = {m1}
  Msg <- OneRemote
  MaxAttempts = 2
  MaxPerPeer = 4
  Quota = 1
  Mortal = {}
  MaxFaults = 1
PROPERTIES
  StatusMonotone
