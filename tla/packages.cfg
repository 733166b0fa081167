SPECIFICATION Spec
CONSTANTS
  a1 = a1
  d1 = d1
  d2 = d2
  k1 = k1
  k2 = k2
  k3 = k3
  c1 = c1
  c2 = c2
  Accounts = {a1}
  Devices = {d1, d2}
  Packages = {k1, k2, k3}
  Claimants = {c1, c2}
  MaxDevices = 2
  MaxPackages = 2
INVARIANTS
  SoleClaimant
  WithinLimit
PROPERTIES
  StableReservation
  PoolKept
