SPECIFICATION Spec
CONSTANTS
  p1 = p1
  p2 = p2
  ip1 = ip1
  ip2 = ip2
  Peers = {p1, p2}
  Addresses = {ip1, ip2}
  Ports = {8211, 8311}
  Manual = {}
  MaxAccounts = 2
  MaxBoots = 2
SYMMETRY Symmetry
INVARIANTS
  ListApplies
