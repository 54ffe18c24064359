\* A deletion before the store was loaded.
SPECIFICATION Spec
CONSTANTS
  Addrs <- MCAddrs
  Keys <- MCKeys
  Faults <- NoFaults
  NoAddr = NoAddr
  NoKey = NoKey
  BadKey = BadKey
  Deleted = Deleted
  a1 = a1
  a2 = a2
  a3 = a3
  k1 = k1
  k2 = k2
  MaxPaired = 2
PROPERTIES
  DeleteForgets
