\* The key table under every fault, used in any order.
SPECIFICATION Spec
CONSTANTS
  Addrs <- MCAddrs
  Keys <- MCKeys
  Faults <- AllFaults
  NoAddr = NoAddr
  NoKey = NoKey
  BadKey = BadKey
  Deleted = Deleted
  a1 = a1
  a2 = a2
  a3 = a3
  k1 = k1
  k2 = k2
  MaxPaired = 2
SYMMETRY Same
INVARIANTS
  TypeOK
  SlotsInOrder
PROPERTIES
  ImplementsMap
