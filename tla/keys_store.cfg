\* The key table and its store, managed the way sync_central.py does.
SPECIFICATION ManagedSpec
CONSTANTS
  Addrs <- MCAddrs
  Keys <- MCKeys
  Faults <- NoFaults
  NoAddr = NoAddr
  NoKey = NoKey
  BadKey = BadKey
  Deleted = Deleted
  a1 = a1
  a2 = a2
  a3 = a3
  k1 = k1
  k2 = k2
  MaxPaired = 2
INVARIANTS
  NothingUnsaved
  TableIsStore
PROPERTIES
  DeleteForgets
