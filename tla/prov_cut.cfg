\* A power cut in the middle of a command, and the host goes on.
CHECK_DEADLOCK FALSE
SPECIFICATION PSpec
CONSTANTS
  Addrs <- MCAddrs
  Keys <- MCKeys
  Ids <- MCIds
  FirstByte <- MCFirstByte
  DataBases <- MCDataBases
  Faults <- NoFaults
  NoAddr = NoAddr
  NoKey = NoKey
  BadKey = BadKey
  Deleted = Deleted
  NoId = NoId
  OwnId = i2
  a1 = a1
  a2 = a2
  a3 = a3
  k1 = k1
  k1x = k1x
  k2 = k2
  i1 = i1
  i2 = i2
  MaxPaired = 2
  MaxStarts = 2
  MaxCuts = 1
  MaxDrops = 0
INVARIANTS
  SyncRestores
