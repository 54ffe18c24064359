\* A failed encryption attempt does not end the connection.
SPECIFICATION Spec
CONSTANTS
  Coins <- MCCoins
  Bonded <- MCBonded
  Keys <- MCKeys
  SpaceKey <- MCSpaceKey
  CoinKey <- MCCoinKey
  Faults <- NoFaults
  NoCoin = NoCoin
  NoKey = NoKey
  c1 = c1
  c2 = c2
  c3 = c3
  c4 = c4
  k1 = k1
  k2 = k2
  RespLen = 2
  FeedPeriod = 1
  WdtWindow = 2
  ConnTimeout = 2
PROPERTIES
  KillsOnSecurityFailure
