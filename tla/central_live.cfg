\* The base station when scanning and disconnecting do not fail.
SPECIFICATION FairSpec
CONSTANTS
  Coins <- MCCoins
  Bonded <- MCBonded
  Keys <- MCKeys
  SpaceKey <- MCSpaceKey
  CoinKey <- MCCoinKey
  Faults <- SomeFaults
  NoCoin = NoCoin
  NoKey = NoKey
  c1 = c1
  c2 = c2
  c3 = c3
  c4 = c4
  k1 = k1
  k2 = k2
  RespLen = 2
  FeedPeriod = 1
  WdtWindow = 2
  ConnTimeout = 2
INVARIANTS
  NeverIdle
  TimerOwned
PROPERTIES
  ConnectionEnds
  DyingResets
