\* The station and a coin, with and without trouble on the radio.
SPECIFICATION KFairSpec
CONSTANTS
  Coins <- MCCoins
  Bonded <- MCCoins
  Keys <- MCKeys
  SpaceKey <- MCSpaceKey
  CoinKey <- MCCoinKey
  Faults <- MCFaults
  Mtus <- MCMtus
  NoCoin = NoCoin
  NoKey = NoKey
  c1 = c1
  c2 = c2
  k1 = k1
  RespLen = 32
  BlockLen = 64
  FeedPeriod = 1
  WdtWindow = 2
  ConnTimeout = 2
INVARIANTS
  AnswersMatch
  RestFits
  KInv
PROPERTIES
  ImplementsCentral
  DoorOpens
