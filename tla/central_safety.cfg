\* The base station when every call into the stack may fail.
SPECIFICATION Spec
CONSTANTS
  Coins <- MCCoins
  Bonded <- MCBonded
  Keys <- MCKeys
  SpaceKey <- MCSpaceKey
  CoinKey <- MCCoinKey
  Faults <- AllFaults
  NoCoin = NoCoin
  NoKey = NoKey
  c1 = c1
  c2 = c2
  c3 = c3
  c4 = c4
  k1 = k1
  k2 = k2
  RespLen = 3
  FeedPeriod = 2
  WdtWindow = 4
  ConnTimeout = 4
INVARIANTS
  TypeOK
  IInv
  OwnsConnection
  ParamsExclusive
  EncryptedFirst
  DoorNeedsAnswer
  WatchdogOnlyIfDying
  DyingCutsFirst
PROPERTIES
  ImplementsLock
