SPECIFICATION FairSpec
CONSTANTS
  W = 6
  Packet = {p1, p2}
  PoolSize = 2
  Priority = {0}
  NoPacket = NoPacket
  BudgetFactor = 2
  DutyWindow = 4
  MinReserve = 1
  MtuAirtime = 2
  Airtime = {1}
  CADMaxDuration = 1
  CADRetryDelay = {1}
  RxDelay = {1}
  TxDelay = {1}
  StartResult = {TRUE, FALSE}
  TxMayHang = TRUE
  OthersOnAir = TRUE
  BootTime = {1}
  MaxLag = 1
INVARIANTS
  TypeOK
  PoolConserved
PROPERTIES
  FollowsLifecycle
  OutboundIsReleased
  DelayedIsProcessed
