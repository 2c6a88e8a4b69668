SPECIFICATION HSpec
CONSTANTS
  W = 32
  Packet = {p1}
  PoolSize = 1
  Priority = {0}
  NoPacket = NoPacket
  BudgetFactor = 2
  DutyWindow = 8
  MinReserve = 1
  MtuAirtime = 4
  Airtime = {2}
  CADMaxDuration = 2
  CADRetryDelay = {1}
  RxDelay = {}
  TxDelay = {0}
  StartResult = {TRUE}
  TxMayHang = FALSE
  OthersOnAir = FALSE
  BootTime = {1}
  MaxLag = 1
  Horizon = 30
  LongestAirtime = 4
  LongestRetry = 1
INVARIANTS
  QueueAdvances
