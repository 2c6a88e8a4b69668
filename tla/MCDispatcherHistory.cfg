SPECIFICATION HSpec
CONSTANTS
  W = 128
  Packet = {p1}
  PoolSize = 1
  Priority = {0}
  NoPacket = NoPacket
  BudgetFactor = 5
  DutyWindow = 10
  MinReserve = 0
  MtuAirtime = 4
  Airtime = {2, 4}
  CADMaxDuration = 2
  CADRetryDelay = {1}
  RxDelay = {}
  TxDelay = {0}
  StartResult = {TRUE}
  TxMayHang = FALSE
  OthersOnAir = TRUE
  BootTime = {1}
  MaxLag = 2
  Horizon = 34
  LongestAirtime = 4
  LongestRetry = 1
INVARIANTS
  ChargedWithinDutyCycle
  AiredWithinOverdraft
  QueueAdvances
