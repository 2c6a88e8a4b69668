SPECIFICATION FairSpec
CONSTANTS
  a = a
  b = b
  c = c
  d = d
  e = e
  m1 = m1
  m2 = m2
  Node = {a, b, c}
  Msg = {m1, m2}
  Links <- ShortLine
  Origin <- FromAB
  Target <- ToNobody
  Advert = {m1}
  Location = {}
  Exempt = {}
  Repeater = {a, b, c}
  MayDecline = TRUE
  HashOf <- OwnHash
  MaxSelf <- Strict
  LoopDetect = {a}
  HopLimit <- ThreeHopsForSecond
  HashSize <- OneByte
  MaxPathSize = 4
  HopCountRange = 4
  TableSize = 1
  DupSuppress = TRUE
  Threshold = 2
  MaxReboots = 1
INVARIANTS
  TypeOK
  PathsAreReal
  PathsAreLoopFree
PROPERTIES
  FloodsEnd
CHECK_DEADLOCK FALSE
