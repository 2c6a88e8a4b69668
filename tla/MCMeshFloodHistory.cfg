SPECIFICATION FairHSpec
CONSTANTS
  a = a
  b = b
  c = c
  d = d
  e = e
  m1 = m1
  m2 = m2
  Node = {a, b, c, d, e}
  Msg = {m1, m2}
  Links <- TriangleAndTail
  Origin <- FromA
  Target <- FirstToD
  Advert = {}
  Location = {}
  Exempt = {m1}
  Repeater = {b, c, d}
  MayDecline = FALSE
  HashOf <- OwnHash
  MaxSelf <- Strict
  LoopDetect = {}
  HopLimit <- OneHopForSecond
  HashSize <- OneByte
  MaxPathSize = 4
  HopCountRange = 4
  TableSize = 2
  DupSuppress = TRUE
  Threshold = 1
  MaxReboots = 0
INVARIANTS
  SentOnce
  CancelledIsCovered
  FloodStaysWithinHops
PROPERTIES
  FloodReachesAll
  SpreadsAlongLinks
CHECK_DEADLOCK FALSE
