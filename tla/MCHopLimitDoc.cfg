SPECIFICATION Spec
CONSTANTS
  a = a
  b = b
  c = c
  d = d
  e = e
  m1 = m1
  m2 = m2
  Node = {a, b, c, d, e}
  Msg = {m1}
  Links <- Line
  Origin <- FromA
  Target <- ToNobody
  Advert = {}
  Location = {}
  Exempt = {}
  Repeater = {b, c, d}
  MayDecline = FALSE
  HashOf <- OwnHash
  MaxSelf <- Strict
  LoopDetect = {b, c, d}
  HopLimit <- TwoHops
  HashSize <- OneByte
  MaxPathSize = 2
  HopCountRange = 2
  TableSize = 1
  DupSuppress = TRUE
  Threshold = 2
  MaxReboots = 0
INVARIANTS
  FloodStaysWithinHops
CHECK_DEADLOCK FALSE
