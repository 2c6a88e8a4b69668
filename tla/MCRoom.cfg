CONSTANTS
  a = a b = b c = c p1 = p1 p2 = p2 p3 = p3
  Device = {a, b, c} Nobody = Nobody
  Post = {p1, p2} NoPost = NoPost Author <- ByA Perm <- BothAdmin
  MaxClients = 2 MaxPosts = 2 PostSyncDelay = 4 Second = 40 Attempt = {0}
  MaxTime <- Crossing MaxAir = 2 MaxRestarts = 1 ServerRestarts = TRUE
  Sharing = {} Acked = {} ByPath = {FALSE, TRUE} PoolMayBeEmpty = FALSE
  Blank = {} KeepsAlive = {b} Asks = {} Retried = {} Commands = {}
SPECIFICATION Spec
INVARIANTS NothingSkipped AckAdvances
SYMMETRY AnyPost
CHECK_DEADLOCK FALSE
