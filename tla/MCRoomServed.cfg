CONSTANTS
  a = a b = b c = c p1 = p1 p2 = p2 p3 = p3
  Device = {a, b, c} Nobody = Nobody
  Post = {p1} NoPost = NoPost Author <- ByA Perm <- Perms
  MaxClients = 2 MaxPosts = 2 PostSyncDelay = 4 Second = 40 Attempt = {0}
  MaxTime <- Lasting MaxAir = 1 MaxRestarts = 0 ServerRestarts = FALSE
  Sharing = {p1} Acked = {p1} ByPath = {FALSE} PoolMayBeEmpty = TRUE
  Blank = {b} KeepsAlive = {} Asks = {b} Retried = {p1} Commands <- RemoveOrAdd
SPECIFICATION FairSpec
INVARIANTS TypeOK PostedOnce ConfirmedIsPosted
PROPERTY PostsArrive
CHECK_DEADLOCK FALSE
