SPECIFICATION FairSpec
CONSTANTS
  Jobs = {j1, j2}
  Contents = {c1}
  Workers = {w1, w2}
  Admins = {a1}
  NoWorker = NoWorker
  MaxTime = 2
  MaxRequests = 2
  MaxAttempts = 2
  Backoff <- MCBackoff
  Grace = 1
  Offsets <- UTCOnly
  AdminOps = {"schedule"}
  ContentOps = {"edit"}
  CanCrash = FALSE

PROPERTIES JobLifecycle EveryJobSettles
CHECK_DEADLOCK FALSE
