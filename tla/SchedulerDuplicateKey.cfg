SPECIFICATION Spec
CONSTANTS
  Jobs = {j1, j2}
  Contents = {c1}
  Workers = {w1}
  Admins = {a1, a2}
  NoWorker = NoWorker
  MaxTime = 2
  MaxRequests = 2
  MaxAttempts = 2
  Backoff <- MCBackoff
  Grace = 1
  Offsets <- UTCOnly
  AdminOps = {"schedule"}
  ContentOps = {}
  CanCrash = FALSE
SYMMETRY Symmetry
INVARIANTS OneJobPerKey
CHECK_DEADLOCK FALSE
