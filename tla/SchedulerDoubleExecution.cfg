SPECIFICATION Spec
CONSTANTS
  Jobs = {j1}
  Contents = {c1}
  Workers = {w1, w2}
  Admins = {a1}
  NoWorker = NoWorker
  MaxTime = 2
  MaxRequests = 2
  MaxAttempts = 2
  Backoff <- MCBackoff
  Grace = 1
  Offsets <- UTCOnly
  AdminOps = {"schedule", "unschedule", "reschedule"}
  ContentOps = {}
  CanCrash = FALSE
SYMMETRY Symmetry
INVARIANTS NoDoubleExecution
CHECK_DEADLOCK FALSE
