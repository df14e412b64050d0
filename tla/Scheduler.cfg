SPECIFICATION Spec
CONSTANTS
  Jobs = {j1, j2}
  Contents = {c1}
  Workers = {w1, w2}
  Admins = {a1}
  NoWorker = NoWorker
  MaxTime = 2
  MaxRequests = 2
  MaxAttempts = 2
  Backoff <- MCBackoff
  Grace = 1
  Offsets <- WesternOffset
  AdminOps = {"schedule", "unschedule", "reschedule"}
  ContentOps = {"edit", "delete"}
  CanCrash = TRUE
SYMMETRY Symmetry
INVARIANTS Inductive NeverPublishEarly OneWorkerPerJob AttemptsBounded SucceededWasPublished
PROPERTIES FinishedStaysFinished
CHECK_DEADLOCK FALSE
