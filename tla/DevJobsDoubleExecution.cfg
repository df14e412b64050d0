SPECIFICATION Spec
CONSTANTS
  Jobs = {j1}
  Threads = {t1}
  Callers = {c1}
  MaxTime = 1
  MaxRaises = 0
  MaxTriggers = 1
  MaxAttempts = 2
  RetryDelay = 1
  BatchSize = 1
INVARIANTS NoDoubleExecution
CHECK_DEADLOCK FALSE
