SPECIFICATION Spec
CONSTANTS
  Jobs = {j1}
  Threads = {t1, t2}
  Callers = {c1}
  MaxTime = 2
  MaxRaises = 1
  MaxTriggers = 1
  MaxAttempts = 2
  RetryDelay = 1
  BatchSize = 1
SYMMETRY Symmetry
INVARIANTS PollerSound AttemptsHonest
PROPERTIES StartsWhenDue
CHECK_DEADLOCK FALSE
