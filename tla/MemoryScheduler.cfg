SPECIFICATION Spec
CONSTANTS
  Jobs = {j1, j2}
  Contents = {c1}
  Workers = {w1, w2}
  Admins = {a1}
  Creator = Creator
  MaxTime = 2
  MaxRequests = 3
  MaxRestarts = 1
  MaxAttempts = 2
  RetryDelay = 1
  Grace = 1
INVARIANTS NeverPublishEarly TableSound
CHECK_DEADLOCK FALSE
