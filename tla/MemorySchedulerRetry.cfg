SPECIFICATION FairSpec
CONSTANTS
  Jobs = {j1}
  Contents = {c1}
  Workers = {w1}
  Admins = {a1}
  Creator = Creator
  MaxTime = 2
  MaxRequests = 1
  MaxRestarts = 0
  MaxAttempts = 2
  RetryDelay = 1
  Grace = 1
PROPERTIES RetryHappens
CHECK_DEADLOCK FALSE
