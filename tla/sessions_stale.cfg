SPECIFICATION MCSpec
CONSTANTS
  Users = {7}
  Workers = {w1, w2}
  Straddle = TRUE
  MaxKeys = 2
  MaxRequests = 3
  MaxChanges = 1
  MaxRestarts = 0
  MaxOverlap = 2
INVARIANTS ServedFresh
CHECK_DEADLOCK FALSE
