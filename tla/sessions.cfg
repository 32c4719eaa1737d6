SPECIFICATION MCSpec
CONSTANTS
  Users = {7, 8}
  Workers = {w1, w2}
  Straddle = FALSE
  MaxKeys = 3
  MaxRequests = 3
  MaxChanges = 1
  MaxRestarts = 1
  MaxOverlap = 2
SYMMETRY Symmetry
INVARIANTS  StampsTruthful ServedFresh
 
CHECK_DEADLOCK FALSE
