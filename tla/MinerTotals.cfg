SPECIFICATION Spec
CONSTANTS
  Worker = {w1, w2}
  MaxBits = 2
  MaxBatches = 3
  MaxSessions = 2
INVARIANTS
  NothingCountedTwice
  BestIsNotLost
  StoppingLosesAtMostABatch
 
CHECK_DEADLOCK FALSE
SYMMETRY Symmetry
