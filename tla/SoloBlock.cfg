SPECIFICATION MCSpec
CONSTANTS
  Conns = {1, 2}
  Tickets <- MCTickets
  Word = 4
  Batch = 2
  Meets <- MCMeets
  Fork = 128
  Start = 126
  Headline <- MCHeadline
  MinDifficulty = FALSE
  Mempools <- MCMempools
  MaxHeight = 129
  MaxJobs = 2
  MaxBatches = 3
  MaxRounds = 2
  Attempts = 6
INVARIANTS
  PoolSeesTheMinersHash
  RefusedOnlyWithoutTheHeadline
  
  WrittenIsRead
  StrictReader
  TargetIsTheNumber
CHECK_DEADLOCK FALSE
