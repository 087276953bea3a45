SPECIFICATION FairSpec
CONSTANTS
  MinDifficultyNetwork = TRUE
  Gap = 1
  MaxFuture = 1
  MaxHold = 3
  Refresh = 1
  History = 1
  Horizon = 3
  MaxHeight = 1
  MaxJobs = 2
  MaxShares = 2
INVARIANTS
  NoBlockIsMistimed
  HoldsAreAsLongAsNeeded
PROPERTY SharesAreAnswered
