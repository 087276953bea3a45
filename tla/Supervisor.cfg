SPECIFICATION FairSpec
CONSTANTS
  MaxTip = 2
  MaxPauses = 1
INVARIANTS
  
  ScreenShowsThePause
  CreditIsEarned
PROPERTIES
  ProgramEnds
CHECK_DEADLOCK FALSE
