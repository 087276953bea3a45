SPECIFICATION FairHealthSpec
CONSTANTS
  Outage = 4
  Refresh = 1
  Check = 2
  MaxUnready = 5
  TurnTime = 2
INVARIANTS
  NoSilentOutage
  NoWorkFromAnUnfitNode
  GivesUpOnlyAfterALongSpell
PROPERTIES
  StopEndsThePool
  RecoversByItself
