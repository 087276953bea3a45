SPECIFICATION HealthSpec
CONSTANTS
  Outage = 4
  Refresh = 1
  Check = 2
  MaxUnready = 3
  TurnTime = 1
INVARIANT PauseIsNotAnOutage
