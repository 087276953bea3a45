SPECIFICATION Spec
CONSTANTS
  Full = 2
  Infos <- MCInfos
  Snapshot = 3
  Loaded = 3
  MaxRuns = 3
INVARIANTS
  PortMovesForOthersOnly
CHECK_DEADLOCK FALSE
