SPECIFICATION FairSpec
CONSTANTS
  Full = 2
  Infos <- MCInfos
  Snapshot = 3
  Loaded = 3
  MaxRuns = 2
INVARIANTS
  InstalledIsOfficial
  NeverMinesOnAnOldNode
  ReadyMeansThePoolAgrees
PROPERTIES
  EveryRunEnds
CHECK_DEADLOCK FALSE
