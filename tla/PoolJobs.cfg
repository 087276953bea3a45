SPECIFICATION FairSpec
CONSTANTS
  Conns = {c1}
  MaxTip = 2
  MaxExtra = 2
  History = 2
INVARIANTS
  DeliveredJobIsKnown
  NoMinerMissesAJob
  
PROPERTIES
  NewTipReachesEveryMiner
  
