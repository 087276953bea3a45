SPECIFICATION FairSpec
CONSTANTS
  Slots = 2
  MaxJobs = 2
  Batches = 1
  Hits <- OneHit
  Knobs = {"threads"}
PROPERTIES
  StopEndsTheMiner
  
CHECK_DEADLOCK FALSE
