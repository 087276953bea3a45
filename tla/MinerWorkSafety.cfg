SPECIFICATION Spec
CONSTANTS
  Slots = 2
  MaxJobs = 2
  Batches = 2
  Hits <- TwoBatchHits
  Knobs = {"pause"}
INVARIANTS
  TaggedEarlyIsRetired
  
PROPERTY NeverBackToOlderWork
CHECK_DEADLOCK FALSE
