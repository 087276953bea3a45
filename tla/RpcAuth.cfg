SPECIFICATION FairSpec
CONSTANTS
  Threads = {t1, t2}
  Ensurers = {t2}
  MaxCookies = 3
INVARIANTS
  NothingRunsTwice
  OneRestartIsSurvived
  AWalletThereIsEnough
PROPERTIES
  NoZombie
CHECK_DEADLOCK FALSE
