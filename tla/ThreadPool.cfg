SPECIFICATION FairSpec
CONSTANTS
  Main = main
  Workers = {w1, w2, w3}
  Spurious = TRUE
  MaxWork = 4
INVARIANTS TypeOK NoWorkOutlivesRun
PROPERTIES ImplementsBatch RunReturns StopReturns
CHECK_DEADLOCK FALSE
