SPECIFICATION FairSpec
CONSTANTS
  Sessions = {1}
  Columns = {1, 4}
  Areas <- TwoAreas
  Modes = {0}
  ModeOf <- OneMode
  OnFlyLimit = 3
  Faults = {"trim", "evict", "late", "drop"}
  MaxEdits = 1
  MaxRequests = 2
  MaxFaults = 1
INVARIANTS ValidIsCurrent SubscribersServed TrackerIsRight
PROPERTIES ImplementsTileView CatchesUp
CHECK_DEADLOCK FALSE
