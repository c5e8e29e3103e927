SPECIFICATION FairSpec
CONSTANTS
  Sessions = {1, 2}
  Columns = {1}
  Areas <- OneArea
  Modes = {0}
  ModeOf <- OneMode
  OnFlyLimit = 3
  Faults = {}
  MaxEdits = 1
  MaxRequests = 2
  MaxFaults = 1
INVARIANTS TrackerIsRight
PROPERTIES CatchesUp
CHECK_DEADLOCK FALSE
