SPECIFICATION Spec
CONSTANTS
  Sessions = {1, 2}
  Columns = {1}
  Areas <- OneArea
  Modes = {0, 1}
  ModeOf <- OwnMode
  OnFlyLimit = 3
  Faults = {}
  MaxEdits = 1
  MaxRequests = 2
  MaxFaults = 1
INVARIANT NoGarbage
CHECK_DEADLOCK FALSE
