SPECIFICATION FicSpec
CONSTANTS
  Thirds = 6
  Parts = 1
  Revisions = 1
  Requests = 0
  FicFaults = 0
INVARIANT NightIsSent
CHECK_DEADLOCK FALSE
