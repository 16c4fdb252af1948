SPECIFICATION Spec
CHECK_DEADLOCK FALSE
CONSTANTS
  None = None
  MaxRuns = 3
  MaxQueue = 2
  MaxMisses = 2
INVARIANT TextsReachChat
PROPERTY SettledStays
CONSTRAINT LastRunPlain
