SPECIFICATION Spec
CONSTANTS
  Session = {p, c1}
  Root = p
  Req = {r1}
  None = None
  MaxSets = 0
  MaxRuns = 2
  MaxPosts = 1
  MaxTurns = 2
  MaxLog = 4
INVARIANTS
  TextsReportedOnce
  StopReachesChildren
PROPERTY
  PermissionHolds
CHECK_DEADLOCK FALSE
CONSTRAINT AsksOrPosts
