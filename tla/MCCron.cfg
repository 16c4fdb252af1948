SPECIFICATION Spec
CONSTANTS
  Job = {j1, j2}
  Slot = {p1, p2}
  Loop = Loop
  None = None
  Every <- MCEvery
  Limit <- MCLimit
  Expiry <- MCExpiry
  Capacity = 1
  RetryDelay = 1
  MaxTime = 2
  MaxEdits = 2
  MaxTroubles = 1
INVARIANTS
  OneRunAtATime
  QueuedOnce
  WithinLimit
  MemoryMatchesStore
  SleepsNoLonger
CHECK_DEADLOCK FALSE
