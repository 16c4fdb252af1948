SPECIFICATION Spec
CONSTANTS
  Question = {q1, q2}
  Stop = {c1, c2}
  None = None
  MaxSweeps = 1
INVARIANTS
  OneStream
  StopHolds
  DoneOnce
PROPERTIES
  DoneUnlessMissed
CHECK_DEADLOCK FALSE
