SPECIFICATION Spec
CONSTANTS
  Msg = {m1, m2}
  Steers = {m2}
  Stop = {c1}
  DeleteStop = None
  None = None
  MaxEdits = 2
  MaxSweeps = 0
  MayStop = FALSE
  MayDetach = TRUE
PROPERTIES
  EventuallyRead
CHECK_DEADLOCK FALSE
