SPECIFICATION Spec
CONSTANTS
  Msg = {m1, m2}
  Steers = {m2}
  Stop = {c1, c2}
  DeleteStop = c2
  None = None
  MaxEdits = 1
  MaxSweeps = 1
  MayStop = TRUE
  MayDetach = TRUE
INVARIANTS
  NoStrandedMail
  UncancelledIsTracked
  StopIsFinal
  DeletedIsToldToGo
CHECK_DEADLOCK FALSE
CONSTRAINTS Unswept EditsApart
