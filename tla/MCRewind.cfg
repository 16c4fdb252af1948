SPECIFICATION RewindSpec
CONSTANTS
  File = {f, g}
  Content = {a, b}
  Absent = Absent
  Skipped = Skipped
  Nothing = Nothing
  MaxListed = 2
  MaxAsks = 2
  MaxSeq = 4
  MaxFaults = 1
SYMMETRY Symmetry
INVARIANT RewindUndoes
PROPERTY RewindLands
CHECK_DEADLOCK FALSE
