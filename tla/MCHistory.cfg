SPECIFICATION HistorySpec
CONSTANTS
  x = x
  y = y
  Batches <- MCBatches
  Noting = {x}
  MaxAsks = 2
  MaxSpawns = 2
  MaxQueue = 2
  MaxPool = 2
  MaxSaved = 1
  MaxFaults = 1
CONSTRAINT FewOnTheWay
INVARIANTS
  TracesKept
  AnsweredOnce
  ReadsBack
CHECK_DEADLOCK FALSE
VIEW WhatMatters
