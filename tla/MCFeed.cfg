SPECIFICATION Spec
CONSTANTS
  Session = Session
  All = All
  None = None
  Kinds = {"chunk", "added", "stopped", "btw"}
  MaxEvents = 3
  MaxQueue = 2
  MaxBuffer = 2
  MaxTries = 2
VIEW WhatMatters
INVARIANTS
  NothingSkipped
  OrderKept
  StreamsResume
CONSTRAINT TwoForTwo
CHECK_DEADLOCK FALSE
