SPECIFICATION FairSpec
CONSTANTS
  ReqID = {1, 2}
  Waiter = {w1, w2}
  Failing = {}
  API = {"GridRPCstack"}
  Operators = {"AND", "ANY"}
  Cancels = {"one"}
  Finalizes = FALSE
  MaxRefused = 0
  MaxLost = 0
  MaxWaits = 1
  NoWaiter = NoWaiter
CHECK_DEADLOCK FALSE
INVARIANTS
  NoDanglingRule SpinsOnlyWhenShared
PROPERTIES WaitsReturn AnyWaitsForOpen AnyReturnsOnce
