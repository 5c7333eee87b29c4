SPECIFICATION FairSpec
CONSTANTS
  ReqID = {1, 2}
  Waiter = {w1}
  Failing = {2}
  API = {"DIET", "GridRPC"}
  Operators = {"SOLE", "AND", "OR", "ALL", "ANY"}
  Cancels = {"one", "all"}
  Finalizes = TRUE
  MaxRefused = 1
  MaxLost = 1
  MaxWaits = 1
  NoWaiter = NoWaiter
CHECK_DEADLOCK FALSE
INVARIANTS  DoneMeansStored DueRulesArePosted
