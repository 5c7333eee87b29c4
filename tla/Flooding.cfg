SPECIFICATION FairSpec
CONSTANTS
  ma1 = ma1
  ma2 = ma2
  ma3 = ma3
  MA = {ma1, ma2, ma3}
  Origin = ma1
  Topologies <- Networks
  MaxHops <- Hops
  MaxObjects = 2
  MaxCrashes = 1
INVARIANTS SearchComplete AllForgotten CountIsOutstanding NoUseAfterFree
PROPERTY SubmitReturns
CHECK_DEADLOCK FALSE
