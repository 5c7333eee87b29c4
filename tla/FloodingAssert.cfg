SPECIFICATION Spec
CONSTANTS
  ma1 = ma1
  ma2 = ma2
  ma3 = ma3
  MA = {ma1, ma2, ma3}
  Origin = ma1
  Topologies <- OneRing
  MaxHops <- Hops
  MaxObjects = 2
  MaxCrashes = 0
INVARIANT AssertHolds
CHECK_DEADLOCK FALSE
