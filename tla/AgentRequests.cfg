SPECIFICATION Spec
CONSTANTS
  c1 = c1
  c2 = c2
  r1 = r1
  r2 = r2
  None = None
  LAs = {}
  SeDs = {c1, c2}
  ReqID = {r1, r2}
  ULongSize = 16
  MaxSubs = 2
  MaxChanges = 1
  MaxFaults = 1
  Offered <- OfferedServices
  Extra <- ExtraServices
  Aggregator <- Aggregators
  Wanted <- WantedServices
INVARIANTS
  ListedAreReachable
  GatheredUnlessDisturbed
  AgentDiesOnlyWhen
CHECK_DEADLOCK FALSE
