SPECIFICATION FairSpec
CONSTANTS
  c1 = c1
  c2 = c2
  r1 = r1
  r2 = r2
  None = None
  LAs = {c1}
  SeDs = {c2}
  ReqID = {r1}
  ULongSize = 16
  MaxSubs = 3
  MaxChanges = 1
  MaxFaults = 1
  Offered <- OfferedServices
  Extra <- ExtraServices
  Aggregator <- Aggregators
  Wanted <- WantedServices
INVARIANTS
  TableAgreesWithChildren
PROPERTIES
  RequestsReturn
CHECK_DEADLOCK FALSE
