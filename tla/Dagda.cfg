SPECIFICATION FairSpec
CONSTANTS
  Root = Root
  Client = Client
  sedA = sedA
  sedB = sedB
  d1 = d1
  d2 = d2
  t1 = t1
  t2 = t2
  NoThread = NoThread
  Data = {d1, d2}
  Thread = {t1, t2}
  MaxMsgSize = 1
  Evicts = TRUE
  MaxCrashes = 1
  SeDOrder <- Order
  Size <- Sizes
  MemMax <- Limits
  Placed <- Replicas
  Calls <- CallsOf
CHECK_DEADLOCK FALSE
INVARIANTS ReadsWhole SpaceIsCounted LocksAreReturned UpdatesReachAll
PROPERTY CallsEnd
