SPECIFICATION FairSpec
CONSTANTS
  r1 = r1
  fft = fft
  blas = blas
  Thread = {r1, r2}
  Id = {r1, r2}
  initialResources = 1
  MaxReq = 3
  Service = {fft, blas}
  Table <- TwoServices
  dietReqID <- OwnIds
  useConcJobLimit = TRUE
  Batch = TRUE
  Parallel = {blas}
  MaxFailures = 1
  MaxChanges = 2
  NoSolver = NoSolver
CHECK_DEADLOCK FALSE
INVARIANTS
  ConcurrencyLimit SlotsKeptOnlyByAborts JobQueueAgrees
  WrongSolverOnlyAfterRemoval ExitExplained BooksHold
PROPERTIES RequestsEnd ImplementsSlots
