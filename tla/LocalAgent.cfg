SPECIFICATION Spec
CONSTANTS
  sed1 = sed1
  sed2 = sed2
  fft = fft
  blas = blas
  SeDs = {sed1, sed2}
  Service = {fft, blas}
  Offered <- OfferedBy
  Extra <- ExtraOf
  Others <- OtherServices
  MaxCalls = 5
  MaxFaults = 2
  ULongSize = 16
CHECK_DEADLOCK FALSE
SYMMETRY SameSeDs
INVARIANT ParentAgrees
