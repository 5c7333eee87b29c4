SPECIFICATION Spec
CONSTANTS
  Thread = {t1, t2, t3}
  MaxOps = 2
INVARIANT ReadersWaitForWriters
