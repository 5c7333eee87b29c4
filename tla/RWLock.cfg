SPECIFICATION FairSpec
CONSTANTS
  Thread = {t1, t2, t3}
  MaxOps = 2
INVARIANTS NoLostWakeup HolderCount
PROPERTIES WriterEntersAlone AllFinish
