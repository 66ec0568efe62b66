SPECIFICATION Spec
CONSTANTS
  PROCNUM = 2
  STREAMNUM = 2
  Threads = {1}
  MaxBuffers = 3
INVARIANT FinishesWhatItReads
CHECK_DEADLOCK FALSE
