SPECIFICATION FairSpec
CONSTANTS
  PROCNUM = 2
  PRESNUM = 2
  STREAMNUM = 3
  PipeThreadNum = 3
  NumIters = 3
  MaxOwned = 2
  MaxOverflow = 0
PROPERTIES
  FinishSignalled
CHECK_DEADLOCK FALSE
