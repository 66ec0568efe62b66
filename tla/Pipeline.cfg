\* Two processes with three present tables each, the number of the
\* build: every way to share three iterations, also all by one process.
\* Two tokens suffice for every two stages to work at once.
SPECIFICATION FairSpec
CONSTANTS
  PROCNUM = 2
  PRESNUM = 3
  STREAMNUM = 2
  PipeThreadNum = 2
  NumIters = 3
  MaxOwned = 3
  MaxOverflow = 1
INVARIANTS
  TypeOK
  TablesApart
  Conserved
  InOrder
PROPERTIES
  OrderedSpec
  AloneSignalled
  SentIsAnalysed
CHECK_DEADLOCK FALSE
