SPECIFICATION Spec
CONSTANTS
  PROCNUM = 2
  PRESNUM = 2
  NumIters = 4
  Owners <- MCOwners
  PC <- PCs
  MaxAccess = 4
PROPERTY ReleasedByLCDA
\* The analysis may wait for ever, or crash.
CHECK_DEADLOCK FALSE
