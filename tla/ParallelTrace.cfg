\* Two processes with two tables each, four iterations: a table is used again, and
\* iterations arrive out of order.
SPECIFICATION Spec
CONSTANTS
  PROCNUM = 2
  PRESNUM = 2
  NumIters = 4
  Owners <- MCOwners
  PC <- PCs
  MaxAccess = 4
INVARIANTS TypeOK AnalysisSeesTrace LIDExact LCDSound LCDComplete
\* The analysis may wait for ever, or crash.
CHECK_DEADLOCK FALSE
