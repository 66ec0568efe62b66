\* Words of two bytes, so that masks overlap in part; five iterations: two that
\* are not analysed, and distances 1 and 2 between those that are.
CONSTANTS
  LoadPCs = {r}
  StorePCs = {w1, w2}
  WordBytes = 2
  NumWords = 2
  WordsPerPage = 2
  CBUFLEN = 1
  AccessLens = {1, 2}
  NestedTargets = FALSE
  MaxIter = 5
  MaxSessions = 1
  MaxAccess = 3
SPECIFICATION HSpec
INVARIANTS LiveInv LITrueExact LIAntiComplete LastWriteKept LCComplete
SYMMETRY Symmetry
CHECK_DEADLOCK FALSE
