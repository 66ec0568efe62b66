CONSTANTS
  LoadPCs = {r1}
  StorePCs = {w1, w2}
  WordBytes = 2
  NumWords = 1
  WordsPerPage = 1
  CBUFLEN = 1
  AccessLens = {1, 2}
  NestedTargets = FALSE
  MaxIter = 2
  MaxSessions = 2
  MaxAccess = 2
SPECIFICATION HSpec
INVARIANT SameIterationKnown
CHECK_DEADLOCK FALSE
