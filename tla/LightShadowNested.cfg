\* Nested target loops, which analyse in the middle of an iteration; three
\* words on two pages, so that accesses cross words and pages, and a page cache
\* of one entry, so that pages evict each other.
CONSTANTS
  LoadPCs = {r}
  StorePCs = {w1, w2}
  WordBytes = 1
  NumWords = 3
  WordsPerPage = 2
  CBUFLEN = 1
  AccessLens = {1, 2}
  NestedTargets = TRUE
  MaxIter = 4
  MaxSessions = 1
  MaxAccess = 3
SPECIFICATION HSpec
INVARIANTS TypeOK CacheInv ReachInv LCSound LIOutSound
SYMMETRY Symmetry
CHECK_DEADLOCK FALSE
