\* One loop, executed twice and entered again from within; an address that is
\* accessed with two lengths, and so in two buckets; instruction 2 is on s.addr.
CONSTANTS
  Loops = {1}
  Accesses <- Accs
  Ids = {1, 2}
  SAddr = {2}
  N = 4
  MaxIter = 3
  MaxAccess = 3
  MaxEntries = 2
  MaxDepth = 2
SPECIFICATION Spec
INVARIANTS TypeOK FlagInv LatestKept LCComplete LCSound LIExact OutputComplete
CHECK_DEADLOCK FALSE
