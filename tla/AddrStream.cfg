\* Three buffers of two accesses, one execution of the loop: the ring wraps
\* around, gets full, and a buffer overflows.
SPECIFICATION FairSpec
CONSTANTS
  STREAMNUM = 3
  STREAMITEMNUM = 3
  a = a
  b = b
  Accesses <- MCAccesses
  Garbage <- MCGarbage
  MaxAccess = 4
  MaxIter = 4
  MaxSessions = 1
INVARIANTS
  TypeOK
  RingInv
  StoredDelivered
PROPERTIES
  QueueSpec
  WriterServed
CHECK_DEADLOCK FALSE
