\* Two processes with two buffers each, one thread that nests and one more.
SPECIFICATION FairSpec
CONSTANTS
  PROCNUM = 2
  STREAMNUM = 2
  Threads = {1, 2}
  MaxBuffers = 3
INVARIANTS BufferHeld Isolated
PROPERTY Served
\* The program ends, and a process whose task was disturbed may wait for ever.
CHECK_DEADLOCK FALSE
