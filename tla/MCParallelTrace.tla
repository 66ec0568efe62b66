--------------------------- MODULE MCParallelTrace ---------------------------
\* Instances of ParallelTraceProps for TLC: a load of the word, a store of it, and
\* a store of its first half.
EXTENDS ParallelTraceProps

PCs == {[name |-> "load", write |-> FALSE, len |-> 2],
        [name |-> "store", write |-> TRUE, len |-> 2],
        [name |-> "half", write |-> TRUE, len |-> 1]}

\* The first iterations of both processes may be in one batch, and process 0 uses
\* its first table again in iteration 4.
MCOwners == {<<0, 1, 0, 0>>}
=============================================================================
