------------------------------ MODULE ReadTasks ------------------------------
(***************************************************************************)
(* How TBB runs the parreadlida tasks of a batch, and the buffer number    *)
(* they keep in a variable of the thread.  A task that has started the     *)
(* nested parallel_for of its buffer waits for it, and while it waits its  *)
(* thread takes other tasks that are ready, also the parreadlida of        *)
(* another process, which it runs to its end before it goes on: the tasks  *)
(* of a thread are a stack.  ThrLRStreamNum is one variable for all of     *)
(* them.                                                                   *)
(*                                                                         *)
(* Pipeline has the batches, stages and tables, with tasks that keep their *)
(* buffer number; AddrStream has the writing of a buffer and the steps of  *)
(* its reading.  Here both are one step each, and buffers only have a      *)
(* number.  The contents of a table, the wait for the next one and the     *)
(* cancelling of the pipeline are left out.                                *)
(***************************************************************************)
EXTENDS Naturals, Sequences, FiniteSets

CONSTANTS
  PROCNUM,      \* profiling processes
  STREAMNUM,    \* buffers of a process
  Threads,      \* the threads of TBB that run the tasks of the batch
  MaxBuffers    \* bound on the buffers a process publishes

ASSUME ReadTasksAssumption ==
  /\ PROCNUM \in Nat \ {0} /\ STREAMNUM \in Nat \ {0} /\ MaxBuffers \in Nat
  /\ IsFiniteSet(Threads)

Proc == 0 .. PROCNUM - 1
Slot == 0 .. STREAMNUM - 1

\* RWFlag of a buffer: 0, 1, and what is none of those parreadlida knows
Flag == {"same", "end", "other"}

VARIABLES
  Streams,          \* per process and slot: number and flag of the buffer
  PPStreamIsFull,
  WStreamNum,       \* per process: the slot it writes next
  ProcRStreamNum,   \* per process: the slot its next task reads
  ThrLRStreamNum,   \* per thread
  batch,            \* whether ReadLIDAFilter runs one
  pending,          \* the processes whose task has not been taken yet
  stack,            \* per thread: its tasks that wait for their parallel_for, top first
  \* history
  sent,             \* per process: the buffers it has published
  tokens,           \* per process: what its tasks have analysed, and labelled it with
  disturbed         \* the processes whose task went on with another's buffer number

writing == <<Streams, WStreamNum, sent>>
running == <<ThrLRStreamNum, batch, pending, stack>>
vars    == <<writing, PPStreamIsFull, ProcRStreamNum, running, tokens, disturbed>>

-----------------------------------------------------------------------------
\* The process publishes its buffer and goes on to the next, once that is free.
Publish(p) ==
  /\ sent[p] < MaxBuffers
  /\ ~ PPStreamIsFull[p][WStreamNum[p]]
  /\ \E flag \in {"same", "end"} :
       Streams' = [Streams EXCEPT ![p][WStreamNum[p]] = [number |-> sent[p] + 1, flag |-> flag]]
  /\ PPStreamIsFull' = [PPStreamIsFull EXCEPT ![p][WStreamNum[p]] = TRUE]
  /\ WStreamNum' = [WStreamNum EXCEPT ![p] = (@ + 1) % STREAMNUM]
  /\ sent' = [sent EXCEPT ![p] = @ + 1]
  /\ UNCHANGED <<ProcRStreamNum, running, tokens, disturbed>>

\* ReadLIDAFilter::operator(): one buffer is there.
StartBatch ==
  /\ ~ batch
  /\ \E p \in Proc : PPStreamIsFull[p][ProcRStreamNum[p]]
  /\ batch' = TRUE /\ pending' = Proc
  /\ UNCHANGED <<writing, PPStreamIsFull, ProcRStreamNum, ThrLRStreamNum, stack, tokens,
                 disturbed>>

\* Mutation: the buffer is free before its accesses are analysed.
BeginTaskFreeing(t, p) ==
  /\ p \in pending
  /\ pending' = pending \ {p}
  /\ ThrLRStreamNum' = [ThrLRStreamNum EXCEPT ![t] = ProcRStreamNum[p]]
  /\ PPStreamIsFull' = [PPStreamIsFull EXCEPT ![p][ProcRStreamNum[p]] = FALSE]
  /\ stack' = IF PPStreamIsFull[p][ProcRStreamNum[p]]
              THEN [stack EXCEPT ![t] =
                      <<[proc |-> p, slot |-> ProcRStreamNum[p],
                         read |-> Streams[p][ProcRStreamNum[p]].number]>> \o @]
              ELSE stack
  /\ UNCHANGED <<writing, ProcRStreamNum, batch, tokens, disturbed>>

\* The thread takes the task of the process, from the outermost parallel_for or
\* while it waits for a nested one, and runs it up to its own.
BeginTask(t, p) ==
  /\ p \in pending
  /\ pending' = pending \ {p}
  /\ ThrLRStreamNum' = [ThrLRStreamNum EXCEPT ![t] = ProcRStreamNum[p]]
  /\ stack' = IF PPStreamIsFull[p][ProcRStreamNum[p]]
              THEN [stack EXCEPT ![t] =
                      <<[proc |-> p, slot |-> ProcRStreamNum[p],
                         read |-> Streams[p][ProcRStreamNum[p]].number]>> \o @]
              ELSE stack
  /\ UNCHANGED <<writing, PPStreamIsFull, ProcRStreamNum, batch, tokens, disturbed>>

\* Mutation: the position is not advanced in the middle of an iteration.
EndTaskStaying(t) ==
  /\ stack[t] # <<>>
  /\ LET task == Head(stack[t])
         p    == task.proc
         s    == ThrLRStreamNum[t]
         buffer == Streams[p][s]
     IN /\ disturbed' = IF s = task.slot THEN disturbed ELSE disturbed \cup {p}
        /\ PPStreamIsFull' = [PPStreamIsFull EXCEPT ![p][s] = FALSE]
        /\ ProcRStreamNum' = [ProcRStreamNum EXCEPT ![p] =
                                IF buffer.flag = "end" THEN (@ + 1) % STREAMNUM ELSE @]
        /\ tokens' = [tokens EXCEPT ![p] =
                        Append(@, [read |-> task.read, label |-> buffer.number])]
  /\ stack' = [stack EXCEPT ![t] = Tail(@)]
  /\ UNCHANGED <<writing, ThrLRStreamNum, batch, pending>>

\* The nested parallel_for is done, and so are the tasks run meanwhile: the flag
\* and the iteration are read from the buffer that ThrLRStreamNum names by now,
\* and this one is freed.
EndTask(t) ==
  /\ stack[t] # <<>>
  /\ LET task == Head(stack[t])
         p    == task.proc
         s    == ThrLRStreamNum[t]
         buffer == Streams[p][s]
     IN /\ disturbed' = IF s = task.slot THEN disturbed ELSE disturbed \cup {p}
        /\ IF buffer.flag \in {"same", "end"}
           THEN /\ PPStreamIsFull' = [PPStreamIsFull EXCEPT ![p][s] = FALSE]
                /\ ProcRStreamNum' = [ProcRStreamNum EXCEPT ![p] = (@ + 1) % STREAMNUM]
                /\ tokens' = [tokens EXCEPT ![p] =
                                Append(@, [read |-> task.read, label |-> buffer.number])]
           ELSE UNCHANGED <<PPStreamIsFull, ProcRStreamNum, tokens>>
  /\ stack' = [stack EXCEPT ![t] = Tail(@)]
  /\ UNCHANGED <<writing, ThrLRStreamNum, batch, pending>>

\* The outermost parallel_for has run all tasks.
EndBatch ==
  /\ batch /\ pending = {} /\ \A t \in Threads : stack[t] = <<>>
  /\ batch' = FALSE
  /\ UNCHANGED <<writing, PPStreamIsFull, ProcRStreamNum, ThrLRStreamNum, pending, stack,
                 tokens, disturbed>>

-----------------------------------------------------------------------------
\* shm_malloc promises nothing of what is in the buffers.
Init ==
  /\ \E garbage \in Flag :
       Streams = [p \in Proc |-> [s \in Slot |-> [number |-> 0, flag |-> garbage]]]
  /\ PPStreamIsFull = [p \in Proc |-> [s \in Slot |-> FALSE]]
  /\ WStreamNum = [p \in Proc |-> 0] /\ ProcRStreamNum = [p \in Proc |-> 0]
  /\ ThrLRStreamNum = [t \in Threads |-> 0]
  /\ batch = FALSE /\ pending = {} /\ stack = [t \in Threads |-> <<>>]
  /\ sent = [p \in Proc |-> 0] /\ tokens = [p \in Proc |-> <<>>] /\ disturbed = {}

Task(t) == (\E p \in Proc : BeginTask(t, p)) \/ EndTask(t)

Next == (\E p \in Proc : Publish(p)) \/ StartBatch \/ (\E t \in Threads : Task(t)) \/ EndBatch

Spec == Init /\ [][Next]_vars

\* ReadLIDAFilter runs when there is a buffer, and TBB's threads run what is ready.
FairSpec ==
  /\ Spec
  /\ WF_vars(StartBatch) /\ WF_vars(EndBatch)
  /\ WF_vars(\E t \in Threads : Task(t))

-----------------------------------------------------------------------------
\* The buffer of a task is neither freed nor written to as long as its accesses
\* are being analysed, whatever the other tasks of its thread free.
BufferHeld ==
  \A t \in Threads : \A k \in DOMAIN stack[t] :
    LET task == stack[t][k]
    IN /\ PPStreamIsFull[task.proc][task.slot]
       /\ Streams[task.proc][task.slot].number = task.read

\* One process' disturbance is not another's: a process whose tasks found their
\* own buffer number, because none was run over them or those were at the same
\* slot, has had its buffers read in order, once, each under its own label, and
\* what it has published besides is still there.
Isolated ==
  \A p \in Proc \ disturbed :
    /\ \A k \in DOMAIN tokens[p] : tokens[p][k] = [read |-> k, label |-> k]
    /\ \A s \in Slot : PPStreamIsFull[p][s] <=>
         Streams[p][s].number \in Len(tokens[p]) + 1 .. sent[p]

\* A process that waits for a buffer gets one, unless one of its tasks has been
\* disturbed.
Served ==
  \A p \in Proc : PPStreamIsFull[p][WStreamNum[p]] ~>
                    (~ PPStreamIsFull[p][WStreamNum[p]] \/ p \in disturbed)

\* LDDParallelAnalysis.cpp:3234, "Once read a Stream[], will finish it.": the
\* buffer a task frees, and whose iteration it takes, is the one it has read.
FinishesWhatItReads ==
  \A p \in Proc : \A k \in DOMAIN tokens[p] : tokens[p][k].label = tokens[p][k].read
=============================================================================
