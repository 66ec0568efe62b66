---------------------------- MODULE PipelineProps ----------------------------
(***************************************************************************)
(* What the pipeline guarantees, and what it does not.                     *)
(***************************************************************************)
EXTENDS Pipeline

Input == {NoInput, Partial, Cancelling}
           \cup {StartLCDA(i, t) : i \in Iter \cup {ExitIter}, t \in Table}
Token == [Proc -> Input]

\* Type invariant of the pipeline.
TypeOK ==
  /\ owner \in [Iter -> Proc]
  /\ loopIter \in [Proc -> 1 .. NumIters + 1]
  /\ master \in {"inside", "outside", "cancelled"}
  /\ overflows \in 0 .. MaxOverflow
  /\ streams \in [Proc -> Seq(Message)] /\ \A p \in Proc : Len(streams[p]) =< STREAMNUM
  /\ reader \in {"idle", "batch", "null", "stopped", "crashed"}
  /\ task \in [Proc -> {"pending", "spinning", "done"}]
  /\ ProcNextLidep \in Token
  /\ ProcWPresNum \in [Proc -> 0 .. PRESNUM - 1]
  /\ PresIsFull \in [Table -> BOOLEAN] /\ tableIter \in [Table -> Iter \cup {ExitIter}]
  /\ toLCDA \in Seq(Token) /\ toOutput \in Seq(Token) /\ InFlight <= PipeThreadNum
  /\ \/ lcda = Idle
     \/ lcda \in [busy : {TRUE}, token : Token, at : 0 .. PROCNUM, next : 1 .. NumIters + 1]
  /\ LoopIterPresNum \in [Iter \cup {ExitIter} -> Table \cup {NoTable}]
  /\ FinishedLoopIter \in 0 .. NumIters
  /\ analysed \in Seq([iter : Iter, input : Iter, found : Iter \cup {ExitIter}])
  /\ LSOutputLCDepFinish \in BOOLEAN

\* parreadlida and LCDAFilter never work on one present table at a time: the
\* table a process' next buffer goes to is not full unless its task still
\* spins, and LCDAFilter only reads full ones ("not need." it says of its own
\* wait for that).
TablesApart ==
  /\ \A p \in Proc : task[p] # "spinning" => ~ PresIsFull[<<p, ProcWPresNum[p]>>]
  /\ lcda.busy /\ lcda.next # NoIter => PresIsFull[RPresNum]

\* Where an iteration can be after its process has sent it: in the stream, in a
\* token, noted by LCDAFilter, or analysed.
IsStartOf(input, i) == input.kind = "start" /\ input.iter = i

Sent(i)   == loopIter[owner[i]] > i
Unread(i) == \E k \in DOMAIN streams[owner[i]] :
               streams[owner[i]][k] = [flag |-> "end", iter |-> i]
InToken(i) ==
  \/ reader = "batch" /\ IsStartOf(ProcNextLidep[owner[i]], i)
  \/ \E k \in DOMAIN toLCDA : IsStartOf(toLCDA[k][owner[i]], i)
  \/ /\ lcda.busy /\ lcda.at =< owner[i] /\ LoopIterPresNum[i] = NoTable
     /\ IsStartOf(lcda.token[owner[i]], i)
Noted(i)    == LoopIterPresNum[i] # NoTable /\ FinishedLoopIter < i
Analysed(i) == \E k \in DOMAIN analysed : analysed[k].iter = i

\* No iteration is lost or doubled on its way: one that has been sent is in
\* exactly one place, and one that is not analysed yet keeps its table.
Conserved ==
  \A i \in Iter :
    /\ Sent(i) /\ reader \in {"idle", "batch"} =>
         /\ Unread(i) \/ InToken(i) \/ Noted(i) \/ Analysed(i)
         /\ Unread(i) => ~ InToken(i) /\ ~ Noted(i) /\ ~ Analysed(i)
         /\ InToken(i) => ~ Noted(i) /\ ~ Analysed(i)
         /\ Noted(i) => ~ Analysed(i)
    /\ Noted(i) => /\ tableIter[LoopIterPresNum[i]] = i
                   /\ PresIsFull[LoopIterPresNum[i]]

\* The iterations are all the master's, as when __to_prof finds no process free.
Alone == \A i \in Iter : owner[i] = Master

\* Iterations are analysed in their order, each from the table its accesses were
\* put in, whatever the order the processes send them in; the addresses and the
\* number it is analysed with are those of the iteration that released it, an
\* earlier one if it had to wait, and its own with one process at work.
InOrder ==
  \A k \in DOMAIN analysed :
    /\ analysed[k].iter = k /\ analysed[k].found = k
    /\ analysed[k].input =< k /\ (Alone => analysed[k].input = k)

\* The iterations of the master before any of another process: all, if it is alone
OwnFirst == {i \in Iter : \A j \in 1 .. i : owner[j] = Master}

\* The signal "that pipeline has finished all work" is given after every iteration
\* has been analysed that does not come after one of another process: after
\* all of them with one process at work.  Those of others may still be unread,
\* and the master's wait for them.
MasterFinished == LSOutputLCDepFinish => \A i \in OwnFirst : Analysed(i)

\* The pipeline is a sequential analysis of iterations that come in any order:
\* each step of the processes and of the filters sends an iteration, analyses
\* the next one, gives the signal, or does nothing.
Analysis ==
  INSTANCE OrderedAnalysis WITH
    N        <- NumIters,
    ownFirst <- OwnFirst,
    sent     <- {i \in Iter : Sent(i)},
    done     <- FinishedLoopIter,
    finished <- LSOutputLCDepFinish

OrderedSpec == Analysis!Spec

\* With one process at work the master, which waits for the signal, gets it.
AloneSignalled == Alone /\ master = "cancelled" ~> LSOutputLCDepFinish

\* A task waits for the next table of its process.
TableAwaited == \E p \in Proc : task[p] = "spinning" /\ PresIsFull[<<p, ProcWPresNum[p]>>]

\* What is sent is analysed, unless the master gives up or the pipeline waits
\* for a present table for ever.
SentIsAnalysed ==
  \A i \in Iter : Sent(i) ~> (Analysed(i) \/ master = "cancelled" \/ []TableAwaited)

-----------------------------------------------------------------------------
(***************************************************************************)
(* What comments of the source say, and the code does not do.              *)
(***************************************************************************)
\* The master, which waits for the signal of the pipeline, gets it, however the
\* iterations are shared: "signal master that pipeline has finished all work."
FinishSignalled == master = "cancelled" ~> LSOutputLCDepFinish
=============================================================================
