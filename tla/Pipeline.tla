------------------------------ MODULE Pipeline ------------------------------
(***************************************************************************)
(* The pipeline of the parallel build (-D_DDA_PA -D_DDA_DEFAULT -D_DDA_PP  *)
(* -D_DDA_DEFAULT_PP_PARLIDA), for one execution of the profiled loop.     *)
(*                                                                         *)
(* PROCNUM processes share the iterations of the loop and send the         *)
(* accesses of each through an address stream of their own, here a queue   *)
(* of messages (AddrStream is the ring that implements it).  Three serial  *)
(* stages run in threads of the master and pass tokens on: ReadLIDAFilter  *)
(* takes at most one buffer of every process and analyses it into a        *)
(* present table, LCDAFilter analyses the present tables in the order of   *)
(* their iterations and frees them, OutputLCDepFilter reports.             *)
(***************************************************************************)
EXTENDS Naturals, Sequences, FiniteSets

CONSTANTS
  PROCNUM,          \* profiling processes, 0 is the master
  PRESNUM,          \* present tables of a process: PRESBUFNUM / PROCNUM
  STREAMNUM,        \* messages an address stream holds
  PipeThreadNum,    \* tokens in the pipeline
  NumIters,         \* iterations of the loop
  MaxOwned,         \* bound on the iterations __to_prof gives to one process
  MaxOverflow       \* bound on the buffers sent in the middle of an iteration

ASSUME PipelineAssumption ==
  /\ PROCNUM \in Nat \ {0} /\ PRESNUM \in Nat \ {0}
  /\ STREAMNUM \in Nat \ {0} /\ PipeThreadNum \in Nat \ {0}
  /\ NumIters \in Nat /\ MaxOwned \in Nat /\ MaxOverflow \in Nat

Proc == 0 .. PROCNUM - 1
Master == 0
Iter == 1 .. NumIters

\* The present table k of a process is Present[process + k * PROCNUM].
Table == Proc \X (0 .. PRESNUM - 1)

\* What ReInitPipelineState sends as the iteration: CurLoopIter, which is still
\* the LDDProfLoopIter of LDDPASetUpPiepline
ExitIter == 0

Message == [flag : {"same", "end", "cancel", "again"}, iter : Iter \cup {ExitIter}]

\* One ProcNextLidep[p]: nothing, or a result; what a result of "end" names
NoInput == [kind |-> "none"]
Partial == [kind |-> "partial"]
Cancelling == [kind |-> "cancel"]
StartLCDA(i, t) == [kind |-> "start", iter |-> i, table |-> t]

VARIABLES
  owner,            \* the process __to_prof gives an iteration to
  loopIter,         \* per process: LDDProfLoopIter
  master,           \* where the master is
  overflows,        \* messages sent by Overflow so far
  streams,          \* per process: the messages not read yet
  reader,           \* where ReadLIDAFilter is
  task,             \* per process: its parreadlida of the current batch
  ProcNextLidep,    \* the token of the current batch
  ProcWPresNum,     \* per process: the table its buffers are analysed into
  PresIsFull,
  tableIter,        \* history: the iteration last analysed into the table
  toLCDA, toOutput, \* tokens between the stages
  lcda,             \* LCDAFilter: its token, the input it is at, the next iteration
  LoopIterPresNum,  \* its map from iterations to tables
  FinishedLoopIter,
  analysed,         \* history: the analyses of LCDAFilter, in order
  LSOutputLCDepFinish

program == <<owner, loopIter, master, overflows>>
reading == <<reader, task, ProcNextLidep, ProcWPresNum, tableIter>>
later   == <<lcda, LoopIterPresNum, FinishedLoopIter, analysed>>
vars    == <<program, streams, reading, PresIsFull, toLCDA, toOutput, later,
             LSOutputLCDepFinish>>

-----------------------------------------------------------------------------
(***************************************************************************)
(* The program being profiled.                                             *)
(***************************************************************************)
Send(p, flag, i) ==
  /\ Len(streams[p]) < STREAMNUM
  /\ streams' = [streams EXCEPT ![p] = Append(@, [flag |-> flag, iter |-> i])]

Running(p) == loopIter[p] <= NumIters /\ reader # "crashed"

Owns(p) == owner[loopIter[p]] = p

\* GenerateAddrStream: the buffer is full
Overflow(p) ==
  /\ Running(p) /\ Owns(p)
  /\ overflows < MaxOverflow
  /\ overflows' = overflows + 1
  /\ Send(p, "same", loopIter[p])
  /\ UNCHANGED <<owner, loopIter, master, reading, PresIsFull, toLCDA, toOutput, later,
                 LSOutputLCDepFinish>>

\* for.inc: every process runs through all iterations, the owner sends
EndIteration(p) ==
  /\ Running(p)
  /\ IF Owns(p) THEN Send(p, "end", loopIter[p]) ELSE UNCHANGED streams
  /\ loopIter' = [loopIter EXCEPT ![p] = @ + 1]
  /\ UNCHANGED <<owner, master, overflows, reading, PresIsFull, toLCDA, toOutput, later,
                 LSOutputLCDepFinish>>

\* ftp_end_scope_join, then ReInitPipelineState
JoinAndReInit ==
  /\ master = "inside" /\ reader # "crashed"
  /\ \A p \in Proc : loopIter[p] > NumIters
  /\ master' = "outside"
  /\ Send(Master, "end", ExitIter)
  /\ UNCHANGED <<owner, loopIter, overflows, reading, PresIsFull, toLCDA, toOutput, later,
                 LSOutputLCDepFinish>>

\* LDDPACancelPipeline; the master then joins the pipeline's thread
CancelPipeline ==
  /\ master = "outside" /\ reader # "crashed"
  /\ master' = "cancelled"
  /\ Send(Master, "cancel", ExitIter)
  /\ UNCHANGED <<owner, loopIter, overflows, reading, PresIsFull, toLCDA, toOutput, later,
                 LSOutputLCDepFinish>>

-----------------------------------------------------------------------------
(***************************************************************************)
(* ReadLIDAFilter::operator(): one batch of parreadlida tasks.             *)
(***************************************************************************)
InFlight == Len(toLCDA) + Len(toOutput) + (IF lcda.busy THEN 1 ELSE 0)

\* Mutation: as many tokens as there are batches.
StartBatchUnbounded ==
  /\ reader = "idle"
  /\ \E p \in Proc : streams[p] # <<>>
  /\ reader' = "batch"
  /\ task' = [p \in Proc |-> "pending"]
  /\ ProcNextLidep' = [p \in Proc |-> NoInput]
  /\ UNCHANGED <<program, streams, ProcWPresNum, tableIter, PresIsFull, toLCDA, toOutput,
                 later, LSOutputLCDepFinish>>

StartBatch ==
  /\ reader = "idle"
  /\ InFlight < PipeThreadNum
  /\ \E p \in Proc : streams[p] # <<>>
  /\ reader' = "batch"
  /\ task' = [p \in Proc |-> "pending"]
  /\ ProcNextLidep' = [p \in Proc |-> NoInput]
  /\ UNCHANGED <<program, streams, ProcWPresNum, tableIter, PresIsFull, toLCDA, toOutput,
                 later, LSOutputLCDepFinish>>

Pending(p) == reader \in {"batch", "null"} /\ task[p] = "pending"

ReadNothing(p) ==
  /\ Pending(p)
  /\ streams[p] = <<>>
  /\ task' = [task EXCEPT ![p] = "done"]
  /\ UNCHANGED <<program, streams, reader, ProcNextLidep, ProcWPresNum, tableIter,
                 PresIsFull, toLCDA, toOutput, later, LSOutputLCDepFinish>>

Reads(p, flag) ==
  /\ reader = "batch" /\ task[p] = "pending"
  /\ streams[p] # <<>> /\ Head(streams[p]).flag = flag

\* doLIDA...: the buffer's accesses go to the present table of its process
Analyse(p) == tableIter' = [tableIter EXCEPT ![<<p, ProcWPresNum[p]>>] = Head(streams[p]).iter]

Result(p, r) == ProcNextLidep' = [ProcNextLidep EXCEPT ![p] = r]

ReadSame(p) ==
  /\ Reads(p, "same")
  /\ Analyse(p)
  /\ Result(p, Partial)
  /\ streams' = [streams EXCEPT ![p] = Tail(@)]
  /\ task' = [task EXCEPT ![p] = "done"]
  /\ UNCHANGED <<program, reader, ProcWPresNum, PresIsFull, toLCDA, toOutput, later,
                 LSOutputLCDepFinish>>

\* Mutation: the next table is used without waiting for it.
ReadEndUnwaited(p) ==
  /\ Reads(p, "end")
  /\ Analyse(p)
  /\ Result(p, StartLCDA(Head(streams[p]).iter, <<p, ProcWPresNum[p]>>))
  /\ PresIsFull' = [PresIsFull EXCEPT ![<<p, ProcWPresNum[p]>>] = TRUE]
  /\ ProcWPresNum' = [ProcWPresNum EXCEPT ![p] = (@ + 1) % PRESNUM]
  /\ streams' = [streams EXCEPT ![p] = Tail(@)]
  /\ task' = [task EXCEPT ![p] = "done"]
  /\ UNCHANGED <<program, reader, toLCDA, toOutput, later, LSOutputLCDepFinish>>

\* The table is handed to LCDAFilter, and the next one waited for.
ReadEnd(p) ==
  /\ Reads(p, "end")
  /\ Analyse(p)
  /\ Result(p, StartLCDA(Head(streams[p]).iter, <<p, ProcWPresNum[p]>>))
  /\ PresIsFull' = [PresIsFull EXCEPT ![<<p, ProcWPresNum[p]>>] = TRUE]
  /\ ProcWPresNum' = [ProcWPresNum EXCEPT ![p] = (@ + 1) % PRESNUM]
  /\ streams' = [streams EXCEPT ![p] = Tail(@)]
  /\ task' = [task EXCEPT ![p] = "spinning"]
  /\ UNCHANGED <<program, reader, toLCDA, toOutput, later, LSOutputLCDepFinish>>

\* while( PresIsFull[LWPresNum[CurProc]] ) ;  then LCDAAddrInterval
TableFree(p) ==
  /\ task[p] = "spinning" /\ reader = "batch"
  /\ ~ PresIsFull[<<p, ProcWPresNum[p]>>]
  /\ task' = [task EXCEPT ![p] = "done"]
  /\ UNCHANGED <<program, streams, reader, ProcNextLidep, ProcWPresNum, tableIter,
                 PresIsFull, toLCDA, toOutput, later, LSOutputLCDepFinish>>

\* Mutation: the reader stops at once, and no token tells of it.
ReadCancelAtOnce(p) ==
  /\ Reads(p, "cancel")
  /\ reader' = "null"
  /\ task' = [task EXCEPT ![p] = "done"]
  /\ UNCHANGED <<program, streams, ProcNextLidep, ProcWPresNum, tableIter, PresIsFull,
                 toLCDA, toOutput, later, LSOutputLCDepFinish>>

\* The message stays, to be read again.
ReadCancel(p) ==
  /\ Reads(p, "cancel")
  /\ Result(p, Cancelling)
  /\ streams' = [streams EXCEPT ![p][1].flag = "again"]
  /\ task' = [task EXCEPT ![p] = "done"]
  /\ UNCHANGED <<program, reader, ProcWPresNum, tableIter, PresIsFull, toLCDA, toOutput,
                 later, LSOutputLCDepFinish>>

\* ProcNextLidep = NULL
ReadAgain(p) ==
  /\ Reads(p, "again")
  /\ reader' = "null"
  /\ task' = [task EXCEPT ![p] = "done"]
  /\ UNCHANGED <<program, streams, ProcNextLidep, ProcWPresNum, tableIter, PresIsFull,
                 toLCDA, toOutput, later, LSOutputLCDepFinish>>

\* ProcNextLidep[CurProc] when ProcNextLidep is NULL
NullCrash(p) ==
  /\ reader = "null"
  /\ \/ task[p] = "pending" /\ streams[p] # <<>>
     \/ task[p] = "spinning" /\ ~ PresIsFull[<<p, ProcWPresNum[p]>>]
  /\ reader' = "crashed"
  /\ UNCHANGED <<program, streams, task, ProcNextLidep, ProcWPresNum, tableIter, PresIsFull,
                 toLCDA, toOutput, later, LSOutputLCDepFinish>>

\* Mutation: a token may overtake the one before it.
EndBatchOvertaking ==
  /\ reader \in {"batch", "null"}
  /\ \A p \in Proc : task[p] = "done"
  /\ IF reader = "batch"
     THEN reader' = "idle" /\ toLCDA' = <<ProcNextLidep>> \o toLCDA
     ELSE reader' = "stopped" /\ UNCHANGED toLCDA
  /\ UNCHANGED <<program, streams, task, ProcNextLidep, ProcWPresNum, tableIter, PresIsFull,
                 toOutput, later, LSOutputLCDepFinish>>

\* parallel_for returns when all tasks have; a NULL token ends the pipeline.
EndBatch ==
  /\ reader \in {"batch", "null"}
  /\ \A p \in Proc : task[p] = "done"
  /\ IF reader = "batch"
     THEN reader' = "idle" /\ toLCDA' = Append(toLCDA, ProcNextLidep)
     ELSE reader' = "stopped" /\ UNCHANGED toLCDA
  /\ UNCHANGED <<program, streams, task, ProcNextLidep, ProcWPresNum, tableIter, PresIsFull,
                 toOutput, later, LSOutputLCDepFinish>>

-----------------------------------------------------------------------------
(***************************************************************************)
(* LCDAFilter::operator() and OutputLCDepFilter::operator().               *)
(***************************************************************************)
NoIter == NumIters + 1
Idle == [busy |-> FALSE]

TakeLCDA ==
  /\ ~ lcda.busy /\ toLCDA # <<>> /\ reader # "crashed"
  /\ lcda' = [busy |-> TRUE, token |-> Head(toLCDA), at |-> 0, next |-> NoIter]
  /\ toLCDA' = Tail(toLCDA)
  /\ UNCHANGED <<program, streams, reading, PresIsFull, toOutput, LoopIterPresNum,
                 FinishedLoopIter, analysed, LSOutputLCDepFinish>>

AtInput == lcda.busy /\ lcda.next = NoIter /\ lcda.at \in Proc /\ reader # "crashed"

\* Mutation: a table is analysed as soon as it arrives.
TakeInputAtOnce ==
  /\ AtInput
  /\ LET input == lcda.token[lcda.at] IN
     IF input.kind = "start"
     THEN /\ LoopIterPresNum' = [LoopIterPresNum EXCEPT ![input.iter] = input.table]
          /\ lcda' = [lcda EXCEPT !.next = IF input.iter = ExitIter THEN NoIter ELSE input.iter,
                                  !.at = IF input.iter = ExitIter THEN @ + 1 ELSE @]
     ELSE /\ lcda' = [lcda EXCEPT !.at = @ + 1]
          /\ UNCHANGED LoopIterPresNum
  /\ UNCHANGED <<program, streams, reading, PresIsFull, toLCDA, toOutput, FinishedLoopIter,
                 analysed, LSOutputLCDepFinish>>

\* Mutation: the table is noted only if its iteration is next.
TakeInputUnnoted ==
  /\ AtInput
  /\ LET input == lcda.token[lcda.at] IN
     IF input.kind = "start" /\ input.iter = FinishedLoopIter + 1
     THEN /\ LoopIterPresNum' = [LoopIterPresNum EXCEPT ![input.iter] = input.table]
          /\ lcda' = [lcda EXCEPT !.next = input.iter]
     ELSE /\ lcda' = [lcda EXCEPT !.at = @ + 1]
          /\ UNCHANGED LoopIterPresNum
  /\ UNCHANGED <<program, streams, reading, PresIsFull, toLCDA, toOutput, FinishedLoopIter,
                 analysed, LSOutputLCDepFinish>>

\* The table of the input is noted, and analysed now only if its iteration is next.
TakeInput ==
  /\ AtInput
  /\ LET input == lcda.token[lcda.at] IN
     IF input.kind = "start"
     THEN /\ LoopIterPresNum' = [LoopIterPresNum EXCEPT ![input.iter] = input.table]
          /\ lcda' = IF input.iter = FinishedLoopIter + 1
                     THEN [lcda EXCEPT !.next = input.iter]
                     ELSE [lcda EXCEPT !.at = @ + 1]
     ELSE /\ lcda' = [lcda EXCEPT !.at = @ + 1]
          /\ UNCHANGED LoopIterPresNum
  /\ UNCHANGED <<program, streams, reading, PresIsFull, toLCDA, toOutput, FinishedLoopIter,
                 analysed, LSOutputLCDepFinish>>

NoTable == <<>>
RPresNum == LoopIterPresNum[lcda.next]

\* Mutation: the following iterations are left for later.
AnalyseNextAlone ==
  /\ lcda.busy /\ lcda.next # NoIter /\ reader # "crashed"
  /\ PresIsFull[RPresNum]
  /\ analysed' = Append(analysed, [iter  |-> lcda.next, input |-> lcda.token[lcda.at].iter,
                                   found |-> tableIter[RPresNum]])
  /\ PresIsFull' = [PresIsFull EXCEPT ![RPresNum] = FALSE]
  /\ FinishedLoopIter' = lcda.next
  /\ lcda' = [lcda EXCEPT !.next = NoIter, !.at = @ + 1]
  /\ UNCHANGED <<program, streams, reading, toLCDA, toOutput, LoopIterPresNum,
                 LSOutputLCDepFinish>>

\* doLCDA... with the token's input, on the table of the iteration; then the
\* following iteration if its table is there.
AnalyseNext ==
  /\ lcda.busy /\ lcda.next # NoIter /\ reader # "crashed"
  /\ PresIsFull[RPresNum]
  /\ analysed' = Append(analysed, [iter  |-> lcda.next, input |-> lcda.token[lcda.at].iter,
                                   found |-> tableIter[RPresNum]])
  /\ PresIsFull' = [PresIsFull EXCEPT ![RPresNum] = FALSE]
  /\ FinishedLoopIter' = lcda.next
  /\ lcda' = IF lcda.next < NumIters /\ LoopIterPresNum[lcda.next + 1] # NoTable
             THEN [lcda EXCEPT !.next = @ + 1]
             ELSE [lcda EXCEPT !.next = NoIter, !.at = @ + 1]
  /\ UNCHANGED <<program, streams, reading, toLCDA, toOutput, LoopIterPresNum,
                 LSOutputLCDepFinish>>

EndLCDA ==
  /\ lcda.busy /\ lcda.at = PROCNUM /\ reader # "crashed"
  /\ toOutput' = Append(toOutput, lcda.token)
  /\ lcda' = Idle
  /\ UNCHANGED <<program, streams, reading, PresIsFull, toLCDA, LoopIterPresNum,
                 FinishedLoopIter, analysed, LSOutputLCDepFinish>>

Output ==
  /\ toOutput # <<>> /\ reader # "crashed"
  /\ toOutput' = Tail(toOutput)
  /\ LSOutputLCDepFinish' =
       (LSOutputLCDepFinish \/ \E p \in Proc : Head(toOutput)[p] = Cancelling)
  /\ UNCHANGED <<program, streams, reading, PresIsFull, toLCDA, later>>

-----------------------------------------------------------------------------
Init ==
  /\ owner \in {f \in [Iter -> Proc] :
                 \A p \in Proc : Cardinality({i \in Iter : f[i] = p}) <= MaxOwned}
  /\ loopIter = [p \in Proc |-> 1] /\ master = "inside" /\ overflows = 0
  /\ streams = [p \in Proc |-> <<>>]
  /\ reader = "idle" /\ task = [p \in Proc |-> "done"]
  /\ ProcNextLidep = [p \in Proc |-> NoInput]
  /\ ProcWPresNum = [p \in Proc |-> 0]
  /\ PresIsFull = [t \in Table |-> FALSE] /\ tableIter = [t \in Table |-> ExitIter]
  /\ toLCDA = <<>> /\ toOutput = <<>> /\ lcda = Idle
  /\ LoopIterPresNum = [i \in Iter \cup {ExitIter} |-> NoTable]
  /\ FinishedLoopIter = 0 /\ analysed = <<>> /\ LSOutputLCDepFinish = FALSE

Process(p) == Overflow(p) \/ EndIteration(p)

Exit == JoinAndReInit \/ CancelPipeline

ReadTask(p) ==
  \/ ReadNothing(p) \/ ReadSame(p) \/ ReadEnd(p) \/ TableFree(p)
  \/ ReadCancel(p) \/ ReadAgain(p) \/ NullCrash(p)

ReadLIDA == StartBatch \/ (\E p \in Proc : ReadTask(p)) \/ EndBatch

LCDA == TakeLCDA \/ TakeInput \/ AnalyseNext \/ EndLCDA

Next == (\E p \in Proc : Process(p)) \/ Exit \/ ReadLIDA \/ LCDA \/ Output

Spec == Init /\ [][Next]_vars

\* The processes run, and TBB runs a stage that has a token to work on.
FairSpec ==
  /\ Spec
  /\ \A p \in Proc : WF_vars(EndIteration(p))
  /\ WF_vars(ReadLIDA) /\ WF_vars(LCDA) /\ WF_vars(Output)
=============================================================================
