----------------------------- MODULE AddrStream -----------------------------
(***************************************************************************)
(* The stream of accesses between one profiling process and the pipeline   *)
(* of the parallel build (-D_DDA_PA -D_DDA_DEFAULT -D_DDA_PP               *)
(* -D_DDA_DEFAULT_PP_PARLIDA): a ring of STREAMNUM buffers in shared       *)
(* memory, filled by GenerateAddrStream and emptied by parreadlida.        *)
(*                                                                         *)
(* The process is the master, whose code alone calls ReInitPipelineState   *)
(* and LDDPACancelPipeline.  Only the iterations __to_prof gives it are    *)
(* here: in those of other processes LDDProfCurIter is 0, and neither an   *)
(* access nor for.inc does anything.  A buffer is published by setting its *)
(* PPStreamIsFull, after which the process moves to the next buffer of the *)
(* ring and spins until that one is free.  Stores become visible in        *)
(* program order (x86), and so a publication is one step.                  *)
(***************************************************************************)
EXTENDS Integers, Sequences

CONSTANTS
  STREAMNUM,        \* buffers of the ring
  STREAMITEMNUM,    \* items of a buffer, the header included
  Accesses,         \* what an access can be: address, pc, length, read or write
  Garbage,          \* what a buffer of the shared memory may hold at the start
  MaxAccess,        \* bound on the accesses made
  MaxIter,          \* bound on the iterations of one execution of the loop
  MaxSessions       \* bound on the executions of the loop

Slot == 0 .. STREAMNUM - 1

\* Items[0].RWFlag
SameIteration == 0
EndOfIteration == 1
Cancel == 2
CancelAgain == 3

\* One AddrStream: Items[0].RWFlag, LoopIter, End and the other Items
Buffer == [flag : {SameIteration, EndOfIteration, Cancel, CancelAgain},
           iter : Nat, end : 1 .. STREAMITEMNUM,
           items : [1 .. STREAMITEMNUM - 1 -> Accesses]]

ASSUME AddrStreamAssumption ==
  /\ STREAMNUM \in Nat \ {0, 1}
  /\ STREAMITEMNUM \in Nat \ {0, 1}
  /\ MaxAccess \in Nat /\ MaxIter \in Nat /\ MaxSessions \in Nat
  /\ Garbage \subseteq Buffer

VARIABLES
  Streams,          \* the buffers
  PPStreamIsFull,
  WStreamNum, WItemNum,
  PtrItems,         \* buffer and index of the item PtrItems points to
  CurLoopIter, LDDProfLoopIter,
  process,          \* where the process is
  sessions,
  accesses,         \* history: the accesses made, their iterations, and whether stored
  ProcRStreamNum,
  reader,           \* where parreadlida is
  Length, LoopIter, \* its copies of End and LoopIter
  tokens            \* history: what the pipeline was handed, in order

buffers  == <<Streams, PPStreamIsFull>>
writer   == <<WStreamNum, WItemNum, PtrItems, CurLoopIter, LDDProfLoopIter,
              process, sessions, accesses>>
readVars == <<ProcRStreamNum, reader, Length, LoopIter, tokens>>
vars     == <<buffers, writer, readVars>>

NextSlot(s) == (s + 1) % STREAMNUM

-----------------------------------------------------------------------------
(***************************************************************************)
(* The profiling process.                                                  *)
(***************************************************************************)
WriterInit ==
  /\ WStreamNum = 0 /\ WItemNum = 1 /\ PtrItems = <<0, 0>>
  /\ CurLoopIter = 0 /\ LDDProfLoopIter = 0
  /\ process = "outside" /\ sessions = 0 /\ accesses = <<>>

\* __init_proc, and the loop control: LDDProfLoopIter = 1
EnterLoop ==
  /\ process = "outside"
  /\ sessions < MaxSessions
  /\ Streams' = [Streams EXCEPT ![0].end = 1, ![0].flag = SameIteration]
  /\ PtrItems' = <<0, 1>>
  /\ LDDProfLoopIter' = 1
  /\ sessions' = sessions + 1
  /\ process' = "inside"
  /\ UNCHANGED <<PPStreamIsFull, WStreamNum, WItemNum, CurLoopIter, accesses, readVars>>

\* Publish the buffer b as the current one, move to the next and wait for it.
Publish(b, then) ==
  /\ Streams' = [Streams EXCEPT ![WStreamNum] = b]
  /\ PPStreamIsFull' = [PPStreamIsFull EXCEPT ![WStreamNum] = TRUE]
  /\ WStreamNum' = NextSlot(WStreamNum)
  /\ WItemNum' = 1
  /\ PtrItems' = <<WStreamNum', 0>>
  /\ process' = then

Current(flag, iter) ==
  [Streams[WStreamNum] EXCEPT !.flag = flag, !.iter = iter, !.end = WItemNum]

CanAccess ==
  /\ process = "inside"
  /\ Len(accesses) < MaxAccess

Made(a, stored) ==
  accesses' = Append(accesses, [iter |-> LDDProfLoopIter, access |-> a, stored |-> stored])

\* Mutation: room for one item more than the buffer has.
StoreOffByOne(a) ==
  /\ CanAccess /\ Made(a, TRUE)
  /\ WItemNum <= STREAMITEMNUM
  /\ Streams' = [Streams EXCEPT ![PtrItems[1]].items[PtrItems[2]] = a]
  /\ PtrItems' = <<PtrItems[1], PtrItems[2] + 1>>
  /\ WItemNum' = WItemNum + 1
  /\ UNCHANGED <<PPStreamIsFull, WStreamNum, CurLoopIter, LDDProfLoopIter,
                 process, sessions, readVars>>

\* GenerateAddrStream, the buffer has room
Store(a) ==
  /\ CanAccess /\ Made(a, TRUE)
  /\ WItemNum < STREAMITEMNUM
  /\ Streams' = [Streams EXCEPT ![PtrItems[1]].items[PtrItems[2]] = a]
  /\ PtrItems' = <<PtrItems[1], PtrItems[2] + 1>>
  /\ WItemNum' = WItemNum + 1
  /\ UNCHANGED <<PPStreamIsFull, WStreamNum, CurLoopIter, LDDProfLoopIter,
                 process, sessions, readVars>>

\* GenerateAddrStream, the buffer is full: the access itself is stored nowhere
Overflow(a) ==
  /\ CanAccess /\ Made(a, FALSE)
  /\ WItemNum >= STREAMITEMNUM
  /\ Publish(Current(Streams[WStreamNum].flag, LDDProfLoopIter), "awaiting")
  /\ UNCHANGED <<CurLoopIter, LDDProfLoopIter, sessions, readVars>>

\* __addPresentToPrecedeTrace in for.inc, then LDDProfLoopIter += 1
EndIteration ==
  /\ process = "inside"
  /\ LDDProfLoopIter < MaxIter
  /\ Publish(Current(EndOfIteration, LDDProfLoopIter), "awaiting")
  /\ LDDProfLoopIter' = LDDProfLoopIter + 1
  /\ UNCHANGED <<CurLoopIter, sessions, accesses, readVars>>

\* ReInitPipelineState, at the exit of the loop
ExitLoop ==
  /\ process = "inside"
  /\ Publish(Current(EndOfIteration, CurLoopIter), "leaving")
  /\ CurLoopIter' = LDDProfLoopIter
  /\ UNCHANGED <<LDDProfLoopIter, sessions, accesses, readVars>>

\* Mutation: the next buffer is taken without waiting for it.
NextBufferUnwaited ==
  /\ process \in {"awaiting", "leaving"}
  /\ Streams' = [Streams EXCEPT ![WStreamNum].flag = SameIteration]
  /\ PtrItems' = <<PtrItems[1], PtrItems[2] + 1>>
  /\ process' = IF process = "awaiting" THEN "inside" ELSE "outside"
  /\ UNCHANGED <<PPStreamIsFull, WStreamNum, WItemNum, CurLoopIter, LDDProfLoopIter,
                 sessions, accesses, readVars>>

\* while( atomic_read(&GLPPStreamIsFull[WStreamNum]) ) ;  then the header
NextBufferFree ==
  /\ process \in {"awaiting", "leaving"}
  /\ ~ PPStreamIsFull[WStreamNum]
  /\ Streams' = [Streams EXCEPT ![WStreamNum].flag = SameIteration]
  /\ PtrItems' = <<PtrItems[1], PtrItems[2] + 1>>
  /\ process' = IF process = "awaiting" THEN "inside" ELSE "outside"
  /\ UNCHANGED <<PPStreamIsFull, WStreamNum, WItemNum, CurLoopIter, LDDProfLoopIter,
                 sessions, accesses, readVars>>

\* LDDPACancelPipeline, at the end of the program; GLStreams is NULL until the
\* loop has been entered
CancelPipeline ==
  /\ process = "outside" /\ sessions > 0
  /\ Streams' = [Streams EXCEPT ![WStreamNum].flag = Cancel, ![WStreamNum].end = 1,
                                ![WStreamNum].iter = CurLoopIter]
  /\ PPStreamIsFull' = [PPStreamIsFull EXCEPT ![WStreamNum] = TRUE]
  /\ process' = "cancelled"
  /\ UNCHANGED <<WStreamNum, WItemNum, PtrItems, CurLoopIter, LDDProfLoopIter,
                 sessions, accesses, readVars>>

-----------------------------------------------------------------------------
(***************************************************************************)
(* parreadlida, as far as the stream is concerned.                         *)
(***************************************************************************)
ReaderInit ==
  /\ ProcRStreamNum = 0 /\ reader = "idle"
  /\ Length = 1 /\ LoopIter = 0
  /\ tokens = <<>>

BeginRead ==
  /\ reader = "idle"
  /\ PPStreamIsFull[ProcRStreamNum]
  /\ Length' = Streams[ProcRStreamNum].end
  /\ LoopIter' = Streams[ProcRStreamNum].iter
  /\ reader' = "reading"
  /\ UNCHANGED <<buffers, writer, ProcRStreamNum, tokens>>

\* The token of the buffer: the iteration its accesses were analysed for, the
\* iteration it names for the next stages, its flag, its accesses
Token(flag) ==
  [iter |-> LoopIter, label |-> LoopIter, flag |-> flag,
   items |-> SubSeq(Streams[ProcRStreamNum].items, 1, Length - 1)]

FlagIs(flag) == reader = "reading" /\ Streams[ProcRStreamNum].flag = flag

Free == PPStreamIsFull' = [PPStreamIsFull EXCEPT ![ProcRStreamNum] = FALSE]

\* Mutation: the buffer is read, but not freed.
ReadSameIterationKeeping ==
  /\ FlagIs(SameIteration)
  /\ tokens' = Append(tokens, Token(SameIteration))
  /\ ProcRStreamNum' = NextSlot(ProcRStreamNum)
  /\ reader' = "idle"
  /\ UNCHANGED <<buffers, writer, Length, LoopIter>>

ReadSameIteration ==
  /\ FlagIs(SameIteration)
  /\ Free
  /\ tokens' = Append(tokens, Token(SameIteration))
  /\ ProcRStreamNum' = NextSlot(ProcRStreamNum)
  /\ reader' = "idle"
  /\ UNCHANGED <<Streams, writer, Length, LoopIter>>

\* Mutation: the buffer is freed, but the reader does not move on.
ReadEndOfIterationStaying ==
  /\ FlagIs(EndOfIteration)
  /\ Free
  /\ tokens' = Append(tokens, Token(EndOfIteration))
  /\ reader' = "idle"
  /\ UNCHANGED <<Streams, writer, Length, LoopIter, ProcRStreamNum>>

\* The buffer is freed before its LoopIter is copied into the token.
ReadEndOfIteration ==
  /\ FlagIs(EndOfIteration)
  /\ Free
  /\ tokens' = Append(tokens, Token(EndOfIteration))
  /\ reader' = "labelling"
  /\ UNCHANGED <<Streams, writer, Length, LoopIter, ProcRStreamNum>>

LabelToken ==
  /\ reader = "labelling"
  /\ tokens' = [tokens EXCEPT ![Len(tokens)].label = Streams[ProcRStreamNum].iter]
  /\ ProcRStreamNum' = NextSlot(ProcRStreamNum)
  /\ reader' = "idle"
  /\ UNCHANGED <<buffers, writer, Length, LoopIter>>

\* The buffer stays full, and is read again.
ReadCancel ==
  /\ FlagIs(Cancel)
  /\ Streams' = [Streams EXCEPT ![ProcRStreamNum].flag = CancelAgain]
  /\ reader' = "idle"
  /\ UNCHANGED <<PPStreamIsFull, writer, ProcRStreamNum, Length, LoopIter, tokens>>

ReadCancelAgain ==
  /\ FlagIs(CancelAgain)
  /\ reader' = "stopped"
  /\ UNCHANGED <<buffers, writer, ProcRStreamNum, Length, LoopIter, tokens>>

-----------------------------------------------------------------------------
Init ==
  /\ Streams \in [Slot -> Garbage]
  /\ PPStreamIsFull = [s \in Slot |-> FALSE]
  /\ WriterInit
  /\ ReaderInit

Process ==
  \/ EnterLoop
  \/ \E a \in Accesses : Store(a) \/ Overflow(a)
  \/ EndIteration
  \/ ExitLoop
  \/ NextBufferFree
  \/ CancelPipeline

Reader ==
  \/ BeginRead
  \/ ReadSameIteration
  \/ ReadEndOfIteration
  \/ LabelToken
  \/ ReadCancel
  \/ ReadCancelAgain

Next == Process \/ Reader

Spec == Init /\ [][Next]_vars

\* The reader is a task of the pipeline's thread and the spin is a loop of a
\* running process: both keep taking steps that stay possible.
FairSpec == Spec /\ WF_vars(Reader) /\ WF_vars(NextBufferFree)
=============================================================================
