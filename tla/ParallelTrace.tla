---------------------------- MODULE ParallelTrace ----------------------------
(***************************************************************************)
(* What the parallel build (-D_OPT1 -D_DDA_PA -D_DDA_DEFAULT -D_DDA_PP     *)
(* -D_DDA_DEFAULT_PP_PARLIDA) does to the Trace of one 8-byte word: the    *)
(* parreadlida tasks of a batch, one per process, allocate it and analyse  *)
(* the accesses of their buffers into present tables of their own, at the  *)
(* same time; LCDAFilter analyses the tables in the order of the           *)
(* iterations, later.  Pipeline is the same pipeline without the contents  *)
(* of the tables.                                                          *)
(*                                                                         *)
(* A list is a sequence of nodes, head first: here, unlike in ShadowWord,  *)
(* the order decides what an update does.  A node of a mask is <PC, bytes>.*)
(* The eight tasks of a parallel_for over PARLIDAMASK are one: AddrIndex   *)
(* is (Addr & 7) >> 4, which is 0 for every address.                       *)
(***************************************************************************)
EXTENDS Integers, Sequences, SequencesExt

CONSTANTS
  PROCNUM,          \* profiling processes
  PRESNUM,          \* present tables of a process
  NumIters,         \* iterations of the loop
  Owners,           \* the ways __to_prof may share them: functions from Iter to Proc
  PC,               \* the instructions that access the word
  MaxAccess         \* bound on the accesses to the word

ASSUME ParallelTraceAssumption ==
  /\ PROCNUM \in Nat \ {0} /\ PRESNUM \in Nat \ {0}
  /\ NumIters \in Nat /\ Owners \subseteq [1 .. NumIters -> 0 .. PROCNUM - 1]
  /\ MaxAccess \in Nat
  /\ \A pc \in PC : pc.write \in BOOLEAN /\ pc.len \in 1 .. 8   \* RWFlag, AddrLen

Proc == 0 .. PROCNUM - 1
Iter == 1 .. NumIters
Table == Proc \X (0 .. PRESNUM - 1)

Word == INSTANCE ShadowWord WITH WordBytes <- 8

VARIABLES
  owner,            \* the process that runs an iteration
  trace,            \* the Trace the word's pointer points to
  at,               \* per process: the iteration its next access belongs to
  task,             \* per process: its parreadlida of the current batch
  item,             \* per process: the access that found no Trace
  ProcWPresNum,     \* per process: its present table
  PresIsFull,
  inInterval,       \* per process: is the word in LIDAAddrInterval?
  ProcNextLidep,    \* per process: its result of the batch
  inputs,           \* the results LCDAFilter has still to look at, in order
  chained,          \* LCDAFilter is analysing the iterations its input released
  LoopIterPresNum,
  FinishedLoopIter,
  LID, LCD,         \* the dependences found, with the iteration of the sink
  accesses,         \* history: per iteration, the accesses analysed, in order
  torn,             \* history: iterations in analysis when a second Trace was allocated
  by                \* history: the iteration whose input an iteration was analysed with

reading == <<at, task, item, ProcWPresNum, inInterval, ProcNextLidep>>
later   == <<inputs, chained, LoopIterPresNum, FinishedLoopIter, LCD, by>>
vars    == <<owner, trace, reading, PresIsFull, later, LID, accesses, torn>>

-----------------------------------------------------------------------------
(***************************************************************************)
(* One word.                                                               *)
(***************************************************************************)
\* ShdAddr has lost the offset within the word before AddrInnerOffset is taken
\* of it: every access covers the word from its first byte on.
RWMask(len) == 0 .. len - 1

Node(pc, mask) == [pc |-> pc, mask |-> mask]

EmptyTable == [RTrace |-> <<>>, WTrace |-> <<>>, RWIter |-> 0,
               GlobalReadMask |-> {}, GlobalWriteMask |-> {}]

\* state "raw" is memory fresh from malloc
NoTrace == [state |-> "null"]
RawTrace(p) == [state |-> "raw", from |-> p]
EmptyTrace(p) == [state |-> "ready", from |-> p, Present |-> [t \in Table |-> EmptyTable],
                  PrecedeR |-> {}, PrecedeW |-> {}]

\* The nodes a walk from the head stops at, which looks for the bytes of mask
\* and ticks them off.
FirstCovering(list, mask) ==
  {list[k] : k \in {i \in DOMAIN list :
     \E b \in list[i].mask \cap mask : \A j \in 1 .. i - 1 : b \notin list[j].mask}}

ReadLID(t, pc, mask) ==
  {[kind |-> "True", src |-> n.pc, sink |-> pc] :
     n \in {m \in Range(t.WTrace) : m.mask \cap mask \cap t.GlobalWriteMask # {}}}

WriteLID(t, pc, mask) ==
  {[kind |-> "Out", src |-> n.pc, sink |-> pc] :
     n \in FirstCovering(t.WTrace, mask \cap t.GlobalWriteMask)}
  \cup
  {[kind |-> "Anti", src |-> n.pc, sink |-> pc] :
     n \in FirstCovering(t.RTrace, mask \cap t.GlobalReadMask)}

UpdatePresentRTrace(t, pc, mask) ==
  LET first == mask \ (t.GlobalReadMask \cup t.GlobalWriteMask)
  IN  IF first = {} THEN t
      ELSE [t EXCEPT !.RTrace = <<Node(pc, first)>> \o @,
                     !.GlobalReadMask = @ \cup first]

\* One step of the walk over the older writes: left is what is still to be
\* placed of the new mask, new whether the new write has no node yet.
Overwrite(pc, walk, n) ==
  CASE n.mask \cap walk.left = {} -> [walk EXCEPT !.list = Append(@, n)]
    [] n.mask \subseteq walk.left /\ n.mask # {} /\ walk.new ->
         [left |-> walk.left \ n.mask, new |-> FALSE,
          list |-> Append(walk.list, Node(pc, walk.left))]
    [] n.mask \subseteq walk.left /\ n.mask # {} /\ ~ walk.new ->
         [walk EXCEPT !.left = @ \ n.mask]
    [] ~ n.mask \subseteq walk.left /\ n.mask \cap walk.left # {} ->
         [walk EXCEPT !.left = @ \ n.mask, !.list = Append(@, Node(n.pc, n.mask \ walk.left))]

\* The walk down the list, from its head
Walked(pc, mask, list) ==
  LET walk[k \in 0 .. Len(list)] ==
        IF k = 0 THEN [left |-> mask, new |-> TRUE, list |-> <<>>]
        ELSE Overwrite(pc, walk[k - 1], list[k])
  IN  walk[Len(list)]

\* Mutation: the older writes keep all their bytes.
UpdatePresentWTraceUntrimmed(t, pc, mask) ==
  [t EXCEPT !.WTrace = <<Node(pc, mask)>> \o @, !.GlobalWriteMask = @ \cup mask]

UpdatePresentWTrace(t, pc, mask) ==
  LET walk == Walked(pc, mask, t.WTrace)
      list == IF mask \cap t.GlobalWriteMask = {} THEN <<Node(pc, mask)>> \o t.WTrace
              ELSE IF Head(t.WTrace).mask = mask
                   THEN <<Node(pc, mask)>> \o Tail(t.WTrace)
              ELSE IF walk.new /\ walk.left # {} THEN <<Node(pc, walk.left)>> \o walk.list
              ELSE walk.list
  IN  [t EXCEPT !.WTrace = list, !.GlobalWriteMask = @ \cup mask]

Update(t, pc) ==
  IF pc.write THEN UpdatePresentWTrace(t, pc, RWMask(pc.len))
  ELSE UpdatePresentRTrace(t, pc, RWMask(pc.len))

\* A read that is the first access of an iteration keeps the masks of the one
\* before in this table; a write resets them, but not the lists.
EnterIteration(t, pc, iter) ==
  IF t.RWIter = iter THEN t
  ELSE IF pc.write THEN [t EXCEPT !.RWIter = iter, !.GlobalReadMask = {}, !.GlobalWriteMask = {}]
  ELSE [t EXCEPT !.RWIter = iter]

\* Loop-independent dependences with an access of pc as the sink
FoundLID(t, pc) ==
  IF ~ pc.write THEN ReadLID(t, pc, RWMask(pc.len))
  ELSE IF t.GlobalReadMask # {} THEN WriteLID(t, pc, RWMask(pc.len))
  ELSE {}

\* Mutation: a table that has not been used before is taken for the present one.
NotesUsed(t, pc, iter) == ~ pc.write /\ t.RWIter \notin {0, iter}

\* Only a read makes the word known to the loop-carried analysis: the line of
\* the write is within #ifdef __OPT1, and the build defines _OPT1.
Notes(t, pc, iter) == ~ pc.write /\ t.RWIter # iter

-----------------------------------------------------------------------------
(***************************************************************************)
(* ReadLIDAFilter: a batch of tasks, which may each read one buffer.       *)
(***************************************************************************)
NoIter == NumIters + 1
NoInput == [kind |-> "none"]
NoItem == <<>>
StartLCDA(i, t, word) == [kind |-> "start", iter |-> i, table |-> t, word |-> word]

\* The iteration whose accesses process p sends after those of i
NextOwned(p, i) ==
  CHOOSE k \in i + 1 .. NoIter :
    /\ k = NoIter \/ owner[k] = p
    /\ \A l \in i + 1 .. k - 1 : owner[l] # p

Broken == \E p \in Proc : task[p] = "crashed"

StartBatch ==
  /\ \A p \in Proc : task[p] = "idle"
  /\ \E S \in SUBSET {p \in Proc : at[p] # NoIter} \ {{}} :
       task' = [p \in Proc |-> IF p \in S THEN "reading" ELSE "done"]
  /\ ProcNextLidep' = [p \in Proc |-> NoInput]
  /\ UNCHANGED <<owner, trace, at, item, ProcWPresNum, inInterval, PresIsFull, later, LID,
                 accesses, torn>>

Taken == FoldSet(LAMBDA i, n : n + Len(accesses[i]), 0, Iter)

\* parcheck takes the next item of the buffer, if it is of this word.
Takes(p) ==
  /\ task[p] = "reading" /\ ~ Broken
  /\ Taken < MaxAccess

Happens(p, pc) ==
  accesses' = [accesses EXCEPT ![at[p]] = Append(@, [pc |-> pc, found |-> trace.state = "ready"])]

PresentOf(p) == trace.Present[<<p, ProcWPresNum[p]>>]

Check(p) ==
  /\ Takes(p) /\ trace.state = "ready"
  /\ \E pc \in PC :
       LET t == EnterIteration(PresentOf(p), pc, at[p])
       IN /\ Happens(p, pc)
          /\ inInterval' = [inInterval EXCEPT ![p] = @ \/ Notes(PresentOf(p), pc, at[p])]
          /\ LID' = LID \cup {[dep |-> d, iter |-> at[p]] : d \in FoundLID(t, pc)}
          /\ trace' = [trace EXCEPT !.Present[<<p, ProcWPresNum[p]>>] = Update(t, pc)]
  /\ UNCHANGED <<owner, at, task, item, ProcWPresNum, ProcNextLidep, PresIsFull, later, torn>>

\* Mutation: the pointer is not tested.
SeeNullUntested(p) ==
  /\ Takes(p)
  /\ \E pc \in PC : Happens(p, pc) /\ item' = [item EXCEPT ![p] = pc]
  /\ task' = [task EXCEPT ![p] = "allocating"]
  /\ UNCHANGED <<owner, trace, at, ProcWPresNum, inInterval, ProcNextLidep, PresIsFull, later,
                 LID, torn>>

\* The pointer is NULL: this task goes to allocate a Trace ...
SeeNull(p) ==
  /\ Takes(p) /\ trace.state = "null"
  /\ \E pc \in PC : Happens(p, pc) /\ item' = [item EXCEPT ![p] = pc]
  /\ task' = [task EXCEPT ![p] = "allocating"]
  /\ UNCHANGED <<owner, trace, at, ProcWPresNum, inInterval, ProcNextLidep, PresIsFull, later,
                 LID, torn>>

\* ... publishes it, in place of any other task's, before it is filled in ...
Publish(p) ==
  /\ task[p] = "allocating" /\ ~ Broken
  /\ trace' = RawTrace(p)
  /\ task' = [task EXCEPT ![p] = "filling"]
  /\ torn' = IF trace.state = "null" THEN torn
             ELSE {i \in Iter : accesses[i] # <<>>}
  /\ UNCHANGED <<owner, at, item, ProcWPresNum, inInterval, ProcNextLidep, PresIsFull, later,
                 LID, accesses>>

\* ... and fills in the Trace it has allocated, published still or not.
Fill(p) ==
  /\ task[p] = "filling" /\ ~ Broken
  /\ trace' = IF trace # RawTrace(p) THEN trace
              ELSE [EmptyTrace(p) EXCEPT !.Present[<<p, ProcWPresNum[p]>>] =
                      Update([@ EXCEPT !.RWIter = at[p]], item[p])]
  /\ task' = [task EXCEPT ![p] = "reading"]
  /\ item' = [item EXCEPT ![p] = NoItem]
  /\ UNCHANGED <<owner, at, ProcWPresNum, inInterval, ProcNextLidep, PresIsFull, later, LID,
                 accesses, torn>>

\* The Trace of another task, not filled in yet
Crash(p) ==
  /\ Takes(p) /\ trace.state = "raw"
  /\ task' = [task EXCEPT ![p] = "crashed"]
  /\ UNCHANGED <<owner, trace, at, item, ProcWPresNum, inInterval, ProcNextLidep, PresIsFull,
                 later, LID, accesses, torn>>

\* The buffer ends in the middle of an iteration.
EndBuffer(p) ==
  /\ task[p] = "reading" /\ ~ Broken
  /\ task' = [task EXCEPT ![p] = "done"]
  /\ UNCHANGED <<owner, trace, at, item, ProcWPresNum, inInterval, ProcNextLidep, PresIsFull,
                 later, LID, accesses, torn>>

\* It ends with the iteration: the table is handed over ...
EndIteration(p) ==
  /\ task[p] = "reading" /\ ~ Broken
  /\ PresIsFull' = [PresIsFull EXCEPT ![<<p, ProcWPresNum[p]>>] = TRUE]
  /\ ProcNextLidep' = [ProcNextLidep EXCEPT ![p] =
                         StartLCDA(at[p], <<p, ProcWPresNum[p]>>, FALSE)]
  /\ ProcWPresNum' = [ProcWPresNum EXCEPT ![p] = (@ + 1) % PRESNUM]
  /\ at' = [at EXCEPT ![p] = NextOwned(p, @)]
  /\ task' = [task EXCEPT ![p] = "spinning"]
  /\ UNCHANGED <<owner, trace, item, inInterval, later, LID, accesses, torn>>

\* ... and the next one waited for.
TableFree(p) ==
  /\ task[p] = "spinning" /\ ~ Broken
  /\ ~ PresIsFull[<<p, ProcWPresNum[p]>>]
  /\ ProcNextLidep' = [ProcNextLidep EXCEPT ![p].word = inInterval[p]]
  /\ inInterval' = [inInterval EXCEPT ![p] = FALSE]
  /\ task' = [task EXCEPT ![p] = "done"]
  /\ UNCHANGED <<owner, trace, at, item, ProcWPresNum, PresIsFull, later, LID, accesses, torn>>

\* The results of the tasks that have one, in the order of the processes
Joined(results) ==
  LET joined[n \in 0 .. PROCNUM] ==
        IF n = 0 THEN <<>>
        ELSE IF results[n - 1].kind = "start" THEN Append(joined[n - 1], results[n - 1])
        ELSE joined[n - 1]
  IN  joined[PROCNUM]

EndBatch ==
  /\ \A p \in Proc : task[p] = "done"
  /\ task' = [p \in Proc |-> "idle"]
  /\ inputs' = inputs \o Joined(ProcNextLidep)
  /\ ProcNextLidep' = [p \in Proc |-> NoInput]
  /\ UNCHANGED <<owner, trace, at, item, ProcWPresNum, inInterval, PresIsFull, chained,
                 LoopIterPresNum, FinishedLoopIter, LCD, by, LID, accesses, torn>>

-----------------------------------------------------------------------------
(***************************************************************************)
(* LCDAFilter.                                                             *)
(***************************************************************************)
NoTable == <<>>

TakeInput ==
  /\ inputs # <<>> /\ ~ chained /\ ~ Broken
  /\ LoopIterPresNum' = [LoopIterPresNum EXCEPT ![Head(inputs).iter] = Head(inputs).table]
  /\ IF Head(inputs).iter = FinishedLoopIter + 1
     THEN chained' = TRUE /\ UNCHANGED inputs
     ELSE inputs' = Tail(inputs) /\ UNCHANGED chained
  /\ UNCHANGED <<owner, trace, reading, PresIsFull, FinishedLoopIter, LCD, by, LID, accesses,
                 torn>>

\* The dependences of the nodes of present table t on the precede tables; the
\* distance is counted from the iteration of the input.
FoundLCD(t, iter) ==
  LET R == Range(t.RTrace)
      W == Range(t.WTrace)
  IN  Word!Carried("True", R, t.GlobalReadMask, trace.PrecedeW, iter)
        \cup Word!Carried("Out", W, t.GlobalWriteMask, trace.PrecedeW, iter)
        \cup Word!Carried("Anti", W, t.GlobalWriteMask, trace.PrecedeR, iter)

\* Mutation: the precede nodes get the iteration of the table.
DoLCDAOwnIter(table, input, iter) ==
  IF ~ input.word THEN UNCHANGED <<trace, LCD>>
  ELSE LET t == trace.Present[table] IN
       /\ LCD' = LCD \cup {[kind |-> d[1], src |-> d[2], sink |-> d[3], dist |-> d[4],
                            iter |-> iter] : d \in FoundLCD(t, input.iter)}
       /\ trace' = [trace EXCEPT
                      !.PrecedeR = Word!AddToPrecede(@, Range(t.RTrace), iter),
                      !.PrecedeW = Word!AddToPrecede(@, Range(t.WTrace), iter),
                      !.Present[table] = EmptyTable]

\* Mutation: the masks of the table are not reset.
DoLCDAKeepingMasks(table, input, iter) ==
  IF ~ input.word THEN UNCHANGED <<trace, LCD>>
  ELSE LET t == trace.Present[table] IN
       /\ LCD' = LCD \cup {[kind |-> d[1], src |-> d[2], sink |-> d[3], dist |-> d[4],
                            iter |-> iter] : d \in FoundLCD(t, input.iter)}
       /\ trace' = [trace EXCEPT
                      !.PrecedeR = Word!AddToPrecede(@, Range(t.RTrace), input.iter),
                      !.PrecedeW = Word!AddToPrecede(@, Range(t.WTrace), input.iter),
                      !.Present[table].RTrace = <<>>, !.Present[table].WTrace = <<>>]

\* Words outside LCDAAddrInterval keep their present tables.
DoLCDA(table, input, iter) ==
  IF ~ input.word THEN UNCHANGED <<trace, LCD>>
  ELSE LET t == trace.Present[table] IN
       /\ LCD' = LCD \cup {[kind |-> d[1], src |-> d[2], sink |-> d[3], dist |-> d[4],
                            iter |-> iter] : d \in FoundLCD(t, input.iter)}
       /\ trace' = [trace EXCEPT
                      !.PrecedeR = Word!AddToPrecede(@, Range(t.RTrace), input.iter),
                      !.PrecedeW = Word!AddToPrecede(@, Range(t.WTrace), input.iter),
                      !.Present[table] = EmptyTable]

AnalyseNext ==
  /\ chained /\ ~ Broken
  /\ LET i == FinishedLoopIter + 1 IN
     /\ DoLCDA(LoopIterPresNum[i], Head(inputs), i)
     /\ PresIsFull' = [PresIsFull EXCEPT ![LoopIterPresNum[i]] = FALSE]
     /\ by' = [by EXCEPT ![i] = Head(inputs).iter]
     /\ FinishedLoopIter' = i
     /\ IF i < NumIters /\ LoopIterPresNum[i + 1] # NoTable
        THEN UNCHANGED <<chained, inputs>>
        ELSE chained' = FALSE /\ inputs' = Tail(inputs)
  /\ UNCHANGED <<owner, reading, LoopIterPresNum, LID, accesses, torn>>

-----------------------------------------------------------------------------
Init ==
  /\ owner \in Owners
  /\ trace = NoTrace
  /\ at = [p \in Proc |-> NextOwned(p, 0)]
  /\ task = [p \in Proc |-> "idle"] /\ item = [p \in Proc |-> NoItem]
  /\ ProcWPresNum = [p \in Proc |-> 0] /\ PresIsFull = [t \in Table |-> FALSE]
  /\ inInterval = [p \in Proc |-> FALSE]
  /\ ProcNextLidep = [p \in Proc |-> NoInput]
  /\ inputs = <<>> /\ chained = FALSE
  /\ LoopIterPresNum = [i \in Iter |-> NoTable] /\ FinishedLoopIter = 0
  /\ LID = {} /\ LCD = {}
  /\ accesses = [i \in Iter |-> <<>>] /\ torn = {} /\ by = [i \in Iter |-> 0]

ReadTask(p) ==
  \/ Check(p) \/ SeeNull(p) \/ Publish(p) \/ Fill(p) \/ Crash(p)
  \/ EndBuffer(p) \/ EndIteration(p) \/ TableFree(p)

Next ==
  \/ StartBatch \/ (\E p \in Proc : ReadTask(p)) \/ EndBatch
  \/ TakeInput \/ AnalyseNext

Spec == Init /\ [][Next]_vars
=============================================================================
