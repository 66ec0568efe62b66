--------------------------- MODULE HashTraceProofs ---------------------------
(***************************************************************************)
(* The invariants of HashTraceProps, for every number of loops, accesses,  *)
(* instructions, iterations and executions.                                *)
(***************************************************************************)
EXTENDS HashTraceProps, SequenceTheorems, TLAPS

IInv ==
  /\ TypeOK /\ FlagInv /\ HistoryInv /\ LatestKept
  /\ LCComplete /\ LCSound /\ LIExact /\ OutputComplete

\* The top of the stack is one of the active functions.
LEMMA TopType ==
  ASSUME TypeOK
  PROVE  /\ Len(frames) \in 1 .. MaxDepth
         /\ Len(frames) \in 1 .. Len(frames)
         /\ Top \in Frame
         /\ Top.loop \in Loops \cup {0} /\ Top.DDABeginCurFunc \in {0, 1}
<1>1. frames \in Seq(Frame) /\ Len(frames) \in 1 .. MaxDepth /\ MaxDepth \in Nat
  BY HashTraceAssumption DEF TypeOK, HashTraceAssumption
<1>2. Len(frames) \in 1 .. Len(frames)
  BY <1>1
<1>3. Top \in Frame
  BY <1>1, <1>2, ElementOfSeq DEF Top
<1>. QED  BY <1>1, <1>2, <1>3 DEF Frame

\* Replacing the top leaves the other functions as they are.
LEMMA SetTopType ==
  ASSUME TypeOK, NEW frame \in Frame, SetTop(frame)
  PROVE  /\ frames' \in Seq(Frame) /\ Len(frames') = Len(frames)
         /\ frames'[Len(frames)] = frame
         /\ \A k \in 1 .. Len(frames) : k # Len(frames) => frames'[k] = frames[k]
<1>1. frames \in Seq(Frame) /\ Len(frames) \in 1 .. Len(frames)
  BY TopType DEF TypeOK
<1>2. frames' = [frames EXCEPT ![Len(frames)] = frame]
  BY DEF SetTop
<1>. QED  BY <1>1, <1>2, ExceptSeq

\* The buffers after a loop has got one.
LEMMA BufferType ==
  ASSUME TypeOK, NEW loop \in Loops, AddNewProfilingBuffer(loop)
  PROVE  /\ MaxProfilingLoopID' \subseteq Loops /\ loop \in MaxProfilingLoopID'
         /\ MaxProfilingLoopID \subseteq MaxProfilingLoopID'
         /\ HashRWTrace' \in [Loops -> [Op -> [Nodes -> [Ids -> [{0, 1} -> Iter]]]]]
<1>1. EmptyTable \in [Op -> [Nodes -> [Ids -> [{0, 1} -> Iter]]]]
  BY HashTraceAssumption DEF EmptyTable, Absent, Iter, HashTraceAssumption
<1>. QED  BY <1>1 DEF AddNewProfilingBuffer, TypeOK

-----------------------------------------------------------------------------
\* The table is empty initially, and no loop is profiled.
THEOREM InitInv == Init => IInv
<1>. SUFFICES ASSUME Init PROVE IInv
  OBVIOUS
<1>. USE HashTraceAssumption DEF Init, HashTraceAssumption
<1>1. TypeOK
  <2>1. frames \in Seq(Frame) /\ Len(frames) \in 1 .. MaxDepth
    BY DEF Frame
  <2>2. HashRWTrace \in [Loops -> [Op -> [Nodes -> [Ids -> [{0, 1} -> Iter]]]]]
    BY DEF EmptyTable, Absent, Iter
  <2>3. LDDepResult \in [Loops -> [LID : SUBSET Dep, LCD : SUBSET LCDep]]
    BY DEF NoDeps
  <2>4. entries \in [Loops -> 0 .. MaxEntries] /\ ProfilingLoopIterID \in Iter
    BY DEF Iter
  <2>5. printed.done \in BOOLEAN /\ left \in BOOLEAN
    OBVIOUS
  <2>. QED  BY <2>1, <2>2, <2>3, <2>4, <2>5 DEF TypeOK
<1>2. FlagInv
  BY DEF FlagInv
<1>3. HistoryInv /\ LCComplete /\ OutputComplete
  BY DEF HistoryInv, LCComplete, OutputComplete
<1>4. LatestKept
  BY DEF LatestKept, Kept, AccessesOf, PresentOf, EmptyTable, Absent
<1>5. LCSound
  BY DEF LCSound, NoDeps
<1>6. LIExact
  BY DEF LIExact, NoDeps
<1>. QED  BY <1>1, <1>2, <1>3, <1>4, <1>5, <1>6 DEF IInv

-----------------------------------------------------------------------------
(***************************************************************************)
(* Loop control                                                            *)
(***************************************************************************)
\* The stack of a function that has been left: what Unwind makes of it.
LEMMA UnwindType ==
  ASSUME TypeOK, NEW k \in 1 .. Len(frames), NEW loop \in {0, frames[k].loop},
         frames' = Append(SubSeq(frames, 1, k - 1), [frames[k] EXCEPT !.loop = loop])
  PROVE  /\ frames' \in Seq(Frame) /\ Len(frames') = k
         /\ frames'[k] = [frames[k] EXCEPT !.loop = loop]
         /\ \A j \in 1 .. k - 1 : frames'[j] = frames[j]
<1>. DEFINE below == SubSeq(frames, 1, k - 1)
            frame == [frames[k] EXCEPT !.loop = loop]
<1>1. frames \in Seq(Frame) /\ Len(frames) \in Nat
  BY DEF TypeOK
<1>2. \A j \in 1 .. Len(frames) : frames[j] \in Frame
  BY <1>1, ElementOfSeq
<1>3. frame \in Frame
  BY <1>2 DEF Frame
<1>4. \A j \in 1 .. k - 1 : frames[j] \in Frame
  BY <1>1, <1>2
<1>5. /\ below \in Seq(Frame) /\ Len(below) = k - 1
      /\ \A j \in 1 .. k - 1 : below[j] = frames[j]
  <2>1. /\ below \in Seq(Frame)
        /\ Len(below) = IF 1 =< k - 1 THEN k - 1 - 1 + 1 ELSE 0
        /\ \A j \in 1 .. k - 1 - 1 + 1 : below[j] = frames[1 + j - 1]
    <3>1. ASSUME NEW m \in Int, NEW n \in Int, \A i \in m .. n : frames[i] \in Frame
          PROVE  /\ SubSeq(frames, m, n) \in Seq(Frame)
                 /\ Len(SubSeq(frames, m, n)) = IF m =< n THEN n - m + 1 ELSE 0
                 /\ \A i \in 1 .. n - m + 1 : SubSeq(frames, m, n)[i] = frames[m + i - 1]
      BY <3>1, SubSeqProperties
    <3>2. 1 \in Int /\ k - 1 \in Int
      BY <1>1
    <3>. QED  BY <1>4, <3>1, <3>2
  <2>. QED  BY <2>1, <1>1
<1>6. /\ Append(below, frame) \in Seq(Frame)
      /\ Len(Append(below, frame)) = Len(below) + 1
      /\ \A i \in 1 .. Len(below) : Append(below, frame)[i] = below[i]
      /\ Append(below, frame)[Len(below) + 1] = frame
  BY <1>3, <1>5, AppendProperties
<1>. QED  BY <1>1, <1>5, <1>6

\* The loop control keeps the types.
LEMMA ControlType ==
  ASSUME TypeOK,
         \/ \E loop \in Loops : EnterLoop(loop)
         \/ LoopBody \/ ExitLoop \/ Call \/ Return
         \/ \E k \in 1 .. MaxDepth : Unwind(k)
  PROVE  TypeOK'
<1>. USE HashTraceAssumption DEF HashTraceAssumption
<1>1. CASE \E loop \in Loops : EnterLoop(loop)
  <2>1. PICK loop \in Loops : EnterLoop(loop)
    BY <1>1
  <2>2. CASE DDAProfilingFlag = 0
    <3>1. [loop |-> loop, DDABeginCurFunc |-> 1] \in Frame
      BY DEF Frame
    <3>2. frames' \in Seq(Frame) /\ Len(frames') = Len(frames)
      BY <2>1, <2>2, <3>1, SetTopType DEF EnterLoop
    <3>3. /\ MaxProfilingLoopID' \subseteq Loops /\ loop \in MaxProfilingLoopID'
          /\ HashRWTrace' \in [Loops -> [Op -> [Nodes -> [Ids -> [{0, 1} -> Iter]]]]]
      BY <2>1, <2>2, BufferType DEF EnterLoop
    <3>4. entries' \in [Loops -> 0 .. MaxEntries] /\ entries'[loop] > 0
      <4>1. entries \in [Loops -> 0 .. MaxEntries] /\ MaxEntries \in Nat
        BY DEF TypeOK
      <4>2. entries[loop] \in 0 .. MaxEntries /\ entries[loop] < MaxEntries
        BY <4>1, <2>1, <2>2 DEF EnterLoop
      <4>3. entries' = [entries EXCEPT ![loop] = entries[loop] + 1]
        BY <2>1, <2>2 DEF EnterLoop
      <4>. QED  BY <4>1, <4>2, <4>3
    <3>5. DDAProfilingFlag' = loop /\ ProfilingLoopIterID' = 1 /\ 1 \in Iter
      BY <2>1, <2>2 DEF EnterLoop, Iter
    <3>. QED
      BY <2>1, <2>2, <3>2, <3>3, <3>4, <3>5 DEF EnterLoop, AddNewProfilingBuffer, TypeOK, history
  <2>3. CASE DDAProfilingFlag # 0
    <3>1. [Top EXCEPT !.loop = loop] \in Frame
      BY TopType DEF Frame
    <3>2. frames' \in Seq(Frame) /\ Len(frames') = Len(frames)
      BY <2>1, <2>3, <3>1, SetTopType DEF EnterLoop
    <3>. QED  BY <2>1, <2>3, <3>2 DEF EnterLoop, TypeOK, tables, history
  <2>. QED  BY <2>2, <2>3
<1>2. CASE LoopBody
  <2>1. ProfilingLoopIterID' \in Iter /\ ProfilingLoopIterID' >= ProfilingLoopIterID
    BY <1>2, TopType DEF LoopBody, TypeOK, Iter
  <2>2. DDAProfilingFlag' # 0 => ProfilingLoopIterID' > 0 /\ entries'[DDAProfilingFlag'] > 0
    BY <1>2, <2>1 DEF LoopBody, TypeOK, Iter
  <2>. QED  BY <1>2, <2>1, <2>2 DEF LoopBody, TypeOK, tables, history
<1>3. CASE ExitLoop
  <2>1. [loop |-> 0, DDABeginCurFunc |-> 0] \in Frame
    BY DEF Frame
  <2>2. frames' \in Seq(Frame) /\ Len(frames') = Len(frames)
    BY <1>3, <2>1, SetTopType DEF ExitLoop
  <2>. QED  BY <1>3, <2>2 DEF ExitLoop, TypeOK, tables, history
<1>4. CASE Call
  <2>1. [loop |-> 0, DDABeginCurFunc |-> 0] \in Frame
    BY DEF Frame
  <2>2. frames' \in Seq(Frame) /\ Len(frames') = Len(frames) + 1
    BY <1>4, <2>1, AppendProperties DEF Call, TypeOK
  <2>3. Len(frames') \in 1 .. MaxDepth
    BY <1>4, <2>2 DEF Call, TypeOK
  <2>. QED  BY <1>4, <2>2, <2>3 DEF Call, TypeOK, tables, history
<1>5. CASE Return
  <2>1. frames' \in Seq(Frame) /\ Len(frames') = Len(frames) - 1 /\ Len(frames) > 1
    BY <1>5 DEF Return, TypeOK
  <2>2. Len(frames') \in 1 .. MaxDepth
    BY <2>1 DEF TypeOK
  <2>. QED  BY <1>5, <2>1, <2>2 DEF Return, TypeOK, tables, history
<1>6. CASE \E k \in 1 .. MaxDepth : Unwind(k)
  <2>1. PICK k \in 1 .. Len(frames) : Unwind(k)
    BY <1>6 DEF Unwind
  <2>2. frames' \in Seq(Frame) /\ Len(frames') = k
    BY <2>1, UnwindType DEF Unwind
  <2>3. left' \in BOOLEAN
    BY <2>1 DEF Unwind, TypeOK
  <2>4. Len(frames') \in 1 .. MaxDepth
    BY <2>2 DEF TypeOK
  <2>. QED  BY <2>1, <2>2, <2>3, <2>4 DEF Unwind, TypeOK, tables, history
<1>. QED  BY <1>1, <1>2, <1>3, <1>4, <1>5, <1>6

\* FlagInv, action by action.
LEMMA ControlFlag ==
  ASSUME TypeOK, FlagInv,
         \/ \E loop \in Loops : EnterLoop(loop)
         \/ LoopBody \/ ExitLoop \/ Call \/ Return
         \/ \E k \in 1 .. MaxDepth : Unwind(k)
  PROVE  FlagInv'
<1>. USE HashTraceAssumption DEF HashTraceAssumption
<1>. SUFFICES ASSUME ~ left' PROVE FlagInv'
  BY DEF FlagInv
<1>0. ~ left
  BY DEF EnterLoop, LoopBody, ExitLoop, Call, Return, Unwind
<1>a. /\ \A k \in 1 .. Len(frames) :
           frames[k].DDABeginCurFunc = 1 =>
             DDAProfilingFlag # 0 /\ frames[k].loop = DDAProfilingFlag
      /\ \A j, k \in 1 .. Len(frames) :
           frames[j].DDABeginCurFunc = 1 /\ frames[k].DDABeginCurFunc = 1 => j = k
      /\ DDAProfilingFlag # 0 => \E k \in 1 .. Len(frames) : frames[k].DDABeginCurFunc = 1
  BY <1>0 DEF FlagInv
<1>b. /\ frames \in Seq(Frame) /\ Len(frames) \in Nat /\ Len(frames) \in 1 .. Len(frames)
      /\ Top \in Frame /\ Top = frames[Len(frames)]
  BY TopType DEF TypeOK, Top
<1>1. CASE \E loop \in Loops : EnterLoop(loop)
  <2>1. PICK loop \in Loops : EnterLoop(loop)
    BY <1>1
  <2>2. CASE DDAProfilingFlag = 0
    <3>1. [loop |-> loop, DDABeginCurFunc |-> 1] \in Frame
      BY DEF Frame
    <3>2. /\ Len(frames') = Len(frames)
          /\ frames'[Len(frames)] = [loop |-> loop, DDABeginCurFunc |-> 1]
          /\ \A k \in 1 .. Len(frames) : k # Len(frames) => frames'[k] = frames[k]
      BY <2>1, <2>2, <3>1, SetTopType DEF EnterLoop
    <3>3. DDAProfilingFlag' = loop /\ loop # 0
      BY <2>1, <2>2 DEF EnterLoop
    <3>4. \A k \in 1 .. Len(frames) : frames'[k].DDABeginCurFunc = 1 => k = Len(frames)
      BY <1>a, <2>2, <3>2
    <3>. QED  BY <1>b, <3>2, <3>3, <3>4 DEF FlagInv
  <2>3. CASE DDAProfilingFlag # 0
    <3>1. [Top EXCEPT !.loop = loop] \in Frame
      BY <1>b DEF Frame
    <3>2. /\ Len(frames') = Len(frames)
          /\ frames'[Len(frames)] = [Top EXCEPT !.loop = loop]
          /\ \A k \in 1 .. Len(frames) : k # Len(frames) => frames'[k] = frames[k]
      BY <2>1, <2>3, <3>1, SetTopType DEF EnterLoop
    <3>3. DDAProfilingFlag' = DDAProfilingFlag /\ Top.DDABeginCurFunc # 1
      BY <1>a, <1>b, <2>1, <2>3 DEF EnterLoop
    <3>4. \A k \in 1 .. Len(frames) :
            frames'[k].DDABeginCurFunc = 1 <=> frames[k].DDABeginCurFunc = 1
      BY <1>b, <3>2, <3>3 DEF Frame
    <3>5. \A k \in 1 .. Len(frames) :
            frames[k].DDABeginCurFunc = 1 => frames'[k] = frames[k]
      BY <1>b, <3>2, <3>3
    <3>. QED  BY <1>a, <3>2, <3>3, <3>4, <3>5 DEF FlagInv
  <2>. QED  BY <2>2, <2>3
<1>2. CASE LoopBody
  BY <1>2, <1>a DEF LoopBody, FlagInv
<1>3. CASE ExitLoop
  <2>1. [loop |-> 0, DDABeginCurFunc |-> 0] \in Frame
    BY DEF Frame
  <2>2. /\ Len(frames') = Len(frames)
        /\ frames'[Len(frames)] = [loop |-> 0, DDABeginCurFunc |-> 0]
        /\ \A k \in 1 .. Len(frames) : k # Len(frames) => frames'[k] = frames[k]
    BY <1>3, <2>1, SetTopType DEF ExitLoop
  <2>3. CASE Top.DDABeginCurFunc = 1
    <3>1. \A k \in 1 .. Len(frames) : frames'[k].DDABeginCurFunc # 1
      BY <1>a, <1>b, <2>2, <2>3
    <3>2. DDAProfilingFlag' = 0
      BY <1>3, <2>3 DEF ExitLoop
    <3>. QED  BY <2>2, <3>1, <3>2 DEF FlagInv
  <2>4. CASE Top.DDABeginCurFunc # 1
    <3>1. \A k \in 1 .. Len(frames) :
            frames'[k].DDABeginCurFunc = 1 <=> frames[k].DDABeginCurFunc = 1
      BY <1>b, <2>2, <2>4
    <3>2. DDAProfilingFlag' = DDAProfilingFlag
      BY <1>3, <2>4 DEF ExitLoop
    <3>3. \A k \in 1 .. Len(frames) :
            frames[k].DDABeginCurFunc = 1 => frames'[k] = frames[k]
      BY <1>b, <2>2, <2>4
    <3>. QED  BY <1>a, <2>2, <3>1, <3>2, <3>3 DEF FlagInv
  <2>. QED  BY <2>3, <2>4
<1>4. CASE Call
  <2>1. [loop |-> 0, DDABeginCurFunc |-> 0] \in Frame
    BY DEF Frame
  <2>2. /\ Len(frames') = Len(frames) + 1
        /\ \A k \in 1 .. Len(frames) : frames'[k] = frames[k]
        /\ frames'[Len(frames) + 1] = [loop |-> 0, DDABeginCurFunc |-> 0]
    BY <1>4, <1>b, <2>1, AppendProperties DEF Call
  <2>3. DDAProfilingFlag' = DDAProfilingFlag
    BY <1>4 DEF Call
  <2>4. \A k \in 1 .. Len(frames') : frames'[k].DDABeginCurFunc = 1 =>
          k \in 1 .. Len(frames) /\ frames'[k] = frames[k]
    BY <1>b, <2>2
  <2>5. \A k \in 1 .. Len(frames) : k \in 1 .. Len(frames')
    BY <1>b, <2>2
  <2>. QED  BY <1>a, <2>2, <2>3, <2>4, <2>5 DEF FlagInv
<1>5. CASE Return
  <2>1. /\ Len(frames') = Len(frames) - 1
        /\ \A k \in 1 .. Len(frames) - 1 : frames'[k] = frames[k]
    BY <1>5, <1>b DEF Return
  <2>2. Top.DDABeginCurFunc # 1 /\ DDAProfilingFlag' = DDAProfilingFlag
    BY <1>5, <1>a, <1>b DEF Return
  <2>3. \A k \in 1 .. Len(frames') : k \in 1 .. Len(frames) /\ frames'[k] = frames[k]
    BY <1>b, <2>1
  <2>4. \A k \in 1 .. Len(frames) : frames[k].DDABeginCurFunc = 1 => k \in 1 .. Len(frames')
    BY <1>b, <2>1, <2>2
  <2>. QED  BY <1>a, <2>2, <2>3, <2>4 DEF FlagInv
<1>6. CASE \E k \in 1 .. MaxDepth : Unwind(k)
  <2>1. PICK k \in 1 .. Len(frames) : Unwind(k)
    BY <1>6 DEF Unwind
  <2>2. PICK loop \in {0, frames[k].loop} :
          /\ frames' = Append(SubSeq(frames, 1, k - 1), [frames[k] EXCEPT !.loop = loop])
          /\ left' = (left \/ \E j \in k .. Len(frames) :
                                frames[j].DDABeginCurFunc = 1 /\ (j > k \/ loop = 0))
    BY <2>1 DEF Unwind
  <2>3. /\ Len(frames') = k
        /\ frames'[k] = [frames[k] EXCEPT !.loop = loop]
        /\ \A j \in 1 .. k - 1 : frames'[j] = frames[j]
    BY <2>2, UnwindType
  <2>4. DDAProfilingFlag' = DDAProfilingFlag
    BY <2>1 DEF Unwind
  <2>5. frames[k] \in Frame
    BY <1>b, ElementOfSeq
  <2>6. \A j \in 1 .. k : frames'[j].DDABeginCurFunc = 1 <=> frames[j].DDABeginCurFunc = 1
    BY <2>3, <2>5 DEF Frame
  <2>a. \A j \in k .. Len(frames) : ~ (frames[j].DDABeginCurFunc = 1 /\ (j > k \/ loop = 0))
    <3>1. ~ (left \/ \E j \in k .. Len(frames) :
                       frames[j].DDABeginCurFunc = 1 /\ (j > k \/ loop = 0))
      BY <2>2, Zenon
    <3>. QED  BY <3>1, Zenon
  <2>7. \A j \in 1 .. Len(frames) : frames[j].DDABeginCurFunc = 1 => j \in 1 .. k
    BY <2>a, <1>b
  <2>8. \A j \in 1 .. k : frames[j].DDABeginCurFunc = 1 => frames'[j] = frames[j]
    <3>1. ASSUME frames[k].DDABeginCurFunc = 1 PROVE frames'[k] = frames[k]
      <4>1. loop = frames[k].loop
        BY <3>1, <2>2, <2>a, <1>b
      <4>. QED  BY <4>1, <2>3, <2>5 DEF Frame
    <3>. QED  BY <3>1, <1>b, <2>3
  <2>9. \A j \in 1 .. k : j \in 1 .. Len(frames)
    BY <1>b
  <2>. QED  BY <1>a, <2>3, <2>4, <2>6, <2>7, <2>8, <2>9 DEF FlagInv
<1>. QED  BY <1>1, <1>2, <1>3, <1>4, <1>5, <1>6

\* Loop control leaves the tables and the history as they are, except that a loop
\* entered begins a new execution, and its table is made in the first.
LEMMA ControlStep ==
  ASSUME IInv,
         \/ \E loop \in Loops : EnterLoop(loop)
         \/ LoopBody \/ ExitLoop \/ Call \/ Return
         \/ \E k \in 1 .. MaxDepth : Unwind(k)
  PROVE  IInv'
<1>1. TypeOK' /\ FlagInv'
  BY ControlType, ControlFlag DEF IInv
<1>2. /\ UNCHANGED <<accesses, liPairs, LDDepResult, printed>>
      /\ ~ printed.done
  BY DEF EnterLoop, AddNewProfilingBuffer, LoopBody, ExitLoop, Call, Return, Unwind,
         tables, history, Running
<1>3. LCComplete' /\ OutputComplete' /\ LCSound'
  BY <1>2 DEF IInv, LCComplete, LCSound, OutputComplete, Nearest, Carried, Analyze
<1>4. CASE /\ UNCHANGED <<entries, HashRWTrace, MaxProfilingLoopID>>
           /\ DDAProfilingFlag' \in {DDAProfilingFlag, 0}
           /\ ProfilingLoopIterID' >= ProfilingLoopIterID
  <2>1. HistoryInv'
    <3>1. ASSUME NEW a \in accesses PROVE a.iter \in Nat /\ a.loop \in Loops /\ a.loop # 0
      BY HashTraceAssumption DEF IInv, TypeOK, AccessRecord, Iter, HashTraceAssumption
    <3>2. ProfilingLoopIterID \in Nat /\ ProfilingLoopIterID' \in Nat
      BY <1>1 DEF IInv, TypeOK, Iter
    <3>. QED  BY <1>2, <1>4, <3>1, <3>2 DEF IInv, HistoryInv
  <2>2. LatestKept'
    <3>1. ASSUME NEW l, NEW op, NEW node, NEW id
          PROVE  /\ AccessesOf(l, op, node, id)' = AccessesOf(l, op, node, id)
                 /\ PresentOf(l, op, node, id)' = PresentOf(l, op, node, id)
      BY <1>2, <1>4 DEF AccessesOf, PresentOf
    <3>. QED  BY <1>4, <3>1 DEF IInv, LatestKept
  <2>3. LIExact'
    BY <1>2, <1>4 DEF IInv, LIExact
  <2>. QED  BY <1>1, <1>3, <2>1, <2>2, <2>3 DEF IInv
<1>5. CASE \E loop \in Loops : EnterLoop(loop) /\ DDAProfilingFlag = 0
  <2>1. PICK loop \in Loops : EnterLoop(loop) /\ DDAProfilingFlag = 0
    BY <1>5
  <2>2. /\ entries' = [entries EXCEPT ![loop] = @ + 1]
        /\ DDAProfilingFlag' = loop
        /\ MaxProfilingLoopID' = MaxProfilingLoopID \cup {loop}
        /\ HashRWTrace' = IF loop \in MaxProfilingLoopID THEN HashRWTrace
                          ELSE [HashRWTrace EXCEPT ![loop] = EmptyTable]
    BY <2>1 DEF EnterLoop, AddNewProfilingBuffer
  <2>3. entries \in [Loops -> 0 .. MaxEntries] /\ MaxEntries \in Nat
    BY HashTraceAssumption DEF IInv, TypeOK, HashTraceAssumption
  <2>4. /\ entries'[loop] = entries[loop] + 1 /\ entries[loop] \in Nat
        /\ \A l \in Loops : l # loop => entries'[l] = entries[l]
    BY <2>2, <2>3
  <2>5. \A a \in accesses :
          /\ a.loop \in MaxProfilingLoopID /\ a.loop \in Loops /\ a.exec \in Nat
          /\ a.exec =< entries[a.loop]
    BY <2>3 DEF IInv, HistoryInv, TypeOK, AccessRecord
  <2>6. \A a \in accesses : a.loop = loop => a.exec < entries'[loop]
    BY <2>3, <2>4, <2>5
  <2>7. HistoryInv'
    BY <1>2, <2>2, <2>3, <2>4, <2>5, <2>6 DEF HistoryInv
  <2>8. LatestKept'
    <3>. SUFFICES ASSUME NEW l \in Loops, NEW op \in Op, NEW node \in Nodes, NEW id \in Ids
                  PROVE
           Kept(HashRWTrace'[l][op][node][id],
                AccessesOf(l, op, node, id)', PresentOf(l, op, node, id)')
      BY DEF LatestKept
    <3>1. CASE l = loop /\ loop \notin MaxProfilingLoopID
      <4>1. HashRWTrace'[l] = EmptyTable
        BY <2>2, <3>1 DEF IInv, TypeOK
      <4>2. HashRWTrace'[l][op][node][id] = Absent
        BY <4>1 DEF EmptyTable
      <4>3. \A a \in accesses' : a.loop # l
        BY <1>2, <2>5, <3>1
      <4>. QED  BY <4>2, <4>3 DEF Absent, Kept, AccessesOf, PresentOf
    <3>2. CASE ~ (l = loop /\ loop \notin MaxProfilingLoopID)
      <4>1. HashRWTrace'[l] = HashRWTrace[l]
        BY <2>2, <3>2 DEF IInv, TypeOK
      <4>2. CASE l = loop
        <5>1. \A a \in accesses' : a.loop = l => a.exec # entries'[l]
          BY <1>2, <2>4, <2>5, <2>6, <4>2
        <5>. QED  BY <1>2, <4>1, <5>1 DEF IInv, LatestKept, Kept, AccessesOf, PresentOf
      <4>3. CASE l # loop
        <5>1. entries'[l] = entries[l]
          BY <2>4, <4>3
        <5>. QED  BY <1>2, <4>1, <5>1 DEF IInv, LatestKept, Kept, AccessesOf, PresentOf
      <4>. QED  BY <4>2, <4>3
    <3>. QED  BY <3>1, <3>2
  <2>9. LIExact'
    <3>1. \A l \in Loops : entries'[l] =< 1 => entries[l] =< 1
      BY <2>3, <2>4
    <3>. QED  BY <1>2, <3>1 DEF IInv, LIExact
  <2>. QED  BY <1>1, <1>3, <2>7, <2>8, <2>9 DEF IInv
<1>6. \/ \E loop \in Loops : EnterLoop(loop) /\ DDAProfilingFlag = 0
      \/ /\ UNCHANGED <<entries, HashRWTrace, MaxProfilingLoopID>>
         /\ DDAProfilingFlag' \in {DDAProfilingFlag, 0}
         /\ ProfilingLoopIterID' >= ProfilingLoopIterID
  <2>1. ProfilingLoopIterID \in Nat /\ Top.DDABeginCurFunc \in {0, 1}
    BY TopType DEF IInv, TypeOK, Iter
  <2>2. ASSUME NEW loop \in Loops, EnterLoop(loop), DDAProfilingFlag # 0
        PROVE  /\ UNCHANGED <<entries, HashRWTrace, MaxProfilingLoopID>>
               /\ DDAProfilingFlag' = DDAProfilingFlag
               /\ ProfilingLoopIterID' = ProfilingLoopIterID
    BY <2>2 DEF EnterLoop, tables
  <2>3. ASSUME LoopBody \/ ExitLoop \/ Call \/ Return \/ \E k \in 1 .. MaxDepth : Unwind(k)
        PROVE  /\ UNCHANGED <<entries, HashRWTrace, MaxProfilingLoopID>>
               /\ DDAProfilingFlag' \in {DDAProfilingFlag, 0}
               /\ \/ ProfilingLoopIterID' = ProfilingLoopIterID
                  \/ ProfilingLoopIterID' = ProfilingLoopIterID + Top.DDABeginCurFunc
    BY <2>3 DEF LoopBody, ExitLoop, Call, Return, Unwind, tables
  <2>. QED  BY <2>1, <2>2, <2>3
<1>. QED  BY <1>4, <1>5, <1>6

-----------------------------------------------------------------------------
(***************************************************************************)
(* The checks                                                              *)
(***************************************************************************)
\* RWIterNo after an access: it has an iteration, the first is the present one, and
\* the second the last that is not, unless there was none.
LEMMA AddedProp ==
  ASSUME NEW no \in [{0, 1} -> Iter], ProfilingLoopIterID \in Iter \ {0}
  PROVE  /\ Added(no) \in [{0, 1} -> Iter]
         /\ Added(no)[0] = ProfilingLoopIterID
         /\ no[0] = 0 /\ no[1] = 0 => Added(no)[1] = ProfilingLoopIterID
         /\ no[0] # 0 /\ no[0] # ProfilingLoopIterID => Added(no)[1] = no[0]
         /\ no[0] = ProfilingLoopIterID => Added(no)[1] = no[1]
<1>1. no = Absent <=> no[0] = 0 /\ no[1] = 0
  BY DEF Absent
<1>. QED  BY <1>1 DEF Added, Iter

\* What is a loop-carried dependence of a new access, by the iterations kept.
LEMMA LoopCarriedProp ==
  ASSUME NEW type, NEW trace, NEW sink, NEW d
  PROVE  d \in LoopCarried(type, trace, sink) <=>
           \E src \in Ids :
             /\ trace[src] # Absent
             /\ \E iter \in CarriedFrom(trace[src]) :
                  d = [type |-> type, src |-> src, sink |-> sink,
                       dist |-> ProfilingLoopIterID - iter]
BY DEF LoopCarried

\* What is a loop-independent dependence of a new access.
LEMMA LoopIndependentProp ==
  ASSUME NEW type, NEW trace, NEW sink, NEW d
  PROVE  d \in LoopIndependent(type, trace, sink) <=>
           \E src \in Ids :
             /\ trace[src][0] = ProfilingLoopIterID
             /\ type = "Output" => src # sink
             /\ d = [type |-> type, src |-> src, sink |-> sink]
BY DEF LoopIndependent

\* What a check works on: the loop being profiled, the node of the access, its iteration.
LEMMA CheckFacts ==
  ASSUME TypeOK, NEW op \in Op, NEW access \in Accesses, NEW id \in Ids,
         NEW stackvar \in BOOLEAN, Check(op, access, id, stackvar)
  PROVE  LET loop == DDAProfilingFlag
             node == Node(access)
             this == Access(op, Node(access), id)
         IN /\ loop \in Loops /\ loop # 0 /\ loop \in MaxProfilingLoopID
            /\ node \in Nodes
            /\ this \in AccessRecord
            /\ accesses' = accesses \cup {this}
            /\ ProfilingLoopIterID \in Iter \ {0}
            /\ HashRWTrace' \in [Loops -> [Op -> [Nodes -> [Ids -> [{0, 1} -> Iter]]]]]
            /\ HashRWTrace'[loop][op][node][id] = Added(HashRWTrace[loop][op][node][id])
            /\ \A l \in Loops, o \in Op, n \in Nodes, i \in Ids :
                 <<l, o, n, i>> # <<loop, op, node, id>> =>
                   HashRWTrace'[l][o][n][i] = HashRWTrace[l][o][n][i]
            /\ UNCHANGED <<control, MaxProfilingLoopID, printed, entries, left>>
            /\ ~ printed.done
<1>. DEFINE loop == DDAProfilingFlag
            node == Node(access)
            this == Access(op, Node(access), id)
            old  == HashRWTrace[loop]
            table == [old EXCEPT ![op][node][id] = Added(@)]
<1>1. loop \in Loops /\ loop # 0 /\ loop \in MaxProfilingLoopID
  BY DEF Check, TypeOK
<1>2. node \in Nodes
  BY DEF Nodes
<1>3. ProfilingLoopIterID \in Iter \ {0} /\ entries[loop] \in 1 .. MaxEntries
  BY <1>1, HashTraceAssumption DEF TypeOK, Iter, HashTraceAssumption
<1>4. this \in AccessRecord
  BY <1>1, <1>2, <1>3 DEF AccessRecord, Access
<1>5. accesses' = accesses \cup {this}
  BY DEF Check, Access
<1>6. HashRWTrace' = [HashRWTrace EXCEPT ![loop] = table]
  BY DEF Check
<1>7. /\ HashRWTrace \in [Loops -> [Op -> [Nodes -> [Ids -> [{0, 1} -> Iter]]]]]
      /\ old \in [Op -> [Nodes -> [Ids -> [{0, 1} -> Iter]]]]
      /\ old[op][node][id] \in [{0, 1} -> Iter]
  BY <1>1, <1>2 DEF TypeOK
<1>8. Added(old[op][node][id]) \in [{0, 1} -> Iter]
  BY <1>3, <1>7, AddedProp
<1>9. /\ table \in [Op -> [Nodes -> [Ids -> [{0, 1} -> Iter]]]]
      /\ table[op][node][id] = Added(old[op][node][id])
      /\ \A o \in Op, n \in Nodes, i \in Ids :
           <<o, n, i>> # <<op, node, id>> => table[o][n][i] = old[o][n][i]
  BY <1>2, <1>7, <1>8
<1>10. /\ HashRWTrace' \in [Loops -> [Op -> [Nodes -> [Ids -> [{0, 1} -> Iter]]]]]
       /\ HashRWTrace'[loop] = table
       /\ \A l \in Loops : l # loop => HashRWTrace'[l] = HashRWTrace[l]
  <2>. HIDE DEF table
  <2>. QED  BY <1>1, <1>6, <1>7, <1>9
<1>11. \A l \in Loops, o \in Op, n \in Nodes, i \in Ids :
         <<l, o, n, i>> # <<loop, op, node, id>> =>
           HashRWTrace'[l][o][n][i] = HashRWTrace[l][o][n][i]
  <2>. HIDE DEF table
  <2>. QED  BY <1>9, <1>10
<1>12. UNCHANGED <<control, MaxProfilingLoopID, printed, entries, left>> /\ ~ printed.done
  BY DEF Check, Running
<1>. QED
  <2>. HIDE DEF table
  <2>. QED  BY <1>1, <1>2, <1>3, <1>4, <1>5, <1>9, <1>10, <1>11, <1>12

\* The dependences a check adds.
LIDOf(op, access, id) ==
  UNION {LoopIndependent(a.type, HashRWTrace'[DDAProfilingFlag][a.with][Node(access)], id) :
           a \in Analyze(op)}
LCDOf(op, access, id) ==
  UNION {LoopCarried(a.type, HashRWTrace'[DDAProfilingFlag][a.with][Node(access)], id) :
           a \in Analyze(op)}
LIPairsOf(op, access, id) ==
  UNION {{[loop |-> DDAProfilingFlag, type |-> a.type, src |-> src, sink |-> id] :
            src \in {i \in Ids : /\ Access(a.with, Node(access), i) \in accesses
                                 /\ a.type = "Output" => i # id}} :
         a \in Analyze(op)}

\* A check adds the dependences of its access to those of the loop.
LEMMA CheckDeps ==
  ASSUME TypeOK, NEW op \in Op, NEW access \in Accesses, NEW id \in Ids,
         NEW stackvar \in BOOLEAN, Check(op, access, id, stackvar)
  PROVE  /\ LDDepResult'[DDAProfilingFlag].LID =
              LDDepResult[DDAProfilingFlag].LID \cup LIDOf(op, access, id)
         /\ LDDepResult'[DDAProfilingFlag].LCD =
              LDDepResult[DDAProfilingFlag].LCD \cup LCDOf(op, access, id)
         /\ \A l \in Loops : l # DDAProfilingFlag => LDDepResult'[l] = LDDepResult[l]
         /\ liPairs' = liPairs \cup LIPairsOf(op, access, id)
         /\ LDDepResult' \in [Loops -> [LID : SUBSET Dep, LCD : SUBSET LCDep]]
<1>. DEFINE loop == DDAProfilingFlag
            node == Node(access)
            this == Access(op, Node(access), id)
            table == HashRWTrace'[loop]
            LID(a) == LoopIndependent(a.type, table[a.with][node], id)
            LCD(a) == LoopCarried(a.type, table[a.with][node], id)
            deps == [LID |-> LDDepResult[loop].LID \cup UNION {LID(a) : a \in Analyze(op)},
                     LCD |-> LDDepResult[loop].LCD \cup UNION {LCD(a) : a \in Analyze(op)}]
<1>1. loop \in Loops /\ ProfilingLoopIterID \in Iter
  BY CheckFacts DEF TypeOK
<1>2. LDDepResult \in [Loops -> [LID : SUBSET Dep, LCD : SUBSET LCDep]]
  BY DEF TypeOK
<1>4. table \in [Op -> [Nodes -> [Ids -> [{0, 1} -> Iter]]]]
  BY <1>1, CheckFacts
<1>5. LDDepResult' = [LDDepResult EXCEPT ![loop].LID = @ \cup UNION {LID(a) : a \in Analyze(op)},
                                         ![loop].LCD = @ \cup UNION {LCD(a) : a \in Analyze(op)}]
  BY DEF Check
<1>6. LDDepResult'[loop] = deps
  <2>. HIDE DEF table, LID, LCD
  <2>. QED  BY <1>1, <1>2, <1>5
<1>7. \A l \in Loops : l # loop => LDDepResult'[l] = LDDepResult[l]
  BY <1>1, <1>2, <1>5
<1>8. \A a \in Analyze(op) : LID(a) \subseteq Dep /\ LCD(a) \subseteq LCDep
  <2>1. Node(access) \in Nodes
    BY CheckFacts
  <2>2. \A a \in Analyze(op) : a.type \in DepType /\ a.with \in Op
    BY DEF Analyze, DepType, Op
  <2>3. ASSUME NEW a \in Analyze(op) PROVE LID(a) \subseteq Dep
    BY <2>2, LoopIndependentProp DEF Dep
  <2>4. ASSUME NEW a \in Analyze(op) PROVE LCD(a) \subseteq LCDep
    <3>1. ASSUME NEW src \in Ids, NEW iter \in CarriedFrom(table[a.with][node][src])
          PROVE  ProfilingLoopIterID - iter \in Int
      <4>. HIDE DEF table
      <4>1. table[a.with][node][src] \in [{0, 1} -> Iter]
        BY <1>4, <2>1, <2>2
      <4>2. iter \in Iter
        BY <3>1, <4>1 DEF CarriedFrom
      <4>. QED  BY <1>1, <4>2, HashTraceAssumption DEF Iter, HashTraceAssumption
    <3>2. SUFFICES ASSUME NEW d \in LCD(a) PROVE d \in LCDep
      OBVIOUS
    <3>3. PICK src \in Ids : \E iter \in CarriedFrom(table[a.with][node][src]) :
            d = [type |-> a.type, src |-> src, sink |-> id, dist |-> ProfilingLoopIterID - iter]
      <4>. HIDE DEF table
      <4>. QED  BY <3>2, LoopCarriedProp
    <3>. QED  BY <2>2, <3>1, <3>3 DEF LCDep
  <2>. QED  BY <2>3, <2>4
<1>9. deps \in [LID : SUBSET Dep, LCD : SUBSET LCDep]
  <2>. HIDE DEF LID, LCD
  <2>. QED  BY <1>1, <1>2, <1>8
<1>10. LDDepResult' \in [Loops -> [LID : SUBSET Dep, LCD : SUBSET LCDep]]
  <2>1. DOMAIN LDDepResult' = Loops /\ LDDepResult' = [l \in Loops |-> LDDepResult'[l]]
    <3>. HIDE DEF LID, LCD, table
    <3>. QED  BY <1>2, <1>5
  <2>. HIDE DEF deps
  <2>. QED  BY <1>2, <1>6, <1>7, <1>9, <2>1
<1>11. liPairs' = liPairs \cup LIPairsOf(op, access, id)
  BY Zenon DEF Check, LIPairsOf
<1>12. /\ LDDepResult'[loop].LID = LDDepResult[loop].LID \cup UNION {LID(a) : a \in Analyze(op)}
       /\ LDDepResult'[loop].LCD = LDDepResult[loop].LCD \cup UNION {LCD(a) : a \in Analyze(op)}
  <2>. HIDE DEF LID, LCD
  <2>. QED  BY <1>6
<1>. QED  BY <1>7, <1>10, <1>11, <1>12, Zenon DEF LIDOf, LCDOf

\* The types, the stack and the history after a check.
LEMMA CheckType ==
  ASSUME TypeOK, FlagInv, HistoryInv, NEW op \in Op, NEW access \in Accesses, NEW id \in Ids,
         NEW stackvar \in BOOLEAN, Check(op, access, id, stackvar)
  PROVE  TypeOK' /\ FlagInv' /\ HistoryInv'
<1>1. TypeOK'
  <2>1. /\ UNCHANGED <<control, MaxProfilingLoopID, printed, entries, left>>
        /\ accesses' \subseteq AccessRecord
        /\ HashRWTrace' \in [Loops -> [Op -> [Nodes -> [Ids -> [{0, 1} -> Iter]]]]]
    BY CheckFacts DEF TypeOK
  <2>2. LDDepResult' \in [Loops -> [LID : SUBSET Dep, LCD : SUBSET LCDep]]
    BY CheckDeps
  <2>. QED  BY <2>1, <2>2 DEF TypeOK, control
<1>2. FlagInv'
  BY CheckFacts DEF FlagInv, control
<1>3. HistoryInv'
  <2>. DEFINE this == Access(op, Node(access), id)
  <2>1. /\ accesses' = accesses \cup {this} /\ DDAProfilingFlag \in MaxProfilingLoopID
        /\ UNCHANGED <<control, MaxProfilingLoopID, entries>>
        /\ entries[DDAProfilingFlag] \in Int /\ ProfilingLoopIterID \in Int
    BY CheckFacts DEF TypeOK, Iter
  <2>. QED  BY <2>1 DEF HistoryInv, Access, control
<1>. QED  BY <1>1, <1>2, <1>3

\* The node keeps the two last iterations of every instruction.
LEMMA CheckLatest ==
  ASSUME TypeOK, FlagInv, HistoryInv, LatestKept,
         NEW op \in Op, NEW access \in Accesses, NEW id \in Ids,
         NEW stackvar \in BOOLEAN, Check(op, access, id, stackvar)
  PROVE  LatestKept'
<1>. DEFINE loop == DDAProfilingFlag
            node == Node(access)
            this == Access(op, Node(access), id)
            IterID == ProfilingLoopIterID
            old == HashRWTrace[loop][op][node][id]
<1>1. /\ loop \in Loops /\ node \in Nodes
      /\ accesses' = accesses \cup {this} /\ entries' = entries
      /\ IterID \in Iter \ {0}
      /\ HashRWTrace'[loop][op][node][id] = Added(old)
      /\ \A l \in Loops, o \in Op, n \in Nodes, i \in Ids :
           <<l, o, n, i>> # <<loop, op, node, id>> =>
             HashRWTrace'[l][o][n][i] = HashRWTrace[l][o][n][i]
  BY CheckFacts
<1>2. old \in [{0, 1} -> Iter]
  BY <1>1 DEF TypeOK
<1>. SUFFICES ASSUME NEW l \in Loops, NEW o \in Op, NEW n \in Nodes, NEW i \in Ids
              PROVE
                Kept(HashRWTrace'[l][o][n][i], AccessesOf(l, o, n, i)', PresentOf(l, o, n, i)')
  BY DEF LatestKept
<1>3. CASE <<l, o, n, i>> # <<loop, op, node, id>>
  <2>1. HashRWTrace'[l][o][n][i] = HashRWTrace[l][o][n][i]
    BY <1>1, <1>3
  <2>2. ~ (this.loop = l /\ this.op = o /\ this.node = n /\ this.id = i)
    BY <1>3 DEF Access
  <2>3. AccessesOf(l, o, n, i)' = AccessesOf(l, o, n, i)
    BY <1>1, <2>2 DEF AccessesOf
  <2>4. PresentOf(l, o, n, i)' = PresentOf(l, o, n, i)
    BY <1>1, <2>3 DEF PresentOf
  <2>. QED  BY <2>1, <2>3, <2>4 DEF LatestKept
<1>4. CASE <<l, o, n, i>> = <<loop, op, node, id>>
  <2>. DEFINE Was  == AccessesOf(loop, op, node, id)
              WasNow == PresentOf(loop, op, node, id)
              new == Added(old)
              Of  == Was \cup {this}
              Now == WasNow \cup {this}
  <2>1. /\ this.loop = loop /\ this.op = op /\ this.node = node /\ this.id = id
        /\ this.iter = IterID /\ this.exec = entries[loop]
    BY DEF Access
  <2>2. AccessesOf(l, o, n, i)' = Of /\ PresentOf(l, o, n, i)' = Now
    <3>. HIDE DEF this
    <3>. QED  BY <1>1, <1>4, <2>1 DEF AccessesOf, PresentOf
  <2>3. HashRWTrace'[l][o][n][i] = new
    BY <1>1, <1>4
  <2>4. Kept(old, Was, WasNow)
    BY <1>1 DEF LatestKept
  <2>5. \A a \in WasNow : a.iter \in Nat /\ a.iter =< IterID
    <3>1. loop # 0 /\ accesses \subseteq AccessRecord
      BY CheckFacts DEF TypeOK
    <3>. QED  BY <3>1 DEF HistoryInv, AccessRecord, Iter, AccessesOf, PresentOf
  <2>6. /\ new \in [{0, 1} -> Iter] /\ new[0] = IterID
        /\ old[0] = 0 /\ old[1] = 0 => new[1] = IterID
        /\ old[0] # 0 /\ old[0] # IterID => new[1] = old[0]
        /\ old[0] = IterID => new[1] = old[1]
    BY <1>1, <1>2, AddedProp
  <2>7. Kept(new, Of, Now)
    <3>0. IterID \in Nat /\ IterID # 0 /\ old[0] \in Nat /\ old[1] \in Nat /\ new[0] \in Nat
      BY <1>1, <1>2, <2>6 DEF Iter
    <3>. HIDE DEF new, old, this, IterID
    <3>1. \A k \in {0, 1} : \E a \in Of : a.iter = new[k]
      BY <2>1, <2>4, <2>6 DEF Kept
    <3>2. \A a \in Now : a.iter =< new[0] /\ \E b \in Now : b.iter = new[0]
      BY <2>1, <2>5, <2>6, <3>0
    <3>3. ASSUME NEW a \in Now, a.iter < new[0]
          PROVE  a.iter =< new[1] /\ new[1] < new[0] /\ \E b \in Now : b.iter = new[1]
      <4>1. a \in WasNow
        BY <3>0, <3>3, <2>1, <2>6
      <4>2. PICK b \in WasNow : b.iter = old[0]
        BY <4>1, <2>4 DEF Kept
      <4>3. old[0] # 0 /\ a.iter =< old[0] /\ old[0] =< IterID
        BY <4>1, <4>2, <2>4, <2>5 DEF Kept, PresentOf
      <4>4. CASE old[0] = IterID
        BY <4>1, <4>4, <2>4, <2>6, <3>3 DEF Kept
      <4>5. CASE old[0] # IterID
        BY <3>0, <4>2, <4>3, <4>5, <2>6
      <4>. QED  BY <4>4, <4>5
    <3>. QED  BY <2>6, <3>0, <3>1, <3>2, <3>3 DEF Kept
  <2>. HIDE DEF new, Of, Now
  <2>. QED  BY <2>2, <2>3, <2>7
<1>. QED  BY <1>3, <1>4

\* What the analysis compares an access with are the kinds of dependences there are.
LEMMA AnalyzeProp ==
  ASSUME NEW op \in Op, NEW a \in Analyze(op)
  PROVE  /\ a.with \in Op /\ a.type \in DepType
         /\ a = [type |-> a.type, with |-> a.with]
         /\ a.type # "Output" => a.with # op
         /\ a.type = "Output" => a.with = op
BY DEF Analyze, Op, DepType

\* The present iterations of an instruction that has accessed the node: the loop over
\* its RWIterNo stops at the last iteration before this one.
LEMMA CarriedFromProp ==
  ASSUME TypeOK', HistoryInv', LatestKept',
         NEW loop \in Loops, DDAProfilingFlag' = loop, loop # 0,
         UNCHANGED ProfilingLoopIterID,
         NEW op \in Op, NEW node \in Nodes, NEW id \in Ids,
         NEW a \in accesses',
         a.loop = loop, a.exec = entries'[loop], a.op = op, a.node = node, a.id = id
  PROVE  /\ HashRWTrace'[loop][op][node][id] # Absent
         /\ a.iter = ProfilingLoopIterID =>
              HashRWTrace'[loop][op][node][id][0] = ProfilingLoopIterID
         /\ a.iter < ProfilingLoopIterID =>
              \E b \in accesses' :
                /\ b.loop = loop /\ b.exec = entries'[loop]
                /\ b.op = op /\ b.node = node /\ b.id = id
                /\ a.iter =< b.iter /\ b.iter < ProfilingLoopIterID
                /\ b.iter \in CarriedFrom(HashRWTrace'[loop][op][node][id])
<1>. DEFINE no == HashRWTrace'[loop][op][node][id]
            Of == AccessesOf(loop, op, node, id)'
            Now == PresentOf(loop, op, node, id)'
            IterID == ProfilingLoopIterID
<1>1. loop \in Loops /\ no \in [{0, 1} -> Iter] /\ IterID \in Nat
  BY DEF TypeOK, Iter
<1>2. Kept(no, Of, Now)
  BY <1>1 DEF LatestKept
<1>3. /\ Now \subseteq Of /\ Of \subseteq accesses' /\ a \in Now
      /\ \A b \in Now : /\ b.loop = loop /\ b.exec = entries'[loop]
                        /\ b.op = op /\ b.node = node /\ b.id = id
  BY DEF AccessesOf, PresentOf
<1>4. \A b \in Now : b.iter \in Nat /\ b.iter =< IterID
  <2>1. \A b \in Now : b \in AccessRecord /\ b.loop = loop /\ b.exec = entries'[loop]
    BY <1>3 DEF AccessesOf, PresentOf, TypeOK
  <2>. QED  BY <1>3, <2>1 DEF HistoryInv, AccessRecord, Iter
<1>5. no[0] \in Nat /\ no[1] \in Nat
  BY <1>1 DEF Iter
<1>6. a \in Now /\ a.iter =< no[0] /\ \E b \in Now : b.iter = no[0]
  BY <1>2, <1>3 DEF Kept
<1>7. PICK b \in Now : b.iter = no[0]
  BY <1>6
<1>8. no[0] # 0 /\ no # Absent
  BY <1>2, <1>3, <1>6 DEF Kept, Absent
<1>9. a.iter = IterID => no[0] = IterID
  BY <1>4, <1>5, <1>6, <1>7
<1>10. ASSUME a.iter < IterID
       PROVE  \E c \in Now :
                /\ a.iter =< c.iter /\ c.iter < IterID /\ c.iter \in CarriedFrom(no)
  <2>. HIDE DEF no, Now, Of
  <2>1. CASE no[0] = IterID
    <3>1. a.iter =< no[1] /\ no[1] < no[0] /\ \E c \in Now : c.iter = no[1]
      BY <1>2, <1>6, <1>10, <2>1 DEF Kept
    <3>. QED  BY <1>1, <1>5, <2>1, <3>1 DEF CarriedFrom
  <2>2. CASE no[0] # IterID
    BY <1>1, <1>4, <1>5, <1>6, <1>7, <2>2 DEF CarriedFrom
  <2>. QED  BY <2>1, <2>2
<1>. QED  BY <1>3, <1>8, <1>9, <1>10

\* No loop-carried dependence is lost by a check.
LEMMA CheckComplete ==
  ASSUME TypeOK, TypeOK', HistoryInv, HistoryInv', LatestKept', LCComplete,
         NEW op \in Op, NEW access \in Accesses, NEW id \in Ids,
         NEW stackvar \in BOOLEAN, Check(op, access, id, stackvar)
  PROVE  LCComplete'
<1>. DEFINE this == Access(op, Node(access), id)
            IterID == ProfilingLoopIterID
<1>0. PICK loop \in Loops, node \in Nodes : loop = DDAProfilingFlag /\ node = Node(access)
  BY CheckFacts
<1>1. /\ loop = DDAProfilingFlag /\ loop \in Loops /\ loop # 0 /\ node \in Nodes
      /\ accesses' = accesses \cup {this} /\ this \in AccessRecord
      /\ UNCHANGED <<DDAProfilingFlag, ProfilingLoopIterID, entries>>
  BY <1>0, CheckFacts DEF control
<1>2. /\ LDDepResult'[loop].LCD = LDDepResult[loop].LCD \cup LCDOf(op, access, id)
      /\ \A l \in Loops : l # loop => LDDepResult'[l] = LDDepResult[l]
  BY <1>0, CheckDeps
<1>3. accesses \subseteq AccessRecord /\ accesses' \subseteq AccessRecord
  BY <1>1 DEF TypeOK
<1>4. /\ this.loop = loop /\ this.exec = entries[loop] /\ this.iter = IterID
      /\ this.op = op /\ this.node = node /\ this.id = id
  BY <1>0 DEF Access
<1>. SUFFICES ASSUME NEW a \in accesses', NEW b \in accesses', Nearest(a, b)'
              PROVE  Carried(a, b) \subseteq LDDepResult'[b.loop].LCD
  BY DEF LCComplete, Carried, Analyze
<1>5. /\ a.loop = b.loop /\ a.exec = b.exec /\ a.node = b.node /\ a.iter < b.iter
      /\ \A c \in accesses' :
           c.loop = a.loop /\ c.exec = a.exec /\ c.node = a.node /\ c.op = a.op /\ c.id = a.id =>
             ~ (a.iter < c.iter /\ c.iter < b.iter)
  BY DEF Nearest
<1>6. /\ a.iter \in Nat /\ b.iter \in Nat /\ a.op \in Op /\ a.id \in Ids /\ a.node \in Nodes
      /\ b.loop \in Loops
  BY <1>3 DEF AccessRecord, Iter
<1>7. CASE a \in accesses /\ b \in accesses
  <2>1. Nearest(a, b)
    BY <1>1, <1>5 DEF Nearest
  <2>2. Carried(a, b) \subseteq LDDepResult[b.loop].LCD
    BY <1>7, <2>1 DEF LCComplete
  <2>. QED  BY <1>2, <1>6, <2>2
<1>8. CASE b = this
  <2>1. a.loop = loop /\ a.exec = entries'[loop] /\ a.node = node
    BY <1>1, <1>4, <1>5, <1>8
  <2>2. a.iter < IterID
    BY <1>4, <1>5, <1>8
  <2>. DEFINE no == HashRWTrace'[loop][a.op][node][a.id]
  <2>3. no # Absent /\ \E c \in accesses' :
          /\ c.loop = loop /\ c.exec = entries'[loop]
          /\ c.op = a.op /\ c.node = node /\ c.id = a.id
          /\ a.iter =< c.iter /\ c.iter < IterID /\ c.iter \in CarriedFrom(no)
    <3>1. DDAProfilingFlag' = loop /\ loop # 0 /\ UNCHANGED ProfilingLoopIterID
      BY <1>1
    <3>. QED  BY <1>6, <2>1, <2>2, <3>1, CarriedFromProp
  <2>4. a.iter \in CarriedFrom(no)
    <3>1. PICK c \in accesses' :
            /\ c.loop = loop /\ c.exec = entries'[loop]
            /\ c.op = a.op /\ c.node = node /\ c.id = a.id
            /\ a.iter =< c.iter /\ c.iter < IterID /\ c.iter \in CarriedFrom(no)
      BY <2>3
    <3>2. c.iter \in Nat
      BY <1>3 DEF AccessRecord, Iter
    <3>3. ~ (a.iter < c.iter /\ c.iter < b.iter)
      BY <1>5, <2>1, <3>1
    <3>. QED  BY <1>4, <1>6, <1>8, <3>1, <3>2, <3>3
  <2>5. ASSUME NEW t \in Analyze(op), t.with = a.op
        PROVE  [type |-> t.type, src |-> a.id, sink |-> id, dist |-> IterID - a.iter]
                 \in LCDOf(op, access, id)
    <3>. DEFINE d == [type |-> t.type, src |-> a.id, sink |-> id, dist |-> IterID - a.iter]
    <3>1. d \in LoopCarried(t.type, HashRWTrace'[loop][t.with][node], id)
      BY <1>6, <2>3, <2>4, <2>5, LoopCarriedProp
    <3>2. d \in LCDOf(op, access, id)
      <4>. HIDE DEF d
      <4>. QED  BY <1>0, <3>1 DEF LCDOf
    <3>. QED  BY <3>2
  <2>6. Carried(a, b) \subseteq LCDOf(op, access, id)
    <3>. QED  BY <1>4, <1>8, <2>5 DEF Carried
  <2>7. b.loop = loop
    BY <1>4, <1>8
  <2>. HIDE DEF this
  <2>8. LDDepResult'[b.loop].LCD = LDDepResult[b.loop].LCD \cup LCDOf(op, access, id)
    BY <1>2, <2>7
  <2>. QED  BY <2>6, <2>8
<1>9. CASE a = this /\ b \in accesses
  <2>. HIDE DEF this
  <2>1. b.loop = DDAProfilingFlag /\ b.exec = entries[b.loop] /\ b.iter > IterID
    BY <1>1, <1>4, <1>5, <1>6, <1>9
  <2>2. b.iter =< IterID
    BY <1>9, <2>1 DEF HistoryInv
  <2>. QED  BY <1>6, <2>1, <2>2 DEF TypeOK, Iter
<1>. QED
  <2>. HIDE DEF this
  <2>. QED  BY <1>1, <1>7, <1>8, <1>9

\* The iterations kept are of accesses to the node.
LEMMA KeptAccess ==
  ASSUME TypeOK', LatestKept', NEW loop \in Loops, NEW op \in Op, NEW node \in Nodes,
         NEW id \in Ids, NEW k \in {0, 1}, HashRWTrace'[loop][op][node][id] # Absent
  PROVE  \E a \in accesses' :
           /\ a.loop = loop /\ a.op = op /\ a.node = node /\ a.id = id
           /\ a.iter = HashRWTrace'[loop][op][node][id][k]
<1>. DEFINE no == HashRWTrace'[loop][op][node][id]
            Of == AccessesOf(loop, op, node, id)'
            Now == PresentOf(loop, op, node, id)'
<1>1. no \in [{0, 1} -> Iter]
  BY DEF TypeOK
<1>2. Kept(no, Of, Now)
  BY DEF LatestKept
<1>3. no[0] # 0
  BY <1>1, <1>2 DEF Kept, Absent
<1>4. \A a \in Of : a \in accesses' /\ a.loop = loop /\ a.op = op /\ a.node = node /\ a.id = id
  BY DEF AccessesOf
<1>5. PICK a \in Of : a.iter = no[k]
  BY <1>2, <1>3 DEF Kept
<1>. QED  BY <1>4, <1>5

\* A loop-carried dependence a check adds is one of the program.
LEMMA CheckSound ==
  ASSUME TypeOK, TypeOK', HistoryInv', LatestKept', LCSound,
         NEW op \in Op, NEW access \in Accesses, NEW id \in Ids,
         NEW stackvar \in BOOLEAN, Check(op, access, id, stackvar)
  PROVE  LCSound'
<1>. DEFINE this == Access(op, Node(access), id)
            IterID == ProfilingLoopIterID
<1>0. PICK loop \in Loops, node \in Nodes : loop = DDAProfilingFlag /\ node = Node(access)
  BY CheckFacts
<1>1. /\ loop = DDAProfilingFlag /\ loop \in Loops /\ loop # 0 /\ node \in Nodes
      /\ accesses' = accesses \cup {this} /\ this \in AccessRecord /\ IterID \in Nat
      /\ UNCHANGED <<DDAProfilingFlag, ProfilingLoopIterID, entries>>
  BY <1>0, CheckFacts DEF control, Iter
<1>2. /\ LDDepResult'[loop].LCD = LDDepResult[loop].LCD \cup LCDOf(op, access, id)
      /\ \A l \in Loops : l # loop => LDDepResult'[l] = LDDepResult[l]
  BY <1>0, CheckDeps
<1>3. accesses' \subseteq AccessRecord /\ accesses \subseteq accesses'
  BY <1>1 DEF TypeOK
<1>4. /\ this.loop = loop /\ this.exec = entries[loop] /\ this.iter = IterID
      /\ this.op = op /\ this.node = node /\ this.id = id
  BY <1>0 DEF Access
<1>. SUFFICES ASSUME NEW l \in Loops, NEW d \in LDDepResult'[l].LCD
              PROVE  \E a, b \in accesses' :
                       /\ a.loop = l /\ b.loop = l /\ a.node = b.node
                       /\ d \in Carried(a, b) /\ d.dist # 0
                       /\ (a.exec = b.exec /\ d.dist > 0) \/ a.exec < b.exec
  BY DEF LCSound, Carried, Analyze
<1>5. CASE d \in LDDepResult[l].LCD
  <2>1. PICK a \in accesses, b \in accesses :
          /\ a.loop = l /\ b.loop = l /\ a.node = b.node
          /\ d \in Carried(a, b) /\ d.dist # 0
          /\ (a.exec = b.exec /\ d.dist > 0) \/ a.exec < b.exec
    BY <1>5 DEF LCSound
  <2>. HIDE DEF this
  <2>. QED  BY <1>3, <2>1
<1>6. CASE d \notin LDDepResult[l].LCD
  <2>1. l = loop /\ d \in LCDOf(op, access, id)
    BY <1>2, <1>6
  <2>2. PICK t \in Analyze(op) : d \in LoopCarried(t.type, HashRWTrace'[loop][t.with][node], id)
    BY <1>0, <2>1 DEF LCDOf
  <2>3. t.with \in Op
    BY AnalyzeProp
  <2>4. PICK src \in Ids :
          /\ HashRWTrace'[loop][t.with][node][src] # Absent
          /\ \E iter \in CarriedFrom(HashRWTrace'[loop][t.with][node][src]) :
               d = [type |-> t.type, src |-> src, sink |-> id, dist |-> IterID - iter]
    BY <2>2, LoopCarriedProp
  <2>. DEFINE no == HashRWTrace'[loop][t.with][node][src]
  <2>5. PICK iter \in CarriedFrom(no) :
          d = [type |-> t.type, src |-> src, sink |-> id, dist |-> IterID - iter]
    BY <2>4
  <2>6. PICK k \in {0, 1} : iter = no[k] /\ iter # IterID
    BY <2>5 DEF CarriedFrom
  <2>7. PICK a \in accesses' :
          /\ a.loop = loop /\ a.op = t.with /\ a.node = node /\ a.id = src /\ a.iter = no[k]
    BY <1>1, <2>3, <2>4, KeptAccess
  <2>8. /\ a.iter \in Nat /\ a.exec \in Nat /\ entries[loop] \in Nat
        /\ a.exec =< entries[loop]
        /\ a.exec = entries[loop] => a.iter =< IterID
    <3>1. a \in AccessRecord /\ entries[loop] \in Nat
      BY <1>3, <2>7 DEF TypeOK
    <3>. QED  BY <1>1, <2>7, <3>1 DEF HistoryInv, AccessRecord, Iter
  <2>9. d \in Carried(a, this)
    <3>. HIDE DEF no, this
    <3>. QED  BY <1>4, <2>5, <2>6, <2>7 DEF Carried
  <2>10. d.dist = IterID - a.iter /\ a.iter # IterID
    BY <2>5, <2>6, <2>7
  <2>11. /\ d.dist # 0
         /\ (a.exec = entries[loop] /\ d.dist > 0) \/ a.exec < entries[loop]
    <3>. HIDE DEF no, this
    <3>. QED  BY <1>1, <2>8, <2>10
  <2>. HIDE DEF this
  <2>. QED  BY <1>1, <1>4, <2>1, <2>7, <2>9, <2>11
<1>. QED  BY <1>5, <1>6

\* A check adds the dependences within the iteration the access has, and in the
\* first execution of the loop no others.
LEMMA CheckIndependent ==
  ASSUME TypeOK, TypeOK', HistoryInv', LatestKept', LIExact,
         NEW op \in Op, NEW access \in Accesses, NEW id \in Ids,
         NEW stackvar \in BOOLEAN, Check(op, access, id, stackvar)
  PROVE  LIExact'
<1>. DEFINE this == Access(op, Node(access), id)
            IterID == ProfilingLoopIterID
            real(pairs, l) == {[type |-> p.type, src |-> p.src, sink |-> p.sink] :
                                 p \in {q \in pairs : q.loop = l}}
            Real(t, src) == /\ Access(t.with, Node(access), src) \in accesses
                            /\ t.type = "Output" => src # id
<1>0. PICK loop \in Loops, node \in Nodes : loop = DDAProfilingFlag /\ node = Node(access)
  BY CheckFacts
<1>1. /\ loop = DDAProfilingFlag /\ loop \in Loops /\ loop # 0 /\ node \in Nodes
      /\ accesses' = accesses \cup {this} /\ this \in AccessRecord
      /\ IterID \in Nat \ {0}
      /\ UNCHANGED <<DDAProfilingFlag, ProfilingLoopIterID, entries>>
  BY <1>0, CheckFacts DEF control, Iter
<1>2. /\ LDDepResult'[loop].LID = LDDepResult[loop].LID \cup LIDOf(op, access, id)
      /\ \A l \in Loops : l # loop => LDDepResult'[l] = LDDepResult[l]
      /\ liPairs' = liPairs \cup LIPairsOf(op, access, id)
  BY <1>0, CheckDeps
<1>3. this = [exec |-> entries[loop], loop |-> loop, iter |-> IterID,
              op |-> op, node |-> node, id |-> id]
  BY <1>0 DEF Access
<1>4. \A p : p \in LIPairsOf(op, access, id) <=>
        \E t \in Analyze(op), src \in Ids :
          Real(t, src) /\ p = [loop |-> loop, type |-> t.type, src |-> src, sink |-> id]
  BY <1>0 DEF LIPairsOf
<1>5. \A d : d \in LIDOf(op, access, id) <=>
        \E t \in Analyze(op), src \in Ids :
          /\ HashRWTrace'[loop][t.with][node][src][0] = IterID
          /\ t.type = "Output" => src # id
          /\ d = [type |-> t.type, src |-> src, sink |-> id]
  BY <1>0 DEF LIDOf, LoopIndependent
<1>6. ASSUME NEW t \in Analyze(op), NEW src \in Ids, Real(t, src)
      PROVE  HashRWTrace'[loop][t.with][node][src][0] = IterID
  <2>. DEFINE a == [exec |-> entries[loop], loop |-> loop, iter |-> IterID,
                    op |-> t.with, node |-> node, id |-> src]
  <2>1. a \in accesses' /\ t.with \in Op
    BY <1>0, <1>1, <1>6, AnalyzeProp DEF Access
  <2>2. /\ a.loop = loop /\ a.exec = entries'[loop] /\ a.op = t.with /\ a.node = node
        /\ a.id = src /\ a.iter = IterID
    BY <1>1
  <2>3. DDAProfilingFlag' = loop /\ loop # 0 /\ UNCHANGED ProfilingLoopIterID
    BY <1>1
  <2>. HIDE DEF a, this
  <2>. QED  BY <2>1, <2>2, <2>3, CarriedFromProp
<1>7. ASSUME NEW t \in Analyze(op), NEW src \in Ids, entries[loop] =< 1,
             HashRWTrace'[loop][t.with][node][src][0] = IterID, t.type = "Output" => src # id
      PROVE  Real(t, src)
  <2>1. t.with \in Op /\ (t.type # "Output" => t.with # op)
    BY AnalyzeProp
  <2>2. HashRWTrace'[loop][t.with][node][src] # Absent
    BY <1>1, <1>7 DEF Absent
  <2>3. PICK a \in accesses' :
          /\ a.loop = loop /\ a.op = t.with /\ a.node = node /\ a.id = src
          /\ a.iter = HashRWTrace'[loop][t.with][node][src][0]
    BY <1>1, <2>1, <2>2, KeptAccess
  <2>4. a \in AccessRecord /\ entries[loop] \in Nat
    BY DEF TypeOK
  <2>5. a.exec = entries[loop]
    BY <1>1, <1>7, <2>3, <2>4 DEF HistoryInv, AccessRecord
  <2>6. a = Access(t.with, Node(access), src)
    BY <1>0, <1>7, <2>3, <2>4, <2>5 DEF AccessRecord, Access
  <2>7. a # this
    BY <1>3, <1>7, <2>1, <2>3
  <2>8. Access(t.with, Node(access), src) \in accesses
    <3>. HIDE DEF this
    <3>. QED  BY <1>1, <2>6, <2>7
  <2>. QED  BY <1>7, <2>8
<1>8. /\ \A l \in Loops : real(liPairs, l) \subseteq LDDepResult[l].LID
      /\ \A l \in Loops : entries[l] =< 1 => LDDepResult[l].LID \subseteq real(liPairs, l)
  BY DEF LIExact
<1>9. ASSUME NEW l \in Loops
      PROVE  /\ real(liPairs', l) \subseteq LDDepResult'[l].LID
             /\ entries[l] =< 1 => LDDepResult'[l].LID \subseteq real(liPairs', l)
  <2>. HIDE DEF Real, this
  <2>1. CASE l # loop
    <3>1. \A p \in LIPairsOf(op, access, id) : p.loop = loop
      BY <1>4
    <3>2. {q \in liPairs' : q.loop = l} = {q \in liPairs : q.loop = l}
      BY <1>2, <2>1, <3>1
    <3>3. real(liPairs', l) = real(liPairs, l)
      BY <3>2
    <3>. QED  BY <1>2, <1>8, <2>1, <3>3
  <2>2. CASE l = loop
    <3>1. ASSUME NEW d
          PROVE  d \in real(LIPairsOf(op, access, id), loop) <=>
                   \E t \in Analyze(op), src \in Ids :
                     Real(t, src) /\ d = [type |-> t.type, src |-> src, sink |-> id]
      <4>1. ASSUME d \in real(LIPairsOf(op, access, id), loop)
            PROVE  \E t \in Analyze(op), src \in Ids :
                     Real(t, src) /\ d = [type |-> t.type, src |-> src, sink |-> id]
        <5>1. PICK p \in LIPairsOf(op, access, id) :
                d = [type |-> p.type, src |-> p.src, sink |-> p.sink]
          BY <4>1
        <5>2. PICK t \in Analyze(op), src \in Ids :
                Real(t, src) /\ p = [loop |-> loop, type |-> t.type, src |-> src, sink |-> id]
          BY <1>4
        <5>. QED  BY <5>1, <5>2
      <4>2. ASSUME NEW t \in Analyze(op), NEW src \in Ids, Real(t, src),
                   d = [type |-> t.type, src |-> src, sink |-> id]
            PROVE  d \in real(LIPairsOf(op, access, id), loop)
        <5>. DEFINE p == [loop |-> loop, type |-> t.type, src |-> src, sink |-> id]
        <5>1. p \in LIPairsOf(op, access, id)
          BY <1>4, <4>2
        <5>2. p.loop = loop /\ d = [type |-> p.type, src |-> p.src, sink |-> p.sink]
          BY <4>2
        <5>. HIDE DEF p
        <5>. QED  BY <5>1, <5>2
      <4>. QED  BY <4>1, <4>2
    <3>2. real(liPairs', loop) = real(liPairs, loop) \cup real(LIPairsOf(op, access, id), loop)
      BY <1>2
    <3>3. real(LIPairsOf(op, access, id), loop) \subseteq LIDOf(op, access, id)
      <4>. SUFFICES ASSUME NEW d \in real(LIPairsOf(op, access, id), loop)
                    PROVE  d \in LIDOf(op, access, id)
        OBVIOUS
      <4>1. PICK t \in Analyze(op), src \in Ids :
              Real(t, src) /\ d = [type |-> t.type, src |-> src, sink |-> id]
        BY <3>1
      <4>2. t.type = "Output" => src # id
        BY <4>1 DEF Real
      <4>. QED  BY <1>5, <1>6, <4>1, <4>2
    <3>4. entries[loop] =< 1 =>
            LIDOf(op, access, id) \subseteq real(LIPairsOf(op, access, id), loop)
      BY <1>5, <1>7, <3>1
    <3>. HIDE DEF real
    <3>. QED  BY <1>2, <1>8, <2>2, <3>2, <3>3, <3>4
  <2>. QED  BY <2>1, <2>2
<1>. QED  BY <1>1, <1>9 DEF LIExact

-----------------------------------------------------------------------------
\* Every step preserves the invariant.
THEOREM StepInv == IInv /\ [Next]_vars => IInv'
<1>. SUFFICES ASSUME IInv, [Next]_vars PROVE IInv'
  OBVIOUS
<1>1. CASE \/ \E loop \in Loops : EnterLoop(loop)
           \/ LoopBody \/ ExitLoop \/ Call \/ Return
           \/ \E k \in 1 .. MaxDepth : Unwind(k)
  BY <1>1, ControlStep, Zenon
<1>2. ASSUME NEW op \in Op, NEW access \in Accesses, NEW id \in Ids,
             NEW stackvar \in BOOLEAN, Check(op, access, id, stackvar)
      PROVE  IInv'
  <2>1. TypeOK' /\ FlagInv' /\ HistoryInv'
    BY <1>2, CheckType DEF IInv
  <2>2. LatestKept'
    BY <1>2, CheckLatest DEF IInv
  <2>3. LCComplete' /\ LCSound' /\ LIExact'
    BY <1>2, <2>1, <2>2, CheckComplete, CheckSound, CheckIndependent DEF IInv
  <2>4. OutputComplete'
    BY <1>2, CheckFacts DEF IInv, OutputComplete
  <2>. QED  BY <2>1, <2>2, <2>3, <2>4 DEF IInv
<1>3. CASE OutputDependence
  <2>1. /\ UNCHANGED <<control, tables, entries, history, left>>
        /\ printed' = [done |-> TRUE, deps |-> [loop \in Loops |-> Written(loop)]]
    BY <1>3 DEF OutputDependence
  <2>2. /\ TypeOK' /\ FlagInv' /\ HistoryInv' /\ LCComplete' /\ LCSound' /\ LIExact'
    BY <2>1 DEF IInv, TypeOK, FlagInv, HistoryInv, LCComplete, LCSound, LIExact,
                Nearest, Carried, Analyze, control, tables, history
  <2>3. LatestKept'
    <3>1. ASSUME NEW loop, NEW op, NEW node, NEW id
          PROVE  /\ AccessesOf(loop, op, node, id)' = AccessesOf(loop, op, node, id)
                 /\ PresentOf(loop, op, node, id)' = PresentOf(loop, op, node, id)
      BY <2>1 DEF AccessesOf, PresentOf, history
    <3>. QED  BY <2>1, <3>1 DEF IInv, LatestKept, tables
  <2>4. OutputComplete'
    <3>. SUFFICES ASSUME NEW a \in accesses, NEW b \in accesses, Nearest(a, b),
                         \A i \in SAddr : a.id < i, NEW d \in Carried(a, b)
                  PROVE  d \in printed'.deps[b.loop]
      BY <2>1 DEF OutputComplete, Nearest, Carried, Analyze, history
    <3>1. b.loop \in Loops /\ d.src = a.id
      BY DEF IInv, TypeOK, AccessRecord, Carried
    <3>2. d \in LDDepResult[b.loop].LCD
      BY DEF IInv, LCComplete
    <3>3. \A e \in LDDepResult[b.loop].LCD : e.src \in SAddr => Before(d, e)
      BY <3>1 DEF Before
    <3>. QED  BY <2>1, <3>1, <3>2, <3>3 DEF Written
  <2>. QED  BY <2>2, <2>3, <2>4 DEF IInv
<1>4. CASE UNCHANGED vars
  <2>1. ASSUME NEW loop, NEW op, NEW node, NEW id
        PROVE  /\ AccessesOf(loop, op, node, id)' = AccessesOf(loop, op, node, id)
               /\ PresentOf(loop, op, node, id)' = PresentOf(loop, op, node, id)
    BY <1>4 DEF AccessesOf, PresentOf, vars, history
  <2>2. LatestKept'
    BY <1>4, <2>1 DEF IInv, LatestKept, vars, tables
  <2>3. /\ UNCHANGED <<DDAProfilingFlag, ProfilingLoopIterID, frames, MaxProfilingLoopID>>
        /\ UNCHANGED <<HashRWTrace, LDDepResult, printed, entries, accesses, liPairs, left>>
    BY <1>4 DEF vars, control, tables, history
  <2>4. TypeOK' /\ FlagInv' /\ HistoryInv'
    BY <2>3 DEF IInv, TypeOK, FlagInv, HistoryInv
  <2>5. LCComplete' /\ LCSound' /\ LIExact' /\ OutputComplete'
    BY <2>3 DEF IInv, LCComplete, LCSound, LIExact, OutputComplete, Nearest, Carried, Analyze
  <2>. QED  BY <2>2, <2>4, <2>5 DEF IInv
<1>. QED  BY <1>1, <1>2, <1>3, <1>4 DEF Next

\* The inductive invariant holds in every state.
THEOREM Invariance == Spec => []IInv
BY InitInv, StepInv, PTL DEF Spec

\* The types of the variables.
THEOREM TypeCorrect == Spec => []TypeOK
BY Invariance, PTL DEF IInv

\* The profiler is on exactly while one active function is in the loop it profiles.
THEOREM FlagCorrect == Spec => []FlagInv
BY Invariance, PTL DEF IInv

\* The nodes keep the two last iterations of every instruction.
THEOREM LatestCorrect == Spec => []LatestKept
BY Invariance, PTL DEF IInv

\* No loop-carried dependence is lost.
THEOREM Complete == Spec => []LCComplete
BY Invariance, PTL DEF IInv

\* Every loop-carried dependence reported is one of the program.
THEOREM Sound == Spec => []LCSound
BY Invariance, PTL DEF IInv

\* The loop-independent dependences of a loop executed once are exactly the real ones.
THEOREM Independent == Spec => []LIExact
BY Invariance, PTL DEF IInv

\* The output has every loop-carried dependence whose source is before s.addr.
THEOREM Output == Spec => []OutputComplete
BY Invariance, PTL DEF IInv
=============================================================================
