-------------------------- MODULE AddrStreamProofs --------------------------
(***************************************************************************)
(* The ring of AddrStream for every number of buffers and of items, every  *)
(* number of accesses, iterations and executions of the loop.              *)
(*                                                                         *)
(* For one execution of the loop it implements StreamQueue, and delivers   *)
(* what is stored.                                                         *)
(***************************************************************************)
EXTENDS AddrStreamProps, SequenceTheorems, NaturalsInduction, WellFoundedInduction, TLAPS

\* Where the item index stands: at the place the next access goes to, and at
\* the first one whenever the process has just moved to another buffer.
ItemInv ==
  /\ process = "inside" => PtrItems[2] = WItemNum
  /\ process \in {"outside", "awaiting", "leaving"} => WItemNum = 1
  /\ process \in {"awaiting", "leaving"} => PtrItems[2] = 0

\* The buffer the process has cancelled with is never taken for another.
CancelInv == process = "cancelled" => Streams[WStreamNum].flag \in {Cancel, CancelAgain}

IInv == TypeOK /\ ItemInv /\ CancelInv /\ RingInv

-----------------------------------------------------------------------------
\* The next buffer of the ring, without the modulo.
LEMMA NextSlotCases ==
  ASSUME NEW s \in Slot
  PROVE  NextSlot(s) = IF s = STREAMNUM - 1 THEN 0 ELSE s + 1
BY AddrStreamAssumption DEF NextSlot, Slot

\* The ring is empty initially, and the reader at the buffer of the process.
THEOREM InitIInv == Init => IInv
<1> SUFFICES ASSUME Init PROVE IInv
  OBVIOUS
<1> USE DEF Init, WriterInit, ReaderInit
<1>1. TypeOK
  BY AddrStreamAssumption DEF TypeOK, Slot
<1>2. ItemInv
  BY DEF ItemInv
<1>3. RingInv
  BY AddrStreamAssumption DEF RingInv, FullUpTo, Behind, HeadSlot, Slot
<1>4. CancelInv
  BY DEF CancelInv
<1> QED BY <1>1, <1>2, <1>3, <1>4 DEF IInv

-----------------------------------------------------------------------------
\* What a publication does to the types, whatever else the step does.
LEMMA OneBufferChanged ==
  ASSUME TypeOK, NEW s \in Slot, NEW b \in Buffer, Streams' = [Streams EXCEPT ![s] = b]
  PROVE  Streams' \in [Slot -> Buffer]
BY DEF TypeOK

\* Publishing a buffer keeps the types of the ring.
LEMMA PublishType ==
  ASSUME TypeOK, NEW b \in Buffer, NEW then, Publish(b, then)
  PROVE  /\ Streams' \in [Slot -> Buffer]
         /\ PPStreamIsFull' \in [Slot -> BOOLEAN]
         /\ WStreamNum' \in Slot
         /\ WItemNum' = 1
         /\ PtrItems' = <<WStreamNum', 0>> /\ PtrItems' \in Slot \X (0 .. STREAMITEMNUM)
<1>1. WStreamNum' \in Slot
  BY NextSlotCases, AddrStreamAssumption DEF TypeOK, Publish, Slot
<1> QED
  BY <1>1, AddrStreamAssumption DEF TypeOK, Publish, Slot

\* The header that is written makes a buffer.
LEMMA CurrentType ==
  ASSUME TypeOK, NEW flag \in {SameIteration, EndOfIteration, Cancel, CancelAgain},
         NEW iter \in Nat
  PROVE  Current(flag, iter) \in Buffer
<1>1. Streams[WStreamNum] \in Buffer /\ WItemNum \in 1 .. STREAMITEMNUM
  BY DEF TypeOK
<1> QED BY <1>1 DEF Current, Buffer

\* Every step keeps the types.
LEMMA NextType ==
  ASSUME TypeOK, ItemInv, [Next]_vars
  PROVE  TypeOK'
<1> USE AddrStreamAssumption
<1>1. ASSUME EnterLoop PROVE TypeOK'
  <2>1. 0 \in Slot
    BY DEF Slot
  <2>2. Streams' \in [Slot -> Buffer]
    <3> DEFINE b == [Streams[0] EXCEPT !.end = 1, !.flag = SameIteration]
    <3>1. Streams[0] \in Buffer
      BY <2>1 DEF TypeOK
    <3>2. b \in Buffer
      BY <3>1, 1 \in 1 .. STREAMITEMNUM DEF Buffer
    <3>3. Streams' = [Streams EXCEPT ![0] = b]
      BY <1>1, <2>1 DEF EnterLoop, TypeOK
    <3> HIDE DEF b
    <3> QED BY <2>1, <3>2, <3>3, OneBufferChanged
  <2> QED BY <1>1, <2>1, <2>2 DEF TypeOK, EnterLoop, readVars
<1>2. ASSUME NEW a \in Accesses, Store(a) PROVE TypeOK'
  <2>1. Streams' \in [Slot -> Buffer]
    <3> DEFINE p == PtrItems[1]
               its == [Streams[p].items EXCEPT ![PtrItems[2]] = a]
    <3>1. p \in Slot /\ Streams[p] \in Buffer
      BY DEF TypeOK
    <3>2. its \in [1 .. STREAMITEMNUM - 1 -> Accesses]
      BY <3>1 DEF Buffer
    <3>3. [Streams[p] EXCEPT !.items = its] \in Buffer
      BY <3>1, <3>2 DEF Buffer
    <3>4. Streams' = [Streams EXCEPT ![p] = [Streams[p] EXCEPT !.items = its]]
      BY <1>2, <3>1 DEF Store, TypeOK
    <3> HIDE DEF its, p
    <3> QED BY <3>1, <3>3, <3>4, OneBufferChanged
  <2>2. PtrItems' \in Slot \X (0 .. STREAMITEMNUM) /\ WItemNum' \in 1 .. STREAMITEMNUM
    BY <1>2 DEF TypeOK, ItemInv, Store, CanAccess
  <2> QED BY <1>2, <2>1, <2>2 DEF TypeOK, Store, CanAccess, readVars
<1>3. ASSUME NEW a \in Accesses, Overflow(a) PROVE TypeOK'
  <2> DEFINE b == Current(Streams[WStreamNum].flag, LDDProfLoopIter)
  <2>1. b \in Buffer /\ Publish(b, "awaiting")
    BY <1>3, CurrentType DEF TypeOK, Overflow, Buffer
  <2> HIDE DEF b
  <2>2. /\ Streams' \in [Slot -> Buffer] /\ PPStreamIsFull' \in [Slot -> BOOLEAN]
        /\ WStreamNum' \in Slot /\ WItemNum' = 1
        /\ PtrItems' \in Slot \X (0 .. STREAMITEMNUM)
    BY <2>1, PublishType
  <2>3. process' \in {"awaiting", "leaving"}
    BY <2>1 DEF Publish
  <2> QED BY <1>3, <2>2, <2>3 DEF TypeOK, Overflow, readVars
<1>4. ASSUME EndIteration PROVE TypeOK'
  <2> DEFINE b == Current(EndOfIteration, LDDProfLoopIter)
  <2>1. b \in Buffer /\ Publish(b, "awaiting")
    BY <1>4, CurrentType DEF TypeOK, EndIteration
  <2> HIDE DEF b
  <2>2. /\ Streams' \in [Slot -> Buffer] /\ PPStreamIsFull' \in [Slot -> BOOLEAN]
        /\ WStreamNum' \in Slot /\ WItemNum' = 1
        /\ PtrItems' \in Slot \X (0 .. STREAMITEMNUM)
    BY <2>1, PublishType
  <2>3. process' \in {"awaiting", "leaving"}
    BY <2>1 DEF Publish
  <2> QED BY <1>4, <2>2, <2>3 DEF TypeOK, EndIteration, readVars
<1>5. ASSUME ExitLoop PROVE TypeOK'
  <2> DEFINE b == Current(EndOfIteration, CurLoopIter)
  <2>1. b \in Buffer /\ Publish(b, "leaving")
    BY <1>5, CurrentType DEF TypeOK, ExitLoop
  <2> HIDE DEF b
  <2>2. /\ Streams' \in [Slot -> Buffer] /\ PPStreamIsFull' \in [Slot -> BOOLEAN]
        /\ WStreamNum' \in Slot /\ WItemNum' = 1
        /\ PtrItems' \in Slot \X (0 .. STREAMITEMNUM)
    BY <2>1, PublishType
  <2>3. process' \in {"awaiting", "leaving"}
    BY <2>1 DEF Publish
  <2> QED BY <1>5, <2>2, <2>3 DEF TypeOK, ExitLoop, readVars
<1>6. ASSUME NextBufferFree PROVE TypeOK'
  <2>1. Streams' \in [Slot -> Buffer]
    BY <1>6 DEF TypeOK, NextBufferFree, Buffer
  <2>2. PtrItems' \in Slot \X (0 .. STREAMITEMNUM)
    BY <1>6 DEF TypeOK, ItemInv, NextBufferFree
  <2> QED BY <1>6, <2>1, <2>2 DEF TypeOK, NextBufferFree, readVars
<1>7. ASSUME CancelPipeline PROVE TypeOK'
  <2>1. Streams' \in [Slot -> Buffer]
    <3> DEFINE b == [Streams[WStreamNum] EXCEPT !.flag = Cancel, !.end = 1, !.iter = CurLoopIter]
    <3>1. Streams[WStreamNum] \in Buffer /\ WStreamNum \in Slot /\ CurLoopIter \in Nat
      BY DEF TypeOK
    <3>2. b \in Buffer
      BY <3>1, 1 \in 1 .. STREAMITEMNUM DEF Buffer, Cancel
    <3>3. Streams' = [Streams EXCEPT ![WStreamNum] = b]
      BY <1>7, <3>1 DEF CancelPipeline, TypeOK
    <3> HIDE DEF b
    <3> QED BY <3>1, <3>2, <3>3, OneBufferChanged
  <2> QED BY <1>7, <2>1 DEF TypeOK, CancelPipeline, readVars
<1>8. ASSUME BeginRead PROVE TypeOK'
  BY <1>8 DEF TypeOK, BeginRead, Buffer, buffers, writer
<1>9. ASSUME ReadSameIteration \/ ReadEndOfIteration \/ LabelToken PROVE TypeOK'
  <2>1. NextSlot(ProcRStreamNum) \in Slot
    BY NextSlotCases DEF TypeOK, Slot
  <2> QED BY <1>9, <2>1 DEF TypeOK, ReadSameIteration, ReadEndOfIteration, LabelToken,
                            Free, buffers, writer
<1>10. ASSUME ReadCancel PROVE TypeOK'
  <2>1. Streams' \in [Slot -> Buffer]
    <3>1. Streams[ProcRStreamNum] \in Buffer /\ ProcRStreamNum \in Slot
      BY DEF TypeOK
    <3> QED BY <1>10, <3>1 DEF ReadCancel, Buffer, TypeOK
  <2> QED BY <1>10, <2>1 DEF TypeOK, ReadCancel, writer
<1>11. ASSUME ReadCancelAgain \/ UNCHANGED vars PROVE TypeOK'
  BY <1>11 DEF TypeOK, ReadCancelAgain, vars, buffers, writer, readVars
<1> QED
  BY <1>1, <1>2, <1>3, <1>4, <1>5, <1>6, <1>7, <1>8, <1>9, <1>10, <1>11
     DEF Next, Process, Reader

\* Every step keeps the item index inside the buffer.
LEMMA NextItem ==
  ASSUME TypeOK, ItemInv, [Next]_vars
  PROVE  ItemInv'
<1>1. ASSUME EnterLoop \/ NextBufferFree \/ CancelPipeline PROVE ItemInv'
  BY <1>1 DEF TypeOK, ItemInv, EnterLoop, NextBufferFree, CancelPipeline
<1>2. ASSUME NEW a \in Accesses, Store(a) PROVE ItemInv'
  BY <1>2 DEF TypeOK, ItemInv, Store, CanAccess
<1>3. ASSUME NEW b, NEW then \in {"awaiting", "leaving"}, Publish(b, then) PROVE ItemInv'
  BY <1>3 DEF ItemInv, Publish
<1>4. ASSUME Reader \/ UNCHANGED vars PROVE ItemInv'
  BY <1>4 DEF ItemInv, Reader, BeginRead, ReadSameIteration, ReadEndOfIteration, LabelToken,
              ReadCancel, ReadCancelAgain, vars, buffers, writer, readVars
<1> QED
  BY <1>1, <1>2, <1>3, <1>4 DEF Next, Process, Overflow, EndIteration, ExitLoop

-----------------------------------------------------------------------------
\* The cancelling buffer: the process stops using it, and the reader only
\* changes its flag.
LEMMA NextCancel ==
  ASSUME TypeOK, CancelInv, [Next]_vars
  PROVE  CancelInv'
<1>1. ASSUME Process PROVE CancelInv'
  <2>1. CASE CancelPipeline
    BY <2>1 DEF TypeOK, CancelInv, CancelPipeline, Buffer
  <2>2. CASE ~ CancelPipeline
    <3>1. process' # "cancelled"
      BY <1>1, <2>2 DEF Process, EnterLoop, Store, Overflow, EndIteration, ExitLoop,
                        NextBufferFree, Publish, CanAccess
    <3> QED BY <3>1 DEF CancelInv
  <2> QED BY <2>1, <2>2
<1>2. ASSUME Reader PROVE CancelInv'
  <2>1. CASE ReadCancel
    BY <2>1 DEF TypeOK, CancelInv, ReadCancel, FlagIs, writer, Buffer
  <2>2. CASE ~ ReadCancel
    <3>1. UNCHANGED <<Streams, writer>>
      BY <1>2, <2>2 DEF Reader, BeginRead, ReadSameIteration, ReadEndOfIteration, LabelToken,
                        ReadCancelAgain, buffers
    <3> QED  BY <3>1 DEF CancelInv, writer
  <2> QED BY <2>1, <2>2
<1>3. ASSUME UNCHANGED vars PROVE CancelInv'
  BY <1>3 DEF CancelInv, vars, buffers, writer
<1> QED BY <1>1, <1>2, <1>3 DEF Next

-----------------------------------------------------------------------------
\* Publishing the process' buffer adds it to the full ones; if that was the
\* last free one, the process' next buffer is the head.
LEMMA FillOne ==
  ASSUME NEW full \in [Slot -> BOOLEAN], NEW h \in Slot, NEW w \in Slot,
         FullUpTo(full, h, w)
  PROVE  LET filled == [full EXCEPT ![w] = TRUE]
         IN  FullUpTo(filled, h, NextSlot(w)) \/ AllFull(filled, h, NextSlot(w))
<1>1. NextSlot(w) = IF w = STREAMNUM - 1 THEN 0 ELSE w + 1
  BY NextSlotCases
<1>2. CASE NextSlot(w) = h
  BY <1>1, <1>2, AddrStreamAssumption DEF FullUpTo, AllFull, Behind, Slot
<1>3. CASE NextSlot(w) # h
  BY <1>1, <1>3, AddrStreamAssumption DEF FullUpTo, AllFull, Behind, Slot
<1> QED BY <1>2, <1>3

\* The buffer that cancels is one more full buffer.
LEMMA FillLast ==
  ASSUME NEW full \in [Slot -> BOOLEAN], NEW h \in Slot, NEW w \in Slot,
         FullUpTo(full, h, w)
  PROVE  FullThrough([full EXCEPT ![w] = TRUE], h, w)
BY AddrStreamAssumption DEF FullUpTo, FullThrough, Behind, Slot

\* Freeing the head takes it from the full ones.
LEMMA FreeHead ==
  ASSUME NEW full \in [Slot -> BOOLEAN], NEW h \in Slot, NEW w \in Slot, full[h],
         FullUpTo(full, h, w) \/ AllFull(full, h, w)
  PROVE  FullUpTo([full EXCEPT ![h] = FALSE], NextSlot(h), w)
<1>1. NextSlot(h) = IF h = STREAMNUM - 1 THEN 0 ELSE h + 1
  BY NextSlotCases
<1>2. CASE FullUpTo(full, h, w)
  BY <1>1, <1>2, AddrStreamAssumption DEF FullUpTo, Behind, Slot
<1>3. CASE AllFull(full, h, w)
  BY <1>1, <1>3, AddrStreamAssumption DEF FullUpTo, AllFull, Behind, Slot
<1> QED BY <1>2, <1>3

\* Freeing the first of the full buffers of a cancelled stream leaves the others full.
LEMMA FreeHeadCancelled ==
  ASSUME NEW full \in [Slot -> BOOLEAN], NEW h \in Slot, NEW w \in Slot, h # w,
         FullThrough(full, h, w)
  PROVE  FullThrough([full EXCEPT ![h] = FALSE], NextSlot(h), w)
<1>1. NextSlot(h) = IF h = STREAMNUM - 1 THEN 0 ELSE h + 1
  BY NextSlotCases
<1> QED BY <1>1, AddrStreamAssumption DEF FullThrough, Behind, Slot

\* The position of the reader is a slot.
LEMMA HeadSlotType ==
  ASSUME TypeOK
  PROVE  HeadSlot \in Slot
BY NextSlotCases, AddrStreamAssumption DEF TypeOK, HeadSlot, Slot

-----------------------------------------------------------------------------
\* A publication of the process keeps the ring in order.
LEMMA PublishRing ==
  ASSUME TypeOK, RingInv, process = "inside", NEW b,
         NEW then \in {"awaiting", "leaving"}, Publish(b, then), UNCHANGED readVars
  PROVE  RingInv'
<1>1. HeadSlot \in Slot /\ HeadSlot' = HeadSlot
  BY HeadSlotType DEF HeadSlot, readVars
<1>2. FullUpTo(PPStreamIsFull, HeadSlot, WStreamNum)
  BY DEF RingInv
<1>3. \/ FullUpTo(PPStreamIsFull, HeadSlot, WStreamNum)'
      \/ AllFull(PPStreamIsFull, HeadSlot, WStreamNum)'
  BY <1>1, <1>2, FillOne DEF TypeOK, Publish, FullUpTo, AllFull
<1>4. reader' = "reading" => PPStreamIsFull'[ProcRStreamNum']
  BY DEF RingInv, Publish, TypeOK, readVars
<1> QED BY <1>3, <1>4 DEF RingInv, Publish

\* The reader frees the head of the ring, which is not the cancelling buffer.
LEMMA FreeRing ==
  ASSUME TypeOK, CancelInv, RingInv, reader = "reading",
         Streams[ProcRStreamNum].flag \in {SameIteration, EndOfIteration}, Free,
         UNCHANGED writer, HeadSlot' = NextSlot(ProcRStreamNum), reader' # "reading"
  PROVE  RingInv'
<1>1. /\ HeadSlot = ProcRStreamNum /\ HeadSlot \in Slot /\ WStreamNum \in Slot
      /\ PPStreamIsFull[HeadSlot] /\ PPStreamIsFull \in [Slot -> BOOLEAN]
      /\ PPStreamIsFull' = [PPStreamIsFull EXCEPT ![HeadSlot] = FALSE]
  BY DEF HeadSlot, TypeOK, RingInv, Free
<1>2. CASE process = "cancelled"
  <2>1. HeadSlot # WStreamNum
    BY <1>1, <1>2 DEF CancelInv, SameIteration, EndOfIteration, Cancel, CancelAgain
  <2>2. FullThrough(PPStreamIsFull, HeadSlot, WStreamNum)
    BY <1>2 DEF RingInv
  <2>3. FullThrough(PPStreamIsFull, HeadSlot, WStreamNum)'
    BY <1>1, <2>1, <2>2, FreeHeadCancelled DEF writer, FullThrough
  <2> QED BY <1>2, <2>3 DEF RingInv, writer
<1>3. CASE process # "cancelled"
  <2>1. \/ FullUpTo(PPStreamIsFull, HeadSlot, WStreamNum)
        \/ AllFull(PPStreamIsFull, HeadSlot, WStreamNum)
    BY <1>3 DEF RingInv, TypeOK
  <2>2. FullUpTo(PPStreamIsFull, HeadSlot, WStreamNum)'
    BY <1>1, <2>1, FreeHead DEF writer, FullUpTo
  <2> QED BY <1>3, <2>2 DEF RingInv, writer
<1> QED BY <1>2, <1>3

\* Every step keeps the ring in order.
LEMMA NextRing ==
  ASSUME TypeOK, CancelInv, RingInv, [Next]_vars
  PROVE  RingInv'
<1>1. ASSUME UNCHANGED <<PPStreamIsFull, WStreamNum, ProcRStreamNum, reader>>,
             process' = process \/ {process, process'} \subseteq {"outside", "inside"}
      PROVE  RingInv'
  BY <1>1 DEF RingInv, HeadSlot, FullUpTo, AllFull, FullThrough
<1>2. ASSUME EnterLoop \/ (\E a \in Accesses : Store(a)) PROVE RingInv'
  BY <1>1, <1>2 DEF EnterLoop, Store, CanAccess, readVars
<1>3. ASSUME (\E a \in Accesses : Overflow(a)) \/ EndIteration \/ ExitLoop PROVE RingInv'
  BY <1>3, PublishRing DEF Overflow, CanAccess, EndIteration, ExitLoop
<1>4. ASSUME NextBufferFree PROVE RingInv'
  <2>1. FullUpTo(PPStreamIsFull, HeadSlot, WStreamNum)
    BY <1>4 DEF RingInv, NextBufferFree, AllFull, TypeOK
  <2>2. FullUpTo(PPStreamIsFull, HeadSlot, WStreamNum)'
    BY <1>4, <2>1 DEF NextBufferFree, readVars, HeadSlot, FullUpTo
  <2> QED BY <1>4, <2>2 DEF RingInv, NextBufferFree, readVars
<1>5. ASSUME CancelPipeline PROVE RingInv'
  <2>1. HeadSlot \in Slot /\ HeadSlot' = HeadSlot
    BY <1>5, HeadSlotType DEF HeadSlot, CancelPipeline, readVars
  <2>2. FullUpTo(PPStreamIsFull, HeadSlot, WStreamNum)
    BY <1>5 DEF RingInv, CancelPipeline
  <2>3. FullThrough(PPStreamIsFull, HeadSlot, WStreamNum)'
    BY <1>5, <2>1, <2>2, FillLast DEF CancelPipeline, TypeOK, FullThrough
  <2>4. reader' = "reading" => PPStreamIsFull'[ProcRStreamNum']
    BY <1>5 DEF RingInv, CancelPipeline, TypeOK, readVars
  <2> QED BY <1>5, <2>3, <2>4 DEF RingInv, CancelPipeline
<1>6. ASSUME BeginRead \/ LabelToken \/ ReadCancel \/ ReadCancelAgain PROVE RingInv'
  <2>1. HeadSlot' = HeadSlot
    BY <1>6 DEF HeadSlot, BeginRead, LabelToken, ReadCancel, ReadCancelAgain, FlagIs
  <2>2. UNCHANGED <<PPStreamIsFull, process, WStreamNum>>
    BY <1>6 DEF BeginRead, LabelToken, ReadCancel, ReadCancelAgain, buffers, writer
  <2>3. reader' = "reading" => PPStreamIsFull'[ProcRStreamNum']
    BY <1>6 DEF BeginRead, LabelToken, ReadCancel, ReadCancelAgain, buffers, FlagIs
  <2> QED BY <2>1, <2>2, <2>3 DEF RingInv, FullUpTo, AllFull, FullThrough
<1>7. ASSUME ReadSameIteration \/ ReadEndOfIteration PROVE RingInv'
  <2>1. HeadSlot' = NextSlot(ProcRStreamNum) /\ reader' # "reading"
    BY <1>7 DEF HeadSlot, ReadSameIteration, ReadEndOfIteration
  <2> QED BY <1>7, <2>1, FreeRing DEF ReadSameIteration, ReadEndOfIteration, FlagIs
<1>8. ASSUME UNCHANGED vars PROVE RingInv'
  BY <1>1, <1>8 DEF vars, buffers, writer, readVars
<1> QED
  BY <1>2, <1>3, <1>4, <1>5, <1>6, <1>7, <1>8 DEF Next, Process, Reader

-----------------------------------------------------------------------------
\* The invariant of the ring, which the others follow from.
THEOREM Invariance == Spec => []IInv
<1>1. IInv /\ [Next]_vars => IInv'
  BY NextType, NextItem, NextCancel, NextRing DEF IInv
<1> QED BY InitIInv, <1>1, PTL DEF Spec

\* Every variable of the ring keeps its type: no item index runs past its
\* buffer, for every number of accesses, iterations and executions of the loop.
THEOREM TypeCorrect == Spec => []TypeOK
<1>1. IInv => TypeOK
  BY DEF IInv
<1> QED BY Invariance, <1>1, PTL

\* The full buffers are always those from the reader's up to the process'.
THEOREM RingCorrect == Spec => []RingInv
<1>1. IInv => RingInv
  BY DEF IInv
<1> QED BY Invariance, <1>1, PTL

\* GenerateAddrStream never writes into the buffer parreadlida is reading.
THEOREM NoSharedBuffer ==
  Spec => [](process \in {"inside", "outside"} /\ reader = "reading"
               => WStreamNum # ProcRStreamNum)
<1>1. IInv => (process \in {"inside", "outside"} /\ reader = "reading"
                 => WStreamNum # ProcRStreamNum)
  BY AddrStreamAssumption DEF IInv, TypeOK, RingInv, FullUpTo, Behind, HeadSlot, Slot
<1> QED BY Invariance, <1>1, PTL

-----------------------------------------------------------------------------
(***************************************************************************)
(* The ring implements the queue, for one execution of the loop.           *)
(***************************************************************************)
Sent(b) == [iter |-> b.iter, flag |-> b.flag, items |-> SubSeq(b.items, 1, b.end - 1)]

\* The i-th buffer from h on
Place(h, i) == (h + i - 1) % STREAMNUM

\* The messages of n buffers from h on
Messages(streams, h, n) == [i \in 1 .. n |-> Sent(streams[Place(h, i)])]

Receipts(toks) == [i \in DOMAIN toks |-> Received(toks[i])]

\* The slot of the i-th unread buffer, by cases, and how far it is behind the reader.
LEMMA PlaceCases ==
  ASSUME NEW h \in Slot, NEW i \in 1 .. STREAMNUM
  PROVE  /\ Place(h, i) = IF h + i =< STREAMNUM THEN h + i - 1 ELSE h + i - 1 - STREAMNUM
         /\ Place(h, i) \in Slot /\ Behind(h, Place(h, i)) = i - 1
<1>1. /\ STREAMNUM \in Nat \ {0} /\ h \in Nat /\ h < STREAMNUM /\ i \in Nat /\ 1 =< i
      /\ i =< STREAMNUM
  BY AddrStreamAssumption DEF Slot
<1>2. ASSUME NEW d \in Nat \ {0}, NEW n \in 0 .. d - 1 PROVE n % d = n /\ (n + d) % d = n
  BY SMT
<1>3. CASE h + i =< STREAMNUM
  <2>1. h + i - 1 \in 0 .. STREAMNUM - 1  BY <1>1, <1>3
  <2>2. Place(h, i) = h + i - 1  BY <1>1, <1>2, <2>1 DEF Place
  <2> QED  BY <1>1, <1>3, <2>1, <2>2 DEF Behind, Slot
<1>4. CASE h + i > STREAMNUM
  <2>1. /\ h + i - 1 - STREAMNUM \in 0 .. STREAMNUM - 1
        /\ (h + i - 1 - STREAMNUM) + STREAMNUM = h + i - 1
    BY <1>1, <1>4
  <2>2. Place(h, i) = h + i - 1 - STREAMNUM  BY <1>1, <1>2, <2>1 DEF Place
  <2> QED  BY <1>1, <1>4, <2>1, <2>2 DEF Behind, Slot
<1> QED  BY <1>1, <1>3, <1>4

\* Every slot has its place behind the reader.
LEMMA PlaceBehind ==
  ASSUME NEW h \in Slot, NEW w \in Slot
  PROVE  /\ Behind(h, w) \in 0 .. STREAMNUM - 1 /\ Place(h, Behind(h, w) + 1) = w
<1>1. Behind(h, w) \in 0 .. STREAMNUM - 1 /\ Behind(h, w) + 1 \in 1 .. STREAMNUM
  BY AddrStreamAssumption DEF Behind, Slot
<1> QED  BY <1>1, PlaceCases, AddrStreamAssumption DEF Behind, Slot

\* Head and tail of a sequence, by its elements.
LEMMA TailShape ==
  ASSUME NEW S, NEW s \in Seq(S), Len(s) # 0
  PROVE  s # <<>> /\ Head(s) = s[1] /\ Tail(s) = [i \in 1 .. Len(s) - 1 |-> s[i + 1]]
<1>1. s # <<>>
  BY EmptySeq
<1>2. /\ Tail(s) \in Seq(S) /\ Len(Tail(s)) = Len(s) - 1
      /\ \A i \in 1 .. Len(Tail(s)) : Tail(s)[i] = s[i + 1]
  BY <1>1, HeadTailProperties
<1>3. Tail(s) \in [1 .. Len(s) - 1 -> S]
  BY <1>2, LenProperties
<1>4. Tail(s) = [i \in 1 .. Len(s) - 1 |-> s[i + 1]]
  <2> DEFINE u == Tail(s)
  <2>1. u \in [1 .. Len(s) - 1 -> S] /\ \A i \in 1 .. Len(s) - 1 : u[i] = s[i + 1]
    BY <1>2, <1>3
  <2> HIDE DEF u
  <2>2. u = [i \in 1 .. Len(s) - 1 |-> s[i + 1]]
    BY <2>1
  <2> QED  BY <2>2 DEF u
<1> QED  BY <1>1, <1>4

\* The same buffers are the same messages.
LEMMA SameMessages ==
  ASSUME NEW h, NEW n \in Nat, NEW B1, NEW B2,
         \A i \in 1 .. n : Sent(B1[Place(h, i)]) = Sent(B2[Place(h, i)])
  PROVE  Messages(B1, h, n) = Messages(B2, h, n)
BY DEF Messages

\* One buffer more is one message more, at the end.
LEMMA MessageMore ==
  ASSUME NEW h, NEW n \in Nat, NEW B1, NEW B2,
         \A i \in 1 .. n : Sent(B1[Place(h, i)]) = Sent(B2[Place(h, i)])
  PROVE  Messages(B2, h, n + 1) = Append(Messages(B1, h, n), Sent(B2[Place(h, n + 1)]))
<1> DEFINE s == Messages(B1, h, n)
           x == Sent(B2[Place(h, n + 1)])
<1>1. /\ s = [i \in 1 .. n |-> Sent(B2[Place(h, i)])] /\ s \in Seq({s[i] : i \in 1 .. n})
      /\ Len(s) = n
  BY DEF Messages
<1>2. Append(s, x) = [i \in 1 .. n + 1 |-> IF i = n + 1 THEN x ELSE s[i]]
  <2> HIDE DEF s, x
  <2> QED  BY <1>1
<1>3. \A i \in 1 .. n + 1 : i # n + 1 => i \in 1 .. n /\ s[i] = Sent(B2[Place(h, i)])
  BY <1>1
<1> HIDE DEF s
<1> QED  BY <1>2, <1>3 DEF Messages

\* Without its first buffer the queue is its tail.
LEMMA MessageLess ==
  ASSUME NEW h \in Slot, NEW n \in 1 .. STREAMNUM, NEW B
  PROVE  /\ Messages(B, h, n) # <<>> /\ Head(Messages(B, h, n)) = Sent(B[h])
         /\ Tail(Messages(B, h, n)) = Messages(B, NextSlot(h), n - 1)
<1> DEFINE s == Messages(B, h, n)
<1>1. n \in Nat /\ 1 \in 1 .. n /\ NextSlot(h) \in Slot
  BY NextSlotCases, AddrStreamAssumption DEF Slot
<1>2. /\ s = [i \in 1 .. n |-> Sent(B[Place(h, i)])] /\ s \in Seq({s[i] : i \in 1 .. n})
      /\ Len(s) = n
  BY <1>1 DEF Messages
<1>3. Place(h, 1) = h
  BY PlaceCases, AddrStreamAssumption DEF Slot
<1>4. \A i \in 1 .. n - 1 : i + 1 \in 1 .. n /\ Place(NextSlot(h), i) = Place(h, i + 1)
  <2> TAKE i \in 1 .. n - 1
  <2>1. i \in 1 .. STREAMNUM /\ i + 1 \in 1 .. STREAMNUM /\ i + 1 \in 1 .. n
    BY AddrStreamAssumption
  <2>2. Place(h, i + 1) = IF h + (i + 1) =< STREAMNUM THEN h + (i + 1) - 1
                                                      ELSE h + (i + 1) - 1 - STREAMNUM
    BY <2>1, PlaceCases
  <2>3. Place(NextSlot(h), i) = IF NextSlot(h) + i =< STREAMNUM THEN NextSlot(h) + i - 1
                                                      ELSE NextSlot(h) + i - 1 - STREAMNUM
    BY <1>1, <2>1, PlaceCases
  <2> QED  BY <2>1, <2>2, <2>3, NextSlotCases, AddrStreamAssumption DEF Slot
<1>5. /\ s # <<>> /\ Head(s) = s[1] /\ Tail(s) = [i \in 1 .. n - 1 |-> s[i + 1]]
  <2>1. PICK S : s \in Seq(S)
    BY <1>2
  <2>2. Len(s) = n /\ n # 0
    BY <1>1, <1>2
  <2> HIDE DEF s
  <2>3. s # <<>> /\ Head(s) = s[1] /\ Tail(s) = [i \in 1 .. Len(s) - 1 |-> s[i + 1]]
    BY <2>1, <2>2, TailShape
  <2> QED  BY <2>2, <2>3
<1>6. \A i \in 1 .. n : s[i] = Sent(B[Place(h, i)])
  BY <1>2
<1> HIDE DEF s
<1>7. Tail(s) = [i \in 1 .. n - 1 |-> Sent(B[Place(NextSlot(h), i)])]
  BY <1>4, <1>5, <1>6
<1> QED  BY <1>1, <1>3, <1>5, <1>6, <1>7 DEF Messages, s

-----------------------------------------------------------------------------
\* In the first execution of the loop the items go into the process' own buffer,
\* which is in the middle of an iteration.
OwnBufferInv ==
  /\ sessions = 0 => process = "outside" /\ WStreamNum = 0
  /\ process \in {"inside", "awaiting", "leaving"} => PtrItems[1] = WStreamNum
  /\ process = "inside" => Streams[WStreamNum].flag = SameIteration

\* No full buffer cancels but the one the process has cancelled with.
FlagInv ==
  \A s \in Slot :
    PPStreamIsFull[s] /\ (process = "cancelled" => s # WStreamNum)
      => Streams[s].flag \in {SameIteration, EndOfIteration}

\* The reader's copies are those of its buffer.
CopyInv ==
  reader = "reading" =>
    Length = Streams[ProcRStreamNum].end /\ LoopIter = Streams[ProcRStreamNum].iter

TokenInv ==
  /\ tokens \in Seq([iter : Nat, label : Nat, flag : {SameIteration, EndOfIteration},
                     items : Seq(Accesses)])
  /\ reader = "labelling" => tokens # <<>>

QInv == IInv /\ OwnBufferInv /\ FlagInv /\ CopyInv /\ TokenInv

\* The buffer of a process that runs is not full, and all before it are.
LEMMA NotFull ==
  ASSUME TypeOK, RingInv, process \in {"inside", "outside"}
  PROVE  ~ PPStreamIsFull[WStreamNum] /\ FullUpTo(PPStreamIsFull, HeadSlot, WStreamNum)
BY HeadSlotType, AddrStreamAssumption DEF TypeOK, RingInv, FullUpTo, Behind, Slot

\* The items stored in a buffer are a sequence of accesses.
LEMMA ItemsAreSeq ==
  ASSUME NEW b \in Buffer, NEW n \in 1 .. STREAMITEMNUM
  PROVE  SubSeq(b.items, 1, n - 1) \in Seq(Accesses)
<1>1. STREAMITEMNUM - 1 \in Nat /\ b.items \in [1 .. STREAMITEMNUM - 1 -> Accesses]
  BY AddrStreamAssumption DEF Buffer
<1>2. b.items \in Seq(Accesses) /\ Len(b.items) = STREAMITEMNUM - 1
  BY <1>1
<1>3. n - 1 \in 0 .. STREAMITEMNUM - 1
  BY AddrStreamAssumption
<1> DEFINE s == b.items
<1> HIDE DEF s
<1>4. s \in Seq(Accesses) /\ Len(s) = STREAMITEMNUM - 1  BY <1>2 DEF s
<1>5. SubSeq(s, 1, n - 1) \in Seq(Accesses)
  BY <1>1, <1>3, <1>4, SubSeqProperties
<1> QED  BY <1>5 DEF s

\* The invariant of the refinement holds initially.
LEMMA InitQInv == Init => QInv
<1> SUFFICES ASSUME Init PROVE QInv
  OBVIOUS
<1>1. IInv  BY InitIInv
<1>2. OwnBufferInv /\ FlagInv /\ CopyInv /\ TokenInv
  BY DEF Init, WriterInit, ReaderInit, OwnBufferInv, FlagInv, CopyInv, TokenInv
<1> QED  BY <1>1, <1>2 DEF QInv

\* A step of the process changes its own buffer at most, and only if that is not
\* full.
LEMMA Changes ==
  ASSUME QInv, Process, MaxSessions =< 1
  PROVE  /\ UNCHANGED readVars
         /\ \A s \in Slot \ {WStreamNum} : Streams'[s] = Streams[s]
         /\ \A s \in Slot \ {WStreamNum} : PPStreamIsFull'[s] = PPStreamIsFull[s]
         /\ Streams'[WStreamNum] = Streams[WStreamNum] \/ ~ PPStreamIsFull[WStreamNum]
<1> USE DEF QInv, IInv
<1>0. WStreamNum \in Slot /\ Streams \in [Slot -> Buffer] /\ PPStreamIsFull \in [Slot -> BOOLEAN]
  BY DEF TypeOK
<1>1. CASE EnterLoop
  <2>1. sessions = 0
    BY <1>1, AddrStreamAssumption DEF EnterLoop, TypeOK
  <2>2. WStreamNum = 0 /\ ~ PPStreamIsFull[WStreamNum]
    BY <1>1, <2>1, NotFull DEF EnterLoop, OwnBufferInv
  <2> QED  BY <1>0, <1>1, <2>2 DEF EnterLoop
<1>2. CASE \E a \in Accesses : Store(a)
  <2>1. PtrItems[1] = WStreamNum /\ ~ PPStreamIsFull[WStreamNum]
    BY <1>2, NotFull DEF Store, CanAccess, OwnBufferInv
  <2> QED  BY <1>0, <1>2, <2>1 DEF Store
<1>3. ASSUME NEW b, NEW then, Publish(b, then), process = "inside", UNCHANGED readVars
      PROVE  /\ \A s \in Slot \ {WStreamNum} : Streams'[s] = Streams[s]
             /\ \A s \in Slot \ {WStreamNum} : PPStreamIsFull'[s] = PPStreamIsFull[s]
             /\ ~ PPStreamIsFull[WStreamNum]
  BY <1>0, <1>3, NotFull DEF Publish
<1>4. CASE (\E a \in Accesses : Overflow(a)) \/ EndIteration \/ ExitLoop
  BY <1>3, <1>4 DEF Overflow, CanAccess, EndIteration, ExitLoop
<1>5. CASE NextBufferFree \/ CancelPipeline
  BY <1>0, <1>5, NotFull DEF NextBufferFree, CancelPipeline
<1> QED  BY <1>1, <1>2, <1>4, <1>5 DEF Process

\* Every step keeps the items in the buffer of the process.
LEMMA NextOwn ==
  ASSUME QInv, [Next]_vars, MaxSessions =< 1
  PROVE  OwnBufferInv'
<1> USE DEF QInv, IInv
<1>1. CASE EnterLoop
  <2>1. sessions = 0 /\ sessions' # 0 /\ process' = "inside"
    BY <1>1, AddrStreamAssumption DEF EnterLoop, TypeOK
  <2>2. WStreamNum = 0 /\ WStreamNum' = WStreamNum /\ PtrItems'[1] = 0
    BY <1>1, <2>1 DEF EnterLoop, OwnBufferInv
  <2>3. Streams'[0].flag = SameIteration
    <3> DEFINE b == [Streams[0] EXCEPT !.end = 1, !.flag = SameIteration]
    <3>1. 0 \in Slot /\ Streams[0] \in Buffer
      BY AddrStreamAssumption DEF TypeOK, Slot
    <3>2. b.flag = SameIteration
      BY <3>1 DEF Buffer
    <3>3. Streams' = [Streams EXCEPT ![0] = b]
      BY <1>1, <3>1 DEF EnterLoop, TypeOK
    <3> HIDE DEF b
    <3> QED  BY <3>1, <3>2, <3>3 DEF TypeOK
  <2> QED  BY <2>1, <2>2, <2>3 DEF OwnBufferInv
<1>2. CASE \E a \in Accesses : Store(a)
  <2>1. /\ UNCHANGED <<sessions, process, WStreamNum>> /\ process = "inside"
        /\ PtrItems'[1] = PtrItems[1]
    BY <1>2 DEF Store, CanAccess
  <2>2. Streams'[WStreamNum].flag = Streams[WStreamNum].flag
    BY <1>2 DEF Store, TypeOK, Buffer
  <2> QED  BY <2>1, <2>2 DEF OwnBufferInv
<1>3. CASE (\E a \in Accesses : Overflow(a)) \/ EndIteration \/ ExitLoop
  <2>1. sessions' = sessions /\ process = "inside"
    BY <1>3 DEF Overflow, EndIteration, ExitLoop, CanAccess
  <2>2. ASSUME NEW b, NEW then \in {"awaiting", "leaving"}, Publish(b, then)
        PROVE  process' \in {"awaiting", "leaving"} /\ PtrItems'[1] = WStreamNum'
    BY <2>2 DEF Publish
  <2>3. process' \in {"awaiting", "leaving"} /\ PtrItems'[1] = WStreamNum'
    BY <1>3, <2>2 DEF Overflow, EndIteration, ExitLoop
  <2> QED  BY <2>1, <2>3 DEF OwnBufferInv
<1>4. CASE NextBufferFree
  <2>1. /\ UNCHANGED <<sessions, WStreamNum>> /\ PtrItems'[1] = PtrItems[1]
        /\ process \in {"awaiting", "leaving"}
        /\ Streams'[WStreamNum].flag = SameIteration
    BY <1>4 DEF NextBufferFree, TypeOK, Buffer
  <2> QED  BY <2>1 DEF OwnBufferInv
<1>5. CASE CancelPipeline
  BY <1>5 DEF CancelPipeline, OwnBufferInv
<1>6. CASE Reader
  <2>1. UNCHANGED writer
    BY <1>6 DEF Reader, BeginRead, ReadSameIteration, ReadEndOfIteration, LabelToken,
                ReadCancel, ReadCancelAgain
  <2>2. process = "inside" => Streams'[WStreamNum].flag = SameIteration
    <3>1. CASE ReadCancel
      BY <3>1 DEF ReadCancel, FlagIs, OwnBufferInv, TypeOK, SameIteration, Cancel
    <3>2. CASE ~ ReadCancel
      BY <1>6, <3>2 DEF Reader, BeginRead, ReadSameIteration, ReadEndOfIteration, LabelToken,
                ReadCancelAgain, OwnBufferInv, buffers
    <3> QED  BY <3>1, <3>2
  <2> QED  BY <2>1, <2>2 DEF OwnBufferInv, writer
<1>7. CASE UNCHANGED vars
  BY <1>7 DEF vars, writer, buffers, OwnBufferInv
<1> QED  BY <1>1, <1>2, <1>3, <1>4, <1>5, <1>6, <1>7 DEF Next, Process

\* Every step keeps the flags: no full buffer cancels but the last.
LEMMA NextFlag ==
  ASSUME QInv, [Next]_vars, MaxSessions =< 1
  PROVE  FlagInv'
<1> USE DEF QInv, IInv
<1>0. WStreamNum \in Slot /\ Streams \in [Slot -> Buffer] /\ PPStreamIsFull \in [Slot -> BOOLEAN]
  BY DEF TypeOK
<1>1. ASSUME UNCHANGED <<PPStreamIsFull, WStreamNum>>, ~ PPStreamIsFull[WStreamNum],
             \A s \in Slot \ {WStreamNum} : Streams'[s] = Streams[s],
             process \notin {"cancelled"}
      PROVE  FlagInv'
  BY <1>0, <1>1 DEF FlagInv
<1>2. CASE EnterLoop \/ (\E a \in Accesses : Store(a)) \/ NextBufferFree
  <2>1. UNCHANGED <<PPStreamIsFull, WStreamNum>> /\ process # "cancelled"
        /\ ~ PPStreamIsFull[WStreamNum]
    BY <1>2, NotFull DEF EnterLoop, Store, CanAccess, NextBufferFree
  <2>2. \A s \in Slot \ {WStreamNum} : Streams'[s] = Streams[s]
    BY <1>2, Changes DEF Process
  <2> QED  BY <1>1, <2>1, <2>2
<1>3. CASE (\E a \in Accesses : Overflow(a)) \/ EndIteration \/ ExitLoop
  <2>1. Streams[WStreamNum].flag = SameIteration /\ process = "inside"
    BY <1>3 DEF OwnBufferInv, Overflow, EndIteration, ExitLoop, CanAccess
  <2>2. process' # "cancelled" /\ Streams'[WStreamNum].flag \in {SameIteration, EndOfIteration}
    <3>1. ASSUME NEW flag \in {SameIteration, EndOfIteration}, NEW iter,
                 NEW then \in {"awaiting", "leaving"}, Publish(Current(flag, iter), then)
          PROVE  process' # "cancelled" /\ Streams'[WStreamNum].flag = flag
      <4>1. Current(flag, iter).flag = flag
        BY <1>0 DEF Current, Buffer
      <4> DEFINE b == Current(flag, iter)
      <4> HIDE DEF b
      <4>2. Publish(b, then) /\ b.flag = flag
        BY <3>1, <4>1 DEF b
      <4> QED  BY <1>0, <4>2 DEF Publish
    <3> QED  BY <1>3, <2>1, <3>1 DEF Overflow, EndIteration, ExitLoop
  <2>3. /\ \A s \in Slot \ {WStreamNum} : Streams'[s] = Streams[s]
        /\ \A s \in Slot \ {WStreamNum} : PPStreamIsFull'[s] = PPStreamIsFull[s]
    BY <1>3, Changes DEF Process
  <2> QED  BY <2>1, <2>2, <2>3 DEF FlagInv
<1>4. CASE CancelPipeline
  <2>1. process = "outside" /\ process' = "cancelled" /\ WStreamNum' = WStreamNum
    BY <1>4 DEF CancelPipeline
  <2>2. /\ \A s \in Slot \ {WStreamNum} : Streams'[s] = Streams[s]
        /\ \A s \in Slot \ {WStreamNum} : PPStreamIsFull'[s] = PPStreamIsFull[s]
    BY <1>4, Changes DEF Process
  <2> QED  BY <2>1, <2>2 DEF FlagInv
<1>5. CASE ReadCancel
  <2>1. /\ UNCHANGED <<PPStreamIsFull, process, WStreamNum>>
        /\ ProcRStreamNum \in Slot /\ PPStreamIsFull[ProcRStreamNum]
        /\ Streams[ProcRStreamNum].flag = Cancel
        /\ \A s \in Slot \ {ProcRStreamNum} : Streams'[s] = Streams[s]
    BY <1>5 DEF ReadCancel, FlagIs, writer, TypeOK, RingInv
  <2>2. process = "cancelled" /\ ProcRStreamNum = WStreamNum
    BY <2>1 DEF FlagInv, SameIteration, EndOfIteration, Cancel
  <2> QED  BY <2>1, <2>2 DEF FlagInv
<1>6. CASE (Reader /\ ~ ReadCancel) \/ UNCHANGED vars
  <2>1. UNCHANGED <<Streams, process, WStreamNum>>
    BY <1>6 DEF Reader, BeginRead, ReadSameIteration, ReadEndOfIteration, LabelToken,
                ReadCancelAgain, buffers, writer, vars
  <2>2. \A s \in Slot : PPStreamIsFull'[s] => PPStreamIsFull[s]
    BY <1>0, <1>6 DEF Reader, BeginRead, ReadSameIteration, ReadEndOfIteration, LabelToken,
                ReadCancelAgain, buffers, vars, Free
  <2> QED  BY <2>1, <2>2 DEF FlagInv
<1> QED  BY <1>2, <1>3, <1>4, <1>5, <1>6 DEF Next, Process

\* Every step keeps the copies of the reader equal to its buffer.
LEMMA NextCopy ==
  ASSUME QInv, [Next]_vars, MaxSessions =< 1
  PROVE  CopyInv'
<1> USE DEF QInv, IInv
<1>1. CASE Process /\ reader = "reading"
  <2>1. /\ UNCHANGED <<ProcRStreamNum, Length, LoopIter>>
        /\ ProcRStreamNum \in Slot /\ PPStreamIsFull[ProcRStreamNum]
    BY <1>1, Changes DEF readVars, TypeOK, RingInv
  <2>2. Streams'[ProcRStreamNum] = Streams[ProcRStreamNum]
    BY <1>1, <2>1, Changes
  <2> QED  BY <1>1, <2>1, <2>2 DEF CopyInv
<1>2. CASE Process /\ reader # "reading"
  BY <1>2, Changes DEF readVars, CopyInv
<1>3. CASE Reader \/ UNCHANGED vars
  BY <1>3 DEF Reader, BeginRead, ReadSameIteration, ReadEndOfIteration, LabelToken,
              ReadCancel, ReadCancelAgain, buffers, vars, readVars, CopyInv
<1> QED  BY <1>1, <1>2, <1>3 DEF Next

\* Every step keeps the token that is still to be labelled.
LEMMA NextToken ==
  ASSUME QInv, [Next]_vars, MaxSessions =< 1
  PROVE  TokenInv'
<1> USE DEF QInv, IInv
<1> DEFINE Tokens == [iter : Nat, label : Nat, flag : {SameIteration, EndOfIteration},
                      items : Seq(Accesses)]
<1>1. tokens \in Seq(Tokens)
  BY DEF TokenInv
<1>2. CASE Process \/ UNCHANGED vars
  <2>1. UNCHANGED <<tokens, reader>>
    BY <1>2, Changes DEF vars, readVars
  <2> QED  BY <2>1 DEF TokenInv
<1>3. CASE ReadSameIteration \/ ReadEndOfIteration
  <2>1. PICK flag \in {SameIteration, EndOfIteration} : tokens' = Append(tokens, Token(flag))
    BY <1>3 DEF ReadSameIteration, ReadEndOfIteration
  <2>2. Token(flag) \in Tokens
    <3>1. SubSeq(Streams[ProcRStreamNum].items, 1, Length - 1) \in Seq(Accesses)
      BY ItemsAreSeq DEF TypeOK
    <3> QED  BY <3>1 DEF Token, TypeOK
  <2>3. tokens' \in Seq(Tokens) /\ tokens' # <<>>
    <3> HIDE DEF Tokens
    <3> QED  BY <1>1, <2>1, <2>2, AppendProperties
  <2> QED  BY <2>3 DEF TokenInv
<1>4. CASE LabelToken
  <2>1. /\ tokens' = [tokens EXCEPT ![Len(tokens)] =
                        [tokens[Len(tokens)] EXCEPT !.label = Streams[ProcRStreamNum].iter]]
        /\ reader' = "idle"
    BY <1>4 DEF LabelToken
  <2>2. Len(tokens) \in 1 .. Len(tokens)
    BY <1>1, <1>4, EmptySeq DEF LabelToken, TokenInv
  <2>3. tokens[Len(tokens)] \in Tokens
    BY <1>1, <2>2, ElementOfSeq
  <2>4. [tokens[Len(tokens)] EXCEPT !.label = Streams[ProcRStreamNum].iter] \in Tokens
    <3>1. Streams[ProcRStreamNum].iter \in Nat
      BY DEF TypeOK, Buffer
    <3> QED  BY <2>3, <3>1
  <2>5. tokens' \in Seq(Tokens)
    <3> HIDE DEF Tokens
    <3> QED  BY <1>1, <2>1, <2>2, <2>4, ExceptSeq
  <2> QED  BY <2>1, <2>5 DEF TokenInv
<1>5. CASE BeginRead \/ ReadCancel \/ ReadCancelAgain
  BY <1>5 DEF BeginRead, ReadCancel, ReadCancelAgain, TokenInv
<1> QED  BY <1>2, <1>3, <1>4, <1>5 DEF Next, Reader

\* Every step keeps the invariant of the refinement.
LEMMA NextQInv ==
  ASSUME QInv, [Next]_vars, MaxSessions =< 1
  PROVE  QInv'
<1>1. IInv'
  BY NextType, NextItem, NextCancel, NextRing DEF QInv, IInv
<1> QED  BY <1>1, NextOwn, NextFlag, NextCopy, NextToken DEF QInv

-----------------------------------------------------------------------------
\* The queue that the ring stands for
Q == [i \in DOMAIN Unread |-> Contents(Unread[i])]

\* The contents that the refinement mapping defines are the messages.
LEMMA QueueShape ==
  ASSUME NEW streams, NEW h, NEW n
  PROVE  LET u == [i \in 1 .. n |-> (h + i - 1) % STREAMNUM]
         IN  [i \in DOMAIN u |-> [iter |-> streams[u[i]].iter, flag |-> streams[u[i]].flag,
                items |-> SubSeq(streams[u[i]].items, 1, streams[u[i]].end - 1)]]
               = Messages(streams, h, n)
BY DEF Messages, Place, Sent

\* The queue is the messages from the position of the reader on ...
LEMMA QueueNow == Q = Messages(Streams, HeadSlot, NumUnread)
BY QueueShape DEF Q, Unread, Contents

\* ... and so it is after a step.
LEMMA QueueNext == Q' = Messages(Streams', HeadSlot', NumUnread')
<1> DEFINE u == [i \in 1 .. NumUnread' |-> (HeadSlot' + i - 1) % STREAMNUM]
<1>1. Q' = [i \in DOMAIN u |-> [iter |-> Streams'[u[i]].iter, flag |-> Streams'[u[i]].flag,
                items |-> SubSeq(Streams'[u[i]].items, 1, Streams'[u[i]].end - 1)]]
  BY DEF Q, Unread, Contents
<1> QED  BY <1>1, QueueShape

\* The messages not received yet are in full buffers, which are not the process'
\* own but while it waits for one.
LEMMA UnreadAreFull ==
  ASSUME TypeOK, RingInv
  PROVE  /\ HeadSlot \in Slot /\ WStreamNum \in Slot /\ NumUnread \in 0 .. STREAMNUM
         /\ \A i \in 1 .. NumUnread : Place(HeadSlot, i) \in Slot
                                      /\ PPStreamIsFull[Place(HeadSlot, i)]
         /\ process = "cancelled" \/ ~ PPStreamIsFull[WStreamNum] =>
              /\ NumUnread = Behind(HeadSlot, WStreamNum)
              /\ \A i \in 1 .. NumUnread : Place(HeadSlot, i) # WStreamNum
         /\ process # "cancelled" /\ PPStreamIsFull[WStreamNum] =>
              NumUnread = STREAMNUM /\ HeadSlot = WStreamNum
<1> DEFINE h == HeadSlot
           w == WStreamNum
           n == NumUnread
<1>1. h \in Slot /\ w \in Slot /\ Behind(h, w) \in 0 .. STREAMNUM - 1
  BY HeadSlotType, PlaceBehind DEF TypeOK
<1>2. n \in 0 .. STREAMNUM
  BY <1>1, AddrStreamAssumption DEF NumUnread
<1>3. ASSUME NEW i \in 1 .. n
      PROVE  Place(h, i) \in Slot /\ Behind(h, Place(h, i)) = i - 1 /\ i - 1 < n
  <2>1. i \in 1 .. STREAMNUM /\ i - 1 < n
    BY <1>2, AddrStreamAssumption
  <2> QED  BY <1>1, <2>1, PlaceCases
<1>4. CASE process = "cancelled" \/ ~ PPStreamIsFull[WStreamNum]
  <2>1. n = Behind(h, w)  BY <1>4 DEF NumUnread
  <2>2. \A s \in Slot : Behind(h, s) < Behind(h, w) => PPStreamIsFull[s]
    <3>1. \/ FullUpTo(PPStreamIsFull, h, w) \/ AllFull(PPStreamIsFull, h, w)
          \/ FullThrough(PPStreamIsFull, h, w)
      BY DEF RingInv, TypeOK
    <3> HIDE DEF h, w
    <3> QED  BY <1>1, <3>1, AddrStreamAssumption DEF FullUpTo, AllFull, FullThrough, Behind, Slot
  <2>3. \A i \in 1 .. n : PPStreamIsFull[Place(h, i)] /\ Place(h, i) # w
    <3> TAKE i \in 1 .. n
    <3>1. Place(h, i) \in Slot /\ Behind(h, Place(h, i)) = i - 1 /\ i - 1 < Behind(h, w)
      BY <1>3, <2>1
    <3> HIDE DEF h, w, n
    <3> QED  BY <1>1, <2>2, <3>1, AddrStreamAssumption
  <2> QED  BY <1>1, <1>2, <1>3, <1>4, <2>1, <2>3
<1>5. CASE process # "cancelled" /\ PPStreamIsFull[WStreamNum]
  <2>1. AllFull(PPStreamIsFull, h, w)
    <3>1. FullUpTo(PPStreamIsFull, h, w) \/ AllFull(PPStreamIsFull, h, w)
      BY <1>5 DEF RingInv, TypeOK
    <3>2. ~ FullUpTo(PPStreamIsFull, h, w)
      BY <1>1, <1>5, AddrStreamAssumption DEF FullUpTo
    <3> QED  BY <3>1, <3>2
  <2>2. n = STREAMNUM  BY <1>5 DEF NumUnread
  <2> QED  BY <1>1, <1>2, <1>3, <1>5, <2>1, <2>2 DEF AllFull
<1> QED  BY <1>4, <1>5

\* Nothing happens to the queue.
LEMMA QueueStays ==
  ASSUME QInv, HeadSlot' = HeadSlot, NumUnread' = NumUnread,
         \A s \in Slot : (\E i \in 1 .. NumUnread : s = Place(HeadSlot, i))
                           => Sent(Streams'[s]) = Sent(Streams[s])
  PROVE  Q' = Q
<1>1. NumUnread \in Nat /\ \A i \in 1 .. NumUnread : Place(HeadSlot, i) \in Slot
  BY UnreadAreFull, AddrStreamAssumption DEF QInv, IInv
<1>2. \A i \in 1 .. NumUnread :
        Sent(Streams[Place(HeadSlot, i)]) = Sent(Streams'[Place(HeadSlot, i)])
  BY <1>1
<1>3. Messages(Streams, HeadSlot, NumUnread) = Messages(Streams', HeadSlot, NumUnread)
  BY <1>1, <1>2, SameMessages
<1> QED  BY <1>3, QueueNow, QueueNext

\* The process writes into its own buffer: no message changes.
LEMMA WriteSteps ==
  ASSUME QInv, MaxSessions =< 1, EnterLoop \/ (\E a \in Accesses : Store(a)) \/ NextBufferFree
  PROVE  UNCHANGED <<Q, tokens, process = "cancelled", reader>>
<1>1. /\ UNCHANGED <<PPStreamIsFull, WStreamNum, readVars>>
      /\ process # "cancelled" /\ process' # "cancelled" /\ ~ PPStreamIsFull[WStreamNum]
  BY NotFull DEF EnterLoop, Store, CanAccess, NextBufferFree, QInv, IInv
<1>2. HeadSlot' = HeadSlot /\ NumUnread' = NumUnread
  BY <1>1 DEF HeadSlot, NumUnread, readVars
<1>3. \A s \in Slot : (\E i \in 1 .. NumUnread : s = Place(HeadSlot, i))
                           => Sent(Streams'[s]) = Sent(Streams[s])
  BY <1>1, Changes, UnreadAreFull DEF Process, QInv, IInv
<1>4. Q' = Q  BY <1>2, <1>3, QueueStays
<1> QED  BY <1>1, <1>4 DEF readVars

\* A publication appends the process' buffer to the queue.
LEMMA SendStep ==
  ASSUME QInv, MaxSessions =< 1, (\E a \in Accesses : Overflow(a)) \/ EndIteration \/ ExitLoop
  PROVE  /\ Queue!Send
         /\ Q' = Append(Q, Sent(Streams'[WStreamNum])) /\ Sent(Streams'[WStreamNum]) \in Message
<1> USE DEF QInv, IInv
<1> DEFINE h == HeadSlot
           w == WStreamNum
           n == NumUnread
           m == Sent(Streams'[w])
<1>1. /\ process = "inside" /\ Streams[w].flag = SameIteration
      /\ UNCHANGED readVars
      /\ \E flag \in {SameIteration, EndOfIteration}, iter \in Nat, then \in {"awaiting", "leaving"} :
           Publish(Current(flag, iter), then)
  BY DEF OwnBufferInv, Overflow, EndIteration, ExitLoop, CanAccess, TypeOK
<1>2. PICK flag \in {SameIteration, EndOfIteration}, iter \in Nat, then \in {"awaiting", "leaving"} :
        Publish(Current(flag, iter), then)
  BY <1>1
<1>3. /\ h \in Slot /\ w \in Slot /\ n \in 0 .. STREAMNUM - 1 /\ n = Behind(h, w)
      /\ \A i \in 1 .. n : Place(h, i) \in Slot /\ Place(h, i) # w
      /\ ~ PPStreamIsFull[w] /\ FullUpTo(PPStreamIsFull, h, w) /\ Place(h, n + 1) = w
  BY <1>1, NotFull, UnreadAreFull, PlaceBehind
<1>4. /\ Streams' = [Streams EXCEPT ![w] = Current(flag, iter)]
      /\ PPStreamIsFull' = [PPStreamIsFull EXCEPT ![w] = TRUE]
      /\ WStreamNum' = NextSlot(w) /\ process' = then
  BY <1>2 DEF Publish
<1>5. Current(flag, iter) \in Buffer /\ Current(flag, iter).flag = flag
  <2>1. Streams[w] \in Buffer /\ WItemNum \in 1 .. STREAMITEMNUM
    BY DEF TypeOK
  <2> QED  BY <2>1, CurrentType DEF Current, Buffer
<1>6. m \in Message
  <2> DEFINE b == Current(flag, iter)
  <2> HIDE DEF b
  <2>1. b \in Buffer /\ b.flag = flag /\ b.end \in 1 .. STREAMITEMNUM /\ b.iter \in Nat
    BY <1>5 DEF b, Buffer
  <2>2. Streams'[w] = b  BY <1>3, <1>4 DEF TypeOK, b
  <2>3. SubSeq(b.items, 1, b.end - 1) \in Seq(Accesses)  BY <2>1, ItemsAreSeq
  <2> QED  BY <2>1, <2>2, <2>3 DEF Message, Sent
<1>7. HeadSlot' = h  BY <1>1 DEF HeadSlot, readVars
<1>8. NumUnread' = n + 1
  <2>1. process' # "cancelled"  BY <1>4
  <2>2. NumUnread' = IF PPStreamIsFull'[NextSlot(w)] THEN STREAMNUM ELSE Behind(h, NextSlot(w))
    BY <1>4, <1>7, <2>1 DEF NumUnread
  <2>3. /\ NextSlot(w) = IF w = STREAMNUM - 1 THEN 0 ELSE w + 1
        /\ PPStreamIsFull \in [Slot -> BOOLEAN] /\ NextSlot(w) \in Slot /\ NextSlot(w) # w
    BY <1>3, NextSlotCases, AddrStreamAssumption DEF TypeOK, Slot
  <2>4. PPStreamIsFull'[NextSlot(w)] <=> Behind(h, NextSlot(w)) < Behind(h, w)
    BY <1>3, <1>4, <2>3 DEF FullUpTo
  <2>5. /\ NextSlot(w) = h => Behind(h, NextSlot(w)) = 0 /\ Behind(h, w) = STREAMNUM - 1
        /\ NextSlot(w) # h => Behind(h, NextSlot(w)) = Behind(h, w) + 1
    <3> HIDE DEF h, w, n
    <3> QED  BY <1>3, <2>3, AddrStreamAssumption DEF Behind, Slot
  <2> HIDE DEF h, w, n
  <2> QED  BY <1>3, <2>2, <2>4, <2>5, AddrStreamAssumption
<1>9. Q' = Append(Q, m)
  <2>1. \A i \in 1 .. n : Sent(Streams[Place(h, i)]) = Sent(Streams'[Place(h, i)])
    BY <1>3, <1>4 DEF TypeOK
  <2>2. n \in Nat  BY <1>3, AddrStreamAssumption
  <2>3. Messages(Streams', h, n + 1) =
          Append(Messages(Streams, h, n), Sent(Streams'[Place(h, n + 1)]))
    <3> HIDE DEF h, w, n
    <3> QED  BY <2>1, <2>2, MessageMore
  <2>4. Q = Messages(Streams, h, n) /\ Q' = Messages(Streams', h, n + 1)
    BY <1>7, <1>8, QueueNow, QueueNext
  <2> QED  BY <1>3, <2>3, <2>4
<1>10. Len(Q) = n /\ Len(Q') = n + 1 /\ Q'[n + 1] = m
  <2>1. n \in Nat  BY <1>3, AddrStreamAssumption
  <2>2. Q = [i \in 1 .. n |-> Sent(Streams[Place(h, i)])]
    BY QueueNow DEF Messages
  <2> HIDE DEF n, m
  <2>3. Len(Q) = n /\ Q \in Seq({Q[i] : i \in 1 .. n})  BY <2>1, <2>2
  <2>4. PICK S : Q \in Seq(S) /\ m \in S
    <3>1. Q \in Seq({Q[i] : i \in 1 .. n} \cup {m})  BY <2>1, <2>3
    <3> QED  BY <3>1
  <2>5. Len(Append(Q, m)) = Len(Q) + 1 /\ Append(Q, m)[Len(Q) + 1] = m
    BY <2>4, AppendProperties
  <2> QED  BY <1>9, <2>3, <2>5
<1>11. /\ process # "cancelled" /\ process' # "cancelled"
       /\ UNCHANGED <<tokens, reader>>
  BY <1>1, <1>4 DEF readVars
<1>12. /\ Len(Q) < STREAMNUM /\ Len(Q') = Len(Q) + 1
       /\ Q' = Append(Q, Q'[Len(Q')]) /\ Q'[Len(Q')] \in Message
  <2> HIDE DEF n, m
  <2> QED  BY <1>3, <1>6, <1>9, <1>10, AddrStreamAssumption
<1>13. Queue!Send  BY <1>11, <1>12 DEF Queue!Send, Q
<1> QED  BY <1>6, <1>9, <1>13

\* Cancelling closes the queue.
LEMMA CloseStep ==
  ASSUME QInv, MaxSessions =< 1, CancelPipeline
  PROVE  Queue!Close
<1> USE DEF QInv, IInv
<1>1. /\ process = "outside" /\ process' = "cancelled"
      /\ UNCHANGED <<WStreamNum, readVars>> /\ ~ PPStreamIsFull[WStreamNum]
  BY NotFull DEF CancelPipeline
<1>2. HeadSlot' = HeadSlot
  BY <1>1 DEF HeadSlot, readVars
<1>3. NumUnread' = NumUnread
  BY <1>1, <1>2 DEF NumUnread
<1>4. \A s \in Slot : (\E i \in 1 .. NumUnread : s = Place(HeadSlot, i))
                           => Sent(Streams'[s]) = Sent(Streams[s])
  BY <1>1, Changes, UnreadAreFull DEF Process
<1>5. Q' = Q  BY <1>2, <1>3, <1>4, QueueStays
<1>6. UNCHANGED <<tokens, reader>>  BY <1>1 DEF readVars
<1> QED  BY <1>1, <1>5, <1>6 DEF Queue!Close, Q

\* The reader frees the head, whose message its token has.
LEMMA ReceiveStep ==
  ASSUME QInv, MaxSessions =< 1, ReadSameIteration \/ ReadEndOfIteration
  PROVE  Queue!Receive
<1> USE DEF QInv, IInv
<1> DEFINE h == HeadSlot
           w == WStreamNum
           n == NumUnread
<1>1. /\ reader = "reading" /\ UNCHANGED <<Streams, writer>> /\ Free
      /\ \E flag \in {SameIteration, EndOfIteration} :
           Streams[ProcRStreamNum].flag = flag /\ tokens' = Append(tokens, Token(flag))
      /\ HeadSlot' = NextSlot(ProcRStreamNum) /\ reader' # "stopped"
  BY DEF ReadSameIteration, ReadEndOfIteration, FlagIs, HeadSlot
<1>2. PICK flag \in {SameIteration, EndOfIteration} :
        Streams[ProcRStreamNum].flag = flag /\ tokens' = Append(tokens, Token(flag))
  BY <1>1
<1>3. h = ProcRStreamNum /\ HeadSlot' = NextSlot(h) /\ PPStreamIsFull[h] /\ h \in Slot /\ w \in Slot
  BY <1>1 DEF HeadSlot, RingInv, TypeOK
<1>4. n \in 1 .. STREAMNUM /\ NumUnread' = n - 1
  <2>0. /\ PPStreamIsFull \in [Slot -> BOOLEAN] /\ UNCHANGED <<process, WStreamNum>>
        /\ PPStreamIsFull' = [PPStreamIsFull EXCEPT ![h] = FALSE]
        /\ NextSlot(h) = IF h = STREAMNUM - 1 THEN 0 ELSE h + 1
    BY <1>1, <1>3, NextSlotCases DEF TypeOK, writer, Free
  <2>1. CASE process = "cancelled"
    <3>1. h # w
      BY <1>2, <1>3, <2>1 DEF CancelInv, SameIteration, EndOfIteration, Cancel, CancelAgain
    <3>2. n = Behind(h, w) /\ NumUnread' = Behind(NextSlot(h), w)
      BY <1>3, <2>0, <2>1 DEF NumUnread
    <3> HIDE DEF h, w, n
    <3> QED  BY <1>3, <2>0, <3>1, <3>2, AddrStreamAssumption DEF Behind, Slot
  <2>2. CASE process # "cancelled" /\ PPStreamIsFull[w]
    <3>1. n = STREAMNUM /\ h = w
      BY <2>2, UnreadAreFull
    <3>2. ~ PPStreamIsFull'[w]  BY <1>3, <2>0, <3>1
    <3>3. NumUnread' = Behind(NextSlot(h), w)
      BY <1>3, <2>0, <2>2, <3>2 DEF NumUnread
    <3> HIDE DEF h, w, n
    <3> QED  BY <1>3, <2>0, <3>1, <3>3, AddrStreamAssumption DEF Behind, Slot
  <2>3. CASE process # "cancelled" /\ ~ PPStreamIsFull[w]
    <3>1. n = Behind(h, w) /\ h # w
      BY <1>3, <2>3 DEF NumUnread
    <3>2. ~ PPStreamIsFull'[w]  BY <1>3, <2>0, <2>3
    <3>3. NumUnread' = Behind(NextSlot(h), w)
      BY <1>3, <2>0, <2>3, <3>2 DEF NumUnread
    <3> HIDE DEF h, w, n
    <3> QED  BY <1>3, <2>0, <3>1, <3>3, AddrStreamAssumption DEF Behind, Slot
  <2> QED  BY <2>1, <2>2, <2>3
<1>5. Q # <<>> /\ Head(Q) = Sent(Streams[h]) /\ Q' = Tail(Q)
  <2>1. Q = Messages(Streams, h, n) /\ Q' = Messages(Streams, NextSlot(h), n - 1)
    BY <1>1, <1>3, <1>4, QueueNow, QueueNext
  <2> HIDE DEF h, n
  <2> QED  BY <1>3, <1>4, <2>1, MessageLess
<1>6. Received(Token(flag)) = Sent(Streams[h])
  BY <1>1, <1>2, <1>3 DEF CopyInv, Received, Token, Sent
<1>7. Receipts(tokens') = Append(Receipts(tokens), Received(Token(flag)))
  <2> DEFINE x == Token(flag)
  <2> HIDE DEF x
  <2>1. PICK S : tokens \in Seq(S)  BY DEF TokenInv
  <2>2. tokens \in Seq(S \cup {x}) /\ x \in S \cup {x}  BY <2>1
  <2>3. /\ Len(tokens') = Len(tokens) + 1 /\ DOMAIN tokens' = 1 .. Len(tokens) + 1
        /\ \A i \in 1 .. Len(tokens) : tokens'[i] = tokens[i]
        /\ tokens'[Len(tokens) + 1] = x
    BY <1>2, <2>2, AppendProperties DEF x
  <2> DEFINE r == Receipts(tokens)
             k == Len(tokens)
  <2>4. k \in Nat /\ r = [i \in 1 .. k |-> Received(tokens[i])]
    BY <2>1 DEF Receipts
  <2>5. r \in Seq({r[i] : i \in 1 .. k}) /\ Len(r) = k
    BY <2>4
  <2>6. Append(r, Received(x)) = [i \in 1 .. k + 1 |-> IF i = k + 1 THEN Received(x) ELSE r[i]]
    <3> HIDE DEF r, k
    <3> QED  BY <2>4, <2>5
  <2>7. \A i \in 1 .. k + 1 : i # k + 1 => i \in 1 .. k /\ r[i] = Received(tokens'[i])
    BY <2>3, <2>4
  <2> HIDE DEF r
  <2>8. Receipts(tokens') = [i \in 1 .. k + 1 |-> IF i = k + 1 THEN Received(x) ELSE r[i]]
    BY <2>3, <2>7 DEF Receipts
  <2> QED  BY <2>6, <2>8 DEF r, x
<1>8. Receipts(tokens') = Append(Receipts(tokens), Head(Q))
  BY <1>5, <1>6, <1>7
<1>9. UNCHANGED process /\ reader # "stopped" /\ reader' # "stopped"
  BY <1>1 DEF writer
<1> QED  BY <1>5, <1>8, <1>9 DEF Queue!Receive, Q, Receipts

\* The steps of the reader that neither free a buffer nor stop
LEMMA ReadSteps ==
  ASSUME QInv, MaxSessions =< 1, BeginRead \/ LabelToken \/ ReadCancel
  PROVE  UNCHANGED <<Q, Receipts(tokens), process = "cancelled", reader = "stopped">>
<1> USE DEF QInv, IInv
<1>1. /\ UNCHANGED <<PPStreamIsFull, writer>> /\ HeadSlot' = HeadSlot
      /\ reader # "stopped" /\ reader' # "stopped"
  BY DEF BeginRead, LabelToken, ReadCancel, FlagIs, HeadSlot, buffers
<1>2. NumUnread' = NumUnread
  BY <1>1 DEF NumUnread, writer
<1>3. \A s \in Slot : (\E i \in 1 .. NumUnread : s = Place(HeadSlot, i))
                           => Sent(Streams'[s]) = Sent(Streams[s])
  <2>1. CASE ReadCancel
    <3>1. /\ ProcRStreamNum \in Slot /\ PPStreamIsFull[ProcRStreamNum]
          /\ Streams[ProcRStreamNum].flag = Cancel
          /\ \A s \in Slot \ {ProcRStreamNum} : Streams'[s] = Streams[s]
      BY <2>1 DEF ReadCancel, FlagIs, TypeOK, RingInv
    <3>2. process = "cancelled" /\ ProcRStreamNum = WStreamNum
      BY <3>1 DEF FlagInv, SameIteration, EndOfIteration, Cancel
    <3> QED  BY <3>1, <3>2, UnreadAreFull
  <2>2. CASE ~ ReadCancel
    BY <2>2 DEF BeginRead, LabelToken, buffers
  <2> QED  BY <2>1, <2>2
<1>4. Q' = Q  BY <1>1, <1>2, <1>3, QueueStays
<1>5. Receipts(tokens') = Receipts(tokens)
  <2>1. CASE LabelToken
    <3>1. PICK S : tokens \in Seq(S)
      BY DEF TokenInv
    <3>2. Len(tokens) \in 1 .. Len(tokens) /\ DOMAIN tokens = 1 .. Len(tokens)
      BY <2>1, <3>1, EmptySeq DEF LabelToken, TokenInv
    <3>3. tokens[Len(tokens)] \in [iter : Nat, label : Nat,
                    flag : {SameIteration, EndOfIteration}, items : Seq(Accesses)]
      BY <3>2, ElementOfSeq DEF TokenInv
    <3> DEFINE x == [tokens[Len(tokens)] EXCEPT !.label = Streams[ProcRStreamNum].iter]
    <3>4. Received(x) = Received(tokens[Len(tokens)])
      BY <3>3 DEF Received
    <3>5. tokens' = [tokens EXCEPT ![Len(tokens)] = x]
      BY <2>1 DEF LabelToken
    <3> HIDE DEF x
    <3>6. DOMAIN tokens' = DOMAIN tokens /\ \A i \in DOMAIN tokens :
            tokens'[i] = IF i = Len(tokens) THEN x ELSE tokens[i]
      BY <3>2, <3>5
    <3> QED  BY <3>4, <3>6 DEF Receipts
  <2>2. CASE ~ LabelToken
    <3>1. tokens' = tokens  BY <2>2 DEF BeginRead, ReadCancel
    <3> QED  BY <3>1
  <2> QED  BY <2>1, <2>2
<1> QED  BY <1>1, <1>4, <1>5 DEF writer

\* Reading the cancelling buffer again stops the queue.
LEMMA StopStep ==
  ASSUME QInv, MaxSessions =< 1, ReadCancelAgain
  PROVE  Queue!Stop
<1> USE DEF QInv, IInv
<1>1. /\ UNCHANGED <<buffers, writer, tokens>> /\ reader = "reading" /\ reader' = "stopped"
      /\ Streams[ProcRStreamNum].flag = CancelAgain /\ HeadSlot = ProcRStreamNum
      /\ HeadSlot' = HeadSlot
  BY DEF ReadCancelAgain, FlagIs, HeadSlot
<1>2. process = "cancelled" /\ HeadSlot = WStreamNum
  BY <1>1 DEF FlagInv, RingInv, TypeOK, SameIteration, EndOfIteration, CancelAgain
<1>3. NumUnread = 0 /\ NumUnread' = 0
  BY <1>1, <1>2, AddrStreamAssumption DEF NumUnread, Behind, TypeOK, Slot, writer
<1>4. Q = <<>> /\ Q' = <<>>
  BY <1>3, QueueNow, QueueNext DEF Messages
<1> QED  BY <1>1, <1>2, <1>4 DEF Queue!Stop, Q, writer

\* In one execution of the loop every step of the process and of parreadlida is a
\* step of the queue or leaves it alone: for every number of buffers, items,
\* accesses and iterations, no buffer is lost, read twice, reordered or changed
\* between its publication and its token, and the reader stops after all of them.
THEOREM Refinement ==
  ASSUME MaxSessions =< 1
  PROVE  Spec => QueueSpec
<1>1. Init => Queue!Init
  <2> SUFFICES ASSUME Init PROVE Queue!Init
    OBVIOUS
  <2>1. NumUnread = 0
    BY AddrStreamAssumption DEF Init, WriterInit, ReaderInit, NumUnread, Behind, HeadSlot, Slot
  <2>2. Q = <<>>  BY <2>1, QueueNow DEF Messages
  <2>3. process # "cancelled" /\ reader # "stopped" /\ tokens = <<>>
    BY DEF Init, WriterInit, ReaderInit
  <2>4. [i \in DOMAIN tokens |-> Received(tokens[i])] = <<>>
    BY <2>3
  <2> QED  BY <2>2, <2>3, <2>4 DEF Queue!Init, Q
<1>2. QInv /\ [Next]_vars => QInv'
  BY NextQInv
<1>3. QInv /\ [Next]_vars =>
        [Queue!Next]_<<Q, Receipts(tokens), process = "cancelled", reader = "stopped">>
  <2> SUFFICES ASSUME QInv, [Next]_vars
               PROVE  Queue!Next \/ UNCHANGED <<Q, Receipts(tokens), process = "cancelled",
                                                reader = "stopped">>
    OBVIOUS
  <2>1. CASE EnterLoop \/ (\E a \in Accesses : Store(a)) \/ NextBufferFree
    BY <2>1, WriteSteps
  <2>2. CASE (\E a \in Accesses : Overflow(a)) \/ EndIteration \/ ExitLoop
    BY <2>2, SendStep DEF Queue!Next
  <2>3. CASE CancelPipeline
    BY <2>3, CloseStep DEF Queue!Next
  <2>4. CASE ReadSameIteration \/ ReadEndOfIteration
    BY <2>4, ReceiveStep DEF Queue!Next
  <2>5. CASE BeginRead \/ LabelToken \/ ReadCancel
    BY <2>5, ReadSteps
  <2>6. CASE ReadCancelAgain
    BY <2>6, StopStep DEF Queue!Next
  <2>7. CASE UNCHANGED vars
    <3>1. HeadSlot' = HeadSlot /\ NumUnread' = NumUnread
      BY <2>7 DEF vars, buffers, writer, readVars, HeadSlot, NumUnread
    <3>2. Q' = Q
      BY <2>7, <3>1, QueueStays DEF vars, buffers
    <3> QED  BY <2>7, <3>2 DEF vars, buffers, writer, readVars
  <2> QED  BY <2>1, <2>2, <2>3, <2>4, <2>5, <2>6, <2>7 DEF Next, Process, Reader
<1> QED  BY InitQInv, <1>1, <1>2, <1>3, PTL DEF Spec, QueueSpec, Queue!Spec, Q, Receipts

-----------------------------------------------------------------------------
(***************************************************************************)
(* Sequences flattened: FlattenSeq is recursive, and what one sequence     *)
(* more does to it follows by induction, over a set of numbers.            *)
(***************************************************************************)
Before == {ss \in Nat \X Nat : ss[1] < ss[2]}

\* Induction, for the members of a set: what holds of 0, and of k + 1 if of k, holds of all.
LEMMA Induction ==
  ASSUME NEW S, NEW n \in Nat, 0 \in S, \A k \in 0 .. n - 1 : k \in S => k + 1 \in S
  PROVE  \A k \in 0 .. n : k \in S
<1> DEFINE T == {k \in 0 .. n : k \notin S}
<1> SUFFICES ASSUME T # {} PROVE FALSE
  OBVIOUS
<1>1. T \subseteq Nat
  OBVIOUS
<1>2. PICK m \in T : \A l \in T : ~(<<l, m>> \in Before)
  <2>1. IsWellFoundedOn(Before, Nat)
    BY NatLessThanWellFounded DEF OpToRel, Before
  <2> HIDE DEF T
  <2> QED  BY <1>1, <2>1, WFMin
<1>3. m \in 0 .. n /\ m \notin S /\ m # 0
  OBVIOUS
<1>4. m - 1 \in 0 .. n - 1 /\ m - 1 \in 0 .. n /\ (m - 1) + 1 = m /\ m - 1 < m
  BY <1>3
<1>5. m - 1 \notin S
  BY <1>3, <1>4
<1>6. m - 1 \in T /\ <<m - 1, m>> \in Nat \X Nat
  BY <1>3, <1>4, <1>5
<1>7. <<m - 1, m>> \in Before
  BY <1>4, <1>6 DEF Before
<1> QED
  BY <1>2, <1>6, <1>7

\* The first n sequences of seqs, flattened one after the other
Flattens(f, seqs, n) ==
  f = [i \in 1 .. n |-> IF i = 1 THEN seqs[i] ELSE f[i - 1] \o seqs[i]]

\* The recursion of FlattenSeq has a solution.
LEMMA FlattenExists ==
  ASSUME NEW seqs, NEW n \in Nat
  PROVE  \E f : Flattens(f, seqs, n)
<1> DEFINE S == {k \in 0 .. n : \E f : Flattens(f, seqs, k)}
<1>1. 0 \in S
  <2>1. Flattens([i \in 1 .. 0 |-> <<>>], seqs, 0)
    BY DEF Flattens
  <2> QED  BY <2>1
<1>2. ASSUME NEW k \in 0 .. n - 1, k \in S PROVE k + 1 \in S
  <2>1. PICK f : Flattens(f, seqs, k)
    BY <1>2
  <2> DEFINE next == IF k = 0 THEN seqs[1] ELSE f[k] \o seqs[k + 1]
             g == [i \in 1 .. k + 1 |-> IF i = k + 1 THEN next ELSE f[i]]
  <2>2. \A i \in 1 .. k : f[i] = IF i = 1 THEN seqs[i] ELSE f[i - 1] \o seqs[i]
    BY <2>1 DEF Flattens
  <2>3. \A i \in 1 .. k + 1 : g[i] = IF i = 1 THEN seqs[i] ELSE g[i - 1] \o seqs[i]
    <3> TAKE i \in 1 .. k + 1
    <3>1. i # 1 => i - 1 \in 1 .. k + 1 /\ i - 1 # k + 1 /\ g[i - 1] = f[i - 1]
      OBVIOUS
    <3>2. CASE i = k + 1
      <4>1. g[i] = next /\ (i = 1 <=> k = 0) /\ i - 1 = k
        BY <3>2
      <4>2. CASE i = 1  BY <3>2, <4>1, <4>2
      <4>3. CASE i # 1  
        <5>1. next = f[k] \o seqs[k + 1]  BY <4>1, <4>3
        <5> HIDE DEF next, g
        <5> QED  BY <3>1, <3>2, <4>1, <4>3, <5>1
      <4> QED  BY <4>2, <4>3
    <3>3. CASE i # k + 1
      <4>1. i \in 1 .. k /\ g[i] = f[i]  BY <3>3
      <4> HIDE DEF g
      <4> QED  BY <2>2, <3>1, <4>1
    <3> QED  BY <3>2, <3>3
  <2>4. Flattens(g, seqs, k + 1)
    BY <2>3 DEF Flattens
  <2>5. k + 1 \in 0 .. n  OBVIOUS
  <2> QED  BY <2>4, <2>5
<1> HIDE DEF S
<1>3. n \in S  BY <1>1, <1>2, Induction
<1> QED  BY <1>3 DEF S

\* FlattenSeq is that solution.
LEMMA FlattenIs ==
  ASSUME NEW seqs, Len(seqs) \in Nat, Len(seqs) # 0
  PROVE  \E f : Flattens(f, seqs, Len(seqs)) /\ FlattenSeq(seqs) = f[Len(seqs)]
<1> DEFINE f == CHOOSE g : Flattens(g, seqs, Len(seqs))
<1>1. Flattens(f, seqs, Len(seqs))
  <2>1. \E g : Flattens(g, seqs, Len(seqs))
    BY FlattenExists
  <2> QED  BY <2>1, Zenon
<1>2. FlattenSeq(seqs) = f[Len(seqs)]
  BY Zenon DEF FlattenSeq, Flattens
<1> QED  BY <1>1, <1>2

\* Two lists of sequences that begin alike, and functions that flatten them
BeginAlike(T, s, t, f, g, m) ==
  /\ Flattens(f, s, m) /\ Flattens(g, t, m + 1)
  /\ \A i \in 1 .. m : s[i] = t[i] /\ s[i] \in Seq(T)

\* The first sequences of two that begin alike are flattened to the same, which
\* is a sequence of what is in them.
LEMMA FlattenSame ==
  ASSUME NEW T, NEW s, NEW t, NEW f, NEW g, NEW m \in Nat, BeginAlike(T, s, t, f, g, m)
  PROVE  \A i \in 1 .. m : f[i] = g[i] /\ f[i] \in Seq(T)
<1> DEFINE S == {k \in 0 .. m : k # 0 => f[k] = g[k] /\ f[k] \in Seq(T)}
<1>1. \A i \in 1 .. m : f[i] = IF i = 1 THEN s[i] ELSE f[i - 1] \o s[i]
  BY DEF BeginAlike, Flattens
<1>2. \A i \in 1 .. m : g[i] = IF i = 1 THEN t[i] ELSE g[i - 1] \o t[i]
  <2>1. \A i \in 1 .. m + 1 : g[i] = IF i = 1 THEN t[i] ELSE g[i - 1] \o t[i]
    BY DEF BeginAlike, Flattens
  <2> QED  BY <2>1
<1>3. ASSUME NEW k \in 0 .. m - 1, k \in S PROVE k + 1 \in S
  <2>1. k + 1 \in 1 .. m /\ k + 1 \in 0 .. m /\ (k + 1) - 1 = k
    OBVIOUS
  <2>2. s[k + 1] = t[k + 1] /\ s[k + 1] \in Seq(T)
    BY <2>1 DEF BeginAlike
  <2>3. CASE k = 0
    <3>1. f[k + 1] = s[k + 1] /\ g[k + 1] = t[k + 1]
      BY <1>1, <1>2, <2>1, <2>3
    <3> QED  BY <2>1, <2>2, <3>1
  <2>4. CASE k # 0
    <3>1. f[k] = g[k] /\ f[k] \in Seq(T)
      BY <1>3, <2>4
    <3>2. k + 1 # 1  BY <2>4
    <3>3. f[k + 1] = f[k] \o s[k + 1] /\ g[k + 1] = g[k] \o t[k + 1]
      BY <1>1, <1>2, <2>1, <3>2
    <3>4. f[k] \o s[k + 1] \in Seq(T)
      BY <2>2, <3>1, ConcatProperties
    <3> QED  BY <2>1, <2>2, <3>1, <3>3, <3>4
  <2> QED  BY <2>3, <2>4
<1>4. 0 \in S  OBVIOUS
<1> HIDE DEF S
<1>5. \A k \in 0 .. m : k \in S  BY <1>3, <1>4, Induction
<1>6. \A k \in 1 .. m : k \in S /\ k # 0  BY <1>5
<1> QED  BY <1>6 DEF S

\* One sequence more is appended to the others flattened.
LEMMA FlattenAppend ==
  ASSUME NEW T, NEW seqs \in Seq(Seq(T)), NEW s \in Seq(T)
  PROVE  /\ FlattenSeq(seqs) \in Seq(T)
         /\ FlattenSeq(Append(seqs, s)) = FlattenSeq(seqs) \o s
<1> DEFINE n == Len(seqs)
           t == Append(seqs, s)
<1>1. /\ n \in Nat /\ t \in Seq(Seq(T)) /\ Len(t) = n + 1 /\ t[n + 1] = s
      /\ \A i \in 1 .. n : t[i] = seqs[i] /\ seqs[i] \in Seq(T)
  BY AppendProperties, ElementOfSeq, LenProperties
<1> HIDE DEF t
<1>2. PICK g : Flattens(g, t, n + 1) /\ FlattenSeq(t) = g[n + 1]
  <2>1. Len(t) \in Nat /\ Len(t) # 0  BY <1>1
  <2> QED  BY <1>1, <2>1, FlattenIs
<1>3. \A i \in 1 .. n + 1 : g[i] = IF i = 1 THEN t[i] ELSE g[i - 1] \o t[i]
  BY <1>2 DEF Flattens
<1>4. CASE n = 0
  <2>1. seqs = <<>>  BY <1>4, EmptySeq
  <2>2. FlattenSeq(seqs) = <<>>  BY <2>1 DEF FlattenSeq
  <2>3. FlattenSeq(t) = s  BY <1>1, <1>2, <1>3, <1>4
  <2>4. <<>> \in Seq(T) /\ <<>> \o s = s  BY ConcatEmptySeq
  <2> QED  BY <2>2, <2>3, <2>4 DEF t
<1>5. CASE n # 0
  <2>1. PICK f : Flattens(f, seqs, n) /\ FlattenSeq(seqs) = f[n]
    BY <1>1, <1>5, FlattenIs
  <2>2. \A i \in 1 .. n : f[i] = g[i] /\ f[i] \in Seq(T)
    <3>1. n \in Nat /\ \A i \in 1 .. n : seqs[i] = t[i] /\ seqs[i] \in Seq(T)
      BY <1>1
    <3> HIDE DEF n
    <3>2. BeginAlike(T, seqs, t, f, g, n)
      BY <1>2, <2>1, <3>1 DEF BeginAlike
    <3> QED  BY <3>1, <3>2, FlattenSame
  <2>3. n \in 1 .. n /\ n + 1 \in 1 .. n + 1 /\ n + 1 # 1 /\ (n + 1) - 1 = n
    BY <1>1, <1>5
  <2> HIDE DEF n
  <2>4. g[n + 1] = g[n] \o t[n + 1]
    BY <1>3, <2>3
  <2> QED  BY <1>1, <1>2, <2>1, <2>2, <2>3, <2>4 DEF t
<1> QED  BY <1>4, <1>5

-----------------------------------------------------------------------------
(***************************************************************************)
(* What is stored is delivered: the messages sent so far, flattened, and   *)
(* the buffer that is being filled are the accesses stored so far.         *)
(***************************************************************************)
Msg == [iter : Nat, flag : {SameIteration, EndOfIteration, Cancel, CancelAgain},
        items : Seq(Accesses)]
Access == [iter : Nat, access : Accesses, stored : BOOLEAN]
Stamp == Nat \X Accesses

Mapped(f, s) == [i \in DOMAIN s |-> f[s[i]]]
Maps(f, S, R, s, x) == f \in [S -> R] /\ s \in Seq(S) /\ x \in S

\* A function maps one element more to one element more.
LEMMA MapAppend ==
  ASSUME NEW S, NEW R, NEW f, NEW s, NEW x, Maps(f, S, R, s, x)
  PROVE  /\ Mapped(f, s) \in Seq(R) /\ f[x] \in R
         /\ Mapped(f, Append(s, x)) = Append(Mapped(f, s), f[x])
<1> DEFINE n == Len(s)
           t == Append(s, x)
           r == Mapped(f, s)
<1>0. f \in [S -> R] /\ s \in Seq(S) /\ x \in S  BY DEF Maps
<1>1. /\ n \in Nat /\ DOMAIN s = 1 .. n /\ DOMAIN t = 1 .. n + 1 /\ t[n + 1] = x
      /\ \A i \in 1 .. n : t[i] = s[i] /\ s[i] \in S
  BY <1>0, AppendProperties, ElementOfSeq, LenProperties
<1> HIDE DEF n, t
<1>2. r = [i \in 1 .. n |-> f[s[i]]]  BY <1>1 DEF Mapped
<1>3. r \in Seq(R) /\ Len(r) = n  BY <1>0, <1>1, <1>2
<1>4. Append(r, f[x]) = [i \in 1 .. n + 1 |-> IF i = n + 1 THEN f[x] ELSE r[i]]
  <2> HIDE DEF r
  <2> QED  BY <1>1, <1>3
<1>5. \A i \in 1 .. n + 1 : i # n + 1 => i \in 1 .. n /\ r[i] = f[t[i]]
  BY <1>1, <1>2
<1> HIDE DEF r
<1>6. Mapped(f, t) = [i \in 1 .. n + 1 |-> IF i = n + 1 THEN f[x] ELSE r[i]]
  BY <1>1, <1>5 DEF Mapped
<1> QED  BY <1>0, <1>3, <1>4, <1>6 DEF t, r

Stamps(ms) == [i \in DOMAIN ms |-> Stamped(ms[i])]

\* One message more delivers its accesses after those of the others.
LEMMA StampsAppend ==
  ASSUME NEW ms \in Seq(Msg), NEW m \in Msg
  PROVE  /\ FlattenSeq(Stamps(ms)) \in Seq(Stamp) /\ Stamped(m) \in Seq(Stamp)
         /\ FlattenSeq(Stamps(Append(ms, m))) = FlattenSeq(Stamps(ms)) \o Stamped(m)
<1> DEFINE f == [b \in Msg |-> Stamped(b)]
           F == Mapped(f, ms)
<1>1. ASSUME NEW b \in Msg PROVE Stamped(b) \in Seq(Stamp)
  <2>1. b.items \in Seq(Accesses) /\ b.iter \in Nat  BY DEF Msg
  <2>2. \A i \in 1 .. Len(b.items) : b.items[i] \in Accesses  BY <2>1, ElementOfSeq
  <2>3. DOMAIN b.items = 1 .. Len(b.items) /\ Len(b.items) \in Nat  BY <2>1, LenProperties
  <2>4. Stamped(b) \in [1 .. Len(b.items) -> Stamp]  BY <2>1, <2>2, <2>3 DEF Stamped, Stamp
  <2> HIDE DEF Stamp
  <2> QED  BY <2>3, <2>4
<1>2. f \in [Msg -> Seq(Stamp)]  BY <1>1
<1>3. f[m] = Stamped(m) /\ Append(ms, m) \in Seq(Msg)  BY AppendProperties
<1>4. ASSUME NEW s \in Seq(Msg) PROVE Mapped(f, s) = Stamps(s)
  <2>1. \A i \in DOMAIN s : s[i] \in Msg  BY ElementOfSeq, LenProperties
  <2> QED  BY <2>1 DEF Mapped, Stamps
<1>5. F = Stamps(ms) /\ Mapped(f, Append(ms, m)) = Stamps(Append(ms, m))
  BY <1>3, <1>4
<1> HIDE DEF f
<1>6. F \in Seq(Seq(Stamp)) /\ Mapped(f, Append(ms, m)) = Append(F, f[m])
  <2>1. Maps(f, Msg, Seq(Stamp), ms, m)  BY <1>2 DEF Maps
  <2> QED  BY <2>1, MapAppend
<1>7. f[m] \in Seq(Stamp)  BY <1>1, <1>3
<1> HIDE DEF F
<1>8. FlattenSeq(F) \in Seq(Stamp) /\ FlattenSeq(Append(F, f[m])) = FlattenSeq(F) \o f[m]
  BY <1>6, <1>7, FlattenAppend
<1> QED  BY <1>3, <1>5, <1>6, <1>7, <1>8

KeptOf(accs) == [i \in DOMAIN accs |-> Kept(accs[i])]

\* One access more stores itself, or nothing, after the others.
LEMMA KeptAppend ==
  ASSUME NEW accs \in Seq(Access), NEW acc \in Access
  PROVE  /\ FlattenSeq(KeptOf(accs)) \in Seq(Stamp)
         /\ FlattenSeq(KeptOf(Append(accs, acc))) = FlattenSeq(KeptOf(accs)) \o Kept(acc)
<1> DEFINE f == [b \in Access |-> Kept(b)]
           F == Mapped(f, accs)
<1>1. ASSUME NEW b \in Access PROVE Kept(b) \in Seq(Stamp)
  <2>1. <<b.iter, b.access>> \in Stamp  BY DEF Access, Stamp
  <2> HIDE DEF Stamp
  <2>2. << <<b.iter, b.access>> >> \in Seq(Stamp) /\ <<>> \in Seq(Stamp)  BY <2>1
  <2> QED  BY <2>2 DEF Kept
<1>2. f \in [Access -> Seq(Stamp)]  BY <1>1
<1>3. f[acc] = Kept(acc) /\ Append(accs, acc) \in Seq(Access)  BY AppendProperties
<1>4. ASSUME NEW s \in Seq(Access) PROVE Mapped(f, s) = KeptOf(s)
  <2>1. \A i \in DOMAIN s : s[i] \in Access  BY ElementOfSeq, LenProperties
  <2> QED  BY <2>1 DEF Mapped, KeptOf
<1>5. F = KeptOf(accs) /\ Mapped(f, Append(accs, acc)) = KeptOf(Append(accs, acc))
  BY <1>3, <1>4
<1> HIDE DEF f
<1>6. F \in Seq(Seq(Stamp)) /\ Mapped(f, Append(accs, acc)) = Append(F, f[acc])
  <2>1. Maps(f, Access, Seq(Stamp), accs, acc)  BY <1>2 DEF Maps
  <2> QED  BY <2>1, MapAppend
<1>7. f[acc] \in Seq(Stamp)  BY <1>1, <1>3
<1> HIDE DEF F
<1>8. FlattenSeq(F) \in Seq(Stamp) /\ FlattenSeq(Append(F, f[acc])) = FlattenSeq(F) \o f[acc]
  BY <1>6, <1>7, FlattenAppend
<1> QED  BY <1>3, <1>5, <1>6, <1>7, <1>8

\* The messages received and those in the ring
LEMMA PublishedType ==
  ASSUME QInv
  PROVE  /\ Receipts(tokens) \in Seq(Msg) /\ Q \in Seq(Msg)
         /\ Published = Receipts(tokens) \o Q /\ Published \in Seq(Msg)
<1> USE DEF QInv, IInv
<1>1. Receipts(tokens) \in Seq(Msg)
  <2>1. Len(tokens) \in Nat /\ DOMAIN tokens = 1 .. Len(tokens)
    BY LenProperties DEF TokenInv
  <2>2. \A i \in 1 .. Len(tokens) : Received(tokens[i]) \in Msg
    <3> TAKE i \in 1 .. Len(tokens)
    <3>1. tokens[i] \in [iter : Nat, label : Nat, flag : {SameIteration, EndOfIteration},
                         items : Seq(Accesses)]
      BY ElementOfSeq DEF TokenInv
    <3> QED  BY <3>1 DEF Received, Msg
  <2> HIDE DEF Msg
  <2>3. Receipts(tokens) \in [1 .. Len(tokens) -> Msg]  BY <2>1, <2>2 DEF Receipts
  <2> QED  BY <2>1, <2>3
<1>2. Q \in Seq(Msg)
  <2>1. NumUnread \in Nat /\ \A i \in 1 .. NumUnread : Place(HeadSlot, i) \in Slot
    BY UnreadAreFull, AddrStreamAssumption
  <2>2. \A i \in 1 .. NumUnread : Sent(Streams[Place(HeadSlot, i)]) \in Msg
    <3> TAKE i \in 1 .. NumUnread
    <3> DEFINE b == Streams[Place(HeadSlot, i)]
    <3>1. b \in Buffer  BY <2>1 DEF TypeOK
    <3> HIDE DEF b
    <3>2. /\ b.end \in 1 .. STREAMITEMNUM /\ b.iter \in Nat
          /\ b.flag \in {SameIteration, EndOfIteration, Cancel, CancelAgain}
      BY <3>1 DEF Buffer
    <3>3. SubSeq(b.items, 1, b.end - 1) \in Seq(Accesses)  BY <3>1, <3>2, ItemsAreSeq
    <3>4. Sent(b) \in Msg  BY <3>2, <3>3 DEF Sent, Msg
    <3> QED  BY <3>4 DEF b
  <2>3. Q = [i \in 1 .. NumUnread |-> Sent(Streams[Place(HeadSlot, i)])]
    BY QueueNow DEF Messages
  <2> HIDE DEF Msg
  <2>4. Q \in [1 .. NumUnread -> Msg]  BY <2>2, <2>3
  <2> QED  BY <2>1, <2>4
<1>3. Published = Receipts(tokens) \o Q
  BY Zenon DEF Published, Receipts, Q
<1> QED  BY <1>1, <1>2, <1>3, ConcatProperties

\* Receiving the head of the queue moves it to the end of what is received.
LEMMA HeadMoves ==
  ASSUME NEW S, NEW r \in Seq(S), NEW q \in Seq(S), q # <<>>
  PROVE  Append(r, Head(q)) \o Tail(q) = r \o q
<1>1. Head(q) \in S /\ Tail(q) \in Seq(S) /\ q = <<Head(q)>> \o Tail(q)
  BY HeadTailProperties, ConcatProperties
<1>2. Append(r, Head(q)) = r \o <<Head(q)>>
  BY <1>1, AppendIsConcat
<1>3. (r \o <<Head(q)>>) \o Tail(q) = r \o (<<Head(q)>> \o Tail(q))
  <2>1. <<Head(q)>> \in Seq(S)  BY <1>1
  <2> QED  BY <1>1, <2>1, ConcatAssociative
<1> QED  BY <1>1, <1>2, <1>3

\* Nothing is sent or stored before the loop is entered.
SInv ==
  /\ accesses \in Seq(Access)
  /\ sessions = 0 => accesses = <<>> /\ Published = <<>>
  /\ StoredDelivered

\* A step that publishes nothing leaves the messages sent as they are.
LEMMA PublishedStays ==
  ASSUME QInv, Q' = Q, Receipts(tokens') = Receipts(tokens)
  PROVE  Published' = Published
<1>1. Published' = Receipts(tokens') \o Q'
  BY Zenon DEF Published, Receipts, Q
<1> QED  BY <1>1, PublishedType

\* So does the reader, who moves one of them from the ring to the pipeline.
LEMMA ReaderPublished ==
  ASSUME QInv, MaxSessions =< 1, Reader
  PROVE  Published' = Published
<1>1. CASE ReadSameIteration \/ ReadEndOfIteration
  <2>1. Q # <<>> /\ Q' = Tail(Q) /\ Receipts(tokens') = Append(Receipts(tokens), Head(Q))
    BY <1>1, ReceiveStep DEF Queue!Receive, Q, Receipts
  <2>2. Published' = Receipts(tokens') \o Q'
    BY Zenon DEF Published, Receipts, Q
  <2> QED  BY <2>1, <2>2, PublishedType, HeadMoves
<1>2. CASE BeginRead \/ LabelToken \/ ReadCancel
  BY <1>2, ReadSteps, PublishedStays
<1>3. CASE ReadCancelAgain
  <2>1. Q' = Q /\ tokens' = tokens
    BY <1>3, StopStep DEF Queue!Stop, Q, ReadCancelAgain
  <2> QED  BY <2>1, PublishedStays
<1> QED  BY <1>1, <1>2, <1>3 DEF Reader

\* A publication sends the accesses of the buffer.
LEMMA PublicationSends ==
  ASSUME QInv, MaxSessions =< 1, (\E a \in Accesses : Overflow(a)) \/ EndIteration
  PROVE  /\ process = "inside" /\ process' = "awaiting" /\ UNCHANGED sessions
         /\ \E m \in Msg : Published' = Append(Published, m) /\ Stamped(m) = InBuffer
<1> USE DEF QInv, IInv
<1> DEFINE w == WStreamNum
           m == Sent(Streams'[w])
<1>1. /\ process = "inside" /\ process' = "awaiting" /\ UNCHANGED <<sessions, readVars>>
      /\ \E flag : Publish(Current(flag, LDDProfLoopIter), "awaiting")
  BY DEF Overflow, CanAccess, EndIteration, Publish
<1>2. PICK flag : Publish(Current(flag, LDDProfLoopIter), "awaiting")
  BY <1>1
<1>3. Q' = Append(Q, m) /\ m \in Message  BY SendStep
<1>4. m \in Msg  BY <1>3 DEF Message, Msg
<1>5. Published' = Append(Published, m)
  <2>1. Published' = Receipts(tokens') \o Q' /\ tokens' = tokens
    <3>1. Published' = Receipts(tokens') \o Q'  BY Zenon DEF Published, Receipts, Q
    <3> QED  BY <1>1, <3>1 DEF readVars
  <2>2. Published' = Receipts(tokens) \o Append(Q, m)  BY <1>3, <2>1
  <2> DEFINE r == Receipts(tokens)
  <2> HIDE DEF m, r
  <2>3. r \in Seq(Msg) /\ Q \in Seq(Msg) /\ <<m>> \in Seq(Msg) /\ Published = r \o Q
    BY <1>4, PublishedType DEF r
  <2>4. Append(Q, m) = Q \o <<m>> /\ Append(r \o Q, m) = (r \o Q) \o <<m>>
    BY <1>4, <2>3, ConcatProperties, AppendIsConcat
  <2>5. r \o (Q \o <<m>>) = (r \o Q) \o <<m>>
    BY <2>3, ConcatAssociative
  <2> QED  BY <2>2, <2>3, <2>4, <2>5 DEF r
<1>6. Stamped(m) = InBuffer
  <2>1. Streams[w] \in Buffer /\ WItemNum \in 1 .. STREAMITEMNUM /\ w \in Slot
    BY DEF TypeOK
  <2>2. Streams'[w] = Current(flag, LDDProfLoopIter)
    BY <1>2, <2>1 DEF Publish, TypeOK
  <2>3. /\ Current(flag, LDDProfLoopIter).iter = LDDProfLoopIter
        /\ Current(flag, LDDProfLoopIter).end = WItemNum
        /\ Current(flag, LDDProfLoopIter).items = Streams[w].items
    BY <2>1 DEF Current, Buffer
  <2> DEFINE s == Streams[w].items
             n == WItemNum - 1
  <2>4. m.iter = LDDProfLoopIter /\ m.items = SubSeq(s, 1, n)
    BY <2>2, <2>3 DEF Sent
  <2>5. s \in Seq(Accesses) /\ n \in 0 .. Len(s)
    <3>1. STREAMITEMNUM - 1 \in Nat /\ s \in [1 .. STREAMITEMNUM - 1 -> Accesses]
      BY <2>1, AddrStreamAssumption DEF Buffer
    <3>2. s \in Seq(Accesses) /\ Len(s) = STREAMITEMNUM - 1  BY <3>1
    <3> QED  BY <2>1, <3>2, AddrStreamAssumption
  <2>6. DOMAIN SubSeq(s, 1, n) = 1 .. n /\ \A i \in 1 .. n : SubSeq(s, 1, n)[i] = s[i]
    <3> HIDE DEF s, n
    <3> QED  BY <2>5
  <2>7. Stamped(m) = [i \in 1 .. n |-> <<LDDProfLoopIter, s[i]>>]
    <3> HIDE DEF m, s, n
    <3> QED  BY <2>4, <2>6 DEF Stamped
  <2> QED  BY <1>1, <2>7 DEF InBuffer
<1> QED  BY <1>1, <1>4, <1>5, <1>6

\* A sequence with an element more, by its elements
LEMMA AppendShape ==
  ASSUME NEW S, NEW c \in Seq(S), NEW x \in S
  PROVE  Append(c, x) = [i \in 1 .. Len(c) + 1 |-> IF i = Len(c) + 1 THEN x ELSE c[i]]
<1> DEFINE t == Append(c, x)
<1>1. /\ t \in Seq(S) /\ Len(t) = Len(c) + 1 /\ t[Len(c) + 1] = x
      /\ \A i \in 1 .. Len(c) : t[i] = c[i]
  BY AppendProperties
<1> HIDE DEF t
<1>2. Len(c) \in Nat /\ t \in [1 .. Len(c) + 1 -> S]
  BY <1>1, LenProperties
<1>3. \A i \in 1 .. Len(c) + 1 : t[i] = IF i = Len(c) + 1 THEN x ELSE c[i]
  BY <1>1, <1>2
<1>4. t = [i \in 1 .. Len(c) + 1 |-> IF i = Len(c) + 1 THEN x ELSE c[i]]
  BY <1>2, <1>3
<1> QED  BY <1>4 DEF t

\* An access that finds room is the last in the buffer.
LEMMA StoreFills ==
  ASSUME QInv, NEW a \in Accesses, Store(a)
  PROVE  InBuffer' = Append(InBuffer, <<LDDProfLoopIter, a>>) /\ InBuffer \in Seq(Stamp)
<1> USE DEF QInv, IInv
<1> DEFINE w == WStreamNum
           n == WItemNum - 1
           s == Streams[w].items
           x == <<LDDProfLoopIter, a>>
           c == [i \in 1 .. n |-> <<LDDProfLoopIter, s[i]>>]
<1>1. /\ process = "inside" /\ process' = "inside" /\ WItemNum < STREAMITEMNUM
      /\ PtrItems[1] = w /\ PtrItems[2] = WItemNum
      /\ WItemNum' = WItemNum + 1 /\ WStreamNum' = w /\ LDDProfLoopIter' = LDDProfLoopIter
      /\ Streams' = [Streams EXCEPT ![w].items[WItemNum] = a]
  BY DEF Store, CanAccess, ItemInv, OwnBufferInv
<1>2. /\ w \in Slot /\ Streams \in [Slot -> Buffer] /\ WItemNum \in 1 .. STREAMITEMNUM - 1
      /\ LDDProfLoopIter \in Nat /\ s \in [1 .. STREAMITEMNUM - 1 -> Accesses] /\ n \in Nat
  <2>1. w \in Slot /\ Streams \in [Slot -> Buffer] /\ LDDProfLoopIter \in Nat
    BY DEF TypeOK
  <2>2. WItemNum \in 1 .. STREAMITEMNUM - 1 /\ n \in Nat
    BY <1>1, AddrStreamAssumption DEF TypeOK
  <2>3. Streams[w] \in Buffer  BY <2>1
  <2>4. s \in [1 .. STREAMITEMNUM - 1 -> Accesses]  BY <2>3 DEF Buffer
  <2> QED  BY <2>1, <2>2, <2>4
<1>3. Streams'[w].items = [s EXCEPT ![WItemNum] = a]
  BY <1>1, <1>2 DEF Buffer
<1>4. \A i \in 1 .. n + 1 : Streams'[w].items[i] = IF i = n + 1 THEN a ELSE s[i]
  <2> HIDE DEF s
  <2> QED  BY <1>2, <1>3, AddrStreamAssumption
<1>5. InBuffer = c  BY <1>1 DEF InBuffer
<1>6. InBuffer' = [i \in 1 .. n + 1 |-> <<LDDProfLoopIter, Streams'[w].items[i]>>]
  <2>1. InBuffer' = [i \in 1 .. WItemNum' - 1 |->
                       <<LDDProfLoopIter', Streams'[WStreamNum'].items[i]>>]
    BY <1>1 DEF InBuffer
  <2>2. WItemNum' - 1 = n + 1  BY <1>1, <1>2
  <2> QED  BY <1>1, <2>1, <2>2
<1>7. c \in Seq(Stamp) /\ Len(c) = n
  <2>1. \A i \in 1 .. n : s[i] \in Accesses
    <3> HIDE DEF s
    <3> QED  BY <1>2, AddrStreamAssumption
  <2>2. c \in [1 .. n -> Stamp]  BY <1>2, <2>1 DEF Stamp
  <2> HIDE DEF c, n
  <2> QED  BY <1>2, <2>2
<1>8. Append(c, x) = [i \in 1 .. n + 1 |-> IF i = n + 1 THEN x ELSE c[i]]
  <2>0. x \in Stamp  BY <1>2 DEF Stamp
  <2> HIDE DEF c, n, x
  <2>1. Append(c, x) = [i \in 1 .. Len(c) + 1 |-> IF i = Len(c) + 1 THEN x ELSE c[i]]
    BY <1>7, <2>0, AppendShape
  <2> QED  BY <1>7, <2>1
<1>9. \A i \in 1 .. n + 1 : i # n + 1 => i \in 1 .. n /\ c[i] = <<LDDProfLoopIter, s[i]>>
  BY <1>2
<1> HIDE DEF c, s, n
<1>10. InBuffer' = [i \in 1 .. n + 1 |-> IF i = n + 1 THEN x ELSE c[i]]
  BY <1>4, <1>6, <1>9
<1> QED  BY <1>5, <1>7, <1>8, <1>10

\* Initially nothing is sent or stored.
LEMMA InitSInv == Init => SInv
<1> SUFFICES ASSUME Init PROVE SInv
  OBVIOUS
<1>1. process = "outside" /\ accesses = <<>> /\ tokens = <<>>
  BY DEF Init, WriterInit, ReaderInit
<1>2. NumUnread = 0
  BY AddrStreamAssumption DEF Init, WriterInit, ReaderInit, NumUnread, Behind, HeadSlot, Slot
<1>3. Q = <<>> /\ Receipts(tokens) = <<>>
  BY <1>1, <1>2, QueueNow DEF Messages, Receipts
<1>4. Published = <<>>
  <2>1. Published = Receipts(tokens) \o Q  BY Zenon DEF Published, Receipts, Q
  <2>2. <<>> \in Seq({}) /\ <<>> \o <<>> = <<>>  BY ConcatEmptySeq
  <2> QED  BY <1>3, <2>1, <2>2
<1> QED  BY <1>1, <1>4 DEF SInv, StoredDelivered

\* What is flattened of a sequence is a sequence of stamps.
LEMMA FlatType ==
  ASSUME QInv, accesses \in Seq(Access)
  PROVE  /\ FlattenSeq(Stamps(Published)) \in Seq(Stamp) /\ MadeStored \in Seq(Stamp)
         /\ Delivered = FlattenSeq(Stamps(Published)) \o InBuffer
         /\ MadeStored = FlattenSeq(KeptOf(accesses))
<1>1. /\ Delivered = FlattenSeq(Stamps(Published)) \o InBuffer
      /\ MadeStored = FlattenSeq(KeptOf(accesses))
  BY Zenon DEF Delivered, MadeStored, Stamps, KeptOf
<1>2. Published \in Seq(Msg)  BY PublishedType
<1>3. [iter |-> 0, flag |-> Cancel, items |-> <<>>] \in Msg
  BY DEF Msg
<1>4. FlattenSeq(Stamps(Published)) \in Seq(Stamp)  BY <1>2, <1>3, StampsAppend
<1>5. FlattenSeq(KeptOf(accesses)) \in Seq(Stamp)
  <2>1. CASE accesses = <<>>
    <3>1. FlattenSeq(KeptOf(accesses)) = <<>>  BY <2>1 DEF KeptOf, FlattenSeq
    <3> QED  BY <3>1
  <2>2. CASE accesses # <<>>
    <3>1. accesses[1] \in Access  BY <2>2, HeadTailProperties
    <3> QED  BY <3>1, KeptAppend
  <2> QED  BY <2>1, <2>2
<1> QED  BY <1>1, <1>4, <1>5

\* A step that changes neither side
LEMMA SameSides ==
  ASSUME StoredDelivered, Published' = Published, UNCHANGED <<accesses, process>>,
         InBuffer' = InBuffer
  PROVE  StoredDelivered'
<1>1. Delivered' = Delivered /\ MadeStored' = MadeStored
  BY Zenon DEF Delivered, MadeStored, Stamps
<1> QED  BY <1>1 DEF StoredDelivered

\* Every step keeps what is delivered equal to what is stored.
LEMMA NextSInv ==
  ASSUME QInv, SInv, [Next]_vars, MaxSessions =< 1
  PROVE  SInv'
<1> USE DEF QInv, IInv
<1>0. accesses \in Seq(Access) /\ StoredDelivered /\ sessions \in Nat  BY DEF SInv, TypeOK
<1>1. ASSUME UNCHANGED <<accesses, process, sessions>>, Published' = Published, InBuffer' = InBuffer
      PROVE  SInv'
  BY <1>0, <1>1, SameSides DEF SInv
<1>2. CASE Reader
  <2>1. UNCHANGED writer  BY <1>2 DEF Reader, BeginRead, ReadSameIteration, ReadEndOfIteration,
                                      LabelToken, ReadCancel, ReadCancelAgain
  <2>2. InBuffer' = InBuffer
    <3>1. CASE process = "inside"
      <4>1. Streams' = Streams
        <5>1. ASSUME ReadCancel PROVE FALSE
          <6>1. /\ ProcRStreamNum \in Slot /\ PPStreamIsFull[ProcRStreamNum]
                /\ Streams[ProcRStreamNum].flag = Cancel
            BY <5>1 DEF ReadCancel, FlagIs, TypeOK, RingInv
          <6> QED  BY <3>1, <6>1 DEF FlagInv, SameIteration, EndOfIteration, Cancel
        <5> QED  BY <1>2, <5>1 DEF Reader, BeginRead, ReadSameIteration, ReadEndOfIteration,
                                      LabelToken, ReadCancelAgain, buffers
      <4> QED  BY <2>1, <4>1 DEF writer, InBuffer
    <3>2. CASE process # "inside"  BY <2>1, <3>2 DEF writer, InBuffer
    <3> QED  BY <3>1, <3>2
  <2> QED  BY <1>1, <1>2, <2>1, <2>2, ReaderPublished DEF writer
<1>3. CASE UNCHANGED vars
  <2>1. Q' = Q /\ Receipts(tokens') = Receipts(tokens)
    <3>1. HeadSlot' = HeadSlot /\ NumUnread' = NumUnread
      BY <1>3 DEF vars, buffers, writer, readVars, HeadSlot, NumUnread
    <3>2. Q' = Q
      BY <1>3, <3>1, QueueStays DEF vars, buffers
    <3> QED  BY <1>3, <3>2 DEF vars, readVars
  <2>2. InBuffer' = InBuffer  BY <1>3 DEF vars, buffers, writer, InBuffer
  <2> QED  BY <1>1, <1>3, <2>1, <2>2, PublishedStays DEF vars, writer
<1>4. CASE EnterLoop
  <2>1. /\ process = "outside" /\ process' = "inside" /\ sessions = 0 /\ sessions' = 1
        /\ WItemNum' = 1 /\ accesses' = accesses
    BY <1>0, <1>4, AddrStreamAssumption DEF EnterLoop, ItemInv
  <2>2. Published' = Published
    BY <1>4, WriteSteps, PublishedStays
  <2>3. accesses' = <<>> /\ Published' = <<>>  BY <2>1, <2>2 DEF SInv
  <2>4. InBuffer' = <<>>  BY <2>1 DEF InBuffer
  <2>5. Delivered' = MadeStored'
    <3>1. /\ Delivered' = FlattenSeq(Stamps(Published')) \o InBuffer'
          /\ MadeStored' = FlattenSeq(KeptOf(accesses'))
      BY Zenon DEF Delivered, MadeStored, Stamps, KeptOf
    <3>2. FlattenSeq(Stamps(<<>>)) = <<>> /\ FlattenSeq(KeptOf(<<>>)) = <<>>
      BY DEF FlattenSeq, Stamps, KeptOf
    <3>3. <<>> \in Seq({}) /\ <<>> \o <<>> = <<>>  BY ConcatEmptySeq
    <3> QED  BY <2>3, <2>4, <3>1, <3>2, <3>3
  <2> QED  BY <1>0, <2>1, <2>5 DEF SInv, StoredDelivered
<1>5. ASSUME NEW a \in Accesses, Store(a) PROVE SInv'
  <2> DEFINE acc == [iter |-> LDDProfLoopIter, access |-> a, stored |-> TRUE]
             x == <<LDDProfLoopIter, a>>
  <2>1. /\ accesses' = Append(accesses, acc) /\ acc \in Access /\ sessions' = sessions
        /\ process = "inside" /\ process' = "inside" /\ sessions # 0
    BY <1>5 DEF Store, Made, CanAccess, Access, TypeOK, OwnBufferInv
  <2>2. Kept(acc) = <<x>> /\ x \in Stamp
    BY DEF Kept, Stamp, TypeOK
  <2>3. Published' = Published  BY <1>5, WriteSteps, PublishedStays
  <2>4. InBuffer' = Append(InBuffer, x) /\ InBuffer \in Seq(Stamp)  BY <1>5, StoreFills
  <2>5. /\ Delivered' = FlattenSeq(Stamps(Published')) \o InBuffer'
        /\ MadeStored' = FlattenSeq(KeptOf(accesses'))
    BY Zenon DEF Delivered, MadeStored, Stamps, KeptOf
  <2> HIDE DEF acc, x
  <2>6. MadeStored' = MadeStored \o <<x>>
    BY <1>0, <2>1, <2>2, <2>5, KeptAppend, FlatType
  <2> DEFINE d == FlattenSeq(Stamps(Published))
  <2>7. d \in Seq(Stamp) /\ Delivered = d \o InBuffer /\ Delivered = MadeStored
    BY <1>0, <2>1, FlatType DEF StoredDelivered
  <2>8. Delivered' = d \o (InBuffer \o <<x>>)
    BY <2>2, <2>3, <2>4, <2>5, AppendIsConcat
  <2> HIDE DEF d
  <2>9. d \o (InBuffer \o <<x>>) = (d \o InBuffer) \o <<x>>
    <3> DEFINE y == <<x>>
               b == InBuffer
    <3>1. d \in Seq(Stamp) /\ b \in Seq(Stamp) /\ y \in Seq(Stamp)  BY <2>2, <2>4, <2>7
    <3> HIDE DEF y, b
    <3>2. d \o (b \o y) = (d \o b) \o y  BY <3>1, ConcatAssociative
    <3> QED  BY <3>2 DEF y, b
  <2>10. accesses' \in Seq(Access)  BY <1>0, <2>1, AppendProperties
  <2> QED  BY <2>1, <2>6, <2>7, <2>8, <2>9, <2>10 DEF SInv, StoredDelivered
<1>6. CASE (\E a \in Accesses : Overflow(a)) \/ EndIteration
  <2>1. /\ process = "inside" /\ process' = "awaiting" /\ sessions' = sessions /\ sessions # 0
        /\ \E m \in Msg : Published' = Append(Published, m) /\ Stamped(m) = InBuffer
    BY <1>6, PublicationSends DEF OwnBufferInv
  <2>2. PICK m \in Msg : Published' = Append(Published, m) /\ Stamped(m) = InBuffer
    BY <2>1
  <2>3. accesses' \in Seq(Access) /\ MadeStored' = MadeStored
    <3>1. CASE EndIteration
      <4>1. accesses' = accesses  BY <3>1 DEF EndIteration
      <4> QED  BY <1>0, <4>1 DEF MadeStored
    <3>2. ASSUME NEW a \in Accesses, Overflow(a)
          PROVE  accesses' \in Seq(Access) /\ MadeStored' = MadeStored
      <4> DEFINE acc == [iter |-> LDDProfLoopIter, access |-> a, stored |-> FALSE]
      <4>1. accesses' = Append(accesses, acc) /\ acc \in Access
        BY <3>2 DEF Overflow, Made, Access, TypeOK
      <4>2. Kept(acc) = <<>>  BY DEF Kept
      <4>3. MadeStored' = FlattenSeq(KeptOf(accesses'))  BY Zenon DEF MadeStored, KeptOf
      <4> HIDE DEF acc
      <4>4. MadeStored' = MadeStored \o <<>>
        BY <1>0, <4>1, <4>2, <4>3, KeptAppend, FlatType
      <4>5. MadeStored \o <<>> = MadeStored  BY <1>0, FlatType, ConcatEmptySeq
      <4>6. accesses' \in Seq(Access)  BY <1>0, <4>1, AppendProperties
      <4> QED  BY <4>4, <4>5, <4>6
    <3> QED  BY <1>6, <3>1, <3>2
  <2>4. Delivered' = FlattenSeq(Stamps(Published')) \o <<>>
    <3>1. Delivered' = FlattenSeq(Stamps(Published')) \o InBuffer'
      BY Zenon DEF Delivered, Stamps
    <3>2. InBuffer' = <<>>  BY <2>1 DEF InBuffer
    <3> QED  BY <3>1, <3>2
  <2>5. Delivered' = Delivered
    <3> DEFINE d == FlattenSeq(Stamps(Published))
    <3>1. d \in Seq(Stamp) /\ Delivered = d \o InBuffer  BY <1>0, FlatType
    <3>2. InBuffer \in Seq(Stamp) /\ FlattenSeq(Stamps(Published')) = d \o InBuffer
      BY <2>2, PublishedType, StampsAppend
    <3> HIDE DEF d
    <3>3. d \o InBuffer \in Seq(Stamp)  BY <3>1, <3>2, ConcatProperties
    <3>4. (d \o InBuffer) \o <<>> = d \o InBuffer  BY <3>3, ConcatEmptySeq
    <3> QED  BY <2>4, <3>1, <3>2, <3>4
  <2> QED  BY <1>0, <2>1, <2>3, <2>5 DEF SInv, StoredDelivered
<1>7. CASE NextBufferFree
  <2>1. /\ process \in {"awaiting", "leaving"} /\ process' \in {"inside", "outside"}
        /\ process' = "inside" => process = "awaiting"
        /\ UNCHANGED <<accesses, sessions, WItemNum>> /\ WItemNum = 1 /\ sessions # 0
    BY <1>7 DEF NextBufferFree, ItemInv, OwnBufferInv
  <2>2. Published' = Published  BY <1>7, WriteSteps, PublishedStays
  <2>3. InBuffer = <<>> /\ InBuffer' = <<>>  BY <2>1 DEF InBuffer
  <2>4. Delivered' = Delivered /\ MadeStored' = MadeStored
    BY <2>1, <2>2, <2>3, Zenon DEF Delivered, MadeStored
  <2> QED  BY <1>0, <2>1, <2>4 DEF SInv, StoredDelivered
<1>8. CASE ExitLoop \/ CancelPipeline
  <2>1. /\ process' \in {"leaving", "cancelled"} /\ UNCHANGED <<accesses, sessions>>
        /\ sessions # 0
    BY <1>0, <1>8 DEF ExitLoop, CancelPipeline, Publish, OwnBufferInv
  <2> QED  BY <1>0, <2>1 DEF SInv, StoredDelivered
<1> QED  BY <1>2, <1>3, <1>4, <1>5, <1>6, <1>7, <1>8 DEF Next, Process

\* In one execution of the loop, up to its exit, every access that finds room in
\* its buffer is delivered once, in program order, for the iteration it was made
\* in: for every number of buffers, items, accesses and iterations.
THEOREM Delivery ==
  ASSUME MaxSessions =< 1
  PROVE  Spec => []StoredDelivered
<1>1. QInv /\ [Next]_vars => QInv'  BY NextQInv
<1>2. QInv /\ SInv /\ [Next]_vars => SInv'  BY NextSInv
<1>3. SInv => StoredDelivered  BY DEF SInv
<1> QED  BY InitQInv, InitSInv, <1>1, <1>2, <1>3, PTL DEF Spec
=============================================================================
