--------------------------- MODULE AddrStreamProps ---------------------------
(***************************************************************************)
(* What the ring of AddrStream guarantees.                                 *)
(***************************************************************************)
EXTENDS AddrStream, SequencesExt

\* The buffer the reader has not freed yet
HeadSlot == IF reader = "labelling" THEN NextSlot(ProcRStreamNum) ELSE ProcRStreamNum

\* Type invariant of the ring.
TypeOK ==
  /\ Streams \in [Slot -> Buffer]
  /\ PPStreamIsFull \in [Slot -> BOOLEAN]
  /\ WStreamNum \in Slot /\ ProcRStreamNum \in Slot
  /\ WItemNum \in 1 .. STREAMITEMNUM
  /\ PtrItems \in Slot \X (0 .. STREAMITEMNUM)
  /\ CurLoopIter \in Nat /\ LDDProfLoopIter \in Nat /\ sessions \in Nat
  /\ process \in {"outside", "inside", "awaiting", "leaving", "cancelled"}
  /\ reader \in {"idle", "reading", "labelling", "stopped"}
  /\ Length \in 1 .. STREAMITEMNUM /\ LoopIter \in Nat

\* How far behind the buffer h another one is
Behind(h, s) == IF s >= h THEN s - h ELSE s - h + STREAMNUM

\* The full buffers are those from h up to w, without w; all; up to w with w.
FullUpTo(full, h, w)   == \A s \in Slot : full[s] <=> Behind(h, s) < Behind(h, w)
AllFull(full, h, w)    == w = h /\ \A s \in Slot : full[s]
FullThrough(full, h, w) == \A s \in Slot : full[s] <=> Behind(h, s) <= Behind(h, w)

\* The full buffers are those from the reader's to the process' own, which
\* is not full while the process writes into it: parreadlida and
\* GenerateAddrStream never use one buffer at a time.
RingInv ==
  /\ process \in {"outside", "inside", "awaiting", "leaving"} =>
       \/ FullUpTo(PPStreamIsFull, HeadSlot, WStreamNum)
       \/ /\ process \in {"awaiting", "leaving"}
          /\ AllFull(PPStreamIsFull, HeadSlot, WStreamNum)
  /\ process = "cancelled" => FullThrough(PPStreamIsFull, HeadSlot, WStreamNum)
  /\ reader = "reading" => PPStreamIsFull[ProcRStreamNum]

\* How many buffers have not been received yet: those before the process' own, or
\* all of them while the process waits for the oldest
NumUnread ==
  IF process # "cancelled" /\ PPStreamIsFull[WStreamNum]
  THEN STREAMNUM
  ELSE Behind(HeadSlot, WStreamNum)

\* Those buffers, oldest first, without the one that cancels
Unread == [i \in 1 .. NumUnread |-> (HeadSlot + i - 1) % STREAMNUM]

Message == [iter : Nat, flag : {SameIteration, EndOfIteration}, items : Seq(Accesses)]

Contents(s) ==
  [iter |-> Streams[s].iter, flag |-> Streams[s].flag,
   items |-> SubSeq(Streams[s].items, 1, Streams[s].end - 1)]

Received(token) == [iter |-> token.iter, flag |-> token.flag, items |-> token.items]

Queue ==
  INSTANCE StreamQueue WITH
    Capacity <- STREAMNUM,
    queue    <- [i \in DOMAIN Unread |-> Contents(Unread[i])],
    received <- [i \in DOMAIN tokens |-> Received(tokens[i])],
    closed   <- process = "cancelled",
    stopped  <- reader = "stopped"

\* The ring is a queue of buffers: none is lost, read twice, reordered or
\* changed between its publication and the end of its reading, and the reader
\* stops after all of them (for one execution of the loop).
QueueSpec == Queue!Spec

\* The messages sent so far, received or not
Published ==
  [i \in DOMAIN tokens |-> Received(tokens[i])] \o [i \in DOMAIN Unread |-> Contents(Unread[i])]

\* The accesses of a message, each with the iteration it is given
Stamped(m) == [i \in DOMAIN m.items |-> <<m.iter, m.items[i]>>]

\* Those of the buffer the process fills
InBuffer ==
  IF process = "inside"
  THEN [i \in 1 .. WItemNum - 1 |-> <<LDDProfLoopIter, Streams[WStreamNum].items[i]>>]
  ELSE <<>>

\* The accesses on their way or arrived
Delivered == FlattenSeq([i \in DOMAIN Published |-> Stamped(Published[i])]) \o InBuffer

\* What is stored of an access: nothing if its buffer is full
Kept(acc) == IF acc.stored THEN << <<acc.iter, acc.access>> >> ELSE <<>>

MadeStored == FlattenSeq([i \in DOMAIN accesses |-> Kept(accesses[i])])

\* Every access that found room in its buffer is delivered once, in program
\* order, for the iteration it was made in (for one execution of the loop, up
\* to its exit).  GenerateAddrStream promises it of every access ("When change to
\* new stream. 1) the current stream is full."), and drops those that find none.
StoredDelivered == process \in {"inside", "awaiting"} => Delivered = MadeStored

\* A process that waits for a buffer gets one.
WriterServed == process \in {"awaiting", "leaving"} ~> process \in {"inside", "outside"}
=============================================================================
