--------------------------- MODULE PipelineProofs ---------------------------
(***************************************************************************)
(* The pipeline loses and doubles no iteration, analyses them in order and *)
(* never uses a present table in two stages at a time, for every number of *)
(* processes, tables, tokens and iterations, and every way to share them.  *)
(*                                                                         *)
(* The inductive invariant follows the iterations of one process through   *)
(* the pipeline: they are, from the earliest to the latest, noted by       *)
(* LCDAFilter (or analysed), in the rest of its token, in the tokens       *)
(* before it, in the token of the batch and in the stream.                 *)
(*                                                                         *)
(* A second invariant follows the message that cancels, for the signal     *)
(* that the pipeline has finished.  With both, the pipeline implements     *)
(* OrderedAnalysis.                                                        *)
(***************************************************************************)
EXTENDS PipelineProps, SequenceTheorems, NaturalsInduction, WellFoundedInduction, TLAPS

\* Where the iteration i of a process p is; the arguments are the variables.
HasEnd(s, i) == \E k \in 1 .. Len(s) : s[k].flag = "end" /\ s[k].iter = i
InStream(s, p, i) == HasEnd(s[p], i)
InBatch(r, token, p, i) == r = "batch" /\ IsStartOf(token[p], i)
InQueue(q, p, i) == \E k \in 1 .. Len(q) : IsStartOf(q[k][p], i)
InHand(l, p, i) ==
  l.busy /\ (l.at < p \/ (l.at = p /\ l.next = NoIter)) /\ IsStartOf(l.token[p], i)
Known(map, i) == map[i] # NoTable

\* A task that has not run yet has no result, and the token of the batch has room.
BatchInv ==
  /\ reader = "idle" => \A p \in Proc : task[p] = "done"
  /\ \A p \in Proc : reader = "batch" /\ task[p] = "pending" => ProcNextLidep[p] = NoInput
  /\ reader = "batch" => InFlight < PipeThreadNum

\* What is on its way has been sent, by its owner.
Owned ==
  \A p \in Proc, i \in Iter :
    (\/ InStream(streams, p, i) \/ InBatch(reader, ProcNextLidep, p, i)
     \/ InQueue(toLCDA, p, i) \/ InHand(lcda, p, i)
     \/ owner[i] = p /\ Known(LoopIterPresNum, i))
      => owner[i] = p /\ i < loopIter[p]

\* What has been sent is somewhere.
Covered ==
  \A i \in Iter : Sent(i) /\ reader \in {"idle", "batch"} =>
    \/ InStream(streams, owner[i], i) \/ InBatch(reader, ProcNextLidep, owner[i], i)
    \/ InQueue(toLCDA, owner[i], i) \/ InHand(lcda, owner[i], i)
    \/ Known(LoopIterPresNum, i)

\* A stream and the tokens between two stages have the iterations of a process in
\* order.
StreamSorted(s) ==
  \A k, l \in 1 .. Len(s) :
    (/\ k < l /\ s[k].flag = "end" /\ s[l].flag = "end"
     /\ s[k].iter \in Iter /\ s[l].iter \in Iter) => s[k].iter < s[l].iter
QueueSorted(q, p) ==
  \A k, l \in 1 .. Len(q) : \A i, j \in Iter :
    k < l /\ IsStartOf(q[k][p], i) /\ IsStartOf(q[l][p], j) => i < j
Sorted == \A p \in Proc : StreamSorted(streams[p]) /\ QueueSorted(toLCDA, p)

\* What is further on is earlier.
Ordered ==
  \A p \in Proc, i, j \in Iter :
    /\ InStream(streams, p, j) =>
         /\ InBatch(reader, ProcNextLidep, p, i) => i < j
         /\ InQueue(toLCDA, p, i) => i < j
         /\ InHand(lcda, p, i) => i < j
         /\ owner[i] = p /\ Known(LoopIterPresNum, i) => i < j
    /\ InBatch(reader, ProcNextLidep, p, j) =>
         /\ InQueue(toLCDA, p, i) => i < j
         /\ InHand(lcda, p, i) => i < j
         /\ owner[i] = p /\ Known(LoopIterPresNum, i) => i < j
    /\ InQueue(toLCDA, p, j) =>
         /\ InHand(lcda, p, i) => i < j
         /\ owner[i] = p /\ Known(LoopIterPresNum, i) => i < j
    /\ InHand(lcda, p, j) =>
         (owner[i] = p /\ Known(LoopIterPresNum, i) => i < j)

\* The table t of process p is full of iteration i.
Holds(full, iters, p, i, t) == t \in Table /\ t[1] = p /\ full[t] /\ iters[t] = i

\* What is in a token or noted has its table; a process' next table is free.
Tables ==
  /\ \A p \in Proc : task[p] # "spinning" => ~ PresIsFull[<<p, ProcWPresNum[p]>>]
  /\ \A p \in Proc, i \in Iter :
       /\ InBatch(reader, ProcNextLidep, p, i) =>
            Holds(PresIsFull, tableIter, p, i, ProcNextLidep[p].table)
       /\ \A k \in 1 .. Len(toLCDA) : IsStartOf(toLCDA[k][p], i) =>
            Holds(PresIsFull, tableIter, p, i, toLCDA[k][p].table)
       /\ InHand(lcda, p, i) => Holds(PresIsFull, tableIter, p, i, lcda.token[p].table)
       /\ owner[i] = p /\ Known(LoopIterPresNum, i) /\ FinishedLoopIter < i =>
            Holds(PresIsFull, tableIter, p, i, LoopIterPresNum[i])

\* LCDAFilter analyses the iterations it has noted, one after the other.
AnalysisInv ==
  /\ Len(analysed) = FinishedLoopIter
  /\ \A i \in Iter : i =< FinishedLoopIter => Known(LoopIterPresNum, i)
  /\ InOrder
  /\ lcda.busy /\ lcda.next # NoIter =>
       /\ lcda.next = FinishedLoopIter + 1 /\ Known(LoopIterPresNum, lcda.next)
       /\ lcda.at \in Proc
       /\ \E i \in Iter : /\ IsStartOf(lcda.token[lcda.at], i) /\ i =< lcda.next
                          /\ Known(LoopIterPresNum, i)
                          /\ Alone => i = lcda.next
       /\ Alone => \A j \in Iter : Known(LoopIterPresNum, j) => j =< lcda.next

IInv ==
  TypeOK /\ BatchInv /\ Owned /\ Covered /\ Sorted /\ Ordered /\ Tables /\ AnalysisInv

-----------------------------------------------------------------------------
(***************************************************************************)
(* The constants, inputs, streams and tokens.                              *)
(***************************************************************************)
LEMMA Sizes ==
  /\ Proc \subseteq Nat /\ Master \in Proc /\ Iter \subseteq Nat
  /\ ExitIter \notin Iter /\ NoIter \notin Iter /\ NoIter \in Nat
  /\ \A p \in Proc : p < PROCNUM /\ (p + 1 \in Proc \/ p + 1 = PROCNUM)
  /\ \A i \in Iter : i < NoIter /\ (i + 1 \in Iter \/ i + 1 = NoIter)
  /\ \A i \in Nat : 0 < i /\ i < NoIter => i \in Iter
BY PipelineAssumption DEF Proc, Master, Iter, ExitIter, NoIter

\* What a table is, and that NoTable is none.
LEMMA TableShape ==
  /\ NoTable \notin Table
  /\ \A p \in Proc, n \in 0 .. PRESNUM - 1 : <<p, n>> \in Table /\ <<p, n>>[1] = p
BY DEF NoTable, Table

\* What an input is, and which inputs start an iteration.
LEMMA InputShape ==
  ASSUME NEW x \in Input
  PROVE  /\ x.kind = "start" => x.iter \in Iter \cup {ExitIter} /\ x.table \in Table
         /\ \A i : ~ IsStartOf(NoInput, i) /\ ~ IsStartOf(Partial, i) /\ ~ IsStartOf(Cancelling, i)
BY DEF Input, StartLCDA, NoInput, Partial, Cancelling, IsStartOf

\* The input that starts an iteration.
LEMMA StartShape ==
  ASSUME NEW i \in Iter \cup {ExitIter}, NEW t \in Table
  PROVE  /\ StartLCDA(i, t) \in Input /\ StartLCDA(i, t).table = t
         /\ \A j : IsStartOf(StartLCDA(i, t), j) <=> j = i
BY DEF Input, StartLCDA, IsStartOf

\* A message is sent.
LEMMA MessageAppend ==
  ASSUME NEW a \in Seq(Message), NEW m \in Message
  PROVE  /\ Append(a, m) \in Seq(Message) /\ Len(a) \in Nat /\ Len(Append(a, m)) = Len(a) + 1
         /\ \A i \in Iter : HasEnd(Append(a, m), i) <=> HasEnd(a, i) \/ (m.flag = "end" /\ m.iter = i)
         /\ (StreamSorted(a) /\ \A i \in Iter :
               m.flag = "end" /\ m.iter \in Iter /\ HasEnd(a, i) => i < m.iter)
              => StreamSorted(Append(a, m))
<1> DEFINE t == Append(a, m)
<1>1. /\ t \in Seq(Message) /\ Len(a) \in Nat /\ Len(t) = Len(a) + 1
      /\ \A k \in 1 .. Len(a) : t[k] = a[k]
      /\ t[Len(a) + 1] = m
  BY AppendProperties, LenProperties
<1> HIDE DEF t
<1>2. \A i \in Iter : HasEnd(t, i) <=> HasEnd(a, i) \/ (m.flag = "end" /\ m.iter = i)
  BY <1>1 DEF HasEnd
<1>3. ASSUME StreamSorted(a),
             \A i \in Iter : m.flag = "end" /\ m.iter \in Iter /\ HasEnd(a, i) => i < m.iter
      PROVE StreamSorted(t)
  <2> SUFFICES ASSUME NEW k \in 1 .. Len(t), NEW l \in 1 .. Len(t), k < l,
                      t[k].flag = "end", t[l].flag = "end", t[k].iter \in Iter, t[l].iter \in Iter
               PROVE t[k].iter < t[l].iter
    BY DEF StreamSorted
  <2>1. k \in 1 .. Len(a) /\ t[k] = a[k]  BY <1>1
  <2>2. CASE l \in 1 .. Len(a)
    <3>1. t[l] = a[l]  BY <1>1, <2>2
    <3>2. a[k].iter < a[l].iter  BY <1>3, <2>1, <2>2, <3>1 DEF StreamSorted
    <3>3. QED  BY <2>1, <3>1, <3>2
  <2>3. CASE l = Len(a) + 1
    <3>1. t[l] = m  BY <1>1, <2>3
    <3>2. HasEnd(a, t[k].iter)  BY <2>1 DEF HasEnd
    <3>3. QED  BY <1>3, <3>1, <3>2
  <2>4. l \in 1 .. Len(a) \/ l = Len(a) + 1  BY <1>1
  <2>5. QED  BY <2>2, <2>3, <2>4
<1>4. QED  BY <1>1, <1>2, <1>3 DEF t

\* A message is received.
LEMMA MessageTail ==
  ASSUME NEW a \in Seq(Message), a # <<>>
  PROVE  /\ Tail(a) \in Seq(Message) /\ Len(a) \in Nat \ {0} /\ Len(Tail(a)) = Len(a) - 1
         /\ Head(a) \in Message
         /\ \A i \in Iter : HasEnd(a, i) <=>
              HasEnd(Tail(a), i) \/ (Head(a).flag = "end" /\ Head(a).iter = i)
         /\ StreamSorted(a) =>
              /\ StreamSorted(Tail(a))
              /\ \A i \in Iter :
                   Head(a).flag = "end" /\ Head(a).iter \in Iter /\ HasEnd(Tail(a), i)
                     => Head(a).iter < i
<1> DEFINE t == Tail(a)
<1>1. /\ Head(a) = a[1] /\ Head(a) \in Message /\ t \in Seq(Message)
      /\ Len(t) = Len(a) - 1 /\ Len(a) \in Nat \ {0}
      /\ \A k \in 1 .. Len(t) : t[k] = a[k + 1]
  BY HeadTailProperties, EmptySeq
<1> HIDE DEF t
<1>2. \A k \in 1 .. Len(t) : k + 1 \in 1 .. Len(a)  BY <1>1
<1>3. ASSUME NEW i \in Iter
      PROVE HasEnd(a, i) <=> HasEnd(t, i) \/ (Head(a).flag = "end" /\ Head(a).iter = i)
  <2>1. ASSUME HasEnd(a, i)
        PROVE HasEnd(t, i) \/ (Head(a).flag = "end" /\ Head(a).iter = i)
    <3>1. PICK k \in 1 .. Len(a) : a[k].flag = "end" /\ a[k].iter = i
      BY <2>1 DEF HasEnd
    <3>2. CASE k = 1  BY <1>1, <3>1, <3>2
    <3>3. CASE k # 1
      <4>1. k - 1 \in 1 .. Len(t)  BY <1>1, <3>3
      <4>2. t[k - 1] = a[k]  BY <1>1, <4>1
      <4>3. QED  BY <3>1, <4>1, <4>2 DEF HasEnd
    <3>4. QED  BY <3>2, <3>3
  <2>2. HasEnd(t, i) => HasEnd(a, i)  BY <1>1, <1>2 DEF HasEnd
  <2>3. Head(a).flag = "end" /\ Head(a).iter = i => HasEnd(a, i)  BY <1>1 DEF HasEnd
  <2>4. QED  BY <2>1, <2>2, <2>3
<1>4. ASSUME StreamSorted(a)
      PROVE  /\ StreamSorted(t)
             /\ \A i \in Iter :
                   Head(a).flag = "end" /\ Head(a).iter \in Iter /\ HasEnd(t, i)
                     => Head(a).iter < i
  <2>1. StreamSorted(t)  BY <1>1, <1>2, <1>4 DEF StreamSorted
  <2>2. ASSUME NEW i \in Iter, Head(a).flag = "end", Head(a).iter \in Iter, HasEnd(t, i)
        PROVE  Head(a).iter < i
    <3>1. PICK k \in 1 .. Len(t) : t[k].flag = "end" /\ t[k].iter = i  BY <2>2 DEF HasEnd
    <3>2. 1 \in 1 .. Len(a) /\ k + 1 \in 1 .. Len(a) /\ 1 < k + 1 /\ t[k] = a[k + 1]
      BY <1>1, <1>2
    <3>3. QED  BY <1>1, <1>4, <2>2, <3>1, <3>2 DEF StreamSorted
  <2>3. QED  BY <2>1, <2>2
<1>5. QED  BY <1>1, <1>3, <1>4 DEF t

\* A message is changed into one that is read again.
LEMMA MessageAgain ==
  ASSUME NEW a \in Seq(Message), a # <<>>, Head(a).flag = "cancel"
  PROVE  /\ [a EXCEPT ![1].flag = "again"] \in Seq(Message)
         /\ Len([a EXCEPT ![1].flag = "again"]) = Len(a)
         /\ \A i \in Iter : HasEnd([a EXCEPT ![1].flag = "again"], i) <=> HasEnd(a, i)
         /\ StreamSorted(a) => StreamSorted([a EXCEPT ![1].flag = "again"])
<1> DEFINE m == [a[1] EXCEPT !.flag = "again"]
           t == [a EXCEPT ![1] = m]
<1>1. Len(a) \in Nat \ {0} /\ 1 \in 1 .. Len(a)  BY EmptySeq, LenProperties
<1>2. a[1] \in Message /\ a[1].flag = "cancel"
  BY <1>1, HeadTailProperties, ElementOfSeq
<1>3. m \in Message /\ m.flag = "again"  BY <1>2 DEF Message
<1> HIDE DEF m
<1>4. /\ t \in Seq(Message) /\ Len(t) = Len(a) /\ t[1] = m
      /\ \A k \in 1 .. Len(a) : k # 1 => t[k] = a[k]
  BY <1>1, <1>3, ExceptSeq
<1> HIDE DEF t
<1>5. \A k \in 1 .. Len(t) : /\ t[k].flag = "end" <=> a[k].flag = "end"
                             /\ t[k].flag = "end" => t[k] = a[k]
  BY <1>2, <1>3, <1>4
<1>6. \A i \in Iter : HasEnd(t, i) <=> HasEnd(a, i)  BY <1>4, <1>5 DEF HasEnd
<1>7. StreamSorted(a) => StreamSorted(t)  BY <1>4, <1>5 DEF StreamSorted
<1>8. QED  BY <1>4, <1>6, <1>7 DEF t, m

\* A token is passed on.
LEMMA QueueAppend ==
  ASSUME NEW s \in Seq(Token), NEW x \in Token
  PROVE  /\ Append(s, x) \in Seq(Token) /\ Len(s) \in Nat /\ Len(Append(s, x)) = Len(s) + 1
         /\ \A k \in 1 .. Len(Append(s, x)) : Append(s, x)[k] = (IF k = Len(s) + 1 THEN x ELSE s[k])
         /\ \A p \in Proc, i \in Iter : InQueue(Append(s, x), p, i) <=> InQueue(s, p, i) \/ IsStartOf(x[p], i)
         /\ \A p \in Proc :
              (QueueSorted(s, p) /\ \A i, j \in Iter : InQueue(s, p, i) /\ IsStartOf(x[p], j) => i < j)
                => QueueSorted(Append(s, x), p)
<1> DEFINE t == Append(s, x)
<1>1. /\ t \in Seq(Token) /\ Len(s) \in Nat /\ Len(t) = Len(s) + 1
      /\ \A k \in 1 .. Len(s) : t[k] = s[k]
      /\ t[Len(s) + 1] = x
  BY AppendProperties, LenProperties
<1> HIDE DEF t
<1>2. \A k \in 1 .. Len(t) : t[k] = (IF k = Len(s) + 1 THEN x ELSE s[k])  BY <1>1
<1>3. ASSUME NEW p \in Proc, NEW i \in Iter
      PROVE  InQueue(t, p, i) <=> InQueue(s, p, i) \/ IsStartOf(x[p], i)
  BY <1>1 DEF InQueue
<1>4. ASSUME NEW p \in Proc, QueueSorted(s, p),
             \A i, j \in Iter : InQueue(s, p, i) /\ IsStartOf(x[p], j) => i < j
      PROVE  QueueSorted(t, p)
  <2> SUFFICES ASSUME NEW k \in 1 .. Len(t), NEW l \in 1 .. Len(t), NEW i \in Iter, NEW j \in Iter,
                      k < l, IsStartOf(t[k][p], i), IsStartOf(t[l][p], j)
               PROVE i < j
    BY DEF QueueSorted
  <2>1. k \in 1 .. Len(s) /\ t[k] = s[k]  BY <1>1
  <2>2. CASE l \in 1 .. Len(s)
    <3>1. t[l] = s[l]  BY <1>1, <2>2
    <3>2. QED  BY <1>4, <2>1, <2>2, <3>1 DEF QueueSorted
  <2>3. CASE l = Len(s) + 1
    <3>1. t[l] = x /\ InQueue(s, p, i)  BY <1>1, <2>1, <2>3 DEF InQueue
    <3>2. QED  BY <1>4, <3>1
  <2>4. l \in 1 .. Len(s) \/ l = Len(s) + 1  BY <1>1
  <2>5. QED  BY <2>2, <2>3, <2>4
<1>5. QED  BY <1>1, <1>2, <1>3, <1>4 DEF t

\* A token is taken.
LEMMA QueueTail ==
  ASSUME NEW s \in Seq(Token), s # <<>>
  PROVE  /\ Tail(s) \in Seq(Token) /\ Len(s) \in Nat \ {0} /\ Len(Tail(s)) = Len(s) - 1
         /\ Head(s) \in Token /\ Head(s) = s[1] /\ 1 \in 1 .. Len(s)
         /\ \A k \in 1 .. Len(Tail(s)) : Tail(s)[k] = s[k + 1] /\ k + 1 \in 1 .. Len(s)
         /\ \A p \in Proc, i \in Iter :
              InQueue(s, p, i) <=> InQueue(Tail(s), p, i) \/ IsStartOf(Head(s)[p], i)
         /\ \A p \in Proc : QueueSorted(s, p) =>
              /\ QueueSorted(Tail(s), p)
              /\ \A i, j \in Iter : IsStartOf(Head(s)[p], i) /\ InQueue(Tail(s), p, j) => i < j
<1> DEFINE t == Tail(s)
<1>1. /\ t \in Seq(Token) /\ Len(s) \in Nat \ {0} /\ Len(t) = Len(s) - 1
      /\ Head(s) \in Token /\ Head(s) = s[1] /\ 1 \in 1 .. Len(s)
      /\ \A k \in 1 .. Len(t) : t[k] = s[k + 1]
  BY HeadTailProperties, EmptySeq
<1> HIDE DEF t
<1>2. \A k \in 1 .. Len(t) : k + 1 \in 1 .. Len(s)  BY <1>1
<1>3. ASSUME NEW p \in Proc, NEW i \in Iter
      PROVE  InQueue(s, p, i) <=> InQueue(t, p, i) \/ IsStartOf(Head(s)[p], i)
  <2>1. ASSUME InQueue(s, p, i)  PROVE InQueue(t, p, i) \/ IsStartOf(Head(s)[p], i)
    <3>1. PICK k \in 1 .. Len(s) : IsStartOf(s[k][p], i)  BY <2>1 DEF InQueue
    <3>2. CASE k = 1  BY <1>1, <3>1, <3>2
    <3>3. CASE k # 1
      <4>1. k - 1 \in 1 .. Len(t)  BY <1>1, <3>3
      <4>2. t[k - 1] = s[k]  BY <1>1, <4>1
      <4>3. QED  BY <3>1, <4>1, <4>2 DEF InQueue
    <3>4. QED  BY <3>2, <3>3
  <2>2. ASSUME InQueue(t, p, i)  PROVE InQueue(s, p, i)
    BY <1>1, <1>2, <2>2 DEF InQueue
  <2>3. IsStartOf(Head(s)[p], i) => InQueue(s, p, i)  BY <1>1 DEF InQueue
  <2>4. QED  BY <2>1, <2>2, <2>3
<1>4. ASSUME NEW p \in Proc, QueueSorted(s, p)
      PROVE  /\ QueueSorted(t, p)
             /\ \A i, j \in Iter : IsStartOf(Head(s)[p], i) /\ InQueue(t, p, j) => i < j
  <2>1. QueueSorted(t, p)  BY <1>1, <1>2, <1>4 DEF QueueSorted
  <2>2. ASSUME NEW i \in Iter, NEW j \in Iter, IsStartOf(Head(s)[p], i), InQueue(t, p, j)
        PROVE  i < j
    <3>1. PICK k \in 1 .. Len(t) : IsStartOf(t[k][p], j)  BY <2>2 DEF InQueue
    <3>2. k + 1 \in 1 .. Len(s) /\ t[k] = s[k + 1] /\ 1 < k + 1  BY <1>1, <1>2
    <3>3. QED  BY <1>1, <1>4, <2>2, <3>1, <3>2 DEF QueueSorted
  <2>3. QED  BY <2>1, <2>2
<1>5. QED  BY <1>1, <1>2, <1>3, <1>4 DEF t

-----------------------------------------------------------------------------
(***************************************************************************)
(* The inductive invariant holds at first.                                 *)
(***************************************************************************)
LEMMA InitInv == Init => IInv
<1> SUFFICES ASSUME Init PROVE IInv  OBVIOUS
<1>1. /\ Len(<<>>) = 0 /\ \A S : <<>> \in Seq(S)
  BY EmptySeq
<1>2. /\ \A p \in Proc : streams[p] = <<>>
      /\ toLCDA = <<>> /\ toOutput = <<>> /\ analysed = <<>> /\ ~ lcda.busy /\ lcda = Idle
      /\ \A i \in Iter : ~ Known(LoopIterPresNum, i)
      /\ reader = "idle" /\ \A p \in Proc : loopIter[p] = 1 /\ task[p] = "done"
  BY DEF Init, Idle, Known
<1>3. TypeOK
  <2>1. owner \in [Iter -> Proc] /\ loopIter \in [Proc -> 1 .. NumIters + 1]
    BY PipelineAssumption DEF Init
  <2>2. master \in {"inside", "outside", "cancelled"} /\ overflows \in 0 .. MaxOverflow
    BY PipelineAssumption DEF Init
  <2>3. streams \in [Proc -> Seq(Message)] /\ \A p \in Proc : Len(streams[p]) =< STREAMNUM
    BY <1>1, PipelineAssumption DEF Init
  <2>4. /\ reader \in {"idle", "batch", "null", "stopped", "crashed"}
        /\ task \in [Proc -> {"pending", "spinning", "done"}]
        /\ ProcNextLidep \in Token
    BY DEF Init, Token, Input
  <2>5. /\ ProcWPresNum \in [Proc -> 0 .. PRESNUM - 1]
        /\ PresIsFull \in [Table -> BOOLEAN] /\ tableIter \in [Table -> Iter \cup {ExitIter}]
    BY PipelineAssumption DEF Init
  <2>6. /\ toLCDA \in Seq(Token) /\ toOutput \in Seq(Token)
        /\ analysed \in Seq([iter : Iter, input : Iter, found : Iter \cup {ExitIter}])
    BY <1>1, <1>2
  <2>7. InFlight <= PipeThreadNum
    BY <1>1, <1>2, PipelineAssumption DEF InFlight
  <2>8. /\ LoopIterPresNum \in [Iter \cup {ExitIter} -> Table \cup {NoTable}]
        /\ FinishedLoopIter \in 0 .. NumIters /\ LSOutputLCDepFinish \in BOOLEAN
    <3>1. LoopIterPresNum \in [Iter \cup {ExitIter} -> Table \cup {NoTable}]  BY DEF Init
    <3>2. FinishedLoopIter \in 0 .. NumIters  BY PipelineAssumption DEF Init
    <3>3. LSOutputLCDepFinish \in BOOLEAN  BY DEF Init
    <3>4. QED  BY <3>1, <3>2, <3>3
  <2>9. QED  BY <1>2, <2>1, <2>2, <2>3, <2>4, <2>5, <2>6, <2>7, <2>8 DEF TypeOK
<1>4. BatchInv  BY <1>2 DEF BatchInv
<1>5. /\ \A p \in Proc, i \in Iter : /\ ~ InStream(streams, p, i) /\ ~ InQueue(toLCDA, p, i)
                                    /\ ~ InBatch(reader, ProcNextLidep, p, i) /\ ~ InHand(lcda, p, i)
  BY <1>1, <1>2 DEF InStream, HasEnd, InQueue, InBatch, InHand
<1>6. Owned  BY <1>2, <1>5 DEF Owned
<1>7. Covered
  <2>1. \A i \in Iter : ~ Sent(i)
    <3>1. \A i \in Iter : owner[i] \in Proc  BY <1>3 DEF TypeOK
    <3>2. \A i \in Iter : ~ (1 > i)  BY PipelineAssumption DEF Iter
    <3>3. QED  BY <1>2, <3>1, <3>2 DEF Sent
  <2>2. QED  BY <2>1 DEF Covered
<1>8. Sorted  BY <1>1, <1>2 DEF Sorted, StreamSorted, QueueSorted
<1>9. Ordered  BY <1>2, <1>5 DEF Ordered
<1>10. Tables
  <2>1. \A p \in Proc : ~ PresIsFull[<<p, ProcWPresNum[p]>>]
    BY <1>3, TableShape DEF Init, TypeOK
  <2>2. QED  BY <1>1, <1>2, <1>5, <2>1 DEF Tables
<1>11. AnalysisInv
  <2>1. FinishedLoopIter = 0 /\ \A i \in Iter : ~ (i =< FinishedLoopIter)
    BY DEF Init, Iter
  <2>2. InOrder  BY <1>2 DEF InOrder
  <2>3. QED  BY <1>1, <1>2, <2>1, <2>2 DEF AnalysisInv
<1>12. QED  BY <1>3, <1>4, <1>6, <1>7, <1>8, <1>9, <1>10, <1>11 DEF IInv

-----------------------------------------------------------------------------
(***************************************************************************)
(* Steps that take no iteration from one place to another.                 *)
(***************************************************************************)
LEMMA Unmoved ==
  ASSUME IInv, UNCHANGED <<owner, loopIter>>,
         \A i \in Iter : Known(LoopIterPresNum', i) <=> Known(LoopIterPresNum, i),
         reader' \in {"idle", "batch"} => reader \in {"idle", "batch"},
         \A p \in Proc, i \in Iter :
           /\ InStream(streams', p, i) <=> InStream(streams, p, i)
           /\ InBatch(reader', ProcNextLidep', p, i) => InBatch(reader, ProcNextLidep, p, i)
           /\ reader' \in {"idle", "batch"} /\ InBatch(reader, ProcNextLidep, p, i) =>
                InBatch(reader', ProcNextLidep', p, i)
           /\ InQueue(toLCDA', p, i) <=> InQueue(toLCDA, p, i)
           /\ InHand(lcda', p, i) <=> InHand(lcda, p, i)
  PROVE  Owned' /\ Covered' /\ Ordered'
<1>1. Owned'  BY DEF IInv, Owned
<1>2. Covered'
  <2>1. \A i \in Iter : owner[i] \in Proc  BY DEF IInv, TypeOK
  <2>2. QED  BY <2>1 DEF IInv, Covered, Sent
<1>3. Ordered'  BY DEF IInv, Ordered
<1>4. QED  BY <1>1, <1>2, <1>3

\* Steps that leave LCDAFilter alone keep what is known of the analyses.
LEMMA AnalysisUnchanged ==
  ASSUME IInv, UNCHANGED <<owner, later>>
  PROVE  AnalysisInv'
BY DEF IInv, AnalysisInv, InOrder, Alone, Known, later, IsStartOf

\* Steps that leave tables and tokens alone keep the iterations their tables.
LEMMA TablesUnchanged ==
  ASSUME IInv, UNCHANGED <<owner, reading, PresIsFull, toLCDA, later>>
  PROVE  Tables'
BY DEF IInv, Tables, InBatch, InHand, Known, Holds, reading, later

-----------------------------------------------------------------------------
(***************************************************************************)
(* The program being profiled.                                             *)
(***************************************************************************)
\* A message that ends no iteration is sent.
LEMMA SendNoEnd ==
  ASSUME IInv, NEW p \in Proc, NEW f, NEW n, Send(p, f, n),
         [flag |-> f, iter |-> n] \in Message, ~ (f = "end" /\ n \in Iter),
         master' \in {"inside", "outside", "cancelled"}, overflows' \in 0 .. MaxOverflow,
         UNCHANGED <<owner, loopIter, reading, PresIsFull, toLCDA, toOutput, later,
                     LSOutputLCDepFinish>>
  PROVE  IInv'
<1> DEFINE m == [flag |-> f, iter |-> n]
<1>1. m \in Message /\ ~ (m.flag = "end" /\ m.iter \in Iter)  OBVIOUS
<1>2. /\ streams \in [Proc -> Seq(Message)] /\ streams' = [streams EXCEPT ![p] = Append(@, m)]
      /\ Len(streams[p]) < STREAMNUM
  BY DEF IInv, TypeOK, Send
<1> HIDE DEF m
<1>3. /\ streams' \in [Proc -> Seq(Message)]
      /\ Len(streams[p]) \in Nat /\ Len(streams'[p]) = Len(streams[p]) + 1
      /\ \A q \in Proc : q # p => streams'[q] = streams[q]
      /\ \A q \in Proc, i \in Iter : InStream(streams', q, i) <=> InStream(streams, q, i)
      /\ StreamSorted(streams[p]) => StreamSorted(streams'[p])
  <2>1. streams[p] \in Seq(Message)  BY <1>2
  <2>2. /\ Append(streams[p], m) \in Seq(Message) /\ Len(streams[p]) \in Nat
        /\ Len(Append(streams[p], m)) = Len(streams[p]) + 1
        /\ \A i \in Iter : HasEnd(Append(streams[p], m), i) <=> HasEnd(streams[p], i)
        /\ StreamSorted(streams[p]) => StreamSorted(Append(streams[p], m))
    BY <1>1, <2>1, MessageAppend
  <2>3. streams'[p] = Append(streams[p], m) /\ \A q \in Proc : q # p => streams'[q] = streams[q]
    BY <1>2
  <2>4. streams' \in [Proc -> Seq(Message)]  BY <1>2, <2>2
  <2>5. \A q \in Proc, i \in Iter : InStream(streams', q, i) <=> InStream(streams, q, i)
    BY <2>2, <2>3 DEF InStream
  <2>6. QED  BY <2>2, <2>3, <2>4, <2>5
<1>4. \A q \in Proc : Len(streams'[q]) =< STREAMNUM
  <2>1. Len(streams'[p]) =< STREAMNUM  BY <1>2, <1>3, PipelineAssumption
  <2>2. QED  BY <1>3, <2>1 DEF IInv, TypeOK
<1>5. TypeOK'  BY <1>3, <1>4 DEF IInv, TypeOK, reading, later, InFlight
<1>6. BatchInv'  BY DEF IInv, BatchInv, reading, later, InFlight
<1>7. Owned' /\ Covered' /\ Ordered'  BY <1>3, Unmoved DEF reading, later
<1>8. Sorted'  BY <1>3 DEF IInv, Sorted
<1>9. Tables'  BY TablesUnchanged
<1>10. AnalysisInv'  BY AnalysisUnchanged
<1>11. QED  BY <1>5, <1>6, <1>7, <1>8, <1>9, <1>10 DEF IInv

\* GenerateAddrStream sends a full buffer.
LEMMA OverflowInv ==
  ASSUME IInv, NEW p \in Proc, Overflow(p)
  PROVE  IInv'
<1>1. [flag |-> "same", iter |-> loopIter[p]] \in Message
  BY DEF IInv, TypeOK, Overflow, Running, Message, Iter
<1>2. overflows' \in 0 .. MaxOverflow  BY PipelineAssumption DEF IInv, TypeOK, Overflow
<1>3. /\ Send(p, "same", loopIter[p]) /\ master' \in {"inside", "outside", "cancelled"}
      /\ UNCHANGED <<owner, loopIter, reading, PresIsFull, toLCDA, toOutput, later,
                     LSOutputLCDepFinish>>
  BY DEF IInv, TypeOK, Overflow
<1>4. QED  BY <1>1, <1>2, <1>3, SendNoEnd

\* The master has left the loop, or cancels the pipeline.
LEMMA ExitInv ==
  ASSUME IInv, Exit
  PROVE  IInv'
<1>1. /\ [flag |-> "end", iter |-> ExitIter] \in Message
      /\ [flag |-> "cancel", iter |-> ExitIter] \in Message
      /\ ExitIter \notin Iter /\ Master \in Proc
  BY Sizes DEF Message
<1>2. /\ overflows' \in 0 .. MaxOverflow /\ master' \in {"inside", "outside", "cancelled"}
      /\ UNCHANGED <<owner, loopIter, reading, PresIsFull, toLCDA, toOutput, later,
                     LSOutputLCDepFinish>>
      /\ Send(Master, "end", ExitIter) \/ Send(Master, "cancel", ExitIter)
  BY DEF IInv, TypeOK, Exit, JoinAndReInit, CancelPipeline
<1>3. QED  BY <1>1, <1>2, SendNoEnd

\* An iteration ends: a process that does not own it only counts it.
LEMMA EndIterationInv ==
  ASSUME IInv, NEW p \in Proc, EndIteration(p)
  PROVE  IInv'
<1> DEFINE n == loopIter[p]
           m == [flag |-> "end", iter |-> n]
<1>1. UNCHANGED <<owner, master, overflows, reading, PresIsFull, toLCDA, toOutput, later,
                  LSOutputLCDepFinish>>
  BY DEF EndIteration
<1>2. /\ n \in Iter /\ loopIter' \in [Proc -> 1 .. NumIters + 1]
      /\ \A q \in Proc : loopIter'[q] = (IF q = p THEN n + 1 ELSE loopIter[q])
  <2>1. n \in 1 .. NumIters + 1 /\ n <= NumIters /\ loopIter \in [Proc -> 1 .. NumIters + 1]
    BY DEF IInv, TypeOK, EndIteration, Running
  <2>2. loopIter' = [loopIter EXCEPT ![p] = n + 1]  BY DEF EndIteration
  <2> HIDE DEF n
  <2>3. n \in Iter /\ n + 1 \in 1 .. NumIters + 1  BY <2>1, PipelineAssumption DEF Iter
  <2>4. QED  BY <2>1, <2>2, <2>3
<1>3. m \in Message /\ m.flag = "end" /\ m.iter = n  BY <1>2 DEF Message
<1>4. /\ streams \in [Proc -> Seq(Message)] /\ owner \in [Iter -> Proc]
      /\ owner[n] = p => /\ Len(streams[p]) < STREAMNUM
                         /\ streams' = [streams EXCEPT ![p] = Append(@, m)]
      /\ owner[n] # p => streams' = streams
  BY DEF IInv, TypeOK, EndIteration, Owns, Send
<1> HIDE DEF m, n
<1>5. \A i \in Iter : (\/ InStream(streams, p, i) \/ InBatch(reader, ProcNextLidep, p, i)
                       \/ InQueue(toLCDA, p, i) \/ InHand(lcda, p, i)
                       \/ owner[i] = p /\ Known(LoopIterPresNum, i)) => i < n
  BY DEF IInv, Owned, n
<1>6. /\ streams' \in [Proc -> Seq(Message)]
      /\ \A q \in Proc : Len(streams'[q]) =< STREAMNUM
      /\ \A q \in Proc : StreamSorted(streams'[q])
      /\ \A q \in Proc, i \in Iter : InStream(streams', q, i) <=>
           InStream(streams, q, i) \/ (q = p /\ i = n /\ owner[n] = p)
  <2>1. CASE owner[n] = p
    <3>1. streams[p] \in Seq(Message)  BY <1>4
    <3>2. /\ Append(streams[p], m) \in Seq(Message) /\ Len(streams[p]) \in Nat
          /\ Len(Append(streams[p], m)) = Len(streams[p]) + 1
          /\ \A i \in Iter : HasEnd(Append(streams[p], m), i) <=> HasEnd(streams[p], i) \/ i = n
          /\ (StreamSorted(streams[p]) /\ \A i \in Iter : HasEnd(streams[p], i) => i < n)
               => StreamSorted(Append(streams[p], m))
      BY <1>3, <3>1, MessageAppend
    <3>3. streams'[p] = Append(streams[p], m) /\ \A q \in Proc : q # p => streams'[q] = streams[q]
      BY <1>4, <2>1
    <3>4. streams' \in [Proc -> Seq(Message)]  BY <1>4, <2>1, <3>2
    <3>5. \A q \in Proc, i \in Iter : InStream(streams', q, i) <=>
             InStream(streams, q, i) \/ (q = p /\ i = n)
      BY <3>2, <3>3 DEF InStream
    <3>6. \A q \in Proc : StreamSorted(streams'[q])
      BY <1>5, <3>2, <3>3 DEF IInv, Sorted, InStream
    <3>7. Len(streams'[p]) =< STREAMNUM  BY <1>4, <2>1, <3>2, <3>3, PipelineAssumption
    <3>8. QED  BY <2>1, <3>3, <3>4, <3>5, <3>6, <3>7 DEF IInv, TypeOK
  <2>2. CASE owner[n] # p
    BY <1>4, <2>2 DEF IInv, TypeOK, Sorted
  <2>3. QED  BY <2>1, <2>2
<1>7. TypeOK'  BY <1>1, <1>2, <1>6 DEF IInv, TypeOK, reading, later, InFlight
<1>8. BatchInv'  BY <1>1 DEF IInv, BatchInv, reading, later, InFlight
<1>9. n < n + 1 /\ n \in Nat /\ \A q \in Proc : loopIter[q] \in Nat
  <2>1. n \in Nat  BY <1>2, Sizes
  <2>2. \A q \in Proc : loopIter[q] \in Nat
    BY PipelineAssumption DEF IInv, TypeOK
  <2>3. QED  BY <2>1, <2>2
<1>10. Owned'
  <2> SUFFICES ASSUME NEW q \in Proc, NEW i \in Iter,
                      \/ InStream(streams', q, i) \/ InBatch(reader, ProcNextLidep, q, i)
                      \/ InQueue(toLCDA, q, i) \/ InHand(lcda, q, i)
                      \/ owner[i] = q /\ Known(LoopIterPresNum, i)
               PROVE  owner[i] = q /\ i < loopIter'[q]
    BY <1>1 DEF Owned, reading, later
  <2>1. CASE q = p /\ i = n /\ owner[n] = p  BY <1>2, <1>9, <2>1
  <2>2. CASE ~ (q = p /\ i = n /\ owner[n] = p)
    <3>1. owner[i] = q /\ i < loopIter[q]  BY <1>6, <2>2 DEF IInv, Owned
    <3>2. i \in Nat /\ loopIter[q] =< loopIter'[q] /\ loopIter'[q] \in Nat
      BY <1>2, <1>9, Sizes DEF n
    <3>3. QED  BY <1>9, <3>1, <3>2
  <2>3. QED  BY <2>1, <2>2
<1>11. Covered'
  <2> SUFFICES ASSUME NEW i \in Iter, loopIter'[owner[i]] > i, reader \in {"idle", "batch"}
               PROVE  \/ InStream(streams', owner[i], i)
                      \/ InBatch(reader, ProcNextLidep, owner[i], i)
                      \/ InQueue(toLCDA, owner[i], i) \/ InHand(lcda, owner[i], i)
                      \/ Known(LoopIterPresNum, i)
    BY <1>1 DEF Covered, Sent, reading, later
  <2>1. owner[i] \in Proc  BY <1>4
  <2>2. CASE owner[i] = p /\ i = n  BY <1>6, <2>1, <2>2
  <2>3. CASE ~ (owner[i] = p /\ i = n)
    <3>1. i \in Nat /\ loopIter[owner[i]] > i
      <4>1. i \in Nat /\ loopIter[owner[i]] \in Nat /\ n \in Nat  BY <1>9, <2>1, Sizes
      <4>2. CASE owner[i] = p
        <5>1. n + 1 > i /\ i # n /\ loopIter[owner[i]] = n  BY <1>2, <2>3, <4>2 DEF n
        <5>2. QED  BY <4>1, <5>1
      <4>3. CASE owner[i] # p  BY <1>2, <2>1, <4>1, <4>3
      <4>4. QED  BY <4>2, <4>3
    <3>2. QED  BY <1>6, <2>1, <3>1 DEF IInv, Covered, Sent
  <2>4. QED  BY <2>2, <2>3
<1>12. Sorted'  BY <1>1, <1>6 DEF IInv, Sorted
<1>13. Ordered'
  <2>1. \A q \in Proc, j \in Iter : InStream(streams', q, j) /\ ~ InStream(streams, q, j) =>
          q = p /\ j = n
    BY <1>6
  <2>2. QED  BY <1>1, <1>5, <2>1 DEF IInv, Ordered, reading, later
<1>14. Tables'  BY <1>1, TablesUnchanged
<1>15. AnalysisInv'  BY <1>1, AnalysisUnchanged
<1>16. QED  BY <1>7, <1>8, <1>10, <1>11, <1>12, <1>13, <1>14, <1>15 DEF IInv

-----------------------------------------------------------------------------
(***************************************************************************)
(* ReadLIDAFilter.                                                         *)
(***************************************************************************)
\* Nothing is read, or the next table is free.
LEMMA TaskDoneInv ==
  ASSUME IInv, NEW p \in Proc, ReadNothing(p) \/ TableFree(p)
  PROVE  IInv'
<1>1. UNCHANGED <<program, streams, reader, ProcNextLidep, ProcWPresNum, tableIter,
                  PresIsFull, toLCDA, toOutput, later, LSOutputLCDepFinish>>
  BY DEF ReadNothing, TableFree
<1>2. /\ task' = [task EXCEPT ![p] = "done"]
      /\ task \in [Proc -> {"pending", "spinning", "done"}]
      /\ task[p] # "spinning" \/ ~ PresIsFull[<<p, ProcWPresNum[p]>>]
  BY DEF ReadNothing, TableFree, Pending, IInv, TypeOK
<1>3. \A q \in Proc : task'[q] = (IF q = p THEN "done" ELSE task[q])  BY <1>2
<1>4. TypeOK'  BY <1>1, <1>2 DEF IInv, TypeOK, later, program, InFlight
<1>5. BatchInv'  BY <1>1, <1>3 DEF IInv, BatchInv, later, InFlight
<1>6. Owned' /\ Covered' /\ Ordered'
  BY <1>1, Unmoved DEF later, program
<1>7. Sorted'  BY <1>1 DEF IInv, Sorted
<1>8. Tables'
  <2>1. \A q \in Proc : task'[q] # "spinning" => ~ PresIsFull'[<<q, ProcWPresNum'[q]>>]
    BY <1>1, <1>2, <1>3 DEF IInv, Tables
  <2>2. QED
    BY <1>1, <2>1 DEF IInv, Tables, InBatch, InHand, Known, Holds, later, program
<1>9. AnalysisInv'  BY <1>1, AnalysisUnchanged DEF program
<1>10. QED  BY <1>4, <1>5, <1>6, <1>7, <1>8, <1>9 DEF IInv

\* A batch of tasks starts.
LEMMA StartBatchInv ==
  ASSUME IInv, StartBatch
  PROVE  IInv'
<1>1. /\ UNCHANGED <<program, streams, ProcWPresNum, tableIter, PresIsFull, toLCDA, toOutput,
                     later, LSOutputLCDepFinish>>
      /\ reader = "idle" /\ reader' = "batch" /\ InFlight < PipeThreadNum
      /\ \A p \in Proc : task'[p] = "pending" /\ ProcNextLidep'[p] = NoInput
  BY DEF StartBatch
<1>2. \A p \in Proc, i \in Iter : /\ ~ InBatch(reader, ProcNextLidep, p, i)
                                  /\ ~ InBatch(reader', ProcNextLidep', p, i)
  BY <1>1 DEF InBatch, IsStartOf, NoInput
<1>3. TypeOK'
  <2>1. /\ task' \in [Proc -> {"pending", "spinning", "done"}] /\ ProcNextLidep' \in Token
    BY DEF StartBatch, Token, Input
  <2>2. QED  BY <1>1, <2>1 DEF IInv, TypeOK, program, later, InFlight
<1>4. BatchInv'  BY <1>1 DEF BatchInv, later, InFlight
<1>5. Owned' /\ Covered' /\ Ordered'
  BY <1>1, <1>2, Unmoved DEF program, later
<1>6. Sorted'  BY <1>1 DEF IInv, Sorted
<1>7. Tables'
  <2>1. \A p \in Proc : ~ PresIsFull'[<<p, ProcWPresNum'[p]>>]
    BY <1>1 DEF IInv, Tables, BatchInv
  <2>2. QED
    BY <1>1, <1>2, <2>1 DEF IInv, Tables, InHand, Known, Holds, program, later
<1>8. AnalysisInv'  BY <1>1, AnalysisUnchanged DEF program
<1>9. QED  BY <1>3, <1>4, <1>5, <1>6, <1>7, <1>8 DEF IInv

\* The batch is over for good, or goes wrong.
LEMMA ReaderStopsInv ==
  ASSUME IInv, NEW p \in Proc, ReadAgain(p) \/ NullCrash(p)
  PROVE  IInv'
<1>1. /\ UNCHANGED <<program, streams, ProcNextLidep, ProcWPresNum, tableIter, PresIsFull,
                     toLCDA, toOutput, later, LSOutputLCDepFinish>>
      /\ reader' \in {"null", "crashed"}
  BY DEF ReadAgain, NullCrash
<1>2. /\ task' \in [Proc -> {"pending", "spinning", "done"}]
      /\ \A q \in Proc : task'[q] = task[q] \/ (q = p /\ task[p] = "pending" /\ task'[p] = "done")
  BY DEF ReadAgain, NullCrash, Reads, IInv, TypeOK
<1>3. \A q \in Proc, i \in Iter : ~ InBatch(reader', ProcNextLidep', q, i)
  BY <1>1 DEF InBatch
<1>4. TypeOK'  BY <1>1, <1>2 DEF IInv, TypeOK, program, later, InFlight
<1>5. BatchInv'  BY <1>1 DEF BatchInv
<1>6. Owned' /\ Covered' /\ Ordered'
  BY <1>1, <1>3, Unmoved DEF program, later
<1>7. Sorted'  BY <1>1 DEF IInv, Sorted
<1>8. Tables'
  <2>1. \A q \in Proc : task'[q] # "spinning" => ~ PresIsFull'[<<q, ProcWPresNum'[q]>>]
    BY <1>1, <1>2 DEF IInv, Tables
  <2>2. QED
    BY <1>1, <1>3, <2>1 DEF IInv, Tables, InHand, Known, Holds, program, later
<1>9. AnalysisInv'  BY <1>1, AnalysisUnchanged DEF program
<1>10. QED  BY <1>4, <1>5, <1>6, <1>7, <1>8, <1>9 DEF IInv

\* A task has a result.
LEMMA ResultShape ==
  ASSUME IInv, NEW p \in Proc, NEW x \in Input, Result(p, x)
  PROVE  /\ ProcNextLidep' \in Token
         /\ \A q \in Proc : ProcNextLidep'[q] = (IF q = p THEN x ELSE ProcNextLidep[q])
<1>1. ProcNextLidep \in [Proc -> Input]  BY DEF IInv, TypeOK, Token
<1>2. ProcNextLidep' = [ProcNextLidep EXCEPT ![p] = x]  BY DEF Result
<1>3. QED  BY <1>1, <1>2 DEF Token

\* The message that cancels stays in the stream.
LEMMA ReadCancelInv ==
  ASSUME IInv, NEW p \in Proc, ReadCancel(p)
  PROVE  IInv'
<1>1. /\ UNCHANGED <<program, reader, ProcWPresNum, tableIter, PresIsFull, toLCDA, toOutput,
                     later, LSOutputLCDepFinish>>
      /\ reader = "batch" /\ task[p] = "pending"
      /\ streams[p] # <<>> /\ Head(streams[p]).flag = "cancel"
  BY DEF ReadCancel, Reads
<1>2. /\ task' \in [Proc -> {"pending", "spinning", "done"}]
      /\ \A q \in Proc : task'[q] = (IF q = p THEN "done" ELSE task[q])
  BY DEF ReadCancel, IInv, TypeOK
<1>3. /\ ProcNextLidep' \in Token
      /\ \A q \in Proc : ProcNextLidep'[q] = (IF q = p THEN Cancelling ELSE ProcNextLidep[q])
  <2>1. Cancelling \in Input /\ Result(p, Cancelling)  BY DEF ReadCancel, Input
  <2>2. QED  BY <2>1, ResultShape
<1>4. /\ streams' \in [Proc -> Seq(Message)] /\ Len(streams'[p]) = Len(streams[p])
      /\ \A q \in Proc : q # p => streams'[q] = streams[q]
      /\ \A q \in Proc, i \in Iter : InStream(streams', q, i) <=> InStream(streams, q, i)
      /\ StreamSorted(streams[p]) => StreamSorted(streams'[p])
  <2> DEFINE x == [streams[p] EXCEPT ![1].flag = "again"]
  <2>1. streams[p] \in Seq(Message) /\ streams \in [Proc -> Seq(Message)]
    BY DEF IInv, TypeOK
  <2>2. /\ x \in Seq(Message) /\ Len(x) = Len(streams[p])
        /\ \A i \in Iter : HasEnd(x, i) <=> HasEnd(streams[p], i)
        /\ StreamSorted(streams[p]) => StreamSorted(x)
    BY <1>1, <2>1, MessageAgain
  <2>3. streams' = [streams EXCEPT ![p] = x]  BY DEF ReadCancel
  <2> HIDE DEF x
  <2>4. streams'[p] = x /\ \A q \in Proc : q # p => streams'[q] = streams[q]  BY <2>1, <2>3
  <2>5. streams' \in [Proc -> Seq(Message)]  BY <2>1, <2>2, <2>3
  <2>6. \A q \in Proc, i \in Iter : InStream(streams', q, i) <=> InStream(streams, q, i)
    BY <2>2, <2>4 DEF InStream
  <2>7. QED  BY <2>2, <2>4, <2>5, <2>6
<1>5. \A q \in Proc, i \in Iter : InBatch(reader', ProcNextLidep', q, i) <=>
                                  InBatch(reader, ProcNextLidep, q, i)
  <2>1. ProcNextLidep[p] = NoInput  BY <1>1 DEF IInv, BatchInv
  <2>2. QED  BY <1>1, <1>3, <2>1 DEF InBatch, IsStartOf, NoInput, Cancelling
<1>6. TypeOK'
  BY <1>1, <1>2, <1>3, <1>4 DEF IInv, TypeOK, program, later, InFlight
<1>7. BatchInv'  BY <1>1, <1>2, <1>3 DEF IInv, BatchInv, later, InFlight
<1>8. Owned' /\ Covered' /\ Ordered'
  BY <1>1, <1>4, <1>5, Unmoved DEF program, later
<1>9. Sorted'  BY <1>1, <1>4 DEF IInv, Sorted
<1>10. Tables'
  <2>1. \A q \in Proc : task'[q] # "spinning" => ~ PresIsFull'[<<q, ProcWPresNum'[q]>>]
    BY <1>1, <1>2 DEF IInv, Tables
  <2>2. \A q \in Proc, i \in Iter : InBatch(reader', ProcNextLidep', q, i) =>
          InBatch(reader, ProcNextLidep, q, i) /\ ProcNextLidep'[q] = ProcNextLidep[q]
    BY <1>3, <1>5 DEF InBatch, IsStartOf, Cancelling
  <2>3. QED
    BY <1>1, <2>1, <2>2 DEF IInv, Tables, InHand, Known, Holds, program, later
<1>11. AnalysisInv'  BY <1>1, AnalysisUnchanged DEF program
<1>12. QED  BY <1>6, <1>7, <1>8, <1>9, <1>10, <1>11 DEF IInv

\* A task takes a message and analyses it into its table, which is not full.
LEMMA TakenMessage ==
  ASSUME IInv, NEW p \in Proc, task[p] = "pending", streams[p] # <<>>,
         streams' = [streams EXCEPT ![p] = Tail(@)], Analyse(p)
  PROVE  /\ streams' \in [Proc -> Seq(Message)] /\ \A q \in Proc : Len(streams'[q]) =< STREAMNUM
         /\ Head(streams[p]) \in Message
         /\ \A q \in Proc, i \in Iter :
              InStream(streams, q, i) <=>
                \/ InStream(streams', q, i)
                \/ q = p /\ Head(streams[p]).flag = "end" /\ Head(streams[p]).iter = i
         /\ \A q \in Proc : StreamSorted(streams'[q])
         /\ \A i \in Iter :
              Head(streams[p]).flag = "end" /\ Head(streams[p]).iter \in Iter /\ InStream(streams', p, i)
                => Head(streams[p]).iter < i
         /\ tableIter' \in [Table -> Iter \cup {ExitIter}]
         /\ <<p, ProcWPresNum[p]>> \in Table /\ ~ PresIsFull[<<p, ProcWPresNum[p]>>]
         /\ tableIter'[<<p, ProcWPresNum[p]>>] = Head(streams[p]).iter
         /\ \A t \in Table : t # <<p, ProcWPresNum[p]>> => tableIter'[t] = tableIter[t]
         /\ \A q \in Proc, i \in Iter, t \in Table :
              Holds(PresIsFull, tableIter, q, i, t) => Holds(PresIsFull, tableIter', q, i, t)
<1>1. /\ streams \in [Proc -> Seq(Message)] /\ tableIter \in [Table -> Iter \cup {ExitIter}]
      /\ ProcWPresNum \in [Proc -> 0 .. PRESNUM - 1]
      /\ \A q \in Proc : Len(streams[q]) =< STREAMNUM
      /\ \A q \in Proc : StreamSorted(streams[q])
  BY DEF IInv, TypeOK, Sorted
<1>2. streams[p] \in Seq(Message)  BY <1>1
<1>3. /\ Tail(streams[p]) \in Seq(Message) /\ Len(streams[p]) \in Nat \ {0}
      /\ Len(Tail(streams[p])) = Len(streams[p]) - 1
      /\ Head(streams[p]) \in Message
      /\ \A i \in Iter : HasEnd(streams[p], i) <=>
           HasEnd(Tail(streams[p]), i) \/ (Head(streams[p]).flag = "end" /\ Head(streams[p]).iter = i)
      /\ StreamSorted(Tail(streams[p]))
      /\ \A i \in Iter :
           Head(streams[p]).flag = "end" /\ Head(streams[p]).iter \in Iter
             /\ HasEnd(Tail(streams[p]), i) => Head(streams[p]).iter < i
  BY <1>1, <1>2, MessageTail
<1>4. /\ streams'[p] = Tail(streams[p]) /\ \A q \in Proc : q # p => streams'[q] = streams[q]
      /\ streams' \in [Proc -> Seq(Message)]
  BY <1>1, <1>3
<1>5. \A q \in Proc : Len(streams'[q]) =< STREAMNUM
  <2>1. Len(streams'[p]) =< STREAMNUM
    <3>1. Len(streams[p]) =< STREAMNUM /\ Len(streams'[p]) = Len(streams[p]) - 1
      BY <1>1, <1>3, <1>4
    <3>2. QED  BY <1>3, <3>1, PipelineAssumption
  <2>2. QED  BY <1>1, <1>4, <2>1
<1>6. \A q \in Proc, i \in Iter :
        InStream(streams, q, i) <=>
          \/ InStream(streams', q, i)
          \/ q = p /\ Head(streams[p]).flag = "end" /\ Head(streams[p]).iter = i
  BY <1>3, <1>4 DEF InStream
<1>7. \A q \in Proc : StreamSorted(streams'[q])  BY <1>1, <1>3, <1>4
<1>8. \A i \in Iter :
        Head(streams[p]).flag = "end" /\ Head(streams[p]).iter \in Iter /\ InStream(streams', p, i)
          => Head(streams[p]).iter < i
  BY <1>3, <1>4 DEF InStream
<1>9. <<p, ProcWPresNum[p]>> \in Table /\ ~ PresIsFull[<<p, ProcWPresNum[p]>>]
  BY <1>1, TableShape DEF IInv, Tables
<1>10. Head(streams[p]).iter \in Iter \cup {ExitIter}  BY <1>3 DEF Message
<1>11. /\ tableIter' = [tableIter EXCEPT ![<<p, ProcWPresNum[p]>>] = Head(streams[p]).iter]
  BY DEF Analyse
<1>12. /\ tableIter' \in [Table -> Iter \cup {ExitIter}]
       /\ tableIter'[<<p, ProcWPresNum[p]>>] = Head(streams[p]).iter
       /\ \A t \in Table : t # <<p, ProcWPresNum[p]>> => tableIter'[t] = tableIter[t]
  BY <1>1, <1>9, <1>10, <1>11
<1>13. \A q \in Proc, i \in Iter, t \in Table :
         Holds(PresIsFull, tableIter, q, i, t) => Holds(PresIsFull, tableIter', q, i, t)
  BY <1>9, <1>12 DEF Holds
<1>14. QED  BY <1>3, <1>4, <1>5, <1>6, <1>7, <1>8, <1>9, <1>12, <1>13

\* A buffer is read in the middle of an iteration.
LEMMA ReadSameInv ==
  ASSUME IInv, NEW p \in Proc, ReadSame(p)
  PROVE  IInv'
<1>1. /\ UNCHANGED <<program, reader, ProcWPresNum, PresIsFull, toLCDA, toOutput, later,
                     LSOutputLCDepFinish>>
      /\ reader = "batch" /\ task[p] = "pending"
      /\ streams[p] # <<>> /\ Head(streams[p]).flag = "same"
      /\ streams' = [streams EXCEPT ![p] = Tail(@)] /\ Analyse(p)
  BY DEF ReadSame, Reads
<1>2. /\ task' \in [Proc -> {"pending", "spinning", "done"}]
      /\ \A q \in Proc : task'[q] = (IF q = p THEN "done" ELSE task[q])
  BY DEF ReadSame, IInv, TypeOK
<1>3. Partial \in Input /\ Result(p, Partial)  BY DEF ReadSame, Input
<1>4. /\ ProcNextLidep' \in Token
      /\ \A q \in Proc : ProcNextLidep'[q] = (IF q = p THEN Partial ELSE ProcNextLidep[q])
  BY <1>3, ResultShape
<1>5. /\ streams' \in [Proc -> Seq(Message)] /\ \A q \in Proc : Len(streams'[q]) =< STREAMNUM
      /\ \A q \in Proc, i \in Iter : InStream(streams', q, i) <=> InStream(streams, q, i)
      /\ \A q \in Proc : StreamSorted(streams'[q])
      /\ tableIter' \in [Table -> Iter \cup {ExitIter}]
      /\ \A q \in Proc, i \in Iter, t \in Table :
           Holds(PresIsFull, tableIter, q, i, t) => Holds(PresIsFull, tableIter', q, i, t)
  BY <1>1, TakenMessage
<1>6. \A q \in Proc, i \in Iter : InBatch(reader', ProcNextLidep', q, i) <=>
                                  InBatch(reader, ProcNextLidep, q, i)
  <2>1. ProcNextLidep[p] = NoInput  BY <1>1 DEF IInv, BatchInv
  <2>2. QED  BY <1>1, <1>4, <2>1 DEF InBatch, IsStartOf, NoInput, Partial
<1>7. TypeOK'
  BY <1>1, <1>2, <1>4, <1>5 DEF IInv, TypeOK, program, later, InFlight
<1>8. BatchInv'  BY <1>1, <1>2, <1>4 DEF IInv, BatchInv, later, InFlight
<1>9. Owned' /\ Covered' /\ Ordered'
  BY <1>1, <1>5, <1>6, Unmoved DEF program, later
<1>10. Sorted'  BY <1>1, <1>5 DEF IInv, Sorted
<1>11. Tables'
  <2>1. \A q \in Proc : task'[q] # "spinning" => ~ PresIsFull'[<<q, ProcWPresNum'[q]>>]
    BY <1>1, <1>2 DEF IInv, Tables
  <2>2. \A q \in Proc, i \in Iter : InBatch(reader', ProcNextLidep', q, i) =>
          InBatch(reader, ProcNextLidep, q, i) /\ ProcNextLidep'[q] = ProcNextLidep[q]
    BY <1>4, <1>6 DEF InBatch, IsStartOf, Partial
  <2>3. \A t : \A q \in Proc, i \in Iter :
          Holds(PresIsFull, tableIter, q, i, t) => Holds(PresIsFull', tableIter', q, i, t)
    BY <1>1, <1>5 DEF Holds
  <2>4. QED
    BY <1>1, <2>1, <2>2, <2>3 DEF IInv, Tables, InHand, Known, program, later
<1>12. AnalysisInv'  BY <1>1, AnalysisUnchanged DEF program
<1>13. QED  BY <1>7, <1>8, <1>9, <1>10, <1>11, <1>12 DEF IInv

\* A buffer is read at the end of an iteration: its table goes on to LCDAFilter.
LEMMA ReadEndInv ==
  ASSUME IInv, NEW p \in Proc, ReadEnd(p)
  PROVE  IInv'
<1> DEFINE n == Head(streams[p]).iter
           T == <<p, ProcWPresNum[p]>>
<1>1. /\ UNCHANGED <<program, reader, toLCDA, toOutput, later, LSOutputLCDepFinish>>
      /\ reader = "batch" /\ task[p] = "pending"
      /\ streams[p] # <<>> /\ Head(streams[p]).flag = "end"
      /\ streams' = [streams EXCEPT ![p] = Tail(@)] /\ Analyse(p)
  BY DEF ReadEnd, Reads
<1>2. /\ task' \in [Proc -> {"pending", "spinning", "done"}]
      /\ \A q \in Proc : task'[q] = (IF q = p THEN "spinning" ELSE task[q])
  BY DEF ReadEnd, IInv, TypeOK
<1>3. /\ ProcWPresNum' \in [Proc -> 0 .. PRESNUM - 1]
      /\ \A q \in Proc : q # p => ProcWPresNum'[q] = ProcWPresNum[q]
  <2>1. ProcWPresNum \in [Proc -> 0 .. PRESNUM - 1] /\ ProcWPresNum[p] \in 0 .. PRESNUM - 1
    BY DEF IInv, TypeOK
  <2>2. (ProcWPresNum[p] + 1) % PRESNUM \in 0 .. PRESNUM - 1
    BY <2>1, PipelineAssumption
  <2>3. ProcWPresNum' = [ProcWPresNum EXCEPT ![p] = (ProcWPresNum[p] + 1) % PRESNUM]
    BY DEF ReadEnd
  <2>4. QED  BY <2>1, <2>2, <2>3
<1>4. /\ streams' \in [Proc -> Seq(Message)] /\ \A q \in Proc : Len(streams'[q]) =< STREAMNUM
      /\ Head(streams[p]) \in Message
      /\ \A q \in Proc, i \in Iter :
           InStream(streams, q, i) <=> InStream(streams', q, i) \/ (q = p /\ n = i)
      /\ \A q \in Proc : StreamSorted(streams'[q])
      /\ \A i \in Iter : n \in Iter /\ InStream(streams', p, i) => n < i
      /\ tableIter' \in [Table -> Iter \cup {ExitIter}]
      /\ T \in Table /\ ~ PresIsFull[T] /\ tableIter'[T] = n
      /\ \A q \in Proc, i \in Iter, t \in Table :
           Holds(PresIsFull, tableIter, q, i, t) => Holds(PresIsFull, tableIter', q, i, t)
  BY <1>1, TakenMessage
<1>5. n \in Iter \cup {ExitIter}  BY <1>4 DEF Message
<1>6. Result(p, StartLCDA(n, T))  BY DEF ReadEnd
<1>7. /\ PresIsFull' \in [Table -> BOOLEAN] /\ PresIsFull'[T]
      /\ \A t \in Table : t # T => PresIsFull'[t] = PresIsFull[t]
  <2>1. PresIsFull \in [Table -> BOOLEAN] /\ PresIsFull' = [PresIsFull EXCEPT ![T] = TRUE]
    BY DEF IInv, TypeOK, ReadEnd
  <2>2. QED  BY <1>4, <2>1
<1>8. T[1] = p /\ \A q \in Proc : q # p => <<q, ProcWPresNum[q]>> # T  OBVIOUS
<1> HIDE DEF n, T
<1>9. /\ StartLCDA(n, T) \in Input /\ StartLCDA(n, T).table = T
      /\ \A i : IsStartOf(StartLCDA(n, T), i) <=> i = n
  BY <1>4, <1>5, StartShape
<1>10. /\ ProcNextLidep' \in Token
       /\ \A q \in Proc : ProcNextLidep'[q] = (IF q = p THEN StartLCDA(n, T) ELSE ProcNextLidep[q])
  BY <1>6, <1>9, ResultShape
<1>11. /\ \A i : ~ InBatch(reader, ProcNextLidep, p, i)
       /\ \A i : InBatch(reader', ProcNextLidep', p, i) <=> i = n
       /\ \A q \in Proc, i \in Iter : q # p =>
            (InBatch(reader', ProcNextLidep', q, i) <=> InBatch(reader, ProcNextLidep, q, i))
  <2>1. ProcNextLidep[p] = NoInput  BY <1>1 DEF IInv, BatchInv
  <2>2. \A i : ~ InBatch(reader, ProcNextLidep, p, i)  BY <2>1 DEF InBatch, IsStartOf, NoInput
  <2>3. reader' = "batch" /\ reader = "batch"  BY <1>1
  <2>4. QED  BY <1>9, <1>10, <2>2, <2>3 DEF InBatch
<1>12. TypeOK'
  BY <1>1, <1>2, <1>3, <1>4, <1>7, <1>10 DEF IInv, TypeOK, program, later, InFlight
<1>13. BatchInv'  BY <1>1, <1>2, <1>10 DEF IInv, BatchInv, later, InFlight
<1>14. UNCHANGED <<owner, loopIter, reader, toLCDA, lcda, LoopIterPresNum, FinishedLoopIter>>
  BY <1>1 DEF program, later
<1>15. Owned'  BY <1>4, <1>11, <1>14 DEF IInv, Owned
<1>16. Covered'
  <2>1. \A i \in Iter : owner[i] \in Proc  BY DEF IInv, TypeOK
  <2>2. QED  BY <1>4, <1>11, <1>14, <2>1 DEF IInv, Covered, Sent
<1>17. Sorted'  BY <1>4, <1>14 DEF IInv, Sorted
<1>18. Ordered'
  <2> SUFFICES ASSUME NEW q \in Proc, NEW i \in Iter, NEW j \in Iter
               PROVE
    /\ InStream(streams', q, j) =>
         /\ InBatch(reader', ProcNextLidep', q, i) => i < j
         /\ InQueue(toLCDA, q, i) => i < j
         /\ InHand(lcda, q, i) => i < j
         /\ owner[i] = q /\ Known(LoopIterPresNum, i) => i < j
    /\ InBatch(reader', ProcNextLidep', q, j) =>
         /\ InQueue(toLCDA, q, i) => i < j
         /\ InHand(lcda, q, i) => i < j
         /\ owner[i] = q /\ Known(LoopIterPresNum, i) => i < j
    /\ InQueue(toLCDA, q, j) =>
         /\ InHand(lcda, q, i) => i < j
         /\ owner[i] = q /\ Known(LoopIterPresNum, i) => i < j
    /\ InHand(lcda, q, j) =>
         (owner[i] = q /\ Known(LoopIterPresNum, i) => i < j)
    BY <1>14 DEF Ordered
  <2>1. CASE q = p  BY <1>4, <1>11, <2>1 DEF IInv, Ordered
  <2>2. CASE q # p  BY <1>4, <1>11, <2>2 DEF IInv, Ordered
  <2>3. QED  BY <2>1, <2>2
<1>19. Tables'
  <2>1. \A q \in Proc : task'[q] # "spinning" => ~ PresIsFull'[<<q, ProcWPresNum'[q]>>]
    <3> SUFFICES ASSUME NEW q \in Proc, task'[q] # "spinning"
                 PROVE  ~ PresIsFull'[<<q, ProcWPresNum'[q]>>]
      OBVIOUS
    <3>1. q # p /\ ~ PresIsFull[<<q, ProcWPresNum[q]>>]  BY <1>2 DEF IInv, Tables
    <3>2. <<q, ProcWPresNum[q]>> \in Table  BY TableShape DEF IInv, TypeOK
    <3>3. QED  BY <1>3, <1>7, <1>8, <3>1, <3>2
  <2>2. \A t : \A q \in Proc, i \in Iter :
          Holds(PresIsFull, tableIter, q, i, t) => Holds(PresIsFull', tableIter', q, i, t)
    BY <1>4, <1>7 DEF Holds
  <2>3. \A i \in Iter : i = n => Holds(PresIsFull', tableIter', p, i, T)
    BY <1>4, <1>7, <1>8 DEF Holds
  <2>4. \A q \in Proc, i \in Iter : InBatch(reader', ProcNextLidep', q, i) =>
          Holds(PresIsFull', tableIter', q, i, ProcNextLidep'[q].table)
    <3> SUFFICES ASSUME NEW q \in Proc, NEW i \in Iter, InBatch(reader', ProcNextLidep', q, i)
                 PROVE  Holds(PresIsFull', tableIter', q, i, ProcNextLidep'[q].table)
      OBVIOUS
    <3>1. CASE q = p  BY <1>9, <1>10, <1>11, <2>3, <3>1
    <3>2. CASE q # p  BY <1>10, <1>11, <2>2, <3>2 DEF IInv, Tables
    <3>3. QED  BY <3>1, <3>2
  <2>5. QED
    BY <1>14, <2>1, <2>2, <2>4 DEF IInv, Tables
<1>20. AnalysisInv'  BY <1>1, AnalysisUnchanged DEF program
<1>21. QED  BY <1>12, <1>13, <1>15, <1>16, <1>17, <1>18, <1>19, <1>20 DEF IInv

\* The batch is over: its token goes to LCDAFilter, or the reader stops.
LEMMA EndBatchInv ==
  ASSUME IInv, EndBatch
  PROVE  IInv'
<1>1. /\ UNCHANGED <<program, streams, task, ProcNextLidep, ProcWPresNum, tableIter, PresIsFull,
                     toOutput, later, LSOutputLCDepFinish>>
      /\ \A p \in Proc : task[p] = "done"
      /\ \/ reader = "batch" /\ reader' = "idle" /\ toLCDA' = Append(toLCDA, ProcNextLidep)
         \/ reader = "null" /\ reader' = "stopped" /\ toLCDA' = toLCDA
  BY DEF EndBatch
<1>2. UNCHANGED <<owner, loopIter, lcda, LoopIterPresNum, FinishedLoopIter>>
  BY <1>1 DEF program, later
<1>3. /\ toLCDA \in Seq(Token) /\ ProcNextLidep \in Token /\ toOutput \in Seq(Token)
  BY DEF IInv, TypeOK
<1>4. \A p \in Proc, i \in Iter : ~ InBatch(reader', ProcNextLidep', p, i)
  BY <1>1 DEF InBatch
<1>5. CASE reader = "null"
  <2>1. toLCDA' = toLCDA /\ reader' = "stopped"  BY <1>1, <1>5
  <2>2. TypeOK'  BY <1>1, <2>1 DEF IInv, TypeOK, program, later, InFlight
  <2>3. BatchInv'  BY <2>1 DEF BatchInv
  <2>4. Owned' /\ Covered' /\ Ordered'
    BY <1>1, <1>2, <1>4, <2>1, Unmoved
  <2>5. Sorted'  BY <1>1, <2>1 DEF IInv, Sorted
  <2>6. Tables'  BY <1>1, <1>2, <1>4, <2>1 DEF IInv, Tables
  <2>7. AnalysisInv'  BY <1>1, AnalysisUnchanged DEF program
  <2>8. QED  BY <2>2, <2>3, <2>4, <2>5, <2>6, <2>7 DEF IInv
<1>6. CASE reader = "batch"
  <2>1. toLCDA' = Append(toLCDA, ProcNextLidep) /\ reader' = "idle"  BY <1>1, <1>6
  <2>2. \A p \in Proc, i \in Iter : InBatch(reader, ProcNextLidep, p, i) <=> IsStartOf(ProcNextLidep[p], i)
    BY <1>6 DEF InBatch
  <2>3. /\ toLCDA' \in Seq(Token) /\ Len(toLCDA) \in Nat /\ Len(toLCDA') = Len(toLCDA) + 1
        /\ \A k \in 1 .. Len(toLCDA') :
             toLCDA'[k] = (IF k = Len(toLCDA) + 1 THEN ProcNextLidep ELSE toLCDA[k])
        /\ \A p \in Proc, i \in Iter : InQueue(toLCDA', p, i) <=>
             InQueue(toLCDA, p, i) \/ InBatch(reader, ProcNextLidep, p, i)
        /\ \A p \in Proc :
             (QueueSorted(toLCDA, p) /\ \A i, j \in Iter :
                InQueue(toLCDA, p, i) /\ IsStartOf(ProcNextLidep[p], j) => i < j)
               => QueueSorted(toLCDA', p)
    <3>1. /\ Append(toLCDA, ProcNextLidep) \in Seq(Token) /\ Len(toLCDA) \in Nat /\ Len(Append(toLCDA, ProcNextLidep)) = Len(toLCDA) + 1
          /\ \A k \in 1 .. Len(Append(toLCDA, ProcNextLidep)) :
               Append(toLCDA, ProcNextLidep)[k] = (IF k = Len(toLCDA) + 1 THEN ProcNextLidep ELSE toLCDA[k])
          /\ \A p \in Proc, i \in Iter : InQueue(Append(toLCDA, ProcNextLidep), p, i) <=>
               InQueue(toLCDA, p, i) \/ IsStartOf(ProcNextLidep[p], i)
          /\ \A p \in Proc :
               (QueueSorted(toLCDA, p) /\ \A i, j \in Iter :
                  InQueue(toLCDA, p, i) /\ IsStartOf(ProcNextLidep[p], j) => i < j)
                 => QueueSorted(Append(toLCDA, ProcNextLidep), p)
      BY <1>3, QueueAppend
    <3>2. QED  BY <2>1, <2>2, <3>1
  <2>4. TypeOK'
    <3>1. InFlight' = InFlight + 1 /\ InFlight \in Nat /\ InFlight < PipeThreadNum
      <4>1. Len(toOutput) \in Nat  BY <1>3, LenProperties
      <4>2. InFlight < PipeThreadNum  BY <1>6 DEF IInv, BatchInv
      <4>3. InFlight' = InFlight + 1 /\ InFlight \in Nat
        BY <1>1, <1>2, <2>3, <4>1 DEF InFlight
      <4>4. QED  BY <4>2, <4>3
    <3>2. InFlight' <= PipeThreadNum  BY <3>1, PipelineAssumption
    <3>3. QED  BY <1>1, <2>1, <2>3, <3>2 DEF IInv, TypeOK, program, later
  <2>5. BatchInv'  BY <1>1, <2>1 DEF BatchInv
  <2>6. Owned'  BY <1>1, <1>2, <1>4, <2>3 DEF IInv, Owned
  <2>7. Covered'
    <3>1. \A i \in Iter : owner[i] \in Proc  BY DEF IInv, TypeOK
    <3>2. QED  BY <1>1, <1>2, <1>6, <2>1, <2>3, <3>1 DEF IInv, Covered, Sent
  <2>8. Sorted'
    <3>1. \A p \in Proc : QueueSorted(toLCDA', p)
      BY <2>2, <2>3 DEF IInv, Sorted, Ordered
    <3>2. QED  BY <1>1, <3>1 DEF IInv, Sorted
  <2>9. Ordered'  BY <1>1, <1>2, <1>4, <2>3 DEF IInv, Ordered
  <2>10. Tables'
    <3>1. \A p \in Proc, i \in Iter : \A k \in 1 .. Len(toLCDA') : IsStartOf(toLCDA'[k][p], i) =>
            Holds(PresIsFull, tableIter, p, i, toLCDA'[k][p].table)
      <4> SUFFICES ASSUME NEW p \in Proc, NEW i \in Iter, NEW k \in 1 .. Len(toLCDA'),
                          IsStartOf(toLCDA'[k][p], i)
                   PROVE  Holds(PresIsFull, tableIter, p, i, toLCDA'[k][p].table)
        OBVIOUS
      <4>1. CASE k = Len(toLCDA) + 1
        <5>1. toLCDA'[k] = ProcNextLidep  BY <2>3, <4>1
        <5>2. QED  BY <2>2, <5>1 DEF IInv, Tables
      <4>2. CASE k # Len(toLCDA) + 1
        <5>1. toLCDA'[k] = toLCDA[k] /\ k \in 1 .. Len(toLCDA)  BY <2>3, <4>2
        <5>2. QED  BY <5>1 DEF IInv, Tables
      <4>3. QED  BY <4>1, <4>2
    <3>2. QED  BY <1>1, <1>2, <1>4, <3>1 DEF IInv, Tables
  <2>11. AnalysisInv'  BY <1>1, AnalysisUnchanged DEF program
  <2>12. QED  BY <2>4, <2>5, <2>6, <2>7, <2>8, <2>9, <2>10, <2>11 DEF IInv
<1>7. QED  BY <1>1, <1>5, <1>6

-----------------------------------------------------------------------------
(***************************************************************************)
(* LCDAFilter and OutputLCDepFilter.                                       *)
(***************************************************************************)
Hand == [busy : {TRUE}, token : Token, at : 0 .. PROCNUM, next : 1 .. NumIters + 1]

\* LCDAFilter's token and position, field by field.
LEMMA HandShape ==
  ASSUME NEW h \in Hand
  PROVE  /\ h.busy /\ h.token \in Token /\ h.at \in 0 .. PROCNUM /\ h.next \in 1 .. NumIters + 1
         /\ \A n \in 1 .. NumIters + 1 :
              /\ [h EXCEPT !.next = n] \in Hand /\ [h EXCEPT !.next = n].at = h.at
              /\ [h EXCEPT !.next = n].token = h.token /\ [h EXCEPT !.next = n].next = n
         /\ \A a \in 0 .. PROCNUM :
              /\ [h EXCEPT !.at = a] \in Hand /\ [h EXCEPT !.at = a].at = a
              /\ [h EXCEPT !.at = a].token = h.token /\ [h EXCEPT !.at = a].next = h.next
BY DEF Hand

\* A busy LCDAFilter has such a token.
LEMMA HandType ==
  ASSUME TypeOK, lcda.busy
  PROVE  lcda \in Hand
<1>1. lcda = Idle \/ lcda \in Hand  BY DEF TypeOK, Hand
<1>2. lcda # Idle  BY DEF Idle
<1>3. QED  BY <1>1, <1>2

\* LCDAFilter takes a token.
LEMMA TakeLCDAInv ==
  ASSUME IInv, TakeLCDA
  PROVE  IInv'
<1>1. /\ UNCHANGED <<program, streams, reading, PresIsFull, toOutput, LoopIterPresNum,
                     FinishedLoopIter, analysed, LSOutputLCDepFinish>>
      /\ ~ lcda.busy /\ toLCDA # <<>> /\ toLCDA' = Tail(toLCDA)
      /\ lcda' = [busy |-> TRUE, token |-> Head(toLCDA), at |-> 0, next |-> NoIter]
  BY DEF TakeLCDA
<1>2. UNCHANGED <<owner, loopIter, reader, task, ProcNextLidep, ProcWPresNum, tableIter>>
  BY <1>1 DEF program, reading
<1>3. toLCDA \in Seq(Token) /\ toOutput \in Seq(Token)  BY DEF IInv, TypeOK
<1>4. /\ toLCDA' \in Seq(Token) /\ Len(toLCDA) \in Nat \ {0} /\ Len(toLCDA') = Len(toLCDA) - 1
      /\ Head(toLCDA) \in Token /\ Head(toLCDA) = toLCDA[1] /\ 1 \in 1 .. Len(toLCDA)
      /\ \A k \in 1 .. Len(toLCDA') : toLCDA'[k] = toLCDA[k + 1] /\ k + 1 \in 1 .. Len(toLCDA)
      /\ \A p \in Proc, i \in Iter :
           InQueue(toLCDA, p, i) <=> InQueue(toLCDA', p, i) \/ IsStartOf(Head(toLCDA)[p], i)
      /\ \A p \in Proc : QueueSorted(toLCDA, p) =>
           /\ QueueSorted(toLCDA', p)
           /\ \A i, j \in Iter : IsStartOf(Head(toLCDA)[p], i) /\ InQueue(toLCDA', p, j) => i < j
  <2>1. /\ Tail(toLCDA) \in Seq(Token) /\ Len(toLCDA) \in Nat \ {0}
        /\ Len(Tail(toLCDA)) = Len(toLCDA) - 1
        /\ Head(toLCDA) \in Token /\ Head(toLCDA) = toLCDA[1] /\ 1 \in 1 .. Len(toLCDA)
        /\ \A k \in 1 .. Len(Tail(toLCDA)) :
             Tail(toLCDA)[k] = toLCDA[k + 1] /\ k + 1 \in 1 .. Len(toLCDA)
        /\ \A p \in Proc, i \in Iter :
             InQueue(toLCDA, p, i) <=> InQueue(Tail(toLCDA), p, i) \/ IsStartOf(Head(toLCDA)[p], i)
        /\ \A p \in Proc : QueueSorted(toLCDA, p) =>
             /\ QueueSorted(Tail(toLCDA), p)
             /\ \A i, j \in Iter :
                  IsStartOf(Head(toLCDA)[p], i) /\ InQueue(Tail(toLCDA), p, j) => i < j
    BY <1>1, <1>3, QueueTail
  <2>2. QED  BY <1>1, <2>1
<1>5. lcda'.busy /\ lcda'.token = Head(toLCDA) /\ lcda'.at = 0 /\ lcda'.next = NoIter
  BY <1>1
<1>6. \A p \in Proc, i \in Iter : /\ ~ InHand(lcda, p, i)
                                  /\ InHand(lcda', p, i) <=> IsStartOf(Head(toLCDA)[p], i)
  <2>1. \A p \in Proc : 0 < p \/ 0 = p  BY PipelineAssumption DEF Proc
  <2>2. QED  BY <1>1, <1>5, <2>1 DEF InHand
<1>7. InFlight' = InFlight
  <2>1. Len(toOutput) \in Nat  BY <1>3, LenProperties
  <2>2. QED  BY <1>1, <1>4, <1>5, <2>1 DEF InFlight
<1>8. TypeOK'
  <2>1. lcda' \in Hand
    BY <1>1, <1>4, PipelineAssumption DEF Hand, NoIter
  <2>2. QED  BY <1>1, <1>4, <1>7, <2>1 DEF IInv, TypeOK, program, reading, Hand
<1>9. BatchInv'  BY <1>2, <1>7 DEF IInv, BatchInv
<1>10. Owned'  BY <1>1, <1>2, <1>4, <1>6 DEF IInv, Owned
<1>11. Covered'
  <2>1. \A i \in Iter : owner[i] \in Proc  BY DEF IInv, TypeOK
  <2>2. QED  BY <1>1, <1>2, <1>4, <1>6, <2>1 DEF IInv, Covered, Sent
<1>12. Sorted'  BY <1>1, <1>4 DEF IInv, Sorted
<1>13. Ordered'
  <2> SUFFICES ASSUME NEW p \in Proc, NEW i \in Iter, NEW j \in Iter
               PROVE
    /\ InStream(streams, p, j) =>
         /\ InBatch(reader, ProcNextLidep, p, i) => i < j
         /\ InQueue(toLCDA', p, i) => i < j
         /\ InHand(lcda', p, i) => i < j
         /\ owner[i] = p /\ Known(LoopIterPresNum, i) => i < j
    /\ InBatch(reader, ProcNextLidep, p, j) =>
         /\ InQueue(toLCDA', p, i) => i < j
         /\ InHand(lcda', p, i) => i < j
         /\ owner[i] = p /\ Known(LoopIterPresNum, i) => i < j
    /\ InQueue(toLCDA', p, j) =>
         /\ InHand(lcda', p, i) => i < j
         /\ owner[i] = p /\ Known(LoopIterPresNum, i) => i < j
    /\ InHand(lcda', p, j) =>
         (owner[i] = p /\ Known(LoopIterPresNum, i) => i < j)
    <3>1. UNCHANGED <<streams, LoopIterPresNum, owner, reader, ProcNextLidep>>  BY <1>1, <1>2
    <3>2. QED  BY <3>1 DEF Ordered
  <2>1. /\ InQueue(toLCDA', p, i) \/ InHand(lcda', p, i) => InQueue(toLCDA, p, i)
        /\ InQueue(toLCDA', p, j) \/ InHand(lcda', p, j) => InQueue(toLCDA, p, j)
        /\ InQueue(toLCDA', p, j) /\ InHand(lcda', p, i) => i < j
    BY <1>4, <1>6 DEF IInv, Sorted
  <2>2. QED  BY <2>1 DEF IInv, Ordered
<1>14. Tables'
  <2>1. \A p \in Proc, i \in Iter : \A k \in 1 .. Len(toLCDA') : IsStartOf(toLCDA'[k][p], i) =>
          Holds(PresIsFull, tableIter, p, i, toLCDA'[k][p].table)
    BY <1>4 DEF IInv, Tables
  <2>2. \A p \in Proc, i \in Iter : InHand(lcda', p, i) =>
          Holds(PresIsFull, tableIter, p, i, lcda'.token[p].table)
    BY <1>4, <1>5, <1>6 DEF IInv, Tables
  <2>3. QED  BY <1>1, <1>2, <2>1, <2>2 DEF IInv, Tables
<1>15. AnalysisInv'
  BY <1>1, <1>2, <1>5 DEF IInv, AnalysisInv, InOrder, Alone, Known
<1>16. QED  BY <1>8, <1>9, <1>10, <1>11, <1>12, <1>13, <1>14, <1>15 DEF IInv

\* LCDAFilter has finished with a token.
LEMMA EndLCDAInv ==
  ASSUME IInv, EndLCDA
  PROVE  IInv'
<1>1. /\ UNCHANGED <<program, streams, reading, PresIsFull, toLCDA, LoopIterPresNum,
                     FinishedLoopIter, analysed, LSOutputLCDepFinish>>
      /\ lcda.busy /\ lcda.at = PROCNUM /\ lcda' = Idle /\ ~ lcda'.busy
      /\ toOutput' = Append(toOutput, lcda.token)
  BY DEF EndLCDA, Idle
<1>2. UNCHANGED <<owner, loopIter, reader, task, ProcNextLidep, ProcWPresNum, tableIter>>
  BY <1>1 DEF program, reading
<1>3. lcda.token \in Token  BY <1>1, HandType, HandShape DEF IInv
<1>4. toLCDA \in Seq(Token) /\ toOutput \in Seq(Token)  BY DEF IInv, TypeOK
<1>5. toOutput' \in Seq(Token) /\ Len(toOutput') = Len(toOutput) + 1 /\ Len(toOutput) \in Nat
  BY <1>1, <1>3, <1>4, AppendProperties, LenProperties
<1>6. \A p \in Proc, i \in Iter : ~ InHand(lcda, p, i) /\ ~ InHand(lcda', p, i)
  <2>1. \A p \in Proc : ~ (PROCNUM < p) /\ PROCNUM # p  BY PipelineAssumption DEF Proc
  <2>2. QED  BY <1>1, <2>1 DEF InHand
<1>7. InFlight' = InFlight
  <2>1. Len(toLCDA) \in Nat  BY <1>4, LenProperties
  <2>2. QED  BY <1>1, <1>5, <2>1 DEF InFlight
<1>8. TypeOK'  BY <1>1, <1>5, <1>7 DEF IInv, TypeOK, program, reading
<1>9. BatchInv'  BY <1>2, <1>7 DEF IInv, BatchInv
<1>10. Owned' /\ Covered' /\ Ordered'  BY <1>1, <1>2, <1>6, Unmoved
<1>11. Sorted'  BY <1>1 DEF IInv, Sorted
<1>12. Tables'  BY <1>1, <1>2, <1>6 DEF IInv, Tables
<1>13. AnalysisInv'
  BY <1>1, <1>2 DEF IInv, AnalysisInv, InOrder, Alone, Known
<1>14. QED  BY <1>8, <1>9, <1>10, <1>11, <1>12, <1>13 DEF IInv

\* A token leaves the pipeline.
LEMMA OutputInv ==
  ASSUME IInv, Output
  PROVE  IInv'
<1>1. /\ UNCHANGED <<program, streams, reading, PresIsFull, toLCDA, later>>
      /\ toOutput # <<>> /\ toOutput' = Tail(toOutput)
  BY DEF Output
<1>2. UNCHANGED <<owner, loopIter, reader, task, ProcNextLidep, ProcWPresNum, tableIter, lcda,
                  LoopIterPresNum, FinishedLoopIter>>
  BY <1>1 DEF program, reading, later
<1>3. toLCDA \in Seq(Token) /\ toOutput \in Seq(Token)  BY DEF IInv, TypeOK
<1>4. /\ toOutput' \in Seq(Token) /\ Len(toOutput') = Len(toOutput) - 1
      /\ Len(toOutput) \in Nat \ {0} /\ Len(toLCDA) \in Nat
  BY <1>1, <1>3, HeadTailProperties, EmptySeq, LenProperties
<1>5. LSOutputLCDepFinish' \in BOOLEAN  BY DEF Output, IInv, TypeOK
<1>6. InFlight' = InFlight - 1 /\ InFlight \in Nat
  BY <1>1, <1>2, <1>4 DEF InFlight
<1>7. TypeOK'
  <2>1. InFlight' <= PipeThreadNum  BY <1>6, PipelineAssumption DEF IInv, TypeOK
  <2>2. QED  BY <1>1, <1>4, <1>5, <2>1 DEF IInv, TypeOK, program, reading, later
<1>8. BatchInv'
  <2>1. reader = "batch" => InFlight' < PipeThreadNum
    BY <1>6, PipelineAssumption DEF IInv, BatchInv
  <2>2. QED  BY <1>2, <2>1 DEF IInv, BatchInv
<1>9. Owned' /\ Covered' /\ Ordered'  BY <1>1, <1>2, Unmoved
<1>10. Sorted'  BY <1>1 DEF IInv, Sorted
<1>11. Tables'  BY <1>1, TablesUnchanged DEF program
<1>12. AnalysisInv'  BY <1>1, AnalysisUnchanged DEF program
<1>13. QED  BY <1>7, <1>8, <1>9, <1>10, <1>11, <1>12 DEF IInv

\* LCDAFilter goes on to the next input of its token.
LEMMA NextInputInv ==
  ASSUME IInv, lcda.busy, lcda.next = NoIter, lcda.at \in Proc,
         lcda' = [lcda EXCEPT !.at = @ + 1],
         \A i \in Iter : ~ IsStartOf(lcda.token[lcda.at], i),
         \A i \in Iter : LoopIterPresNum'[i] = LoopIterPresNum[i],
         LoopIterPresNum' \in [Iter \cup {ExitIter} -> Table \cup {NoTable}],
         UNCHANGED <<program, streams, reading, PresIsFull, toLCDA, toOutput, FinishedLoopIter,
                     analysed, LSOutputLCDepFinish>>
  PROVE  IInv'
<1>1. UNCHANGED <<owner, loopIter, reader, task, ProcNextLidep, ProcWPresNum, tableIter>>
  BY DEF program, reading
<1>2. /\ lcda' \in Hand /\ lcda'.busy /\ lcda'.next = NoIter /\ lcda'.token = lcda.token
      /\ lcda'.at = lcda.at + 1
  <2>1. lcda \in Hand  BY HandType DEF IInv
  <2>2. lcda.at + 1 \in 0 .. PROCNUM  BY PipelineAssumption DEF Proc
  <2>3. QED  BY <2>1, <2>2, HandShape
<1>3. \A p \in Proc, i \in Iter : InHand(lcda', p, i) <=> InHand(lcda, p, i)
  <2>1. \A p \in Proc : lcda.at + 1 < p \/ lcda.at + 1 = p <=> lcda.at < p
    BY PipelineAssumption DEF Proc
  <2>2. QED  BY <1>2, <2>1 DEF InHand
<1>4. \A i \in Iter : Known(LoopIterPresNum', i) <=> Known(LoopIterPresNum, i)  BY DEF Known
<1>5. InFlight' = InFlight  BY <1>2 DEF InFlight
<1>6. TypeOK'  BY <1>2, <1>5 DEF IInv, TypeOK, program, reading, Hand
<1>7. BatchInv'  BY <1>1, <1>5 DEF IInv, BatchInv
<1>8. Owned' /\ Covered' /\ Ordered'  BY <1>1, <1>3, <1>4, Unmoved
<1>9. Sorted'  BY DEF IInv, Sorted
<1>10. Tables'  BY <1>1, <1>2, <1>3, <1>4 DEF IInv, Tables
<1>11. AnalysisInv'
  BY <1>1, <1>2, <1>4 DEF IInv, AnalysisInv, InOrder, Alone
<1>12. QED  BY <1>6, <1>7, <1>8, <1>9, <1>10, <1>11 DEF IInv

\* An iteration that was in LCDAFilter's hand is noted.
LEMMA NoteOrdered ==
  ASSUME IInv, UNCHANGED <<owner, streams, reader, ProcNextLidep, toLCDA>>,
         NEW p, NEW n \in Iter, owner[n] = p, InHand(lcda, p, n),
         \A q \in Proc, i \in Iter : InHand(lcda', q, i) <=> InHand(lcda, q, i) /\ q # p,
         \A i \in Iter : Known(LoopIterPresNum', i) <=> Known(LoopIterPresNum, i) \/ i = n
  PROVE  Ordered'
<1> SUFFICES ASSUME NEW q \in Proc, NEW i \in Iter, NEW j \in Iter
             PROVE
  /\ InStream(streams, q, j) =>
       /\ InBatch(reader, ProcNextLidep, q, i) => i < j
       /\ InQueue(toLCDA, q, i) => i < j
       /\ InHand(lcda', q, i) => i < j
       /\ owner[i] = q /\ Known(LoopIterPresNum', i) => i < j
  /\ InBatch(reader, ProcNextLidep, q, j) =>
       /\ InQueue(toLCDA, q, i) => i < j
       /\ InHand(lcda', q, i) => i < j
       /\ owner[i] = q /\ Known(LoopIterPresNum', i) => i < j
  /\ InQueue(toLCDA, q, j) =>
       /\ InHand(lcda', q, i) => i < j
       /\ owner[i] = q /\ Known(LoopIterPresNum', i) => i < j
  /\ InHand(lcda', q, j) =>
       (owner[i] = q /\ Known(LoopIterPresNum', i) => i < j)
  BY DEF Ordered
<1>1. /\ InHand(lcda', q, i) => InHand(lcda, q, i)
      /\ InHand(lcda', q, j) => InHand(lcda, q, j) /\ q # p
      /\ owner[i] = q /\ Known(LoopIterPresNum', i) =>
           \/ owner[i] = q /\ Known(LoopIterPresNum, i)
           \/ q = p /\ i = n /\ InHand(lcda, q, i)
  OBVIOUS
<1>2. QED  BY <1>1 DEF IInv, Ordered

\* LCDAFilter notes the table of an iteration.
LEMMA NoteInv ==
  ASSUME IInv, lcda.busy, lcda.next = NoIter, lcda.at \in Proc,
         NEW n \in Iter, IsStartOf(lcda.token[lcda.at], n),
         LoopIterPresNum' = [LoopIterPresNum EXCEPT ![n] = lcda.token[lcda.at].table],
         lcda' = IF n = FinishedLoopIter + 1
                 THEN [lcda EXCEPT !.next = n] ELSE [lcda EXCEPT !.at = @ + 1],
         UNCHANGED <<program, streams, reading, PresIsFull, toLCDA, toOutput, FinishedLoopIter,
                     analysed, LSOutputLCDepFinish>>
  PROVE  IInv'
<1> DEFINE p == lcda.at
           t == lcda.token[lcda.at].table
<1>1. UNCHANGED <<owner, loopIter, reader, task, ProcNextLidep, ProcWPresNum, tableIter>>
  BY DEF program, reading
<1>2. /\ lcda \in Hand /\ n \in 1 .. NumIters + 1 /\ n # NoIter /\ p \in 0 .. PROCNUM
      /\ p + 1 \in 0 .. PROCNUM
  BY HandType, HandShape, Sizes, PipelineAssumption DEF IInv, Iter, Proc
<1>3. /\ lcda' \in Hand /\ lcda'.busy /\ lcda'.token = lcda.token
      /\ \/ n = FinishedLoopIter + 1 /\ lcda'.next = n /\ lcda'.at = p
         \/ n # FinishedLoopIter + 1 /\ lcda'.next = NoIter /\ lcda'.at = p + 1
  <2>1. CASE n = FinishedLoopIter + 1
    <3>1. lcda' = [lcda EXCEPT !.next = n]  BY <2>1
    <3>2. QED  BY <1>2, <2>1, <3>1, HandShape
  <2>2. CASE n # FinishedLoopIter + 1
    <3>1. lcda' = [lcda EXCEPT !.at = p + 1]  BY <2>2
    <3>2. QED  BY <1>2, <2>2, <3>1, HandShape
  <2>3. QED  BY <2>1, <2>2
<1>4. \A i \in Iter : IsStartOf(lcda.token[p], i) <=> i = n  BY DEF IsStartOf
<1>5. /\ InHand(lcda, p, n) /\ \A q \in Proc, i \in Iter : InHand(lcda', q, i) <=>
           InHand(lcda, q, i) /\ q # p
  <2>1. \A q \in Proc : (p + 1 < q \/ p + 1 = q <=> p < q) /\ (p < q => q # p)
    BY PipelineAssumption DEF Proc
  <2>2. n # NoIter  BY <1>2
  <2>3. QED  BY <1>3, <2>1, <2>2 DEF InHand
<1>6. owner[n] = p /\ n < loopIter[p] /\ Holds(PresIsFull, tableIter, p, n, t)
  BY <1>5 DEF IInv, Owned, Tables
<1>7. /\ \A i \in Iter : LoopIterPresNum'[i] = (IF i = n THEN t ELSE LoopIterPresNum[i])
      /\ LoopIterPresNum' \in [Iter \cup {ExitIter} -> Table \cup {NoTable}]
      /\ t \in Table
  <2>1. LoopIterPresNum \in [Iter \cup {ExitIter} -> Table \cup {NoTable}]  BY DEF IInv, TypeOK
  <2>2. t \in Table  BY <1>6 DEF Holds
  <2>3. QED  BY <2>1, <2>2
<1>8. \A i \in Iter : Known(LoopIterPresNum', i) <=> Known(LoopIterPresNum, i) \/ i = n
  BY <1>7, TableShape DEF Known
<1> HIDE DEF p, t
<1>9. InFlight' = InFlight  BY <1>3 DEF InFlight
<1>10. TypeOK'  BY <1>3, <1>7, <1>9 DEF IInv, TypeOK, program, reading, Hand
<1>11. BatchInv'  BY <1>1, <1>9 DEF IInv, BatchInv
<1>12. Owned'
  <2> SUFFICES ASSUME NEW q \in Proc, NEW i \in Iter,
                      \/ InStream(streams, q, i) \/ InBatch(reader, ProcNextLidep, q, i)
                      \/ InQueue(toLCDA, q, i) \/ InHand(lcda', q, i)
                      \/ owner[i] = q /\ Known(LoopIterPresNum', i)
               PROVE  owner[i] = q /\ i < loopIter[q]
    BY <1>1 DEF Owned
  <2>1. CASE q = p /\ i = n  BY <1>6, <2>1
  <2>2. CASE ~ (q = p /\ i = n)  BY <1>5, <1>6, <1>8, <2>2 DEF IInv, Owned
  <2>3. QED  BY <2>1, <2>2
<1>13. Covered'
  <2> SUFFICES ASSUME NEW i \in Iter, Sent(i), reader \in {"idle", "batch"}
               PROVE  \/ InStream(streams, owner[i], i)
                      \/ InBatch(reader, ProcNextLidep, owner[i], i)
                      \/ InQueue(toLCDA, owner[i], i) \/ InHand(lcda', owner[i], i)
                      \/ Known(LoopIterPresNum', i)
    BY <1>1 DEF Covered, Sent
  <2>1. owner[i] \in Proc  BY DEF IInv, TypeOK
  <2>2. InHand(lcda, owner[i], i) => InHand(lcda', owner[i], i) \/ i = n
    <3>1. InHand(lcda, p, i) => i = n  BY <1>4 DEF InHand
    <3>2. QED  BY <1>5, <2>1, <3>1
  <2>3. QED  BY <1>8, <2>1, <2>2 DEF IInv, Covered
<1>14. Sorted'  BY DEF IInv, Sorted
<1>15. Ordered'  BY <1>1, <1>5, <1>6, <1>8, NoteOrdered
<1>16. Tables'
  <2>1. \A q \in Proc, i \in Iter :
          owner[i] = q /\ Known(LoopIterPresNum', i) /\ FinishedLoopIter < i =>
            Holds(PresIsFull, tableIter, q, i, LoopIterPresNum'[i])
    BY <1>6, <1>7, <1>8 DEF IInv, Tables
  <2>2. \A q \in Proc, i \in Iter : InHand(lcda', q, i) =>
          Holds(PresIsFull, tableIter, q, i, lcda'.token[q].table)
    BY <1>3, <1>5 DEF IInv, Tables
  <2>3. QED  BY <1>1, <2>1, <2>2 DEF IInv, Tables
<1>17. AnalysisInv'
  <2>1. /\ Len(analysed') = FinishedLoopIter' /\ InOrder'
        /\ \A i \in Iter : i =< FinishedLoopIter' => Known(LoopIterPresNum', i)
    BY <1>1, <1>8 DEF IInv, AnalysisInv, InOrder, Alone
  <2>2. ASSUME lcda'.busy, lcda'.next # NoIter
        PROVE  /\ lcda'.next = FinishedLoopIter' + 1 /\ Known(LoopIterPresNum', lcda'.next)
               /\ lcda'.at \in Proc
               /\ \E i \in Iter : /\ IsStartOf(lcda'.token[lcda'.at], i) /\ i =< lcda'.next
                                  /\ Known(LoopIterPresNum', i)
                                  /\ Alone' => i = lcda'.next
               /\ Alone' => \A j \in Iter : Known(LoopIterPresNum', j) => j =< lcda'.next
    <3>1. n = FinishedLoopIter + 1 /\ lcda'.next = n /\ lcda'.at = p
      BY <1>3, <2>2
    <3>2. IsStartOf(lcda'.token[lcda'.at], n) /\ Known(LoopIterPresNum', n) /\ n =< n
      <4>1. lcda'.token[lcda'.at] = lcda.token[lcda.at]  BY <1>3, <3>1 DEF p
      <4>2. n =< n  BY Sizes
      <4>3. QED  BY <1>8, <4>1, <4>2
    <3>3. ASSUME Alone, NEW j \in Iter, Known(LoopIterPresNum', j)
          PROVE  j =< n
      <4>1. owner[j] = Master /\ owner[n] = Master  BY <3>3 DEF Alone
      <4>2. CASE j = n  BY <4>2, Sizes
      <4>3. CASE j # n
        <5>1. Known(LoopIterPresNum, j) /\ owner[j] = p /\ p \in Proc
          BY <1>6, <1>8, <3>3, <4>1, <4>3 DEF p
        <5>2. j < n  BY <1>5, <5>1 DEF IInv, Ordered
        <5>3. QED  BY <5>2, Sizes
      <4>4. QED  BY <4>2, <4>3
    <3>4. Alone' <=> Alone  BY <1>1 DEF Alone
    <3>5. lcda.at \in Proc /\ p = lcda.at  BY DEF p
    <3>6. QED  BY <3>1, <3>2, <3>3, <3>4, <3>5
  <2>3. QED  BY <2>1, <2>2 DEF AnalysisInv
<1>18. QED  BY <1>10, <1>11, <1>12, <1>13, <1>14, <1>15, <1>16, <1>17 DEF IInv

\* Taking an input from the token keeps the invariant.
LEMMA TakeInputInv ==
  ASSUME IInv, TakeInput
  PROVE  IInv'
<1> DEFINE x == lcda.token[lcda.at]
<1>1. /\ lcda.busy /\ lcda.next = NoIter /\ lcda.at \in Proc
      /\ UNCHANGED <<program, streams, reading, PresIsFull, toLCDA, toOutput, FinishedLoopIter,
                     analysed, LSOutputLCDepFinish>>
  BY DEF TakeInput, AtInput
<1>2. /\ x.kind = "start" =>
           /\ LoopIterPresNum' = [LoopIterPresNum EXCEPT ![x.iter] = x.table]
           /\ lcda' = IF x.iter = FinishedLoopIter + 1
                      THEN [lcda EXCEPT !.next = x.iter] ELSE [lcda EXCEPT !.at = @ + 1]
      /\ x.kind # "start" =>
           lcda' = [lcda EXCEPT !.at = @ + 1] /\ LoopIterPresNum' = LoopIterPresNum
  BY DEF TakeInput
<1>3. x \in Input
  <2>1. lcda.token \in [Proc -> Input]
    BY <1>1, HandType, HandShape DEF IInv, Token
  <2>2. QED  BY <1>1, <2>1
<1>4. x.kind = "start" => x.iter \in Iter \cup {ExitIter} /\ x.table \in Table
  BY <1>3, InputShape
<1>5. LoopIterPresNum \in [Iter \cup {ExitIter} -> Table \cup {NoTable}]  BY DEF IInv, TypeOK
<1>6. CASE x.kind # "start"
  <2>1. \A i \in Iter : ~ IsStartOf(x, i)  BY <1>6 DEF IsStartOf
  <2>2. lcda' = [lcda EXCEPT !.at = @ + 1] /\ LoopIterPresNum' = LoopIterPresNum  BY <1>2, <1>6
  <2>3. QED  BY <1>1, <1>5, <2>1, <2>2, NextInputInv
<1>7. CASE x.kind = "start" /\ x.iter = ExitIter
  <2>1. \A i \in Iter : ~ IsStartOf(x, i)  BY <1>7, Sizes DEF IsStartOf
  <2>2. ExitIter # FinishedLoopIter + 1
    BY PipelineAssumption DEF IInv, TypeOK, ExitIter
  <2>3. lcda' = [lcda EXCEPT !.at = @ + 1]  BY <1>2, <1>7, <2>2
  <2>4. /\ LoopIterPresNum' \in [Iter \cup {ExitIter} -> Table \cup {NoTable}]
        /\ \A i \in Iter : LoopIterPresNum'[i] = LoopIterPresNum[i]
    <3>1. LoopIterPresNum' = [LoopIterPresNum EXCEPT ![ExitIter] = x.table] /\ x.table \in Table
      BY <1>2, <1>4, <1>7
    <3>2. QED  BY <1>5, <3>1, Sizes
  <2>5. QED  BY <1>1, <2>1, <2>3, <2>4, NextInputInv
<1>8. CASE x.kind = "start" /\ x.iter # ExitIter
  <2>1. x.iter \in Iter /\ IsStartOf(x, x.iter)  BY <1>4, <1>8 DEF IsStartOf
  <2>2. QED  BY <1>1, <1>2, <1>8, <2>1, NoteInv
<1>9. QED  BY <1>6, <1>7, <1>8

\* LCDAFilter analyses the table of the next iteration and frees it.
LEMMA AnalyseNextInv ==
  ASSUME IInv, AnalyseNext
  PROVE  IInv'
<1> DEFINE n == lcda.next
           t == LoopIterPresNum[lcda.next]
           e == [iter |-> lcda.next, input |-> lcda.token[lcda.at].iter, found |-> tableIter[t]]
<1>1. /\ UNCHANGED <<program, streams, reading, toLCDA, toOutput, LoopIterPresNum,
                     LSOutputLCDepFinish>>
      /\ lcda.busy /\ n # NoIter /\ PresIsFull[t]
      /\ analysed' = Append(analysed, e) /\ FinishedLoopIter' = n
  BY DEF AnalyseNext, RPresNum
<1>2. UNCHANGED <<owner, loopIter, reader, task, ProcNextLidep, ProcWPresNum, tableIter>>
  BY <1>1 DEF program, reading
<1>3. lcda \in Hand /\ n \in 1 .. NumIters + 1 /\ lcda.token \in Token
  BY <1>1, HandType, HandShape DEF IInv
<1>4. n \in Iter /\ n \in Nat
  <2>1. n # NumIters + 1  BY <1>1 DEF NoIter
  <2>2. QED  BY <1>3, <2>1, PipelineAssumption DEF Iter
<1>5. /\ n = FinishedLoopIter + 1 /\ Known(LoopIterPresNum, n) /\ lcda.at \in Proc
      /\ Len(analysed) = FinishedLoopIter /\ FinishedLoopIter \in Nat
      /\ Alone => \A j \in Iter : Known(LoopIterPresNum, j) => j =< n
  BY <1>1 DEF IInv, AnalysisInv, TypeOK
<1>6. PICK i0 \in Iter : /\ IsStartOf(lcda.token[lcda.at], i0) /\ i0 =< n
                         /\ Known(LoopIterPresNum, i0) /\ (Alone => i0 = n)
  BY <1>1 DEF IInv, AnalysisInv
<1>7. FinishedLoopIter < n  BY <1>4, <1>5
<1>8. Holds(PresIsFull, tableIter, owner[n], n, t) /\ owner[n] \in Proc
  BY <1>4, <1>5, <1>7 DEF IInv, Tables, TypeOK
<1>9. t \in Table /\ tableIter[t] = n  BY <1>8 DEF Holds
<1>10. /\ PresIsFull' \in [Table -> BOOLEAN]
       /\ \A u \in Table : PresIsFull'[u] <=> PresIsFull[u] /\ u # t
  <2>1. PresIsFull \in [Table -> BOOLEAN] /\ PresIsFull' = [PresIsFull EXCEPT ![t] = FALSE]
    BY DEF IInv, TypeOK, AnalyseNext, RPresNum
  <2>2. QED  BY <1>9, <2>1
<1>11. /\ lcda' \in Hand /\ lcda'.busy /\ lcda'.token = lcda.token
       /\ \/ /\ n + 1 \in Iter /\ Known(LoopIterPresNum, n + 1)
             /\ lcda'.next = n + 1 /\ lcda'.at = lcda.at
          \/ lcda'.next = NoIter /\ lcda'.at = lcda.at + 1
  <2>1. lcda.at + 1 \in 0 .. PROCNUM  BY <1>5, PipelineAssumption DEF Proc
  <2>2. CASE n < NumIters /\ LoopIterPresNum[n + 1] # NoTable
    <3>1. n + 1 \in Iter /\ n + 1 \in 1 .. NumIters + 1  BY <1>4, <2>2, PipelineAssumption DEF Iter
    <3>2. lcda' = [lcda EXCEPT !.next = n + 1]  BY <2>2 DEF AnalyseNext
    <3>3. Known(LoopIterPresNum, n + 1)  BY <2>2 DEF Known
    <3>4. QED  BY <1>3, <3>1, <3>2, <3>3, HandShape
  <2>3. CASE ~ (n < NumIters /\ LoopIterPresNum[n + 1] # NoTable)
    <3> DEFINE h == [lcda EXCEPT !.next = NoIter]
    <3>1. lcda' = [h EXCEPT !.at = lcda.at + 1]  BY <1>3, <2>3 DEF AnalyseNext, Hand
    <3>2. NoIter \in 1 .. NumIters + 1  BY PipelineAssumption DEF NoIter
    <3>3. h \in Hand /\ h.token = lcda.token /\ h.next = NoIter  BY <1>3, <3>2, HandShape
    <3> HIDE DEF h
    <3>4. QED  BY <2>1, <3>1, <3>3, HandShape
  <2>4. QED  BY <2>2, <2>3
<1>12. e \in [iter : Iter, input : Iter, found : Iter \cup {ExitIter}]
  <2>1. lcda.token[lcda.at].iter = i0  BY <1>6 DEF IsStartOf
  <2>2. QED  BY <1>4, <1>6, <1>9, <2>1
<1>13. e.iter = n /\ e.input =< n /\ e.found = n /\ (Alone => e.input = n)
  BY <1>6, <1>9 DEF IsStartOf
<1> HIDE DEF n, t, e
<1>14. /\ analysed' \in Seq([iter : Iter, input : Iter, found : Iter \cup {ExitIter}])
       /\ Len(analysed') = n
       /\ \A k \in 1 .. FinishedLoopIter : analysed'[k] = analysed[k]
       /\ analysed'[n] = e
  <2>1. analysed \in Seq([iter : Iter, input : Iter, found : Iter \cup {ExitIter}])
    BY DEF IInv, TypeOK
  <2>2. QED  BY <1>1, <1>5, <1>12, <2>1, AppendProperties
<1>15. \A q \in Proc, i \in Iter : InHand(lcda', q, i) <=> InHand(lcda, q, i)
  <2>1. lcda.next # NoIter  BY <1>1 DEF n
  <2>2. \A q \in Proc : lcda.at + 1 < q \/ lcda.at + 1 = q <=> lcda.at < q
    BY <1>5, PipelineAssumption DEF Proc
  <2>3. n + 1 \in Iter => n + 1 # NoIter  BY Sizes
  <2>4. QED  BY <1>1, <1>11, <2>1, <2>2, <2>3 DEF InHand
<1>16. InFlight' = InFlight  BY <1>1, <1>11 DEF InFlight
<1>17. TypeOK'
  <2>1. FinishedLoopIter' \in 0 .. NumIters  BY <1>1, <1>4, PipelineAssumption DEF Iter
  <2>2. QED
    BY <1>1, <1>2, <1>10, <1>11, <1>14, <1>16, <2>1 DEF IInv, TypeOK, program, reading, Hand
<1>18. BatchInv'  BY <1>2, <1>16 DEF IInv, BatchInv
<1>19. Owned' /\ Covered' /\ Ordered'  BY <1>1, <1>2, <1>15, Unmoved
<1>20. Sorted'  BY <1>1 DEF IInv, Sorted
<1>21. Tables'
  <2>1. \A q \in Proc : task'[q] # "spinning" => ~ PresIsFull'[<<q, ProcWPresNum'[q]>>]
    <3>1. \A q \in Proc : <<q, ProcWPresNum[q]>> \in Table  BY TableShape DEF IInv, TypeOK
    <3>2. QED  BY <1>2, <1>10, <3>1 DEF IInv, Tables
  <2>2. \A u : \A q \in Proc, i \in Iter :
          i # n /\ Holds(PresIsFull, tableIter, q, i, u) => Holds(PresIsFull', tableIter', q, i, u)
    BY <1>2, <1>9, <1>10 DEF Holds
  <2>3. \A q \in Proc, i \in Iter :
          InBatch(reader, ProcNextLidep, q, i) \/ InQueue(toLCDA, q, i) \/ InHand(lcda, q, i)
            => i # n
    <3> SUFFICES ASSUME NEW q \in Proc,
                        \/ InBatch(reader, ProcNextLidep, q, n) \/ InQueue(toLCDA, q, n)
                        \/ InHand(lcda, q, n)
                 PROVE  FALSE
      OBVIOUS
    <3>1. owner[n] = q  BY <1>4 DEF IInv, Owned
    <3>2. n < n  BY <1>4, <1>5, <3>1 DEF IInv, Ordered
    <3>3. QED  BY <1>4, <3>2
  <2>4. \A q \in Proc, i \in Iter : \A k \in 1 .. Len(toLCDA) :
          IsStartOf(toLCDA[k][q], i) => InQueue(toLCDA, q, i)
    BY DEF InQueue
  <2>5. \A i \in Iter : n < i => FinishedLoopIter < i /\ i # n
    BY <1>4, <1>5, Sizes
  <2>6. UNCHANGED <<owner, reader, ProcNextLidep, toLCDA, LoopIterPresNum>>
        /\ FinishedLoopIter' = n /\ lcda'.token = lcda.token
    BY <1>1, <1>2, <1>11
  <2>7. QED  BY <1>15, <2>1, <2>2, <2>3, <2>4, <2>5, <2>6 DEF IInv, Tables
<1>22. AnalysisInv'
  <2>1. Len(analysed') = FinishedLoopIter'  BY <1>1, <1>14
  <2>2. \A i \in Iter : i =< FinishedLoopIter' => Known(LoopIterPresNum', i)
    <3>1. \A i \in Iter : i =< n => i =< FinishedLoopIter \/ i = n
      BY <1>4, <1>5, Sizes
    <3>2. QED  BY <1>1, <1>5, <3>1 DEF IInv, AnalysisInv
  <2>3. Alone' <=> Alone  BY <1>2 DEF Alone
  <2>4. InOrder'
    <3>1. DOMAIN analysed' = 1 .. n /\ DOMAIN analysed = 1 .. FinishedLoopIter
      BY <1>5, <1>14, LenProperties DEF IInv, TypeOK
    <3> SUFFICES ASSUME NEW k \in 1 .. n
                 PROVE  /\ analysed'[k].iter = k /\ analysed'[k].found = k
                        /\ analysed'[k].input =< k /\ (Alone => analysed'[k].input = k)
      BY <2>3, <3>1 DEF InOrder
    <3>2. CASE k = n  BY <1>13, <1>14, <3>2
    <3>3. CASE k # n
      <4>1. k \in 1 .. FinishedLoopIter  BY <1>4, <1>5, <3>3
      <4>2. QED  BY <1>14, <3>1, <4>1 DEF IInv, AnalysisInv, InOrder
    <3>4. QED  BY <3>2, <3>3
  <2>5. ASSUME lcda'.busy, lcda'.next # NoIter
        PROVE  /\ lcda'.next = FinishedLoopIter' + 1 /\ Known(LoopIterPresNum', lcda'.next)
               /\ lcda'.at \in Proc
               /\ \E i \in Iter : /\ IsStartOf(lcda'.token[lcda'.at], i) /\ i =< lcda'.next
                                  /\ Known(LoopIterPresNum', i)
                                  /\ Alone' => i = lcda'.next
               /\ Alone' => \A j \in Iter : Known(LoopIterPresNum', j) => j =< lcda'.next
    <3>1. /\ n + 1 \in Iter /\ Known(LoopIterPresNum, n + 1)
          /\ lcda'.next = n + 1 /\ lcda'.at = lcda.at
      BY <1>11, <2>5
    <3>2. ~ (n + 1 =< n)  BY <1>4
    <3>3. ~ Alone  BY <1>5, <3>1, <3>2
    <3>4. i0 =< n + 1  BY <1>4, <1>6, Sizes
    <3>5. IsStartOf(lcda'.token[lcda'.at], i0) /\ Known(LoopIterPresNum', i0)
      BY <1>1, <1>6, <1>11, <3>1
    <3>6. QED  BY <1>1, <1>5, <2>3, <3>1, <3>3, <3>4, <3>5
  <2>6. QED  BY <2>1, <2>2, <2>4, <2>5 DEF AnalysisInv
<1>23. QED  BY <1>17, <1>18, <1>19, <1>20, <1>21, <1>22 DEF IInv

-----------------------------------------------------------------------------
\* Every step keeps the inductive invariant.
LEMMA NextInv == IInv /\ [Next]_vars => IInv'
<1> SUFFICES ASSUME IInv, [Next]_vars PROVE IInv'  OBVIOUS
<1>1. CASE Next
  <2>1. ASSUME NEW p \in Proc, Process(p)  PROVE IInv'
    BY <2>1, OverflowInv, EndIterationInv DEF Process
  <2>2. ASSUME NEW p \in Proc, ReadTask(p)  PROVE IInv'
    BY <2>2, TaskDoneInv, ReadSameInv, ReadEndInv, ReadCancelInv, ReaderStopsInv DEF ReadTask
  <2>3. CASE ReadLIDA  BY <2>2, <2>3, StartBatchInv, EndBatchInv DEF ReadLIDA
  <2>4. CASE LCDA  BY <2>4, TakeLCDAInv, TakeInputInv, AnalyseNextInv, EndLCDAInv DEF LCDA
  <2>5. QED  BY <1>1, <2>1, <2>3, <2>4, ExitInv, OutputInv DEF Next
<1>2. CASE UNCHANGED vars
  <2>1. UNCHANGED <<owner, loopIter, reader, ProcNextLidep, streams, toLCDA, toOutput, lcda, task,
                    LoopIterPresNum, FinishedLoopIter, tableIter, PresIsFull, ProcWPresNum>>
    BY <1>2 DEF vars, program, reading, later
  <2>2. UNCHANGED <<owner, reading, PresIsFull, toLCDA, later>>  BY <1>2 DEF vars, program
  <2>3. TypeOK'  BY <1>2 DEF IInv, TypeOK, vars, program, reading, later, InFlight
  <2>4. BatchInv'  BY <2>1 DEF IInv, BatchInv, InFlight
  <2>5. Owned' /\ Covered' /\ Ordered'  BY <2>1, Unmoved
  <2>6. Sorted'  BY <2>1 DEF IInv, Sorted
  <2>7. Tables'  BY <2>2, TablesUnchanged
  <2>8. AnalysisInv'  BY <2>2, AnalysisUnchanged
  <2>9. QED  BY <2>3, <2>4, <2>5, <2>6, <2>7, <2>8 DEF IInv
<1>3. QED  BY <1>1, <1>2

\* The inductive invariant holds in every state.
LEMMA InvariantHolds == Spec => []IInv
BY InitInv, NextInv, PTL DEF Spec

-----------------------------------------------------------------------------
(***************************************************************************)
(* What follows the message that cancels.  Only the master sends it, as    *)
(* its last one, when all iterations have been sent; where it or its input *)
(* is, no iteration of the master is any more in the stages before, so     *)
(* that all are known to LCDAFilter when the signal is given.              *)
(***************************************************************************)
NoneIn(token) == \A i \in Iter : ~ IsStartOf(token[Master], i)
StreamDone(s) == \A i \in Iter : ~ InStream(s, Master, i)
BatchDone(r, token) == r = "batch" => NoneIn(token)
QueueDone(q) == \A k \in 1 .. Len(q) : NoneIn(q[k])
HandDone(l) == l.busy => NoneIn(l.token)
Cancels(token, p) == token[p] = Cancelling
Signals(finish, q) == finish \/ \E k \in 1 .. Len(q), p \in Proc : Cancels(q[k], p)

\* The message that cancels is the master's last.
CancelLast ==
  /\ master # "inside" => \A p \in Proc : loopIter[p] > NumIters
  /\ \A p \in Proc : \A k \in 1 .. Len(streams[p]) :
       streams[p][k].flag \in {"cancel", "again"} =>
         p = Master /\ master = "cancelled" /\ k = Len(streams[p])

\* Nothing of the master's comes after the input that cancels.
BatchClosed ==
  \A p \in Proc : reader = "batch" /\ Cancels(ProcNextLidep, p) =>
    p = Master /\ master = "cancelled" /\ StreamDone(streams)
QueueClosed ==
  \A k \in 1 .. Len(toLCDA) : \A p \in Proc : Cancels(toLCDA[k], p) =>
    /\ p = Master /\ master = "cancelled"
    /\ StreamDone(streams) /\ BatchDone(reader, ProcNextLidep)
    /\ \A l \in 1 .. Len(toLCDA) : k =< l => NoneIn(toLCDA[l])
HandClosed ==
  \A p \in Proc : lcda.busy /\ Cancels(lcda.token, p) =>
    /\ p = Master /\ master = "cancelled"
    /\ StreamDone(streams) /\ BatchDone(reader, ProcNextLidep) /\ QueueDone(toLCDA)
SignalClosed ==
  Signals(LSOutputLCDepFinish, toOutput) =>
    /\ master = "cancelled"
    /\ StreamDone(streams) /\ BatchDone(reader, ProcNextLidep) /\ QueueDone(toLCDA)
    /\ HandDone(lcda)

\* LCDAFilter's token has iterations of their owners, also those it has noted.
HandOwned == lcda.busy => \A p \in Proc, i \in Iter : IsStartOf(lcda.token[p], i) => owner[i] = p

\* The reader stops only when it has read all of the master's iterations.
Stopped ==
  reader \notin {"idle", "batch"} =>
    \A i \in Iter : owner[i] = Master =>
      InQueue(toLCDA, Master, i) \/ InHand(lcda, Master, i) \/ Known(LoopIterPresNum, i)

\* The iteration to be analysed next is analysed as soon as it is noted.
NoneWaits ==
  ~ (lcda.busy /\ lcda.next # NoIter) =>
    \A i \in Iter : i = FinishedLoopIter + 1 => ~ Known(LoopIterPresNum, i)

FInv ==
  /\ CancelLast /\ BatchClosed /\ QueueClosed /\ HandClosed /\ SignalClosed
  /\ HandOwned /\ Stopped /\ NoneWaits

\* Nothing is on its way initially.
LEMMA InitFInv == Init => FInv
<1> SUFFICES ASSUME Init PROVE FInv  OBVIOUS
<1>1. /\ master = "inside" /\ reader = "idle" /\ LSOutputLCDepFinish = FALSE /\ ~ lcda.busy
      /\ toLCDA = <<>> /\ toOutput = <<>> /\ \A p \in Proc : streams[p] = <<>>
      /\ \A i \in Iter : ~ Known(LoopIterPresNum, i)
  BY DEF Init, Idle, Known
<1>2. /\ 1 .. Len(toLCDA) = {} /\ 1 .. Len(toOutput) = {}
      /\ \A p \in Proc : 1 .. Len(streams[p]) = {}
  BY <1>1
<1>3. CancelLast  BY <1>1, <1>2 DEF CancelLast
<1>4. BatchClosed /\ QueueClosed /\ HandClosed /\ SignalClosed
  BY <1>1, <1>2 DEF BatchClosed, QueueClosed, HandClosed, SignalClosed, Signals
<1>5. HandOwned /\ Stopped /\ NoneWaits  BY <1>1 DEF HandOwned, Stopped, NoneWaits
<1> QED  BY <1>3, <1>4, <1>5 DEF FInv

\* While the master has not cancelled, nobody has.
LEMMA NobodyCancels ==
  ASSUME FInv, master # "cancelled"
  PROVE  /\ \A p \in Proc : \A k \in 1 .. Len(streams[p]) :
              streams[p][k].flag \notin {"cancel", "again"}
         /\ \A p \in Proc : ~ (reader = "batch" /\ Cancels(ProcNextLidep, p))
         /\ \A k \in 1 .. Len(toLCDA) : \A p \in Proc : ~ Cancels(toLCDA[k], p)
         /\ \A p \in Proc : ~ (lcda.busy /\ Cancels(lcda.token, p))
         /\ ~ Signals(LSOutputLCDepFinish, toOutput)
BY DEF FInv, CancelLast, BatchClosed, QueueClosed, HandClosed, SignalClosed

\* Steps of the program leave the pipeline alone.
LEMMA ProgramFInv ==
  ASSUME IInv, FInv, master # "cancelled", CancelLast',
         UNCHANGED <<owner, reading, toLCDA, toOutput, later, LSOutputLCDepFinish>>
  PROVE  FInv'
<1>1. UNCHANGED <<owner, reader, ProcNextLidep, toLCDA, toOutput, lcda, LoopIterPresNum,
                  FinishedLoopIter, LSOutputLCDepFinish>>
  BY DEF reading, later
<1>2. BatchClosed' /\ QueueClosed' /\ HandClosed' /\ SignalClosed'
  BY <1>1, NobodyCancels DEF BatchClosed, QueueClosed, HandClosed, SignalClosed
<1>3. HandOwned' /\ Stopped' /\ NoneWaits'
  BY <1>1 DEF FInv, HandOwned, Stopped, NoneWaits
<1> QED  BY <1>2, <1>3 DEF FInv

\* The messages of a stream after one more has been sent.
LEMMA SentMessages ==
  ASSUME IInv, NEW p \in Proc, NEW f, NEW n, Send(p, f, n),
         [flag |-> f, iter |-> n] \in Message
  PROVE  /\ \A q \in Proc : q # p => streams'[q] = streams[q]
         /\ Len(streams[p]) \in Nat /\ Len(streams'[p]) = Len(streams[p]) + 1
         /\ \A k \in 1 .. Len(streams'[p]) :
              \/ k \in 1 .. Len(streams[p]) /\ streams'[p][k] = streams[p][k]
              \/ k = Len(streams'[p]) /\ streams'[p][k].flag = f
<1> DEFINE m == [flag |-> f, iter |-> n]
<1>1. streams \in [Proc -> Seq(Message)] /\ streams[p] \in Seq(Message)  BY DEF IInv, TypeOK
<1>2. streams' = [streams EXCEPT ![p] = Append(streams[p], m)]  BY DEF Send
<1>3. m.flag = f /\ m \in Message  OBVIOUS
<1> HIDE DEF m
<1>4. streams'[p] = Append(streams[p], m) /\ \A q \in Proc : q # p => streams'[q] = streams[q]
  BY <1>1, <1>2
<1>5. /\ Len(streams[p]) \in Nat /\ Len(Append(streams[p], m)) = Len(streams[p]) + 1
      /\ \A k \in 1 .. Len(streams[p]) : Append(streams[p], m)[k] = streams[p][k]
      /\ Append(streams[p], m)[Len(streams[p]) + 1] = m
  BY <1>1, <1>3, AppendProperties, LenProperties
<1>6. \A k \in 1 .. Len(streams[p]) + 1 : k \in 1 .. Len(streams[p]) \/ k = Len(streams[p]) + 1
  BY <1>5
<1> QED  BY <1>3, <1>4, <1>5, <1>6

\* A message of a process that is in the loop does not cancel.
LEMMA ProcessFInv ==
  ASSUME IInv, FInv, NEW p \in Proc, Process(p)
  PROVE  FInv'
<1>1. /\ UNCHANGED <<owner, master, reading, toLCDA, toOutput, later, LSOutputLCDepFinish>>
      /\ loopIter[p] <= NumIters /\ loopIter[p] \in Nat
  BY DEF Process, Overflow, EndIteration, Running, IInv, TypeOK
<1>2. master = "inside"
  <2>1. ~ (loopIter[p] > NumIters)  BY <1>1, PipelineAssumption
  <2>2. QED  BY <2>1 DEF FInv, CancelLast
<1>3. loopIter[p] \in Iter
  BY <1>1 DEF IInv, TypeOK, Iter
<1>4. \A q \in Proc : \A k \in 1 .. Len(streams'[q]) : streams'[q][k].flag \notin {"cancel", "again"}
  <2>1. \A q \in Proc : \A k \in 1 .. Len(streams[q]) : streams[q][k].flag \notin {"cancel", "again"}
    BY <1>2, NobodyCancels
  <2>2. /\ [flag |-> "same", iter |-> loopIter[p]] \in Message
        /\ [flag |-> "end", iter |-> loopIter[p]] \in Message
    BY <1>3 DEF Message
  <2>3. CASE Send(p, "same", loopIter[p])
    BY <2>1, <2>2, <2>3, SentMessages
  <2>4. CASE Send(p, "end", loopIter[p])
    BY <2>1, <2>2, <2>4, SentMessages
  <2>5. CASE streams' = streams
    BY <2>1, <2>5
  <2>6. Send(p, "same", loopIter[p]) \/ Send(p, "end", loopIter[p]) \/ streams' = streams
    BY DEF Process, Overflow, EndIteration
  <2> QED  BY <2>3, <2>4, <2>5, <2>6
<1>5. CancelLast'  BY <1>1, <1>2, <1>4 DEF CancelLast
<1> QED  BY <1>1, <1>2, <1>5, ProgramFInv

\* The master leaves the loop, or cancels: its last message.
LEMMA ExitFInv ==
  ASSUME IInv, FInv, Exit
  PROVE  FInv'
<1>1. /\ UNCHANGED <<owner, loopIter, reading, toLCDA, toOutput, later, LSOutputLCDepFinish>>
      /\ master # "cancelled" /\ \A p \in Proc : loopIter[p] > NumIters
      /\ \/ Send(Master, "end", ExitIter) /\ master' = "outside"
         \/ Send(Master, "cancel", ExitIter) /\ master' = "cancelled"
  BY DEF Exit, JoinAndReInit, CancelPipeline, FInv, CancelLast
<1>2. \A q \in Proc : \A k \in 1 .. Len(streams[q]) : streams[q][k].flag \notin {"cancel", "again"}
  BY <1>1, NobodyCancels
<1>3. /\ [flag |-> "end", iter |-> ExitIter] \in Message
      /\ [flag |-> "cancel", iter |-> ExitIter] \in Message /\ Master \in Proc
  BY Sizes DEF Message
<1>4. CASE Send(Master, "end", ExitIter) /\ master' = "outside"
  <2>1. \A q \in Proc : \A k \in 1 .. Len(streams'[q]) : streams'[q][k].flag \notin {"cancel", "again"}
    BY <1>2, <1>3, <1>4, SentMessages
  <2>2. CancelLast'  BY <1>1, <2>1 DEF CancelLast
  <2> QED  BY <1>1, <2>2, ProgramFInv
<1>5. CASE Send(Master, "cancel", ExitIter) /\ master' = "cancelled"
  <2>1. \A q \in Proc : \A k \in 1 .. Len(streams'[q]) :
          streams'[q][k].flag \in {"cancel", "again"} => q = Master /\ k = Len(streams'[q])
    BY <1>2, <1>3, <1>5, SentMessages
  <2>2. CancelLast'  BY <1>1, <1>5, <2>1 DEF CancelLast
  <2> QED  BY <1>1, <2>2, ProgramFInv
<1> QED  BY <1>1, <1>4, <1>5

-----------------------------------------------------------------------------
\* Steps of the reader leave the later stages alone.
LEMMA ReaderFInv ==
  ASSUME IInv, FInv, UNCHANGED <<program, toLCDA, toOutput, later, LSOutputLCDepFinish>>,
         CancelLast', BatchClosed', Stopped',
         StreamDone(streams) => StreamDone(streams'),
         StreamDone(streams) /\ BatchDone(reader, ProcNextLidep) => BatchDone(reader', ProcNextLidep')
  PROVE  FInv'
<1>1. UNCHANGED <<owner, master, toLCDA, toOutput, lcda, LoopIterPresNum, FinishedLoopIter,
                  LSOutputLCDepFinish>>
  BY DEF program, later
<1>2. QueueClosed' /\ HandClosed' /\ SignalClosed'
  BY <1>1 DEF FInv, QueueClosed, HandClosed, SignalClosed
<1>3. HandOwned' /\ NoneWaits'  BY <1>1 DEF FInv, HandOwned, NoneWaits
<1> QED  BY <1>2, <1>3 DEF FInv

\* A batch starts, or a task reads nothing or finds its table free.
LEMMA NothingReadFInv ==
  ASSUME IInv, FInv, NEW p \in Proc, StartBatch \/ ReadNothing(p) \/ TableFree(p)
  PROVE  FInv'
<1>1. /\ UNCHANGED <<program, streams, toLCDA, toOutput, later, LSOutputLCDepFinish>>
      /\ \/ reader' = "batch" /\ \A q \in Proc : ProcNextLidep'[q] = NoInput
         \/ UNCHANGED <<reader, ProcNextLidep>>
  BY DEF StartBatch, ReadNothing, TableFree
<1>2. UNCHANGED <<owner, loopIter, master, lcda, LoopIterPresNum>>  BY <1>1 DEF program, later
<1>3. /\ NoInput # Cancelling /\ \A i : ~ IsStartOf(NoInput, i) /\ Master \in Proc
  BY Sizes DEF NoInput, Cancelling, IsStartOf
<1>4. CancelLast'  BY <1>1, <1>2 DEF FInv, CancelLast
<1>5. BatchClosed'  BY <1>1, <1>2, <1>3 DEF FInv, BatchClosed, Cancels
<1>6. Stopped'  BY <1>1, <1>2 DEF FInv, Stopped
<1>7. BatchDone(reader, ProcNextLidep) => BatchDone(reader', ProcNextLidep')
  BY <1>1, <1>3 DEF BatchDone, NoneIn
<1> QED  BY <1>1, <1>4, <1>5, <1>6, <1>7, ReaderFInv

\* The messages of a stream after the first one has been taken
LEMMA LeftMessages ==
  ASSUME IInv, NEW p \in Proc, streams[p] # <<>>, streams' = [streams EXCEPT ![p] = Tail(@)]
  PROVE  /\ \A q \in Proc : q # p => streams'[q] = streams[q]
         /\ Len(streams[p]) \in Nat \ {0} /\ Len(streams'[p]) = Len(streams[p]) - 1
         /\ Head(streams[p]) = streams[p][1]
         /\ \A k \in 1 .. Len(streams'[p]) :
              k + 1 \in 1 .. Len(streams[p]) /\ streams'[p][k] = streams[p][k + 1]
<1>1. streams \in [Proc -> Seq(Message)] /\ streams[p] \in Seq(Message)  BY DEF IInv, TypeOK
<1>2. streams'[p] = Tail(streams[p]) /\ \A q \in Proc : q # p => streams'[q] = streams[q]
  BY <1>1
<1>3. /\ Len(streams[p]) \in Nat \ {0} /\ Len(Tail(streams[p])) = Len(streams[p]) - 1
      /\ Head(streams[p]) = streams[p][1]
      /\ \A k \in 1 .. Len(Tail(streams[p])) : Tail(streams[p])[k] = streams[p][k + 1]
  BY <1>1, HeadTailProperties, EmptySeq
<1>4. \A k \in 1 .. Len(streams[p]) - 1 : k + 1 \in 1 .. Len(streams[p])  BY <1>3
<1> QED  BY <1>2, <1>3, <1>4

\* A buffer is read: its result is that of an iteration the stream had.
LEMMA ReadFInv ==
  ASSUME IInv, FInv, NEW p \in Proc, ReadSame(p) \/ ReadEnd(p)
  PROVE  FInv'
<1> DEFINE n == Head(streams[p]).iter
           r == StartLCDA(n, <<p, ProcWPresNum[p]>>)
<1>1. /\ UNCHANGED <<program, reader, toLCDA, toOutput, later, LSOutputLCDepFinish>>
      /\ reader = "batch" /\ task[p] = "pending" /\ streams[p] # <<>>
      /\ streams' = [streams EXCEPT ![p] = Tail(@)] /\ Analyse(p)
      /\ \/ Head(streams[p]).flag = "same" /\ Result(p, Partial)
         \/ Head(streams[p]).flag = "end" /\ Result(p, r)
  BY DEF ReadSame, ReadEnd, Reads
<1>2. UNCHANGED <<owner, loopIter, master, lcda, LoopIterPresNum>>  BY <1>1 DEF program, later
<1>3. /\ Head(streams[p]) \in Message
      /\ \A q \in Proc, i \in Iter :
           InStream(streams, q, i) <=>
             \/ InStream(streams', q, i)
             \/ q = p /\ Head(streams[p]).flag = "end" /\ n = i
      /\ <<p, ProcWPresNum[p]>> \in Table
  BY <1>1, TakenMessage
<1>4. /\ Partial \in Input /\ r \in Input /\ Partial # Cancelling /\ r # Cancelling
      /\ \A i : ~ IsStartOf(Partial, i) /\ (IsStartOf(r, i) <=> i = n)
  <2>1. n \in Iter \cup {ExitIter}  BY <1>3 DEF Message
  <2>2. r \in Input /\ \A i : IsStartOf(r, i) <=> i = n  BY <1>3, <2>1, StartShape
  <2>3. r.kind = "start"  BY DEF StartLCDA
  <2> QED  BY <2>2, <2>3 DEF Partial, Cancelling, Input, IsStartOf
<1> HIDE DEF r, n
<1>5. /\ \A q \in Proc : q # p => ProcNextLidep'[q] = ProcNextLidep[q]
      /\ ProcNextLidep'[p] # Cancelling
      /\ \A i : IsStartOf(ProcNextLidep'[p], i) => Head(streams[p]).flag = "end" /\ i = n
  <2>1. CASE Head(streams[p]).flag = "same" /\ Result(p, Partial)
    <3>1. \A q \in Proc : ProcNextLidep'[q] = (IF q = p THEN Partial ELSE ProcNextLidep[q])
      BY <1>4, <2>1, ResultShape
    <3> QED  BY <1>4, <3>1
  <2>2. CASE Head(streams[p]).flag = "end" /\ Result(p, r)
    <3>1. \A q \in Proc : ProcNextLidep'[q] = (IF q = p THEN r ELSE ProcNextLidep[q])
      BY <1>4, <2>2, ResultShape
    <3> QED  BY <1>4, <2>2, <3>1
  <2> QED  BY <1>1, <2>1, <2>2
<1>6. Master \in Proc  BY Sizes
<1>7. StreamDone(streams) => StreamDone(streams')  BY <1>3, <1>6 DEF StreamDone
<1>8. StreamDone(streams) /\ BatchDone(reader, ProcNextLidep) => BatchDone(reader', ProcNextLidep')
  <2> SUFFICES ASSUME StreamDone(streams), BatchDone(reader, ProcNextLidep), NEW i \in Iter,
                      IsStartOf(ProcNextLidep'[Master], i)
               PROVE  FALSE
    BY DEF BatchDone, NoneIn
  <2>1. CASE p = Master  BY <1>3, <1>5, <1>6, <2>1 DEF StreamDone
  <2>2. CASE p # Master  BY <1>1, <1>5, <1>6, <2>2 DEF BatchDone, NoneIn
  <2> QED  BY <2>1, <2>2
<1>9. CancelLast'
  <2>1. /\ \A q \in Proc : q # p => streams'[q] = streams[q]
        /\ Len(streams[p]) \in Nat \ {0} /\ Len(streams'[p]) = Len(streams[p]) - 1
        /\ \A k \in 1 .. Len(streams'[p]) :
             k + 1 \in 1 .. Len(streams[p]) /\ streams'[p][k] = streams[p][k + 1]
    BY <1>1, LeftMessages
  <2>2. ASSUME NEW q \in Proc, NEW k \in 1 .. Len(streams'[q]),
               streams'[q][k].flag \in {"cancel", "again"}
        PROVE  q = Master /\ master = "cancelled" /\ k = Len(streams'[q])
    <3>1. CASE q = p
      <4>1. k + 1 \in 1 .. Len(streams[p]) /\ streams[p][k + 1].flag \in {"cancel", "again"}
        BY <2>1, <2>2, <3>1
      <4>2. p = Master /\ master = "cancelled" /\ k + 1 = Len(streams[p])
        BY <4>1 DEF FInv, CancelLast
      <4> QED  BY <2>1, <3>1, <4>2
    <3>2. CASE q # p  BY <2>1, <2>2, <3>2 DEF FInv, CancelLast
    <3> QED  BY <3>1, <3>2
  <2> QED  BY <1>2, <2>2 DEF FInv, CancelLast
<1>10. BatchClosed'
  BY <1>1, <1>2, <1>5, <1>7 DEF FInv, BatchClosed, Cancels
<1>11. Stopped'  BY <1>1, <1>2 DEF Stopped
<1> QED  BY <1>1, <1>7, <1>8, <1>9, <1>10, <1>11, ReaderFInv

\* The message that cancels: it is the last one of its stream.
LEMMA LastMessage ==
  ASSUME IInv, FInv, NEW p \in Proc, streams[p] # <<>>,
         Head(streams[p]).flag \in {"cancel", "again"}
  PROVE  /\ p = Master /\ master = "cancelled" /\ Len(streams[p]) = 1
         /\ streams[p][1].flag \in {"cancel", "again"} /\ StreamDone(streams)
<1>1. streams[p] \in Seq(Message)  BY DEF IInv, TypeOK
<1>2. Head(streams[p]) = streams[p][1] /\ Len(streams[p]) \in Nat \ {0}
  BY <1>1, HeadTailProperties, EmptySeq
<1>3. 1 \in 1 .. Len(streams[p])  BY <1>2
<1>4. p = Master /\ master = "cancelled" /\ 1 = Len(streams[p])
  BY <1>2, <1>3 DEF FInv, CancelLast
<1>5. \A k \in 1 .. Len(streams[p]) : streams[p][k].flag # "end"  BY <1>2, <1>4
<1>6. StreamDone(streams)  BY <1>4, <1>5 DEF StreamDone, InStream, HasEnd
<1> QED  BY <1>2, <1>4, <1>6

\* The message that cancels is read, and its result put into the token.
LEMMA ReadCancelFInv ==
  ASSUME IInv, FInv, NEW p \in Proc, ReadCancel(p)
  PROVE  FInv'
<1>1. /\ UNCHANGED <<program, reader, toLCDA, toOutput, later, LSOutputLCDepFinish>>
      /\ reader = "batch" /\ task[p] = "pending"
      /\ streams[p] # <<>> /\ Head(streams[p]).flag = "cancel"
      /\ Result(p, Cancelling) /\ streams' = [streams EXCEPT ![p][1].flag = "again"]
  BY DEF ReadCancel, Reads
<1>2. UNCHANGED <<owner, loopIter, master, lcda, LoopIterPresNum>>  BY <1>1 DEF program, later
<1>3. p = Master /\ master = "cancelled" /\ Len(streams[p]) = 1 /\ StreamDone(streams)
  BY <1>1, LastMessage
<1>4. \A q \in Proc : ProcNextLidep'[q] = (IF q = p THEN Cancelling ELSE ProcNextLidep[q])
  <2>1. Cancelling \in Input  BY DEF Input
  <2> QED  BY <1>1, <2>1, ResultShape
<1>5. /\ \A q \in Proc : q # p => streams'[q] = streams[q]
      /\ Len(streams'[p]) = 1 /\ \A i \in Iter : ~ HasEnd(streams'[p], i)
  <2>1. streams \in [Proc -> Seq(Message)] /\ streams[p] \in Seq(Message)  BY DEF IInv, TypeOK
  <2> DEFINE x == [streams[p] EXCEPT ![1].flag = "again"]
  <2>2. Len(x) = Len(streams[p]) /\ \A i \in Iter : HasEnd(x, i) <=> HasEnd(streams[p], i)
    BY <1>1, <2>1, MessageAgain
  <2>3. streams' = [streams EXCEPT ![p] = x]  BY <1>1
  <2> HIDE DEF x
  <2>4. streams'[p] = x /\ \A q \in Proc : q # p => streams'[q] = streams[q]  BY <2>1, <2>3
  <2> QED  BY <1>3, <2>2, <2>4 DEF StreamDone, InStream
<1>6. StreamDone(streams')  BY <1>3, <1>5 DEF StreamDone, InStream
<1>7. BatchDone(reader', ProcNextLidep')
  BY <1>3, <1>4 DEF BatchDone, NoneIn, IsStartOf, Cancelling
<1>8. CancelLast'
  <2>1. ASSUME NEW q \in Proc, NEW k \in 1 .. Len(streams'[q]),
               streams'[q][k].flag \in {"cancel", "again"}
        PROVE  q = Master /\ master = "cancelled" /\ k = Len(streams'[q])
    <3>1. CASE q = p
      <4>1. k \in 1 .. 1  BY <1>5, <3>1
      <4> QED  BY <1>3, <1>5, <3>1, <4>1
    <3>2. CASE q # p  BY <1>5, <2>1, <3>2 DEF FInv, CancelLast
    <3> QED  BY <3>1, <3>2
  <2> QED  BY <1>2, <2>1 DEF FInv, CancelLast
<1>9. BatchClosed'  BY <1>1, <1>2, <1>3, <1>4, <1>6 DEF FInv, BatchClosed, Cancels
<1>10. Stopped'  BY <1>1 DEF Stopped
<1> QED  BY <1>1, <1>6, <1>7, <1>8, <1>9, <1>10, ReaderFInv

\* The reader stops: the master's iterations are in the later stages.
LEMMA ReaderStopsFInv ==
  ASSUME IInv, FInv, NEW p \in Proc, ReadAgain(p) \/ NullCrash(p)
  PROVE  FInv'
<1>1. /\ UNCHANGED <<program, streams, ProcNextLidep, toLCDA, toOutput, later,
                     LSOutputLCDepFinish>>
      /\ reader' \in {"null", "crashed"}
  BY DEF ReadAgain, NullCrash
<1>2. UNCHANGED <<owner, loopIter, master, lcda, LoopIterPresNum>>  BY <1>1 DEF program, later
<1>3. CancelLast'  BY <1>1, <1>2 DEF FInv, CancelLast
<1>4. BatchClosed' /\ BatchDone(reader', ProcNextLidep')  BY <1>1 DEF BatchClosed, BatchDone
<1>5. Stopped'
  <2>1. CASE NullCrash(p)
    <3>1. reader \notin {"idle", "batch"}  BY <2>1 DEF NullCrash
    <3> QED  BY <1>1, <1>2, <3>1 DEF FInv, Stopped
  <2>2. CASE ReadAgain(p)
    <3>1. /\ reader = "batch" /\ task[p] = "pending"
          /\ streams[p] # <<>> /\ Head(streams[p]).flag = "again"
      BY <2>2 DEF ReadAgain, Reads
    <3>2. p = Master /\ master = "cancelled" /\ StreamDone(streams)  BY <3>1, LastMessage
    <3>3. ProcNextLidep[Master] = NoInput  BY <3>1, <3>2 DEF IInv, BatchInv
    <3>4. ASSUME NEW i \in Iter, owner[i] = Master
          PROVE  \/ InQueue(toLCDA, Master, i) \/ InHand(lcda, Master, i)
                 \/ Known(LoopIterPresNum, i)
      <4>1. Sent(i)
        <5>1. loopIter[Master] > NumIters /\ loopIter[Master] \in 1 .. NumIters + 1
          BY <3>2, Sizes DEF FInv, CancelLast, IInv, TypeOK
        <5> QED  BY <3>4, <5>1, PipelineAssumption DEF Sent, Iter
      <4>2. ~ InStream(streams, Master, i)  BY <3>2 DEF StreamDone
      <4>3. ~ InBatch(reader, ProcNextLidep, Master, i)
        BY <3>3 DEF InBatch, IsStartOf, NoInput
      <4> QED  BY <3>1, <3>4, <4>1, <4>2, <4>3 DEF IInv, Covered
    <3> QED  BY <1>1, <1>2, <3>4 DEF Stopped
  <2> QED  BY <2>1, <2>2
<1> QED  BY <1>1, <1>3, <1>4, <1>5, ReaderFInv

\* The token of the batch goes on to LCDAFilter.
LEMMA EndBatchFInv ==
  ASSUME IInv, FInv, EndBatch
  PROVE  FInv'
<1>1. /\ UNCHANGED <<program, streams, ProcNextLidep, toOutput, later, LSOutputLCDepFinish>>
      /\ \/ reader = "batch" /\ reader' = "idle" /\ toLCDA' = Append(toLCDA, ProcNextLidep)
         \/ reader = "null" /\ reader' = "stopped" /\ toLCDA' = toLCDA
  BY DEF EndBatch
<1>2. UNCHANGED <<owner, loopIter, master, lcda, LoopIterPresNum, FinishedLoopIter>>
  BY <1>1 DEF program, later
<1>3. CancelLast'  BY <1>1, <1>2 DEF FInv, CancelLast
<1>4. BatchClosed' /\ BatchDone(reader', ProcNextLidep')  BY <1>1 DEF BatchClosed, BatchDone
<1>5. CASE reader = "null"
  <2>1. reader' = "stopped" /\ toLCDA' = toLCDA  BY <1>1, <1>5
  <2>2. Stopped'  BY <1>2, <1>5, <2>1 DEF FInv, Stopped
  <2> QED  BY <1>1, <1>3, <1>4, <2>1, <2>2, ReaderFInv
<1>6. CASE reader = "batch"
  <2>1. reader' = "idle" /\ toLCDA' = Append(toLCDA, ProcNextLidep)  BY <1>1, <1>6
  <2>2. toLCDA \in Seq(Token) /\ ProcNextLidep \in Token  BY DEF IInv, TypeOK
  <2>3. /\ Len(toLCDA) \in Nat /\ Len(toLCDA') = Len(toLCDA) + 1
        /\ \A k \in 1 .. Len(toLCDA') :
             toLCDA'[k] = (IF k = Len(toLCDA) + 1 THEN ProcNextLidep ELSE toLCDA[k])
    BY <2>1, <2>2, QueueAppend
  <2>4. \A k \in 1 .. Len(toLCDA') : k \in 1 .. Len(toLCDA) \/ k = Len(toLCDA')  BY <2>3
  <2>5. \A k \in 1 .. Len(toLCDA) : toLCDA'[k] = toLCDA[k]  BY <2>3
  <2>6. toLCDA'[Len(toLCDA')] = ProcNextLidep  BY <2>3
  <2>7. QueueClosed'
    <3> SUFFICES ASSUME NEW k \in 1 .. Len(toLCDA'), NEW p \in Proc, Cancels(toLCDA'[k], p)
                 PROVE  /\ p = Master /\ master = "cancelled"
                        /\ StreamDone(streams)
                        /\ \A l \in 1 .. Len(toLCDA') : k =< l => NoneIn(toLCDA'[l])
      BY <1>1, <1>2, <1>4 DEF QueueClosed
    <3>1. CASE k \in 1 .. Len(toLCDA)
      <4>1. /\ p = Master /\ master = "cancelled" /\ StreamDone(streams)
            /\ BatchDone(reader, ProcNextLidep)
            /\ \A l \in 1 .. Len(toLCDA) : k =< l => NoneIn(toLCDA[l])
        BY <2>5, <3>1 DEF FInv, QueueClosed
      <4>2. NoneIn(ProcNextLidep)  BY <1>6, <4>1 DEF BatchDone
      <4> QED  BY <2>4, <2>5, <2>6, <4>1, <4>2
    <3>2. CASE k = Len(toLCDA')
      <4>1. Cancels(ProcNextLidep, p)  BY <2>6, <3>2
      <4>2. p = Master /\ master = "cancelled" /\ StreamDone(streams)
        BY <1>6, <4>1 DEF FInv, BatchClosed
      <4>3. NoneIn(ProcNextLidep)
        BY <4>1, <4>2 DEF NoneIn, Cancels, Cancelling, IsStartOf
      <4>4. \A l \in 1 .. Len(toLCDA') : k =< l => l = k  BY <2>3, <3>2
      <4> QED  BY <2>6, <3>2, <4>2, <4>3, <4>4
    <3> QED  BY <2>4, <3>1, <3>2
  <2>8. BatchDone(reader, ProcNextLidep) /\ QueueDone(toLCDA) => QueueDone(toLCDA')
    BY <1>6, <2>4, <2>5, <2>6 DEF BatchDone, QueueDone
  <2>9. HandClosed' /\ SignalClosed'
    BY <1>1, <1>2, <1>4, <2>8 DEF FInv, HandClosed, SignalClosed
  <2>10. HandOwned' /\ NoneWaits'  BY <1>2 DEF FInv, HandOwned, NoneWaits
  <2>11. Stopped'  BY <2>1 DEF Stopped
  <2> QED  BY <1>3, <1>4, <2>7, <2>9, <2>10, <2>11 DEF FInv
<1> QED  BY <1>1, <1>5, <1>6

-----------------------------------------------------------------------------
\* Steps of the later stages leave the reader alone.
LEMMA LaterFInv ==
  ASSUME IInv, FInv, UNCHANGED <<program, streams, reading>>
  PROVE  CancelLast' /\ BatchClosed' /\ StreamDone(streams') = StreamDone(streams)
<1>1. UNCHANGED <<owner, loopIter, master, reader, ProcNextLidep>>  BY DEF program, reading
<1> QED  BY <1>1 DEF FInv, CancelLast, BatchClosed

\* LCDAFilter takes a token.
LEMMA TakeLCDAFInv ==
  ASSUME IInv, FInv, TakeLCDA
  PROVE  FInv'
<1>1. /\ UNCHANGED <<program, streams, reading, toOutput, LoopIterPresNum,
                     FinishedLoopIter, LSOutputLCDepFinish>>
      /\ ~ lcda.busy /\ toLCDA # <<>> /\ toLCDA' = Tail(toLCDA)
      /\ lcda' = [busy |-> TRUE, token |-> Head(toLCDA), at |-> 0, next |-> NoIter]
  BY DEF TakeLCDA
<1>2. UNCHANGED <<owner, loopIter, master, reader, ProcNextLidep>>  BY <1>1 DEF program, reading
<1>3. toLCDA \in Seq(Token)  BY DEF IInv, TypeOK
<1>4. /\ Len(toLCDA) \in Nat \ {0} /\ Len(toLCDA') = Len(toLCDA) - 1
      /\ Head(toLCDA) = toLCDA[1] /\ 1 \in 1 .. Len(toLCDA)
      /\ \A k \in 1 .. Len(toLCDA') : toLCDA'[k] = toLCDA[k + 1] /\ k + 1 \in 1 .. Len(toLCDA)
      /\ \A p \in Proc, i \in Iter :
           InQueue(toLCDA, p, i) <=> InQueue(toLCDA', p, i) \/ IsStartOf(Head(toLCDA)[p], i)
  <2>1. /\ Len(toLCDA) \in Nat \ {0} /\ Len(Tail(toLCDA)) = Len(toLCDA) - 1
        /\ Head(toLCDA) = toLCDA[1] /\ 1 \in 1 .. Len(toLCDA)
        /\ \A k \in 1 .. Len(Tail(toLCDA)) :
             Tail(toLCDA)[k] = toLCDA[k + 1] /\ k + 1 \in 1 .. Len(toLCDA)
        /\ \A p \in Proc, i \in Iter :
             InQueue(toLCDA, p, i) <=> InQueue(Tail(toLCDA), p, i) \/ IsStartOf(Head(toLCDA)[p], i)
    BY <1>1, <1>3, QueueTail
  <2> QED  BY <1>1, <2>1
<1>5. /\ lcda'.busy /\ lcda'.token = toLCDA[1] /\ lcda'.at = 0 /\ lcda'.next = NoIter
  BY <1>1, <1>4
<1>6. QueueDone(toLCDA) => QueueDone(toLCDA') /\ HandDone(lcda')
  BY <1>4, <1>5 DEF QueueDone, HandDone
<1>7. QueueClosed'
  <2> SUFFICES ASSUME NEW k \in 1 .. Len(toLCDA'), NEW p \in Proc, Cancels(toLCDA'[k], p)
               PROVE  /\ p = Master /\ master = "cancelled"
                      /\ StreamDone(streams) /\ BatchDone(reader, ProcNextLidep)
                      /\ \A l \in 1 .. Len(toLCDA') : k =< l => NoneIn(toLCDA'[l])
    BY <1>1, <1>2 DEF QueueClosed
  <2>1. k + 1 \in 1 .. Len(toLCDA) /\ Cancels(toLCDA[k + 1], p)  BY <1>4
  <2>2. /\ p = Master /\ master = "cancelled"
        /\ StreamDone(streams) /\ BatchDone(reader, ProcNextLidep)
        /\ \A l \in 1 .. Len(toLCDA) : k + 1 =< l => NoneIn(toLCDA[l])
    BY <2>1 DEF FInv, QueueClosed
  <2>3. \A l \in 1 .. Len(toLCDA') : k =< l => k + 1 =< l + 1  OBVIOUS
  <2> QED  BY <1>4, <2>2, <2>3
<1>8. HandClosed'
  <2> SUFFICES ASSUME NEW p \in Proc, Cancels(toLCDA[1], p)
               PROVE  /\ p = Master /\ master = "cancelled" /\ StreamDone(streams)
                      /\ BatchDone(reader, ProcNextLidep) /\ QueueDone(toLCDA')
    BY <1>1, <1>2, <1>5 DEF HandClosed
  <2>1. /\ p = Master /\ master = "cancelled" /\ StreamDone(streams)
        /\ BatchDone(reader, ProcNextLidep)
        /\ \A l \in 1 .. Len(toLCDA) : 1 =< l => NoneIn(toLCDA[l])
    BY <1>4 DEF FInv, QueueClosed
  <2>2. QueueDone(toLCDA)  BY <2>1 DEF QueueDone
  <2> QED  BY <1>6, <2>1, <2>2
<1>9. SignalClosed'  BY <1>1, <1>2, <1>6 DEF FInv, SignalClosed
<1>10. HandOwned'
  <2>1. \A p \in Proc, i \in Iter : IsStartOf(toLCDA[1][p], i) => owner[i] = p
    BY <1>4 DEF IInv, Owned
  <2> QED  BY <1>2, <1>5, <2>1 DEF HandOwned
<1>11. Stopped'
  <2>1. \A i \in Iter : IsStartOf(Head(toLCDA)[Master], i) => InHand(lcda', Master, i)
    BY <1>4, <1>5 DEF InHand, Master
  <2>2. \A i \in Iter : ~ InHand(lcda, Master, i)  BY <1>1 DEF InHand
  <2>3. Master \in Proc  BY Sizes
  <2> QED  BY <1>1, <1>2, <1>4, <2>1, <2>2, <2>3 DEF FInv, Stopped
<1>12. NoneWaits'  BY <1>1, <1>2 DEF FInv, NoneWaits
<1>13. CancelLast' /\ BatchClosed'  BY <1>1, LaterFInv
<1> QED  BY <1>7, <1>8, <1>9, <1>10, <1>11, <1>12, <1>13 DEF FInv

\* Steps within a token keep it in hand.
LEMMA SameTokenFInv ==
  ASSUME IInv, FInv, UNCHANGED <<program, streams, reading, toLCDA, toOutput, LSOutputLCDepFinish>>,
         lcda.busy, lcda'.busy, lcda'.token = lcda.token, Stopped', NoneWaits'
  PROVE  FInv'
<1>1. UNCHANGED <<owner, loopIter, master, reader, ProcNextLidep>>  BY DEF program, reading
<1>2. QueueClosed' /\ HandClosed'  BY <1>1 DEF FInv, QueueClosed, HandClosed
<1>3. SignalClosed'  BY <1>1 DEF FInv, SignalClosed, HandDone
<1>4. HandOwned'  BY <1>1 DEF FInv, HandOwned
<1>5. CancelLast' /\ BatchClosed'  BY LaterFInv
<1> QED  BY <1>2, <1>3, <1>4, <1>5 DEF FInv

\* An input is taken: the iteration it is of is known then.
LEMMA TakeInputFInv ==
  ASSUME IInv, FInv, TakeInput
  PROVE  FInv'
<1> DEFINE x == lcda.token[lcda.at]
<1>1. /\ lcda.busy /\ lcda.next = NoIter /\ lcda.at \in Proc
      /\ UNCHANGED <<program, streams, reading, toLCDA, toOutput, FinishedLoopIter,
                     LSOutputLCDepFinish>>
  BY DEF TakeInput, AtInput
<1>2. /\ x.kind = "start" =>
           /\ LoopIterPresNum' = [LoopIterPresNum EXCEPT ![x.iter] = x.table]
           /\ lcda' = IF x.iter = FinishedLoopIter + 1
                      THEN [lcda EXCEPT !.next = x.iter] ELSE [lcda EXCEPT !.at = @ + 1]
      /\ x.kind # "start" =>
           lcda' = [lcda EXCEPT !.at = @ + 1] /\ LoopIterPresNum' = LoopIterPresNum
  BY DEF TakeInput
<1>3. UNCHANGED <<owner, loopIter, reader, ProcNextLidep>>  BY <1>1 DEF program, reading
<1>4. lcda \in Hand /\ lcda.token \in [Proc -> Input] /\ lcda.at \in Nat
  BY <1>1, HandType, HandShape, Sizes DEF IInv, Token
<1>5. x \in Input /\ (x.kind = "start" => x.iter \in Iter \cup {ExitIter} /\ x.table \in Table)
  BY <1>1, <1>4, InputShape
<1>6. LoopIterPresNum \in [Iter \cup {ExitIter} -> Table \cup {NoTable}]  BY DEF IInv, TypeOK
<1>7. \A i \in Iter : Known(LoopIterPresNum', i) <=> Known(LoopIterPresNum, i) \/ IsStartOf(x, i)
  BY <1>2, <1>5, <1>6, TableShape DEF Known, IsStartOf
<1>8. /\ lcda'.busy /\ lcda'.token = lcda.token
      /\ \/ lcda'.at = lcda.at + 1 /\ lcda'.next = NoIter
         \/ /\ lcda'.at = lcda.at /\ lcda'.next = x.iter /\ x.iter \in Iter
            /\ x.kind = "start" /\ x.iter = FinishedLoopIter + 1
  <2>1. lcda.at + 1 \in 0 .. PROCNUM  BY <1>1, PipelineAssumption DEF Proc
  <2>2. CASE lcda' = [lcda EXCEPT !.at = lcda.at + 1]
    BY <1>1, <1>4, <2>1, <2>2, HandShape
  <2>3. CASE x.kind = "start" /\ x.iter = FinishedLoopIter + 1 /\ lcda' = [lcda EXCEPT !.next = x.iter]
    <3>1. x.iter \in Iter
      <4>1. FinishedLoopIter + 1 # ExitIter  BY DEF IInv, TypeOK, ExitIter
      <4> QED  BY <1>5, <2>3, <4>1
    <3>2. x.iter \in 1 .. NumIters + 1  BY <3>1, PipelineAssumption DEF Iter
    <3> QED  BY <1>4, <2>3, <3>1, <3>2, HandShape
  <2> QED  BY <1>2, <2>2, <2>3
<1>9. \A i \in Iter : InHand(lcda, Master, i) => InHand(lcda', Master, i) \/ IsStartOf(x, i)
  <2>1. Master \in Nat  BY Sizes
  <2> SUFFICES ASSUME NEW i \in Iter, InHand(lcda, Master, i), ~ IsStartOf(x, i)
               PROVE  InHand(lcda', Master, i)
    OBVIOUS
  <2>2. lcda.at < Master /\ IsStartOf(lcda.token[Master], i)  BY <2>1 DEF InHand
  <2> QED  BY <1>4, <2>1, <2>2 DEF Master
<1>10. Stopped'
  BY <1>1, <1>3, <1>7, <1>9 DEF FInv, Stopped
<1>11. NoneWaits'
  <2> SUFFICES ASSUME lcda'.next = NoIter, NEW i \in Iter, i = FinishedLoopIter + 1,
                      Known(LoopIterPresNum', i)
               PROVE  FALSE
    BY <1>1, <1>8 DEF NoneWaits
  <2>1. IsStartOf(x, i)  BY <1>1, <1>7 DEF FInv, NoneWaits
  <2>2. lcda' = [lcda EXCEPT !.next = x.iter] /\ x.iter = i
    BY <1>2, <2>1 DEF IsStartOf
  <2>3. i \in 1 .. NumIters + 1 /\ i # NoIter  BY Sizes, PipelineAssumption DEF Iter
  <2>4. lcda'.next = i  BY <1>4, <2>2, <2>3, HandShape
  <2> QED  BY <2>3, <2>4
<1> QED  BY <1>1, <1>8, <1>10, <1>11, SameTokenFInv

\* A table is analysed: if the next is known, it is the next to be analysed.
LEMMA AnalyseNextFInv ==
  ASSUME IInv, FInv, AnalyseNext
  PROVE  FInv'
<1> DEFINE n == lcda.next
<1>1. /\ UNCHANGED <<program, streams, reading, toLCDA, toOutput, LoopIterPresNum,
                     LSOutputLCDepFinish>>
      /\ lcda.busy /\ n # NoIter /\ FinishedLoopIter' = n
      /\ lcda' = IF n < NumIters /\ LoopIterPresNum[n + 1] # NoTable
                 THEN [lcda EXCEPT !.next = @ + 1]
                 ELSE [lcda EXCEPT !.next = NoIter, !.at = @ + 1]
  BY DEF AnalyseNext
<1>2. UNCHANGED <<owner, loopIter, reader, ProcNextLidep>>  BY <1>1 DEF program, reading
<1>3. lcda \in Hand /\ n \in 1 .. NumIters + 1 /\ lcda.at \in 0 .. PROCNUM
  BY <1>1, HandType, HandShape DEF IInv
<1>4. lcda.at \in Proc
  BY <1>1 DEF IInv, AnalysisInv
<1>5. lcda'.busy /\ lcda'.token = lcda.token /\ lcda'.at \in {lcda.at, lcda.at + 1}
  BY <1>1, <1>3 DEF Hand
<1>6. \A i \in Iter : InHand(lcda, Master, i) => InHand(lcda', Master, i)
  <2>1. lcda.at \in Nat /\ Master \in Nat /\ ~ (lcda.at < Master)
    BY <1>4, Sizes DEF Proc, Master
  <2> QED  BY <1>1, <2>1 DEF InHand
<1>7. Stopped'
  BY <1>1, <1>2, <1>6 DEF FInv, Stopped
<1>8. NoneWaits'
  <2> SUFFICES ASSUME lcda'.next = NoIter, NEW i \in Iter, i = n + 1, Known(LoopIterPresNum', i)
               PROVE  FALSE
    BY <1>1, <1>5 DEF NoneWaits
  <2>1. n < NumIters /\ n + 1 \in 1 .. NumIters + 1 /\ n + 1 # NoIter
    BY <1>3, PipelineAssumption DEF Iter, NoIter
  <2>2. lcda' = [lcda EXCEPT !.next = n + 1]  BY <1>1, <2>1 DEF Known
  <2>3. lcda'.next = n + 1  BY <1>1, <1>3, <2>1, <2>2, HandShape
  <2> QED  BY <2>1, <2>3
<1> HIDE DEF n
<1> QED  BY <1>1, <1>5, <1>7, <1>8, SameTokenFInv

\* LCDAFilter has finished with a token.
LEMMA EndLCDAFInv ==
  ASSUME IInv, FInv, EndLCDA
  PROVE  FInv'
<1>1. /\ UNCHANGED <<program, streams, reading, toLCDA, LoopIterPresNum,
                     FinishedLoopIter, LSOutputLCDepFinish>>
      /\ lcda.busy /\ lcda.at = PROCNUM /\ ~ lcda'.busy
      /\ toOutput' = Append(toOutput, lcda.token)
  BY DEF EndLCDA, Idle
<1>2. UNCHANGED <<owner, loopIter, master, reader, ProcNextLidep>>  BY <1>1 DEF program, reading
<1>3. lcda.token \in Token /\ toOutput \in Seq(Token)
  BY <1>1, HandType, HandShape DEF IInv, TypeOK
<1>4. /\ Len(toOutput) \in Nat /\ Len(toOutput') = Len(toOutput) + 1
      /\ \A k \in 1 .. Len(toOutput') :
           toOutput'[k] = (IF k = Len(toOutput) + 1 THEN lcda.token ELSE toOutput[k])
  BY <1>1, <1>3, QueueAppend
<1>5. QueueClosed' /\ HandClosed'  BY <1>1, <1>2 DEF FInv, QueueClosed, HandClosed
<1>6. SignalClosed'
  <2> SUFFICES ASSUME Signals(LSOutputLCDepFinish, toOutput')
               PROVE  /\ master = "cancelled" /\ StreamDone(streams)
                      /\ BatchDone(reader, ProcNextLidep) /\ QueueDone(toLCDA)
    BY <1>1, <1>2 DEF SignalClosed, HandDone
  <2>1. CASE Signals(LSOutputLCDepFinish, toOutput)  BY <2>1 DEF FInv, SignalClosed
  <2>2. CASE ~ Signals(LSOutputLCDepFinish, toOutput)
    <3>1. PICK k \in 1 .. Len(toOutput'), p \in Proc : Cancels(toOutput'[k], p)
      BY <2>2 DEF Signals
    <3>2. k \in 1 .. Len(toOutput) \/ k = Len(toOutput) + 1  BY <1>4
    <3>3. Cancels(lcda.token, p)  BY <1>4, <2>2, <3>1, <3>2 DEF Signals
    <3> QED  BY <1>1, <3>3 DEF FInv, HandClosed
  <2> QED  BY <2>1, <2>2
<1>7. HandOwned'  BY <1>1 DEF HandOwned
<1>8. Stopped'
  <2>1. \A i \in Iter : ~ InHand(lcda, Master, i)
    <3>1. ~ (PROCNUM < Master) /\ PROCNUM # Master  BY PipelineAssumption DEF Master
    <3> QED  BY <1>1, <3>1 DEF InHand
  <2> QED  BY <1>1, <1>2, <2>1 DEF FInv, Stopped
<1>9. NoneWaits'
  <2>1. lcda.next = NoIter
    <3>1. PROCNUM \notin Proc  BY PipelineAssumption DEF Proc
    <3> QED  BY <1>1, <3>1 DEF IInv, AnalysisInv
  <2> QED  BY <1>1, <1>2, <2>1 DEF FInv, NoneWaits
<1>10. CancelLast' /\ BatchClosed'  BY <1>1, LaterFInv
<1> QED  BY <1>5, <1>6, <1>7, <1>8, <1>9, <1>10 DEF FInv

\* A token leaves the pipeline: the signal is given if it cancels.
LEMMA OutputFInv ==
  ASSUME IInv, FInv, Output
  PROVE  FInv'
<1>1. /\ UNCHANGED <<program, streams, reading, toLCDA, later>>
      /\ toOutput # <<>> /\ toOutput' = Tail(toOutput)
      /\ LSOutputLCDepFinish' =
           (LSOutputLCDepFinish \/ \E p \in Proc : Head(toOutput)[p] = Cancelling)
  BY DEF Output
<1>2. UNCHANGED <<owner, loopIter, master, reader, ProcNextLidep, lcda, LoopIterPresNum,
                  FinishedLoopIter>>
  BY <1>1 DEF program, reading, later
<1>3. toOutput \in Seq(Token)  BY DEF IInv, TypeOK
<1>4. /\ Len(toOutput) \in Nat \ {0} /\ Len(toOutput') = Len(toOutput) - 1
      /\ Head(toOutput) = toOutput[1] /\ 1 \in 1 .. Len(toOutput)
      /\ \A k \in 1 .. Len(toOutput') : toOutput'[k] = toOutput[k + 1] /\ k + 1 \in 1 .. Len(toOutput)
  <2>1. /\ Len(toOutput) \in Nat \ {0} /\ Len(Tail(toOutput)) = Len(toOutput) - 1
        /\ Head(toOutput) = toOutput[1] /\ 1 \in 1 .. Len(toOutput)
        /\ \A k \in 1 .. Len(Tail(toOutput)) :
             Tail(toOutput)[k] = toOutput[k + 1] /\ k + 1 \in 1 .. Len(toOutput)
    BY <1>1, <1>3, QueueTail
  <2> QED  BY <1>1, <2>1
<1>5. Signals(LSOutputLCDepFinish', toOutput') => Signals(LSOutputLCDepFinish, toOutput)
  <2>1. LSOutputLCDepFinish' => LSOutputLCDepFinish \/ \E p \in Proc : Cancels(toOutput[1], p)
    BY <1>1, <1>4 DEF Cancels
  <2>2. ASSUME NEW k \in 1 .. Len(toOutput'), NEW p \in Proc, Cancels(toOutput'[k], p)
        PROVE  k + 1 \in 1 .. Len(toOutput) /\ Cancels(toOutput[k + 1], p)
    BY <1>4, <2>2
  <2> QED  BY <1>4, <2>1, <2>2 DEF Signals
<1>6. SignalClosed'  BY <1>1, <1>2, <1>5 DEF FInv, SignalClosed
<1>7. QueueClosed' /\ HandClosed' /\ HandOwned' /\ Stopped' /\ NoneWaits'
  BY <1>1, <1>2 DEF FInv, QueueClosed, HandClosed, HandOwned, Stopped, NoneWaits
<1>8. CancelLast' /\ BatchClosed'  BY <1>1, LaterFInv
<1> QED  BY <1>6, <1>7, <1>8 DEF FInv

\* Every step keeps what follows the message that cancels.
LEMMA NextFInv == IInv /\ FInv /\ [Next]_vars => FInv'
<1> SUFFICES ASSUME IInv, FInv, [Next]_vars PROVE FInv'  OBVIOUS
<1>1. CASE Next
  <2>1. ASSUME NEW p \in Proc, Process(p)  PROVE FInv'  BY <2>1, ProcessFInv
  <2>2. ASSUME NEW p \in Proc, ReadTask(p)  PROVE FInv'
    BY <2>2, NothingReadFInv, ReadFInv, ReadCancelFInv, ReaderStopsFInv DEF ReadTask
  <2>3. CASE StartBatch
    <3>1. Master \in Proc  BY Sizes
    <3> QED  BY <2>3, <3>1, NothingReadFInv
  <2>4. CASE ReadLIDA  BY <2>2, <2>3, <2>4, EndBatchFInv DEF ReadLIDA
  <2>5. CASE LCDA  BY <2>5, TakeLCDAFInv, TakeInputFInv, AnalyseNextFInv, EndLCDAFInv DEF LCDA
  <2> QED  BY <1>1, <2>1, <2>4, <2>5, ExitFInv, OutputFInv DEF Next
<1>2. CASE UNCHANGED vars
  <2>1. UNCHANGED <<owner, loopIter, master, reader, ProcNextLidep, streams, toLCDA, toOutput, lcda,
                    LoopIterPresNum, FinishedLoopIter, LSOutputLCDepFinish>>
    BY <1>2 DEF vars, program, reading, later
  <2>2. CancelLast' /\ BatchClosed' /\ QueueClosed' /\ HandClosed' /\ SignalClosed'
    BY <2>1 DEF FInv, CancelLast, BatchClosed, QueueClosed, HandClosed, SignalClosed
  <2>3. HandOwned' /\ Stopped' /\ NoneWaits'
    BY <2>1 DEF FInv, HandOwned, Stopped, NoneWaits
  <2> QED  BY <2>2, <2>3 DEF FInv
<1> QED  BY <1>1, <1>2

\* Both invariants hold in every state.
LEMMA FInvHolds == Spec => [](IInv /\ FInv)
<1>1. Init => IInv /\ FInv  BY InitInv, InitFInv
<1>2. IInv /\ FInv /\ [Next]_vars => (IInv /\ FInv)'  BY NextInv, NextFInv
<1> QED  BY <1>1, <1>2, PTL DEF Spec

-----------------------------------------------------------------------------
(***************************************************************************)
(* What holds of every behaviour.                                          *)
(***************************************************************************)
\* The variables keep their types: no stream is longer than the ring, and no
\* more tokens than PipeThreadNum are in the pipeline.
THEOREM TypeCorrect == Spec => []TypeOK
BY InvariantHolds, PTL DEF IInv

\* ReadLIDAFilter and LCDAFilter never use a present table at the same time.
THEOREM TablesKeptApart == Spec => []TablesApart
<1>1. IInv => TablesApart
  <2> SUFFICES ASSUME IInv PROVE TablesApart  OBVIOUS
  <2>1. \A p \in Proc : task[p] # "spinning" => ~ PresIsFull[<<p, ProcWPresNum[p]>>]
    BY DEF IInv, Tables
  <2>2. ASSUME lcda.busy, lcda.next # NoIter  PROVE PresIsFull[RPresNum]
    <3>1. lcda.next = FinishedLoopIter + 1 /\ Known(LoopIterPresNum, lcda.next)
      BY <2>2 DEF IInv, AnalysisInv
    <3>2. lcda.next \in Iter /\ FinishedLoopIter < lcda.next
      <4>1. lcda.next \in 1 .. NumIters + 1 /\ lcda.next # NumIters + 1
        BY <2>2, HandType, HandShape DEF IInv, NoIter
      <4>2. FinishedLoopIter \in Nat  BY DEF IInv, TypeOK
      <4>3. QED  BY <3>1, <4>1, <4>2, PipelineAssumption DEF Iter
    <3>3. owner[lcda.next] \in Proc  BY <3>2 DEF IInv, TypeOK
    <3>4. QED  BY <3>1, <3>2, <3>3 DEF IInv, Tables, Holds, RPresNum
  <2>3. QED  BY <2>1, <2>2 DEF TablesApart
<1>2. QED  BY <1>1, InvariantHolds, PTL

\* Iterations are analysed in their order, each from its own table, however they
\* are shared and whatever the processes' speeds.
THEOREM AnalysedInOrder == Spec => []InOrder
<1>1. IInv => InOrder  BY DEF IInv, AnalysisInv
<1>2. QED  BY <1>1, InvariantHolds, PTL

\* No iteration is lost or doubled between the process that ran it and its
\* analysis, and its table is kept until then.
THEOREM IterationsConserved == Spec => []Conserved
<1>1. IInv => Conserved
  <2> SUFFICES ASSUME IInv, NEW i \in Iter
               PROVE
        /\ Sent(i) /\ reader \in {"idle", "batch"} =>
             /\ Unread(i) \/ InToken(i) \/ Noted(i) \/ Analysed(i)
             /\ Unread(i) => ~ InToken(i) /\ ~ Noted(i) /\ ~ Analysed(i)
             /\ InToken(i) => ~ Noted(i) /\ ~ Analysed(i)
             /\ Noted(i) => ~ Analysed(i)
        /\ Noted(i) => /\ tableIter[LoopIterPresNum[i]] = i
                       /\ PresIsFull[LoopIterPresNum[i]]
    BY DEF Conserved
  <2> DEFINE p == owner[i]
  <2>1. p \in Proc /\ ~ (i < i) /\ i \in Nat /\ 0 < i /\ FinishedLoopIter \in Nat
    BY Sizes, PipelineAssumption DEF IInv, TypeOK, Iter
  <2>2. /\ InStream(streams, p, i) => ~ InBatch(reader, ProcNextLidep, p, i)
        /\ InStream(streams, p, i) => ~ InQueue(toLCDA, p, i)
        /\ InStream(streams, p, i) => ~ InHand(lcda, p, i)
        /\ InStream(streams, p, i) => ~ Known(LoopIterPresNum, i)
        /\ InBatch(reader, ProcNextLidep, p, i) => ~ Known(LoopIterPresNum, i)
        /\ InQueue(toLCDA, p, i) => ~ Known(LoopIterPresNum, i)
        /\ InHand(lcda, p, i) => ~ Known(LoopIterPresNum, i)
    BY <2>1 DEF IInv, Ordered
  <2>3. Unread(i) <=> InStream(streams, p, i)
    <3>1. streams[p] \in Seq(Message)  BY <2>1 DEF IInv, TypeOK
    <3>2. DOMAIN streams[p] = 1 .. Len(streams[p])  BY <3>1, LenProperties
    <3>3. \A k \in 1 .. Len(streams[p]) : streams[p][k] \in Message  BY <3>1, ElementOfSeq
    <3>4. \A m \in Message : m = [flag |-> "end", iter |-> i] <=> m.flag = "end" /\ m.iter = i
      BY DEF Message
    <3>5. QED  BY <3>2, <3>3, <3>4 DEF Unread, InStream, HasEnd
  <2>4. InToken(i) <=> \/ InBatch(reader, ProcNextLidep, p, i) \/ InQueue(toLCDA, p, i)
                       \/ InHand(lcda, p, i)
    <3>1. toLCDA \in Seq(Token)  BY DEF IInv, TypeOK
    <3>2. DOMAIN toLCDA = 1 .. Len(toLCDA)  BY <3>1, LenProperties
    <3>3. ASSUME lcda.busy, IsStartOf(lcda.token[p], i)
          PROVE  lcda.at =< p /\ LoopIterPresNum[i] = NoTable <=> InHand(lcda, p, i)
      <4>1. lcda.at \in 0 .. PROCNUM /\ p \in Nat
        BY <2>1, <3>3, HandType, HandShape, Sizes DEF IInv
      <4>2. lcda.at =< p <=> lcda.at < p \/ lcda.at = p  BY <4>1, PipelineAssumption
      <4>3. ASSUME lcda.at = p, lcda.next # NoIter  PROVE Known(LoopIterPresNum, i)
        <5>1. PICK j \in Iter : IsStartOf(lcda.token[lcda.at], j) /\ Known(LoopIterPresNum, j)
          BY <3>3, <4>3 DEF IInv, AnalysisInv
        <5>2. i = j  BY <3>3, <4>3, <5>1 DEF IsStartOf
        <5>3. QED  BY <5>1, <5>2
      <4>4. QED  BY <2>2, <3>3, <4>2, <4>3 DEF InHand, Known
    <3>4. QED  BY <3>2, <3>3 DEF InToken, InBatch, InQueue, InHand
  <2>5. /\ Noted(i) <=> Known(LoopIterPresNum, i) /\ FinishedLoopIter < i
        /\ Analysed(i) => Known(LoopIterPresNum, i) /\ ~ (FinishedLoopIter < i)
        /\ Known(LoopIterPresNum, i) /\ ~ (FinishedLoopIter < i) => Analysed(i)
    <3>1. Noted(i) <=> Known(LoopIterPresNum, i) /\ FinishedLoopIter < i  BY DEF Noted, Known
    <3>2. DOMAIN analysed = 1 .. FinishedLoopIter
      BY LenProperties DEF IInv, TypeOK, AnalysisInv
    <3>3. \A k \in DOMAIN analysed : analysed[k].iter = k  BY DEF IInv, AnalysisInv, InOrder
    <3>4. ASSUME Analysed(i)  PROVE Known(LoopIterPresNum, i) /\ ~ (FinishedLoopIter < i)
      <4>1. i \in 1 .. FinishedLoopIter  BY <3>2, <3>3, <3>4 DEF Analysed
      <4>2. i =< FinishedLoopIter /\ ~ (FinishedLoopIter < i)  BY <2>1, <4>1
      <4>3. QED  BY <4>2 DEF IInv, AnalysisInv
    <3>5. ASSUME ~ (FinishedLoopIter < i)  PROVE Analysed(i)
      <4>1. i \in 1 .. FinishedLoopIter  BY <2>1, <3>5
      <4>2. QED  BY <3>2, <3>3, <4>1 DEF Analysed
    <3>6. QED  BY <3>1, <3>4, <3>5
  <2>6. Noted(i) => tableIter[LoopIterPresNum[i]] = i /\ PresIsFull[LoopIterPresNum[i]]
    BY <2>1, <2>5 DEF IInv, Tables, Holds
  <2>7. Sent(i) /\ reader \in {"idle", "batch"} =>
          \/ InStream(streams, p, i) \/ InBatch(reader, ProcNextLidep, p, i)
          \/ InQueue(toLCDA, p, i) \/ InHand(lcda, p, i) \/ Known(LoopIterPresNum, i)
    BY DEF IInv, Covered
  <2> HIDE DEF p
  <2>8. QED  BY <2>2, <2>3, <2>4, <2>5, <2>6, <2>7
<1>2. QED  BY <1>1, InvariantHolds, PTL

-----------------------------------------------------------------------------
\* What the signal that the pipeline has finished stands for
FinishedInv ==
  LSOutputLCDepFinish => /\ \A i \in Iter : Sent(i)
                         /\ \A i \in OwnFirst : i =< FinishedLoopIter

\* When the signal is given the iterations of the master are all known to
\* LCDAFilter, and so those of them are analysed that wait for no other.
LEMMA FinishedHolds == IInv /\ FInv => FinishedInv
<1> SUFFICES ASSUME IInv, FInv, LSOutputLCDepFinish
             PROVE  /\ \A i \in Iter : Sent(i)
                    /\ \A i \in OwnFirst : i =< FinishedLoopIter
  BY DEF FinishedInv
<1>1. /\ master = "cancelled" /\ StreamDone(streams) /\ BatchDone(reader, ProcNextLidep)
      /\ QueueDone(toLCDA) /\ HandDone(lcda)
  BY DEF FInv, SignalClosed, Signals
<1>2. ASSUME NEW i \in Iter PROVE Sent(i)
  <2>1. owner[i] \in Proc  BY DEF IInv, TypeOK
  <2>2. loopIter[owner[i]] > NumIters /\ loopIter[owner[i]] \in 1 .. NumIters + 1
    BY <1>1, <2>1 DEF FInv, CancelLast, IInv, TypeOK
  <2> QED  BY <2>2, PipelineAssumption DEF Sent, Iter
<1>3. ASSUME NEW i \in Iter, owner[i] = Master PROVE Known(LoopIterPresNum, i)
  <2>1. /\ ~ InStream(streams, Master, i) /\ ~ InBatch(reader, ProcNextLidep, Master, i)
        /\ ~ InQueue(toLCDA, Master, i) /\ ~ InHand(lcda, Master, i)
    BY <1>1 DEF StreamDone, BatchDone, QueueDone, HandDone, NoneIn, InBatch, InQueue, InHand
  <2>2. CASE reader \in {"idle", "batch"}  BY <1>2, <1>3, <2>1, <2>2 DEF IInv, Covered
  <2>3. CASE reader \notin {"idle", "batch"}  BY <1>3, <2>1, <2>3 DEF FInv, Stopped
  <2> QED  BY <2>2, <2>3
<1>4. ASSUME NEW i \in OwnFirst, ~ (i =< FinishedLoopIter) PROVE FALSE
  <2> DEFINE n == FinishedLoopIter + 1
  <2>1. /\ i \in Iter /\ \A j \in 1 .. i : owner[j] = Master
        /\ FinishedLoopIter \in Nat /\ i \in Nat
    BY Sizes DEF OwnFirst, IInv, TypeOK
  <2>2. n \in Iter /\ n \in 1 .. i /\ n \in Nat  BY <1>4, <2>1, PipelineAssumption DEF Iter
  <2>3. Known(LoopIterPresNum, n)  BY <1>3, <2>1, <2>2
  <2>4. lcda.busy /\ lcda.next # NoIter  BY <2>2, <2>3 DEF FInv, NoneWaits
  <2>5. PICK j \in Iter : lcda.at \in Proc /\ IsStartOf(lcda.token[lcda.at], j) /\ j =< n
    BY <2>4 DEF IInv, AnalysisInv
  <2>6. j \in 1 .. i  BY <2>1, <2>2, <2>5 DEF Iter
  <2>7. lcda.at = Master  BY <2>1, <2>4, <2>5, <2>6 DEF FInv, HandOwned
  <2> QED  BY <1>1, <2>4, <2>5, <2>7 DEF HandDone, NoneIn
<1> QED  BY <1>2, <1>4

\* The signal that the pipeline has finished is given after every iteration has
\* been analysed that does not come after one of another process.
THEOREM MasterFinishes == Spec => []MasterFinished
<1>1. IInv /\ FInv => MasterFinished
  <2> SUFFICES ASSUME IInv, FInv, LSOutputLCDepFinish, NEW i \in OwnFirst
               PROVE  Analysed(i)
    BY DEF MasterFinished
  <2>1. i \in Iter /\ i =< FinishedLoopIter  BY FinishedHolds DEF FinishedInv, OwnFirst
  <2>2. DOMAIN analysed = 1 .. FinishedLoopIter /\ FinishedLoopIter \in Nat
    BY LenProperties DEF IInv, TypeOK, AnalysisInv
  <2>3. i \in DOMAIN analysed  BY <2>1, <2>2 DEF Iter
  <2> QED  BY <2>3 DEF IInv, AnalysisInv, InOrder, Analysed
<1> QED  BY <1>1, FInvHolds, PTL

-----------------------------------------------------------------------------
(***************************************************************************)
(* The pipeline implements OrderedAnalysis.                                *)
(***************************************************************************)
SentSet == {i \in Iter : Sent(i)}

\* The iterations of the master before any of another process are the first n, for
\* some n: those before the least iteration of another process.
LEMMA OwnFirstShape == OwnFirst \in {1 .. n : n \in 0 .. NumIters}
<1> DEFINE T == {i \in Iter : owner[i] # Master}
           R == {ss \in Nat \X Nat : ss[1] < ss[2]}
<1>1. CASE T = {}
  <2>1. OwnFirst = 1 .. NumIters
    <3>1. \A i \in Iter : \A j \in 1 .. i : j \in Iter
      BY PipelineAssumption DEF Iter
    <3>2. \A i \in Iter : i \in OwnFirst  BY <1>1, <3>1 DEF OwnFirst
    <3> QED  BY <3>2 DEF OwnFirst, Iter
  <2> QED  BY <2>1, PipelineAssumption
<1>2. CASE T # {}
  <2>1. T \subseteq Nat /\ IsWellFoundedOn(R, Nat)
    BY Sizes, NatLessThanWellFounded DEF OpToRel
  <2>2. PICK m \in T : \A l \in T : ~ (<<l, m>> \in R)
    <3> HIDE DEF T, R
    <3> QED  BY <1>2, <2>1, WFMin
  <2>3. m \in Iter /\ owner[m] # Master /\ m \in Nat  BY <2>1
  <2>4. ASSUME NEW j \in Iter, j < m PROVE owner[j] = Master
    <3>1. <<j, m>> \in R  BY <2>3, <2>4, Sizes
    <3> QED  BY <2>2, <3>1
  <2>5. OwnFirst = 1 .. m - 1
    <3>1. ASSUME NEW i \in OwnFirst PROVE i \in 1 .. m - 1
      <4>1. i \in Iter /\ \A j \in 1 .. i : owner[j] = Master  BY DEF OwnFirst
      <4>2. ~ (m \in 1 .. i)  BY <2>3, <4>1
      <4> HIDE DEF T, R
      <4> QED  BY <2>3, <4>1, <4>2, PipelineAssumption DEF Iter
    <3>2. ASSUME NEW i \in 1 .. m - 1 PROVE i \in OwnFirst
      <4> HIDE DEF T, R
      <4>1. i \in Iter /\ \A j \in 1 .. i : j \in Iter /\ j < m
        BY <2>3, PipelineAssumption DEF Iter
      <4> QED  BY <2>4, <4>1 DEF OwnFirst
    <3> QED  BY <3>1, <3>2
  <2>6. m - 1 \in 0 .. NumIters
    <3> HIDE DEF T, R
    <3> QED  BY <2>3, PipelineAssumption DEF Iter
  <2> QED  BY <2>5, <2>6
<1> QED  BY <1>1, <1>2

\* The end of an iteration sends it if it is the process' own.
LEMMA EndIterationSends ==
  ASSUME IInv, NEW p \in Proc, EndIteration(p)
  PROVE  Analysis!Send \/ UNCHANGED <<OwnFirst, SentSet, FinishedLoopIter, LSOutputLCDepFinish>>
<1> DEFINE n == loopIter[p]
<1>1. /\ UNCHANGED <<owner, FinishedLoopIter, LSOutputLCDepFinish>>
      /\ loopIter' = [loopIter EXCEPT ![p] = n + 1] /\ n =< NumIters
  BY DEF EndIteration, Running, later
<1>2. OwnFirst' = OwnFirst  BY <1>1 DEF OwnFirst
<1>3. /\ loopIter \in [Proc -> 1 .. NumIters + 1] /\ owner \in [Iter -> Proc]
      /\ n \in Iter /\ n \in Nat
  <2>1. loopIter \in [Proc -> 1 .. NumIters + 1] /\ owner \in [Iter -> Proc]
    BY DEF IInv, TypeOK
  <2>2. n \in 1 .. NumIters + 1  BY <2>1
  <2>3. n \in Iter /\ n \in Nat  BY <1>1, <2>2, PipelineAssumption DEF Iter
  <2> QED  BY <2>1, <2>3
<1>4. ASSUME NEW i \in Iter
      PROVE  Sent(i)' <=> Sent(i) \/ (owner[i] = p /\ i = n)
  <2>1. i \in Nat /\ owner[i] \in Proc /\ loopIter[owner[i]] \in Nat
    <3>1. i \in Nat /\ owner[i] \in Proc  BY <1>3, Sizes
    <3>2. loopIter[owner[i]] \in 1 .. NumIters + 1  BY <1>3, <3>1
    <3> QED  BY <3>1, <3>2, PipelineAssumption
  <2>2. Sent(i)' <=> loopIter'[owner[i]] > i  BY <1>1 DEF Sent
  <2>3. CASE owner[i] = p
    <3>1. loopIter'[owner[i]] = n + 1  BY <1>1, <1>3, <2>3
    <3> QED  BY <1>3, <2>1, <2>2, <2>3, <3>1 DEF Sent
  <2>4. CASE owner[i] # p
    <3>1. loopIter'[owner[i]] = loopIter[owner[i]]  BY <1>1, <1>3, <2>1, <2>4
    <3> QED  BY <2>2, <2>4, <3>1 DEF Sent
  <2> QED  BY <2>3, <2>4
<1>5. CASE owner[n] = p
  <2>1. ~ Sent(n)  BY <1>3, <1>5 DEF Sent
  <2>2. n \in (1 .. NumIters) \ SentSet  BY <1>3, <2>1 DEF SentSet, Iter
  <2>3. SentSet' = SentSet \cup {n}  BY <1>3, <1>4, <1>5 DEF SentSet
  <2> QED  BY <1>1, <1>2, <2>2, <2>3 DEF Analysis!Send, SentSet
<1>6. CASE owner[n] # p
  <2>1. SentSet' = SentSet  BY <1>4, <1>6 DEF SentSet
  <2> QED  BY <1>1, <1>2, <2>1
<1> QED  BY <1>5, <1>6

\* LCDAFilter analyses the next iteration, and that has been sent.
LEMMA AnalyseNextAnalyses ==
  ASSUME IInv, AnalyseNext
  PROVE  Analysis!Analyse
<1> DEFINE n == lcda.next
<1>1. /\ UNCHANGED <<owner, loopIter, LSOutputLCDepFinish>> /\ FinishedLoopIter' = n
      /\ lcda.busy /\ n # NoIter
  BY DEF AnalyseNext, program
<1>2. n = FinishedLoopIter + 1 /\ Known(LoopIterPresNum, n)
  BY <1>1 DEF IInv, AnalysisInv
<1>3. n \in Iter
  <2>1. n \in 1 .. NumIters + 1  BY <1>1, HandType, HandShape DEF IInv
  <2> QED  BY <1>1, <2>1, PipelineAssumption DEF NoIter, Iter
<1>4. Sent(n)
  <2>1. owner[n] \in Proc  BY <1>3 DEF IInv, TypeOK
  <2>2. n < loopIter[owner[n]]  BY <1>2, <1>3, <2>1 DEF IInv, Owned
  <2>3. loopIter[owner[n]] \in Nat /\ n \in Nat
    <3>1. loopIter[owner[n]] \in 1 .. NumIters + 1  BY <2>1 DEF IInv, TypeOK
    <3> HIDE DEF n
    <3> QED  BY <1>3, <3>1, Sizes, PipelineAssumption
  <2> QED  BY <2>2, <2>3 DEF Sent
<1>5. OwnFirst' = OwnFirst /\ SentSet' = SentSet  BY <1>1 DEF OwnFirst, SentSet, Sent
<1> HIDE DEF n
<1> QED  BY <1>1, <1>2, <1>3, <1>4, <1>5 DEF Analysis!Analyse, SentSet

\* What is left of the output is the signal, or nothing.
LEMMA OutputFinishes ==
  ASSUME IInv, FinishedInv', Output
  PROVE  Analysis!Finish \/ UNCHANGED <<OwnFirst, SentSet, FinishedLoopIter, LSOutputLCDepFinish>>
<1>1. UNCHANGED <<owner, loopIter, FinishedLoopIter>>  BY DEF Output, program, later
<1>2. OwnFirst' = OwnFirst /\ SentSet' = SentSet  BY <1>1 DEF OwnFirst, SentSet, Sent
<1>3. CASE LSOutputLCDepFinish'
  <2>1. /\ \A i \in Iter : Sent(i)'
        /\ \A i \in OwnFirst' : i =< FinishedLoopIter'
    BY <1>3 DEF FinishedInv
  <2>2. SentSet = 1 .. NumIters
    <3>1. \A i \in Iter : Sent(i)  BY <1>1, <2>1 DEF Sent
    <3> QED  BY <3>1 DEF SentSet, Iter
  <2>3. OwnFirst \subseteq 1 .. FinishedLoopIter
    <3>1. \A i \in OwnFirst : i \in Iter /\ i =< FinishedLoopIter
      BY <1>1, <1>2, <2>1 DEF OwnFirst
    <3>2. FinishedLoopIter \in Nat  BY DEF IInv, TypeOK
    <3> QED  BY <3>1, <3>2 DEF Iter
  <2>4. LSOutputLCDepFinish' = TRUE
    BY <1>3 DEF Output
  <2> QED  BY <1>1, <1>2, <2>2, <2>3, <2>4 DEF Analysis!Finish, SentSet
<1>4. CASE ~ LSOutputLCDepFinish'
  <2>1. LSOutputLCDepFinish \in BOOLEAN /\ LSOutputLCDepFinish' \in BOOLEAN
    BY DEF IInv, TypeOK, Output
  <2>2. LSOutputLCDepFinish' = LSOutputLCDepFinish
    BY <1>4, <2>1 DEF Output
  <2> QED  BY <1>1, <1>2, <2>2
<1> QED  BY <1>3, <1>4

\* Every step of the processes and of the filters is a step of a sequential
\* analysis of iterations that come in any order, or leaves it alone: for every
\* number of processes, tables, tokens and iterations, and every way to share them.
THEOREM Implements == Spec => OrderedSpec
<1>1. Init => Analysis!Init
  <2> SUFFICES ASSUME Init PROVE Analysis!Init  OBVIOUS
  <2>1. /\ owner \in [Iter -> Proc] /\ loopIter = [p \in Proc |-> 1]
        /\ FinishedLoopIter = 0 /\ LSOutputLCDepFinish = FALSE
    BY DEF Init
  <2>2. SentSet = {}
    <3>1. \A i \in Iter : ~ (loopIter[owner[i]] > i)
      BY <2>1, PipelineAssumption DEF Iter
    <3> QED  BY <3>1 DEF SentSet, Sent
  <2>3. OwnFirst \in {1 .. n : n \in 0 .. NumIters}  BY OwnFirstShape
  <2> QED  BY <2>1, <2>2, <2>3 DEF Analysis!Init, SentSet
<1>2. IInv /\ FinishedInv' /\ [Next]_vars =>
        [Analysis!Next]_<<OwnFirst, SentSet, FinishedLoopIter, LSOutputLCDepFinish>>
  <2> SUFFICES ASSUME IInv, FinishedInv', [Next]_vars
               PROVE  Analysis!Next \/ UNCHANGED <<OwnFirst, SentSet, FinishedLoopIter,
                                                   LSOutputLCDepFinish>>
    OBVIOUS
  <2>1. ASSUME NEW p \in Proc, EndIteration(p)
        PROVE  Analysis!Next \/ UNCHANGED <<OwnFirst, SentSet, FinishedLoopIter,
                                            LSOutputLCDepFinish>>
    BY <2>1, EndIterationSends DEF Analysis!Next
  <2>2. CASE AnalyseNext  BY <2>2, AnalyseNextAnalyses DEF Analysis!Next
  <2>3. CASE Output  BY <2>3, OutputFinishes DEF Analysis!Next
  <2>4. ASSUME UNCHANGED <<owner, loopIter, FinishedLoopIter, LSOutputLCDepFinish>>
        PROVE  UNCHANGED <<OwnFirst, SentSet, FinishedLoopIter, LSOutputLCDepFinish>>
    BY <2>4 DEF OwnFirst, SentSet, Sent
  <2>5. ASSUME NEW p \in Proc, Overflow(p) \/ ReadTask(p)
        PROVE  UNCHANGED <<owner, loopIter, FinishedLoopIter, LSOutputLCDepFinish>>
    BY <2>5 DEF Overflow, ReadTask, ReadNothing, ReadSame, ReadEnd, TableFree, ReadCancel,
                ReadAgain, NullCrash, program, later
  <2>6. CASE Exit \/ StartBatch \/ EndBatch \/ TakeLCDA \/ TakeInput \/ EndLCDA
    <3>1. UNCHANGED <<owner, loopIter, FinishedLoopIter, LSOutputLCDepFinish>>
      BY <2>6 DEF Exit, JoinAndReInit, CancelPipeline, StartBatch, EndBatch, TakeLCDA, TakeInput,
                  EndLCDA, program, later
    <3> QED  BY <2>4, <3>1
  <2>7. CASE UNCHANGED vars
    <3>1. UNCHANGED <<owner, loopIter, FinishedLoopIter, LSOutputLCDepFinish>>
      BY <2>7 DEF vars, program, later
    <3> QED  BY <2>4, <3>1
  <2> QED
    BY <2>1, <2>2, <2>3, <2>4, <2>5, <2>6, <2>7 DEF Next, Process, ReadLIDA, LCDA
<1>3. IInv /\ FInv => FinishedInv  BY FinishedHolds
<1> QED  BY <1>1, <1>2, <1>3, FInvHolds, PTL DEF Spec, OrderedSpec, Analysis!Spec, SentSet
=============================================================================
