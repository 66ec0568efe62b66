--------------------------- MODULE ReadTasksProofs ---------------------------
(***************************************************************************)
(* The tasks of a batch, for every number of processes, buffers, threads   *)
(* and publications, however they are nested.                              *)
(***************************************************************************)
EXTENDS ReadTasks, TLAPS

Buffer == [number : Nat, flag : Flag]
Tasks == [proc : Proc, slot : Slot, read : Nat]
Token == [read : Nat, label : Nat]

TypeOK ==
  /\ Streams \in [Proc -> [Slot -> Buffer]]
  /\ PPStreamIsFull \in [Proc -> [Slot -> BOOLEAN]]
  /\ WStreamNum \in [Proc -> Slot] /\ ProcRStreamNum \in [Proc -> Slot]
  /\ ThrLRStreamNum \in [Threads -> Slot]
  /\ batch \in BOOLEAN /\ pending \subseteq Proc /\ stack \in [Threads -> Seq(Tasks)]
  /\ sent \in [Proc -> Nat] /\ tokens \in [Proc -> Seq(Token)] /\ disturbed \subseteq Proc

\* A process has at most one task, which is pending or waits at one place of one
\* stack; between two batches it has none.
OneTask ==
  \A t, u \in Threads : \A k \in DOMAIN stack[t], l \in DOMAIN stack[u] :
    /\ stack[t][k].proc \notin pending
    /\ stack[t][k].proc = stack[u][l].proc => t = u /\ k = l

BatchInv == ~ batch => pending = {} /\ \A t \in Threads : stack[t] = <<>>

\* The buffers of the process: its n-th is at slot (n - 1) % STREAMNUM, and full
\* from its publication until its token is there.
StreamInv(p) ==
  /\ WStreamNum[p] = sent[p] % STREAMNUM
  /\ ProcRStreamNum[p] = Len(tokens[p]) % STREAMNUM
  /\ Len(tokens[p]) =< sent[p]
  /\ \A s \in Slot :
       /\ PPStreamIsFull[p][s] <=> Streams[p][s].number \in Len(tokens[p]) + 1 .. sent[p]
       /\ Streams[p][s].number # 0 =>
            Streams[p][s].number =< sent[p] /\ (Streams[p][s].number - 1) % STREAMNUM = s
  /\ \A n \in Len(tokens[p]) + 1 .. sent[p] :
       LET buffer == Streams[p][(n - 1) % STREAMNUM]
       IN  buffer.number = n /\ buffer.flag \in {"same", "end"}
  /\ \A k \in DOMAIN tokens[p] : tokens[p][k] = [read |-> k, label |-> k]

\* Its task, if it has one, reads the buffer after the last token.
TaskInv(p) ==
  \A t \in Threads : \A k \in DOMAIN stack[t] :
    stack[t][k].proc = p => stack[t][k].slot = ProcRStreamNum[p]

Undisturbed == \A p \in Proc \ disturbed : StreamInv(p) /\ TaskInv(p)

IInv == TypeOK /\ OneTask /\ BatchInv /\ BufferHeld /\ Undisturbed

-----------------------------------------------------------------------------
\* Division by a positive number.
LEMMA DivMod ==
  ASSUME NEW a \in Nat, NEW d \in Nat \ {0}
  PROVE  a \div d \in Nat /\ a % d \in 0 .. d - 1 /\ a = d * (a \div d) + (a % d)
  BY SMT

\* Quotient and remainder are unique.
LEMMA DivUnique ==
  ASSUME NEW d \in Nat \ {0}, NEW p \in Nat, NEW q \in Nat,
         NEW r \in 0 .. d - 1, NEW s \in 0 .. d - 1, d * p + r = d * q + s
  PROVE  p = q /\ r = s
  BY SMT

\* The remainder of the next number is the next remainder.
LEMMA ModSucc ==
  ASSUME NEW a \in Nat, NEW d \in Nat \ {0}
  PROVE  ((a % d) + 1) % d = (a + 1) % d
<1> DEFINE q == a \div d
           r == a % d
           v == (a + 1) \div d
           s == (a + 1) % d
<1>1. q \in Nat /\ r \in 0 .. d - 1 /\ a = d * q + r
  BY DivMod
<1>2. v \in Nat /\ s \in 0 .. d - 1 /\ a + 1 = d * v + s
  BY DivMod, a + 1 \in Nat
<1>3. ASSUME NEW x \in 0 .. d - 1 PROVE x % d = x
  BY <1>3, SMT
<1>4. d % d = 0
  BY SMT
<1> HIDE DEF q, r, v, s
<1>5. CASE r + 1 < d
  <2>1. d * q + (r + 1) = d * v + s /\ r + 1 \in 0 .. d - 1  BY <1>1, <1>2, <1>5
  <2>2. r + 1 = s  BY <1>1, <1>2, <2>1, DivUnique
  <2> QED  BY <1>3, <2>1, <2>2 DEF r, s
<1>6. CASE r + 1 = d
  <2>1. d * (q + 1) = d * q + d  BY <1>1
  <2>2. d * (q + 1) + 0 = d * v + s /\ 0 \in 0 .. d - 1 /\ q + 1 \in Nat
    BY <1>1, <1>2, <1>6, <2>1
  <2>3. s = 0  BY <1>2, <2>2, DivUnique
  <2> QED  BY <1>4, <1>6, <2>3 DEF r, s
<1> QED  BY <1>1, <1>5, <1>6

\* A number modulo the buffers is a slot.
LEMMA SlotOf ==
  ASSUME NEW n \in Nat
  PROVE  n % STREAMNUM \in Slot
BY DivMod, ReadTasksAssumption DEF Slot

\* The slot of the next number is the next slot.
LEMMA Advance ==
  ASSUME NEW n \in Nat
  PROVE  ((n % STREAMNUM) + 1) % STREAMNUM = (n + 1) % STREAMNUM
BY ModSucc, ReadTasksAssumption

\* The next slot is a slot.
LEMMA NextInRing ==
  ASSUME NEW s \in Slot
  PROVE  (s + 1) % STREAMNUM \in Slot
<1>1. s + 1 \in Nat  BY DEF Slot
<1> QED  BY <1>1, SlotOf

\* What a task put on a stack, and one taken off, do to the places of the others.
LEMMA Push ==
  ASSUME NEW S, NEW s \in Seq(S), NEW x \in S
  PROVE  /\ <<x>> \o s \in Seq(S) /\ DOMAIN (<<x>> \o s) = 1 .. Len(s) + 1
         /\ (<<x>> \o s)[1] = x
         /\ \A k \in 2 .. Len(s) + 1 : k - 1 \in DOMAIN s /\ (<<x>> \o s)[k] = s[k - 1]
OBVIOUS

\* Head and tail of a stack, by its elements.
LEMMA Pop ==
  ASSUME NEW S, NEW s \in Seq(S), s # <<>>
  PROVE  /\ Head(s) = s[1] /\ 1 \in DOMAIN s /\ Tail(s) \in Seq(S)
         /\ \A k \in DOMAIN Tail(s) : k + 1 \in DOMAIN s /\ k + 1 # 1 /\ Tail(s)[k] = s[k + 1]
OBVIOUS

-----------------------------------------------------------------------------
\* The invariant holds initially: no task, no buffer.
LEMMA InitIInv == Init => IInv
<1> SUFFICES ASSUME Init PROVE IInv
  OBVIOUS
<1>0. 0 \in Slot /\ 0 % STREAMNUM = 0
  BY ReadTasksAssumption, SMT DEF Slot
<1>1. TypeOK
  <2>1. PICK garbage \in Flag :
          Streams = [p \in Proc |-> [s \in Slot |-> [number |-> 0, flag |-> garbage]]]
    BY DEF Init
  <2>2. [number |-> 0, flag |-> garbage] \in Buffer  BY DEF Buffer
  <2>3. Streams \in [Proc -> [Slot -> Buffer]]  BY <2>1, <2>2
  <2>4. <<>> \in Seq(Tasks) /\ <<>> \in Seq(Token)  OBVIOUS
  <2> QED  BY <1>0, <2>3, <2>4 DEF Init, TypeOK
<1>2. OneTask /\ BatchInv /\ BufferHeld
  BY DEF Init, OneTask, BatchInv, BufferHeld
<1>3. ASSUME NEW p \in Proc PROVE StreamInv(p)
  BY <1>0 DEF Init, StreamInv
<1>4. ASSUME NEW p \in Proc PROVE TaskInv(p)
  BY DEF Init, TaskInv
<1> QED BY <1>1, <1>2, <1>3, <1>4 DEF IInv, Undisturbed

\* The stream of a process that the step does not concern.
LEMMA Elsewhere ==
  ASSUME NEW p \in Proc, StreamInv(p),
         Streams'[p] = Streams[p], PPStreamIsFull'[p] = PPStreamIsFull[p],
         WStreamNum'[p] = WStreamNum[p], ProcRStreamNum'[p] = ProcRStreamNum[p],
         sent'[p] = sent[p], tokens'[p] = tokens[p]
  PROVE  StreamInv(p)'
BY DEF StreamInv

-----------------------------------------------------------------------------
\* The slot a process publishes in is none of a task's, and none of those that
\* have a buffer which is still to be read.
LEMMA PublishInv ==
  ASSUME IInv, NEW p \in Proc, Publish(p)
  PROVE  IInv'
<1> DEFINE w == WStreamNum[p]
           n == sent[p] + 1
<1>1. PICK flag \in {"same", "end"} :
        Streams' = [Streams EXCEPT ![p][w] = [number |-> n, flag |-> flag]]
  BY DEF Publish
<1>2. /\ PPStreamIsFull' = [PPStreamIsFull EXCEPT ![p][w] = TRUE]
      /\ WStreamNum' = [WStreamNum EXCEPT ![p] = (w + 1) % STREAMNUM]
      /\ sent' = [sent EXCEPT ![p] = n]
      /\ UNCHANGED <<ProcRStreamNum, ThrLRStreamNum, batch, pending, stack, tokens, disturbed>>
      /\ ~ PPStreamIsFull[p][w]
  BY DEF Publish, running
<1>3. TypeOK /\ w \in Slot /\ n \in Nat \ {0} /\ (w + 1) % STREAMNUM \in Slot
  BY NextInRing DEF IInv, TypeOK
<1>4. /\ \A q \in Proc, s \in Slot : q # p \/ s # w =>
           Streams'[q][s] = Streams[q][s] /\ PPStreamIsFull'[q][s] = PPStreamIsFull[q][s]
      /\ \A q \in Proc \ {p} : /\ Streams'[q] = Streams[q] /\ PPStreamIsFull'[q] = PPStreamIsFull[q]
                               /\ WStreamNum'[q] = WStreamNum[q] /\ sent'[q] = sent[q]
      /\ Streams'[p][w] = [number |-> n, flag |-> flag] /\ PPStreamIsFull'[p][w]
      /\ WStreamNum'[p] = (w + 1) % STREAMNUM /\ sent'[p] = n
  BY <1>1, <1>2, <1>3 DEF TypeOK
<1> HIDE DEF w, n
<1>5. TypeOK'
  <2>1. [number |-> n, flag |-> flag] \in Buffer  BY <1>1, <1>3 DEF Buffer, Flag
  <2>2. Streams' \in [Proc -> [Slot -> Buffer]]  BY <1>1, <1>3, <2>1 DEF TypeOK
  <2> QED  BY <1>2, <1>3, <2>2 DEF TypeOK
<1>6. OneTask' /\ BatchInv'
  BY <1>2 DEF IInv, OneTask, BatchInv
<1>7. BufferHeld'
  <2> SUFFICES ASSUME NEW t \in Threads, NEW k \in DOMAIN stack[t]
               PROVE  LET task == stack[t][k]
                      IN /\ PPStreamIsFull'[task.proc][task.slot]
                         /\ Streams'[task.proc][task.slot].number = task.read
    BY <1>2 DEF BufferHeld
  <2> DEFINE task == stack[t][k]
  <2>1. task \in Tasks  BY DEF IInv, TypeOK
  <2>2. PPStreamIsFull[task.proc][task.slot] /\ Streams[task.proc][task.slot].number = task.read
    BY DEF IInv, BufferHeld
  <2> HIDE DEF task
  <2>3. task.proc # p \/ task.slot # w  BY <1>2, <2>2 DEF w
  <2>4. task.proc \in Proc /\ task.slot \in Slot  BY <2>1 DEF Tasks
  <2> QED  BY <1>4, <2>2, <2>3, <2>4 DEF task
<1>8. ASSUME NEW q \in Proc \ disturbed PROVE StreamInv(q)' /\ TaskInv(q)'
  <2>1. StreamInv(q) /\ TaskInv(q)  BY DEF IInv, Undisturbed
  <2>2. TaskInv(q)'  BY <1>2, <2>1 DEF TaskInv
  <2>3. CASE q # p
    BY <1>2, <1>4, <2>1, <2>2, <2>3, Elsewhere
  <2>4. CASE q = p
    <3> DEFINE m == Len(tokens[p])
    <3>1. /\ w = sent[p] % STREAMNUM /\ m =< sent[p] /\ m \in Nat /\ sent[p] \in Nat
          /\ n = sent[p] + 1 /\ tokens'[p] = tokens[p]
          /\ ProcRStreamNum'[p] = m % STREAMNUM
      BY <1>2, <1>3, <2>1, <2>4 DEF StreamInv, TypeOK, w, n
    <3>2. WStreamNum'[p] = sent'[p] % STREAMNUM
      <4>1. ((sent[p] % STREAMNUM) + 1) % STREAMNUM = (sent[p] + 1) % STREAMNUM
        BY <3>1, Advance
      <4> QED  BY <1>4, <3>1, <4>1
    <3>3. \A i \in m + 1 .. sent[p] : (i - 1) % STREAMNUM # w
      <4> SUFFICES ASSUME NEW i \in m + 1 .. sent[p], (i - 1) % STREAMNUM = w PROVE FALSE
        OBVIOUS
      <4>1. Streams[p][w].number = i  BY <2>1, <2>4 DEF StreamInv
      <4> QED  BY <1>2, <1>3, <2>1, <2>4, <4>1 DEF StreamInv, w
    <3>4. ASSUME NEW s \in Slot
          PROVE  /\ PPStreamIsFull'[p][s] <=> Streams'[p][s].number \in m + 1 .. n
                 /\ Streams'[p][s].number # 0 =>
                      /\ Streams'[p][s].number =< n
                      /\ (Streams'[p][s].number - 1) % STREAMNUM = s
      <4>1. CASE s = w
        <5>1. Streams'[p][w].number = n  BY <1>4
        <5>2. n \in m + 1 .. n /\ n - 1 = sent[p] /\ n =< n  BY <3>1
        <5> QED  BY <1>4, <3>1, <4>1, <5>1, <5>2
      <4>2. CASE s # w
        <5>1. Streams'[p][s] = Streams[p][s] /\ PPStreamIsFull'[p][s] = PPStreamIsFull[p][s]
          BY <1>4, <4>2
        <5>2. Streams[p][s].number \in Nat  BY <1>3 DEF TypeOK, Buffer
        <5>3. /\ PPStreamIsFull[p][s] <=> Streams[p][s].number \in m + 1 .. sent[p]
              /\ Streams[p][s].number # 0 =>
                   Streams[p][s].number =< sent[p] /\ (Streams[p][s].number - 1) % STREAMNUM = s
          BY <2>1, <2>4 DEF StreamInv
        <5>4. Streams[p][s].number \in m + 1 .. sent[p] <=> Streams[p][s].number \in m + 1 .. n
          BY <3>1, <5>2, <5>3
        <5> QED  BY <3>1, <5>1, <5>2, <5>3, <5>4
      <4> QED  BY <4>1, <4>2
    <3>5. ASSUME NEW i \in m + 1 .. n
          PROVE  /\ Streams'[p][(i - 1) % STREAMNUM].number = i
                 /\ Streams'[p][(i - 1) % STREAMNUM].flag \in {"same", "end"}
      <4>1. CASE i = n
        <5>1. (i - 1) % STREAMNUM = w  BY <3>1, <4>1
        <5> QED  BY <1>1, <1>4, <4>1, <5>1
      <4>2. CASE i # n
        <5>1. i \in m + 1 .. sent[p] /\ i - 1 \in Nat  BY <3>1, <4>2
        <5>2. (i - 1) % STREAMNUM # w /\ (i - 1) % STREAMNUM \in Slot
          BY <3>3, <5>1, SlotOf
        <5>3. Streams'[p][(i - 1) % STREAMNUM] = Streams[p][(i - 1) % STREAMNUM]
          BY <1>4, <5>2
        <5> QED  BY <2>1, <2>4, <5>1, <5>3 DEF StreamInv
      <4> QED  BY <4>1, <4>2
    <3>6. \A k \in DOMAIN tokens[p] : tokens[p][k] = [read |-> k, label |-> k]
      BY <2>1, <2>4 DEF StreamInv
    <3>7. m =< n  BY <3>1
    <3> HIDE DEF m
    <3>8. StreamInv(p)'
      BY <1>4, <3>1, <3>2, <3>4, <3>5, <3>6, <3>7 DEF StreamInv, m
    <3> QED  BY <2>2, <2>4, <3>8
  <2> QED  BY <2>3, <2>4
<1>9. Undisturbed'  BY <1>2, <1>8 DEF Undisturbed
<1> QED  BY <1>5, <1>6, <1>7, <1>9 DEF IInv

\* Starting and ending a batch keep the invariant.
LEMMA BatchSteps ==
  ASSUME IInv, StartBatch \/ EndBatch
  PROVE  IInv'
<1>1. UNCHANGED <<writing, PPStreamIsFull, ProcRStreamNum, ThrLRStreamNum, stack, tokens, disturbed>>
  BY DEF StartBatch, EndBatch
<1>2. TypeOK'  BY <1>1 DEF IInv, TypeOK, StartBatch, EndBatch, writing
<1>3. OneTask' /\ BatchInv'
  BY <1>1 DEF IInv, OneTask, BatchInv, StartBatch, EndBatch
<1>4. BufferHeld'  BY <1>1 DEF IInv, BufferHeld, writing
<1>5. Undisturbed'
  BY <1>1, Elsewhere DEF IInv, Undisturbed, TaskInv, writing
<1> QED  BY <1>2, <1>3, <1>4, <1>5 DEF IInv

-----------------------------------------------------------------------------
\* The task the thread takes was pending, and so is none of those that wait; an
\* undisturbed process' slot is that of its next buffer.
LEMMA BeginInv ==
  ASSUME IInv, NEW t \in Threads, NEW p \in Proc, BeginTask(t, p)
  PROVE  IInv'
<1> DEFINE s == ProcRStreamNum[p]
           x == [proc |-> p, slot |-> s, read |-> Streams[p][s].number]
<1>1. /\ p \in pending /\ pending' = pending \ {p}
      /\ ThrLRStreamNum' = [ThrLRStreamNum EXCEPT ![t] = s]
      /\ stack' = IF PPStreamIsFull[p][s] THEN [stack EXCEPT ![t] = <<x>> \o @] ELSE stack
      /\ UNCHANGED <<Streams, WStreamNum, sent, PPStreamIsFull, ProcRStreamNum, batch, tokens,
                     disturbed>>
  BY DEF BeginTask, writing
<1>2. TypeOK /\ s \in Slot /\ Streams[p][s].number \in Nat /\ stack[t] \in Seq(Tasks)
  BY DEF IInv, TypeOK, Buffer
<1>3. x \in Tasks  BY <1>2 DEF Tasks
<1>4. x.proc = p /\ x.slot = s /\ x.read = Streams[p][s].number  OBVIOUS
<1> HIDE DEF x
<1>5. /\ <<x>> \o stack[t] \in Seq(Tasks)
      /\ DOMAIN (<<x>> \o stack[t]) = 1 .. Len(stack[t]) + 1
      /\ (<<x>> \o stack[t])[1] = x
      /\ \A k \in 2 .. Len(stack[t]) + 1 :
           k - 1 \in DOMAIN stack[t] /\ (<<x>> \o stack[t])[k] = stack[t][k - 1]
  BY <1>2, <1>3, Push
<1> DEFINE New(u, k) == PPStreamIsFull[p][s] /\ u = t /\ k = 1
           old(u, k) == IF PPStreamIsFull[p][s] /\ u = t THEN k - 1 ELSE k
<1>6. ASSUME NEW u \in Threads, NEW k \in DOMAIN stack'[u]
      PROVE  IF New(u, k) THEN stack'[u][k] = x
             ELSE old(u, k) \in DOMAIN stack[u] /\ stack'[u][k] = stack[u][old(u, k)]
  <2>1. CASE PPStreamIsFull[p][s] /\ u = t
    <3>1. stack'[u] = <<x>> \o stack[t]  BY <1>1, <1>2, <2>1 DEF TypeOK
    <3>2. k \in 1 .. Len(stack[t]) + 1  BY <1>5, <3>1
    <3>3. k # 1 => k \in 2 .. Len(stack[t]) + 1  BY <1>2, <3>2
    <3> QED  BY <1>5, <2>1, <3>1, <3>3
  <2>2. CASE ~ (PPStreamIsFull[p][s] /\ u = t)
    <3>1. stack'[u] = stack[u]  BY <1>1, <1>2, <2>2 DEF TypeOK
    <3> QED  BY <2>2, <3>1
  <2> QED  BY <2>1, <2>2
<1>7. ASSUME NEW u \in Threads, NEW k \in DOMAIN stack'[u] PROVE k \in Nat
  <2>1. stack' \in [Threads -> Seq(Tasks)]  BY <1>1, <1>2, <1>5 DEF TypeOK
  <2> QED  BY <2>1
<1>8. TypeOK'
  BY <1>1, <1>2, <1>5 DEF TypeOK
<1>9. OneTask'
  <2> SUFFICES ASSUME NEW u \in Threads, NEW v \in Threads,
                      NEW k \in DOMAIN stack'[u], NEW l \in DOMAIN stack'[v]
               PROVE  /\ stack'[u][k].proc \notin pending'
                      /\ stack'[u][k].proc = stack'[v][l].proc => u = v /\ k = l
    BY DEF OneTask
  <2>1. k \in Nat /\ l \in Nat  BY <1>7
  <2>2. OneTask  BY DEF IInv
  <2>3. CASE New(u, k) /\ New(v, l)
    BY <1>1, <1>4, <1>6, <2>1, <2>3
  <2>4. CASE New(u, k) /\ ~ New(v, l)
    <3>1. stack'[v][l].proc \notin pending  BY <1>6, <2>2, <2>4 DEF OneTask
    <3>2. stack'[u][k].proc = p  BY <1>4, <1>6, <2>4
    <3> QED  BY <1>1, <3>1, <3>2
  <2>5. CASE ~ New(u, k) /\ New(v, l)
    <3>1. stack'[u][k].proc \notin pending  BY <1>6, <2>2, <2>5 DEF OneTask
    <3>2. stack'[v][l].proc = p  BY <1>4, <1>6, <2>5
    <3> QED  BY <1>1, <3>1, <3>2
  <2>6. CASE ~ New(u, k) /\ ~ New(v, l)
    <3>1. /\ old(u, k) \in DOMAIN stack[u] /\ stack'[u][k] = stack[u][old(u, k)]
          /\ old(v, l) \in DOMAIN stack[v] /\ stack'[v][l] = stack[v][old(v, l)]
      BY <1>6, <2>6
    <3>2. /\ stack'[u][k].proc \notin pending
          /\ stack'[u][k].proc = stack'[v][l].proc => u = v /\ old(u, k) = old(v, l)
      BY <2>2, <3>1 DEF OneTask
    <3> QED  BY <1>1, <2>1, <3>2
  <2> QED  BY <2>3, <2>4, <2>5, <2>6
<1>10. BatchInv'  BY <1>1 DEF IInv, BatchInv
<1>11. BufferHeld'
  <2>0. UNCHANGED <<Streams, PPStreamIsFull>>  BY <1>1
  <2> SUFFICES ASSUME NEW u \in Threads, NEW k \in DOMAIN stack'[u]
               PROVE  LET task == stack'[u][k]
                      IN /\ PPStreamIsFull[task.proc][task.slot]
                         /\ Streams[task.proc][task.slot].number = task.read
    BY <2>0 DEF BufferHeld
  <2>1. CASE New(u, k)
    BY <1>4, <1>6, <2>1
  <2>2. CASE ~ New(u, k)
    <3>1. old(u, k) \in DOMAIN stack[u] /\ stack'[u][k] = stack[u][old(u, k)]
      BY <1>6, <2>2
    <3>2. \A l \in DOMAIN stack[u] :
            /\ PPStreamIsFull[stack[u][l].proc][stack[u][l].slot]
            /\ Streams[stack[u][l].proc][stack[u][l].slot].number = stack[u][l].read
      BY DEF IInv, BufferHeld
    <3> HIDE DEF old, New
    <3> QED  BY <3>1, <3>2
  <2> QED  BY <2>1, <2>2
<1>12. ASSUME NEW q \in Proc \ disturbed PROVE StreamInv(q)' /\ TaskInv(q)'
  <2>1. StreamInv(q) /\ TaskInv(q)  BY DEF IInv, Undisturbed
  <2>2. StreamInv(q)'  BY <1>1, <2>1, Elsewhere
  <2>3. TaskInv(q)'
    <3> SUFFICES ASSUME NEW u \in Threads, NEW k \in DOMAIN stack'[u], stack'[u][k].proc = q
                 PROVE  stack'[u][k].slot = ProcRStreamNum[q]
      BY <1>1 DEF TaskInv
    <3>1. CASE New(u, k)
      BY <1>4, <1>6, <3>1
    <3>2. CASE ~ New(u, k)
      BY <1>6, <2>1, <3>2 DEF TaskInv
    <3> QED  BY <3>1, <3>2
  <2> QED  BY <2>2, <2>3
<1>13. Undisturbed'  BY <1>1, <1>12 DEF Undisturbed
<1> QED  BY <1>8, <1>9, <1>10, <1>11, <1>13 DEF IInv

-----------------------------------------------------------------------------
\* The token of an undisturbed process is its next one, and its buffer was the
\* first of those to be read.
LEMMA FreeStream ==
  ASSUME TypeOK, NEW p \in Proc, StreamInv(p), NEW s \in Slot, s = ProcRStreamNum[p],
         PPStreamIsFull[p][s]
  PROVE  /\ Streams[p][s].number = Len(tokens[p]) + 1
         /\ Len(tokens[p]) + 1 =< sent[p]
         /\ Streams[p][s].flag \in {"same", "end"}
         /\ \A r \in Slot \ {s} : Streams[p][r].number # Len(tokens[p]) + 1
<1> DEFINE m == Len(tokens[p])
<1>1. m \in Nat /\ sent[p] \in Nat /\ s = m % STREAMNUM  BY DEF TypeOK, StreamInv
<1>2. Streams[p][s].number \in m + 1 .. sent[p]  BY DEF StreamInv
<1>3. m + 1 \in m + 1 .. sent[p] /\ (m + 1) - 1 = m  BY <1>1, <1>2
<1>4. \A i \in m + 1 .. sent[p] : /\ Streams[p][(i - 1) % STREAMNUM].number = i
                                  /\ Streams[p][(i - 1) % STREAMNUM].flag \in {"same", "end"}
  BY DEF StreamInv
<1>5. Streams[p][s].number = m + 1 /\ Streams[p][s].flag \in {"same", "end"}
  BY <1>1, <1>3, <1>4
<1>6. \A r \in Slot \ {s} : Streams[p][r].number # m + 1
  <2> SUFFICES ASSUME NEW r \in Slot \ {s}, Streams[p][r].number = m + 1 PROVE FALSE
    OBVIOUS
  <2>1. (Streams[p][r].number - 1) % STREAMNUM = r  BY <1>1 DEF StreamInv
  <2> QED  BY <1>1, <1>3, <2>1
<1> QED  BY <1>1, <1>3, <1>5, <1>6

\* Freeing the buffer of the next token keeps the stream in order.
LEMMA FreeStreamInv ==
  ASSUME TypeOK, NEW p \in Proc, StreamInv(p), NEW s \in Slot, s = ProcRStreamNum[p],
         PPStreamIsFull[p][s],
         Streams'[p] = Streams[p], WStreamNum'[p] = WStreamNum[p], sent'[p] = sent[p],
         PPStreamIsFull'[p] = [PPStreamIsFull[p] EXCEPT ![s] = FALSE],
         ProcRStreamNum'[p] = (s + 1) % STREAMNUM,
         tokens'[p] = Append(tokens[p], [read |-> Len(tokens[p]) + 1, label |-> Len(tokens[p]) + 1])
  PROVE  StreamInv(p)'
<1> DEFINE m == Len(tokens[p])
<1>1. /\ m \in Nat /\ sent[p] \in Nat /\ tokens[p] \in Seq(Token) /\ DOMAIN tokens[p] = 1 .. m
      /\ s = m % STREAMNUM
  BY DEF TypeOK, StreamInv
<1>2. /\ Streams[p][s].number = m + 1 /\ m + 1 =< sent[p]
      /\ \A r \in Slot \ {s} : Streams[p][r].number # m + 1
  BY FreeStream
<1>3. /\ Len(tokens'[p]) = m + 1 /\ DOMAIN tokens'[p] = 1 .. m + 1
      /\ \A k \in 1 .. m : tokens'[p][k] = tokens[p][k]
      /\ tokens'[p][m + 1] = [read |-> m + 1, label |-> m + 1]
  BY <1>1
<1> HIDE DEF m
<1>4. ProcRStreamNum'[p] = (m + 1) % STREAMNUM
  <2>1. ((m % STREAMNUM) + 1) % STREAMNUM = (m + 1) % STREAMNUM  BY <1>1, Advance
  <2> QED  BY <1>1, <2>1
<1>5. ASSUME NEW r \in Slot
      PROVE  PPStreamIsFull'[p][r] <=> Streams[p][r].number \in (m + 1) + 1 .. sent[p]
  <2>1. Streams[p][r].number \in Nat /\ PPStreamIsFull[p] \in [Slot -> BOOLEAN]
    BY DEF TypeOK, Buffer
  <2>2. PPStreamIsFull[p][r] <=> Streams[p][r].number \in m + 1 .. sent[p]
    BY DEF StreamInv, m
  <2>3. CASE r = s
    <3>1. ~ PPStreamIsFull'[p][r]  BY <2>1, <2>3
    <3>2. m + 1 \notin (m + 1) + 1 .. sent[p]  BY <1>1
    <3> QED  BY <1>2, <2>3, <3>1, <3>2
  <2>4. CASE r # s
    <3>1. PPStreamIsFull'[p][r] = PPStreamIsFull[p][r]  BY <2>1, <2>4
    <3>2. Streams[p][r].number # m + 1  BY <1>2, <2>4
    <3>3. Streams[p][r].number \in m + 1 .. sent[p] <=>
            Streams[p][r].number \in (m + 1) + 1 .. sent[p]
      BY <1>1, <2>1, <3>2
    <3> QED  BY <2>2, <3>1, <3>3
  <2> QED  BY <2>3, <2>4
<1>6. \A i \in (m + 1) + 1 .. sent[p] : i \in m + 1 .. sent[p]
  BY <1>1
<1>7. \A k \in DOMAIN tokens'[p] : tokens'[p][k] = [read |-> k, label |-> k]
  <2>1. \A k \in 1 .. m : tokens[p][k] = [read |-> k, label |-> k]
    BY <1>1 DEF StreamInv
  <2>2. \A k \in 1 .. m + 1 : k = m + 1 \/ k \in 1 .. m  BY <1>1
  <2> QED  BY <1>3, <2>1, <2>2
<1>8. /\ WStreamNum[p] = sent[p] % STREAMNUM
      /\ \A r \in Slot : Streams[p][r].number # 0 =>
           Streams[p][r].number =< sent[p] /\ (Streams[p][r].number - 1) % STREAMNUM = r
      /\ \A n \in m + 1 .. sent[p] :
           /\ Streams[p][(n - 1) % STREAMNUM].number = n
           /\ Streams[p][(n - 1) % STREAMNUM].flag \in {"same", "end"}
  BY DEF StreamInv, m
<1>9. \A n \in (m + 1) + 1 .. sent[p] :
           /\ Streams[p][(n - 1) % STREAMNUM].number = n
           /\ Streams[p][(n - 1) % STREAMNUM].flag \in {"same", "end"}
  BY <1>6, <1>8
<1> QED  BY <1>2, <1>3, <1>4, <1>5, <1>7, <1>8, <1>9 DEF StreamInv

-----------------------------------------------------------------------------
\* The task that ends is its process' only one: what it frees and where it goes
\* on is no other task's, although the buffer may not be its own.
LEMMA EndInv ==
  ASSUME IInv, NEW t \in Threads, EndTask(t)
  PROVE  IInv'
<1> DEFINE x == Head(stack[t])
           p == x.proc
           s == ThrLRStreamNum[t]
           buffer == Streams[p][s]
<1>1. /\ stack[t] # <<>> /\ stack' = [stack EXCEPT ![t] = Tail(@)]
      /\ disturbed' = IF s = x.slot THEN disturbed ELSE disturbed \cup {p}
      /\ UNCHANGED <<Streams, WStreamNum, sent, ThrLRStreamNum, batch, pending>>
  BY DEF EndTask, writing
<1>2. \/ /\ buffer.flag \in {"same", "end"}
         /\ PPStreamIsFull' = [PPStreamIsFull EXCEPT ![p][s] = FALSE]
         /\ ProcRStreamNum' = [ProcRStreamNum EXCEPT ![p] = (@ + 1) % STREAMNUM]
         /\ tokens' = [tokens EXCEPT ![p] =
                         Append(@, [read |-> x.read, label |-> buffer.number])]
      \/ /\ buffer.flag \notin {"same", "end"}
         /\ UNCHANGED <<PPStreamIsFull, ProcRStreamNum, tokens>>
  BY DEF EndTask
<1>3. TypeOK /\ OneTask /\ BatchInv /\ BufferHeld /\ Undisturbed /\ stack[t] \in Seq(Tasks)
  BY DEF IInv, TypeOK
<1>4. /\ x = stack[t][1] /\ 1 \in DOMAIN stack[t] /\ Tail(stack[t]) \in Seq(Tasks)
      /\ \A k \in DOMAIN Tail(stack[t]) :
           k + 1 \in DOMAIN stack[t] /\ k + 1 # 1 /\ Tail(stack[t])[k] = stack[t][k + 1]
  BY <1>1, <1>3, Pop
<1> HIDE DEF x
<1>5. x \in Tasks  BY <1>3, <1>4
<1>6. /\ p \in Proc /\ x.slot \in Slot /\ x.read \in Nat /\ s \in Slot
      /\ buffer.number \in Nat
  BY <1>3, <1>5 DEF Tasks, TypeOK, Buffer
<1>7. PPStreamIsFull[p][x.slot] /\ Streams[p][x.slot].number = x.read
  BY <1>3, <1>4 DEF BufferHeld
<1> DEFINE old(u, k) == IF u = t THEN k + 1 ELSE k
<1>8. ASSUME NEW u \in Threads, NEW k \in DOMAIN stack'[u]
      PROVE  /\ old(u, k) \in DOMAIN stack[u] /\ stack'[u][k] = stack[u][old(u, k)]
             /\ k \in Nat /\ ~ (u = t /\ old(u, k) = 1)
  <2>1. stack \in [Threads -> Seq(Tasks)]  BY <1>3 DEF TypeOK
  <2>2. CASE u = t
    <3>1. stack'[u] = Tail(stack[t])  BY <1>1, <2>1, <2>2
    <3>2. k \in Nat  BY <1>4, <3>1
    <3> QED  BY <1>4, <2>2, <3>1, <3>2
  <2>3. CASE u # t
    <3>1. stack'[u] = stack[u]  BY <1>1, <2>1, <2>3
    <3> QED  BY <2>1, <2>3, <3>1
  <2> QED  BY <2>2, <2>3
<1>9. ASSUME NEW u \in Threads, NEW k \in DOMAIN stack'[u]
      PROVE  stack'[u][k].proc # p /\ stack'[u][k] \in Tasks
  <2>1. old(u, k) \in DOMAIN stack[u] /\ stack'[u][k] = stack[u][old(u, k)]
    BY <1>8
  <2>2. ~ (u = t /\ old(u, k) = 1)  BY <1>8
  <2> HIDE DEF old
  <2>3. stack[u][old(u, k)].proc # stack[t][1].proc
    BY <1>3, <1>4, <2>1, <2>2 DEF OneTask
  <2>4. stack[u][old(u, k)] \in Tasks  BY <1>3, <2>1 DEF TypeOK
  <2> QED  BY <1>4, <2>1, <2>3, <2>4
<1> HIDE DEF old
<1>10. \A q \in Proc \ {p} : /\ PPStreamIsFull'[q] = PPStreamIsFull[q]
                             /\ ProcRStreamNum'[q] = ProcRStreamNum[q] /\ tokens'[q] = tokens[q]
  BY <1>2, <1>3 DEF TypeOK
<1>11. TypeOK'
  <2>1. stack' \in [Threads -> Seq(Tasks)]  BY <1>1, <1>3, <1>4 DEF TypeOK
  <2>2. disturbed' \subseteq Proc  BY <1>1, <1>3, <1>6 DEF TypeOK
  <2>3. PPStreamIsFull' \in [Proc -> [Slot -> BOOLEAN]]
    <3> HIDE DEF p, s, buffer
    <3>1. [PPStreamIsFull[p] EXCEPT ![s] = FALSE] \in [Slot -> BOOLEAN]
      BY <1>3, <1>6 DEF TypeOK
    <3>2. \/ PPStreamIsFull' = PPStreamIsFull
          \/ PPStreamIsFull' = [PPStreamIsFull EXCEPT ![p] = [PPStreamIsFull[p] EXCEPT ![s] = FALSE]]
      BY <1>2
    <3> QED  BY <1>3, <3>1, <3>2 DEF TypeOK
  <2>4. ProcRStreamNum' \in [Proc -> Slot]
    <3>1. (ProcRStreamNum[p] + 1) % STREAMNUM \in Slot
      BY <1>3, <1>6, NextInRing DEF TypeOK
    <3> QED  BY <1>2, <1>3, <3>1 DEF TypeOK
  <2>5. tokens' \in [Proc -> Seq(Token)]
    <3>1. [read |-> x.read, label |-> buffer.number] \in Token  BY <1>6 DEF Token
    <3>2. Append(tokens[p], [read |-> x.read, label |-> buffer.number]) \in Seq(Token)
      BY <1>3, <1>6, <3>1 DEF TypeOK
    <3> HIDE DEF p, buffer
    <3> QED  BY <1>2, <1>3, <3>2 DEF TypeOK
  <2> QED  BY <1>1, <1>3, <2>1, <2>2, <2>3, <2>4, <2>5 DEF TypeOK
<1>12. OneTask'
  <2> SUFFICES ASSUME NEW u \in Threads, NEW v \in Threads,
                      NEW k \in DOMAIN stack'[u], NEW l \in DOMAIN stack'[v]
               PROVE  /\ stack'[u][k].proc \notin pending'
                      /\ stack'[u][k].proc = stack'[v][l].proc => u = v /\ k = l
    BY DEF OneTask
  <2>1. /\ old(u, k) \in DOMAIN stack[u] /\ stack'[u][k] = stack[u][old(u, k)] /\ k \in Nat
        /\ old(v, l) \in DOMAIN stack[v] /\ stack'[v][l] = stack[v][old(v, l)] /\ l \in Nat
    BY <1>8
  <2>2. /\ stack'[u][k].proc \notin pending
        /\ stack'[u][k].proc = stack'[v][l].proc => u = v /\ old(u, k) = old(v, l)
    BY <1>3, <2>1 DEF OneTask
  <2>3. u = v /\ old(u, k) = old(v, l) => k = l  BY <2>1 DEF old
  <2> QED  BY <1>1, <2>2, <2>3
<1>13. BatchInv'
  <2>1. ~ batch => \A u \in Threads : stack[u] = <<>>  BY <1>3 DEF BatchInv
  <2>2. batch  BY <1>1, <2>1
  <2> QED  BY <1>1, <2>2 DEF BatchInv
<1>14. BufferHeld'
  <2> SUFFICES ASSUME NEW u \in Threads, NEW k \in DOMAIN stack'[u]
               PROVE  LET task == stack'[u][k]
                      IN /\ PPStreamIsFull'[task.proc][task.slot]
                         /\ Streams[task.proc][task.slot].number = task.read
    BY <1>1 DEF BufferHeld
  <2>1. stack'[u][k].proc \in Proc \ {p}  BY <1>9 DEF Tasks
  <2>2. old(u, k) \in DOMAIN stack[u] /\ stack'[u][k] = stack[u][old(u, k)]  BY <1>8
  <2>3. /\ PPStreamIsFull[stack'[u][k].proc][stack'[u][k].slot]
        /\ Streams[stack'[u][k].proc][stack'[u][k].slot].number = stack'[u][k].read
    BY <1>3, <2>2 DEF BufferHeld
  <2> QED  BY <1>10, <2>1, <2>3
<1>15. ASSUME NEW q \in Proc \ disturbed' PROVE StreamInv(q)' /\ TaskInv(q)'
  <2>1. q \in Proc \ disturbed /\ StreamInv(q) /\ TaskInv(q)
    BY <1>1, <1>3 DEF Undisturbed
  <2>2. CASE q # p
    <3>1. StreamInv(q)'  BY <1>1, <1>10, <2>1, <2>2, Elsewhere
    <3>2. TaskInv(q)'
      <4> SUFFICES ASSUME NEW u \in Threads, NEW k \in DOMAIN stack'[u], stack'[u][k].proc = q
                   PROVE  stack'[u][k].slot = ProcRStreamNum[q]
        BY <1>10, <2>1, <2>2 DEF TaskInv
      <4>1. old(u, k) \in DOMAIN stack[u] /\ stack'[u][k] = stack[u][old(u, k)]  BY <1>8
      <4> QED  BY <2>1, <4>1 DEF TaskInv
    <3> QED  BY <3>1, <3>2
  <2>3. CASE q = p
    <3>1. s = x.slot /\ x.slot = ProcRStreamNum[p]
      <4>1. s = x.slot  BY <1>1, <2>3
      <4>2. stack[t][1].proc = q => stack[t][1].slot = ProcRStreamNum[q]
        BY <1>4, <2>1 DEF TaskInv
      <4> QED  BY <1>4, <2>3, <4>1, <4>2
    <3>2. /\ Streams[p][s].number = Len(tokens[p]) + 1
          /\ Streams[p][s].flag \in {"same", "end"}
      <4> HIDE DEF p, s
      <4> QED  BY <1>3, <1>6, <1>7, <2>1, <2>3, <3>1, FreeStream
    <3>3. /\ PPStreamIsFull'[q] = [PPStreamIsFull[q] EXCEPT ![s] = FALSE]
          /\ ProcRStreamNum'[q] = (s + 1) % STREAMNUM
          /\ tokens'[q] = Append(tokens[q], [read |-> Len(tokens[q]) + 1,
                                             label |-> Len(tokens[q]) + 1])
      <4>1. x.read = buffer.number /\ buffer.number = Len(tokens[q]) + 1
        BY <1>7, <2>3, <3>1, <3>2
      <4>2. /\ PPStreamIsFull' = [PPStreamIsFull EXCEPT ![p][s] = FALSE]
            /\ ProcRStreamNum' = [ProcRStreamNum EXCEPT ![p] = (@ + 1) % STREAMNUM]
            /\ tokens' = [tokens EXCEPT ![p] =
                            Append(@, [read |-> x.read, label |-> buffer.number])]
        BY <1>2, <3>2
      <4> HIDE DEF p, s, buffer
      <4> QED  BY <1>3, <1>6, <2>3, <3>1, <4>1, <4>2 DEF TypeOK
    <3>4. StreamInv(q)'
      <4> HIDE DEF p, s, buffer
      <4> QED  BY <1>1, <1>3, <1>6, <1>7, <2>1, <2>3, <3>1, <3>3, FreeStreamInv
    <3>5. TaskInv(q)'  BY <1>9, <2>3 DEF TaskInv
    <3> QED  BY <3>4, <3>5
  <2> QED  BY <2>2, <2>3
<1>16. Undisturbed'
  <2>1. \A q \in Proc \ disturbed' : StreamInv(q)' /\ TaskInv(q)'  BY <1>15
  <2> QED  BY <2>1 DEF Undisturbed
<1> QED  BY <1>11, <1>12, <1>13, <1>14, <1>16 DEF IInv

\* Every step keeps the invariant.
LEMMA NextIInv == IInv /\ [Next]_vars => IInv'
<1> SUFFICES ASSUME IInv, [Next]_vars PROVE IInv'
  OBVIOUS
<1>1. ASSUME UNCHANGED vars PROVE IInv'
  <2>1. UNCHANGED <<Streams, PPStreamIsFull, WStreamNum, ProcRStreamNum, ThrLRStreamNum, batch,
                    pending, stack, sent, tokens, disturbed>>
    BY <1>1 DEF vars, writing, running
  <2>2. TypeOK' /\ OneTask' /\ BatchInv' /\ BufferHeld'
    BY <2>1 DEF IInv, TypeOK, OneTask, BatchInv, BufferHeld
  <2>3. Undisturbed'  BY <2>1, Elsewhere DEF IInv, Undisturbed, TaskInv
  <2> QED  BY <2>2, <2>3 DEF IInv
<1>2. ASSUME NEW p \in Proc, Publish(p) PROVE IInv'  BY <1>2, PublishInv
<1>3. ASSUME StartBatch \/ EndBatch PROVE IInv'  BY <1>3, BatchSteps
<1>4. ASSUME NEW t \in Threads, NEW p \in Proc, BeginTask(t, p) PROVE IInv'
  BY <1>4, BeginInv
<1>5. ASSUME NEW t \in Threads, EndTask(t) PROVE IInv'  BY <1>5, EndInv
<1> QED  BY <1>1, <1>2, <1>3, <1>4, <1>5 DEF Next, Task

-----------------------------------------------------------------------------
\* The invariant of the tasks and the buffers, which the others follow from.
THEOREM Invariance == Spec => []IInv
BY InitIInv, NextIInv, PTL DEF Spec

\* Every variable keeps its type; the numbers of buffers stay slots.
THEOREM TypeCorrect == Spec => []TypeOK
<1>1. IInv => TypeOK
  BY DEF IInv
<1> QED BY Invariance, <1>1, PTL

\* The buffer a parreadlida task is analysing is not freed and not written to,
\* however many tasks its thread runs meanwhile.
THEOREM HeldCorrect == Spec => []BufferHeld
<1>1. IInv => BufferHeld
  BY DEF IInv
<1> QED BY Invariance, <1>1, PTL

\* The streams of the processes none of whose tasks went on with another's buffer
\* number are read in order and without loss, whatever happens to the others.
THEOREM IsolationCorrect == Spec => []Isolated
<1>1. IInv => Isolated
  BY DEF IInv, Undisturbed, StreamInv, Isolated
<1> QED BY Invariance, <1>1, PTL
=============================================================================
