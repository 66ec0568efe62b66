------------------------- MODULE ParallelTraceProps -------------------------
(***************************************************************************)
(* The dependences that ParallelTrace finds, against those of the program. *)
(* What they are depends on whether the analysis has emptied the present   *)
(* tables before they are used again, which it does not always do.         *)
(***************************************************************************)
EXTENDS ParallelTrace

Nodes == [pc : PC, mask : (SUBSET (0 .. 7)) \ {{}}]

PrecedeNodes == [pc : PC, mask : (SUBSET (0 .. 7)) \ {{}}, iter : Iter]

\* What a list and its mask keep true of each other: the bytes of a read that is
\* listed are in the mask, and a mask is empty if its list is, or the next write
\* would follow a NULL pointer (WIDPtr->RWMask).
TableOK(t) ==
  /\ t.RWIter \in 0 .. NumIters
  /\ Range(t.RTrace) \cup Range(t.WTrace) \subseteq Nodes
  /\ t.GlobalReadMask # {} => t.RTrace # <<>>
  /\ t.GlobalWriteMask # {} => t.WTrace # <<>>

\* The tables hold nodes of instructions and bytes of the word, and no update
\* follows a NULL pointer.
TypeOK ==
  /\ trace.state \in {"null", "raw", "ready"}
  /\ trace.state = "ready" =>
       /\ \A t \in Table : TableOK(trace.Present[t])
       /\ trace.PrecedeR \cup trace.PrecedeW \subseteq PrecedeNodes
  /\ torn \subseteq Iter /\ by \in [Iter -> 0 .. NumIters]

\* Where LCDAFilter looks for the Trace of a word there is one that is filled in,
\* although it works at the same time as the tasks that allocate.
AnalysisSeesTrace ==
  \A k \in DOMAIN inputs : inputs[k].word => trace.state = "ready"

-----------------------------------------------------------------------------
\* The accesses of iteration i, in order
Of(i) == accesses[i]

TableOf(i) ==
  <<owner[i], Cardinality({k \in Iter : k < i /\ owner[k] = owner[i]}) % PRESNUM>>

\* The loop-carried analysis gets to know the word: its first access in the
\* iteration is a read, and not the first of all.
Known(i) == Of(i) # <<>> /\ ~ Head(Of(i)).pc.write /\ Head(Of(i)).found

\* The table of iteration i has been emptied, or never filled.
Released(i) == Of(i) = <<>> \/ (by[i] # 0 /\ by[i] \notin torn /\ Known(by[i]))

\* Iteration i found its table empty, and no task has lost its Trace.
Clean(i) ==
  /\ i \notin torn
  /\ \A k \in Iter : k < i /\ TableOf(k) = TableOf(i) => k \notin torn /\ Released(k)

-----------------------------------------------------------------------------
Covers(a, b) == b \in RWMask(a.pc.len)

\* Within iteration i, access l reads or writes a byte that access k has written,
\* and nothing has written in between.
LastWriteOf(i, k, l) ==
  /\ k < l /\ Of(i)[k].pc.write
  /\ \E b \in 0 .. 7 :
       /\ Covers(Of(i)[k], b) /\ Covers(Of(i)[l], b)
       /\ \A j \in k + 1 .. l - 1 : ~ (Of(i)[j].pc.write /\ Covers(Of(i)[j], b))

\* A write that is shorter than one before it in its iteration: updatePresentWTrace
\* takes its bytes from the older node, and so does not insert it, although "The
\* write operation is last, so it must be inserted here." (2832).
Shadowed(i, k) == \E j \in 1 .. k - 1 : Of(i)[j].pc.write /\ Of(i)[j].pc.len > Of(i)[k].pc.len

\* In an iteration that starts with an empty table, the loop-independent flow
\* dependences are those of the program but for those of writes that are shorter
\* than an earlier one, and output dependences are of the program.
LIDExact ==
  \A i \in Iter : Clean(i) =>
    LET found(kind) == {<<d.dep.src, d.dep.sink>> : d \in {e \in LID : e.iter = i /\ e.dep.kind = kind}}
        n == Len(Of(i))
        pairs == {kl \in (1 .. n) \X (1 .. n) : LastWriteOf(i, kl[1], kl[2])}
        of(S) == {<<Of(i)[kl[1]].pc, Of(i)[kl[2]].pc>> : kl \in S}
        reads == {kl \in pairs : ~ Of(i)[kl[2]].pc.write}
    IN /\ of({kl \in reads : ~ Shadowed(i, kl[1])}) \subseteq found("True")
       /\ found("True") \subseteq of(reads)
       /\ found("Out") \subseteq of(pairs \ reads)

\* A loop-carried dependence is found between an instruction that accessed the
\* word in the sink's iteration, or in an earlier one that used its table, and one
\* that did so in an earlier iteration; its distance is that of the inputs with
\* which the two were analysed.
LCDSound ==
  \A d \in LCD :
    LET tookPart(pc, i) == \E k \in Iter : /\ k =< i /\ TableOf(k) = TableOf(i)
                                           /\ \E a \in Range(Of(k)) : a.pc = pc
    IN /\ tookPart(d.sink, d.iter)
       /\ \E i \in 1 .. d.iter - 1 :
            by[i] # 0 /\ tookPart(d.src, i) /\ d.dist = by[d.iter] - by[i]

\* The first read and the last write of an iteration
FirstRead(i) == Head(Of(i))
Writes(i) == {k \in DOMAIN Of(i) : Of(i)[k].pc.write}
HasLastWrite(i) ==
  Writes(i) # {} /\ \A k \in Writes(i) : (\A l \in Writes(i) : l =< k) => ~ Shadowed(i, k)
LastWrite(i) == Of(i)[CHOOSE k \in Writes(i) : \A l \in Writes(i) : l =< k]

\* Between iterations that the analysis knows, with their own inputs and tables,
\* the dependence of the last write and the first read is found, with the distance
\* of the last iteration that has such a node.
LCDComplete ==
  \A i, j \in Iter :
    /\ i < j /\ \A k \in {i, j} : Clean(k) /\ Known(k) /\ by[k] = k
    =>
    LET isFound(kind, src, sink) ==
          \E d \in LCD : /\ d.kind = kind /\ d.src = src /\ d.sink = sink
                         /\ d.iter = j /\ d.dist \in 1 .. j - i
    IN /\ HasLastWrite(i) => isFound("True", LastWrite(i).pc, FirstRead(j).pc)
       /\ HasLastWrite(j) => isFound("Anti", FirstRead(i).pc, LastWrite(j).pc)
       /\ HasLastWrite(i) /\ HasLastWrite(j)
            => isFound("Out", LastWrite(i).pc, LastWrite(j).pc)

-----------------------------------------------------------------------------
\* LDDParallelAnalysis.cpp:2992 says "The PresentRWTrace is released when doing
\* the LCDA.": a present table is empty when LCDAFilter frees it.
ReleasedByLCDA ==
  [][\A t \in Table : PresIsFull[t] /\ ~ PresIsFull'[t] /\ trace.state = "ready"
       => trace'.Present[t] = EmptyTable]_vars
=============================================================================
