-------------------------- MODULE LightShadowProps --------------------------
(***************************************************************************)
(* What the reported dependences of the light-shadow profiler say about    *)
(* the profiled program.                                                   *)
(***************************************************************************)
EXTENDS LightShadowHistory

\* Loop-independent flow dependences are exact: __determinReadLID reports, for
\* every byte read, the last instruction that wrote it in the iteration, and
\* nothing else.
LITrueExact == {d \in liDeps : d[1] = "True"} = LITrueDeps

\* A reported loop-independent output dependence is real: its source was the
\* last to write some byte before its sink wrote it in the same iteration.  (That
\* all are reported, as "Look for Loop independent output dependences.",
\* LDDLightShadowRT.cpp:2446, promises, is not so: the word must have been read.)
LIOutSound == {d \in liDeps : d[1] = "Out"} \subseteq LIOutDeps

\* No loop-independent anti dependence of a first read is lost: whoever writes,
\* later in the iteration, a byte whose first access was a read is reported.
LIAntiComplete ==
  \A i \in Reads, j \in Writes :
    (/\ i < j /\ SameIteration(i, j)
     /\ \E b \in SharedBytes(i, j) : FirstAccess(i, b))
      => Dep("Anti", i, j) \in liDeps

\* A reported loop-carried dependence is a real one, at its real distance; when
\* its source ran before iteration 3, where the runtime does not analyse, the
\* distance may be too small.  An access that crosses pages is left out, since
\* the analysis may not reach its second word.
LCSound ==
  (\A i \in Acc : ~ CrossesPage(i)) => \A k \in DepKey : lcDist[k] # 0 =>
    \E i, j \in Acc :
      /\ CarriedPair(k[1], i, j) /\ Dep(k[1], i, j) = k
      /\ \/ lcDist[k] = Distance(i, j)
         \/ /\ hist[i].iter < FirstAnalysedIter
            /\ 0 < lcDist[k] /\ lcDist[k] =< Distance(i, j)

\* From iteration 3 on no loop-carried dependence between last writes and first
\* reads is lost once its sink's iteration has ended, and the distance reported
\* is not larger than its own.
LCComplete ==
  \A kind \in DepKind : \A i, j \in Acc :
    (/\ CarriedPair(kind, i, j)
     /\ hist[i].iter >= FirstAnalysedIter
     /\ \E b \in SharedBytes(i, j) : KeptPair(kind, i, j, b)
     /\ Analyzed(j))
      => lcDist[Dep(kind, i, j)] \in 1 .. Distance(i, j)

\* LDDLightShadowRT.h:117, "Last write": the present write table names, for every
\* byte written so far in the current iteration, the instruction that wrote it
\* last, and no other instruction for that iteration.
LastWriteKept ==
  \A i \in Writes : \A b \in hist[i].bytes :
    (/\ LDDProfLoopID # 0
     /\ hist[i].session = sessions /\ hist[i].iter = LDDProfLoopIter
     /\ LastWrite(i, b))
      => {n.pc : n \in {m \in shadow[FirstWord(b)].WTrace : m.age = 0 /\ Offset(b) \in m.mask}}
           = {hist[i].pc}

-----------------------------------------------------------------------------
(***************************************************************************)
(* What comments of the source say, and the code does not do.              *)
(***************************************************************************)
\* LDDLightShadowRT.cpp:2641: a word whose RWIter is LDDProfLoopIter has been
\* accessed in the same iteration.
SameIterationKnown ==
  \A w \in Word : (LDDProfLoopID # 0 /\ shadow[w].RWIter = LDDProfLoopIter) =>
    \E i \in Acc : /\ hist[i].session = sessions /\ hist[i].iter = LDDProfLoopIter
                   /\ \E b \in hist[i].bytes : FirstWord(b) = w
=============================================================================
