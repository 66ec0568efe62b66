--------------------------- MODULE HashTraceProps ---------------------------
(***************************************************************************)
(* What the hash profiler promises: the dependences it reports against     *)
(* those the program has had.  A dependence is between accesses to one     *)
(* address that use the same bucket; accesses of different lengths to one  *)
(* address have different nodes and are not compared.                      *)
(***************************************************************************)
EXTENDS HashTrace

Iter == 0 .. MaxIter
Dep   == [type : DepType, src : Ids, sink : Ids]
LCDep == [type : DepType, src : Ids, sink : Ids, dist : Int]

Frame == [loop : Loops \cup {0}, DDABeginCurFunc : {0, 1}]

\* An access of the history
AccessRecord ==
  [exec : 1 .. MaxEntries, loop : Loops, iter : Iter \ {0}, op : Op, node : Nodes, id : Ids]

\* The profiler is on only in a loop that has a buffer and counts from 1.
\* (HashRWTrace is written without a test of MaxProfilingLoopID.)
TypeOK ==
  /\ DDAProfilingFlag \in MaxProfilingLoopID \cup {0}
  /\ ProfilingLoopIterID \in Iter
  /\ DDAProfilingFlag # 0 => ProfilingLoopIterID > 0 /\ entries[DDAProfilingFlag] > 0
  /\ frames \in Seq(Frame) /\ Len(frames) \in 1 .. MaxDepth
  /\ MaxProfilingLoopID \subseteq Loops
  /\ HashRWTrace \in [Loops -> [Op -> [Nodes -> [Ids -> [{0, 1} -> Iter]]]]]
  /\ LDDepResult \in [Loops -> [LID : SUBSET Dep, LCD : SUBSET LCDep]]
  /\ printed.done \in BOOLEAN
  /\ entries \in [Loops -> 0 .. MaxEntries]
  /\ accesses \subseteq AccessRecord
  /\ left \in BOOLEAN

-----------------------------------------------------------------------------
\* Unless an exception has left a profiled loop, the profiler is on exactly while
\* one active function is in the loop it profiles, however loops and calls nest
\* (recursive calls enter the same loop again), and that function is the only one
\* whose DDABeginCurFunc is set: the only one that counts iterations.
FlagInv ==
  ~ left =>
    /\ \A k \in 1 .. Len(frames) :
         frames[k].DDABeginCurFunc = 1 =>
           DDAProfilingFlag # 0 /\ frames[k].loop = DDAProfilingFlag
    /\ \A j, k \in 1 .. Len(frames) :
         frames[j].DDABeginCurFunc = 1 /\ frames[k].DDABeginCurFunc = 1 => j = k
    /\ DDAProfilingFlag # 0 => \E k \in 1 .. Len(frames) : frames[k].DDABeginCurFunc = 1

\* Nothing is recorded from the future: in the present execution of the profiled
\* loop no access is later than ProfilingLoopIterID; and only loops that have a
\* buffer have accesses.  (The strengthening the proofs need.)
HistoryInv ==
  \A a \in accesses :
    /\ a.loop \in MaxProfilingLoopID
    /\ a.exec =< entries[a.loop]
    /\ a.exec = entries[a.loop] /\ DDAProfilingFlag = a.loop => a.iter =< ProfilingLoopIterID

\* The RWIterNo of an instruction with the accesses Of, Now of them in the present
\* execution: RWIterNo[0] is the last iteration of Now, if there is one, and
\* RWIterNo[1] the one before, if there is one; otherwise they are of some accesses,
\* and only an instruction without any has none.
Kept(no, Of, Now) ==
  /\ no[0] = 0 => no[1] = 0 /\ Of = {}
  /\ no[0] # 0 => \A i \in {0, 1} : \E a \in Of : a.iter = no[i]
  /\ \A a \in Now : a.iter =< no[0] /\ \E b \in Now : b.iter = no[0]
  /\ \A a \in Now : a.iter < no[0] =>
       a.iter =< no[1] /\ no[1] < no[0] /\ \E b \in Now : b.iter = no[1]

AccessesOf(loop, op, node, id) ==
  {a \in accesses : a.loop = loop /\ a.op = op /\ a.node = node /\ a.id = id}
PresentOf(loop, op, node, id) ==
  {a \in AccessesOf(loop, op, node, id) : a.exec = entries[loop]}

\* The nodes keep the two last iterations of the present execution, although the
\* table is never emptied and every execution counts from 1.
LatestKept ==
  \A loop \in Loops, op \in Op, node \in Nodes, id \in Ids :
    Kept(HashRWTrace[loop][op][node][id],
         AccessesOf(loop, op, node, id), PresentOf(loop, op, node, id))

\* Two accesses of one execution of a loop that a loop-carried dependence of this
\* type connects, with no access of the source between: a in the last iteration
\* before b's in which its instruction has accessed the node
Nearest(a, b) ==
  /\ a.loop = b.loop /\ a.exec = b.exec /\ a.node = b.node /\ a.iter < b.iter
  /\ \A c \in accesses :
       c.loop = a.loop /\ c.exec = a.exec /\ c.node = a.node /\ c.op = a.op /\ c.id = a.id =>
         ~ (a.iter < c.iter /\ c.iter < b.iter)

Carried(a, b) ==
  {[type |-> t.type, src |-> a.id, sink |-> b.id, dist |-> b.iter - a.iter] :
     t \in {u \in Analyze(b.op) : u.with = a.op}}

\* No loop-carried dependence is lost: for every access and every instruction that
\* has accessed its node in an earlier iteration, the least distance is reported,
\* although only two iterations per instruction are kept, accesses of many
\* iterations interleave, and the table still has what earlier executions left.
LCComplete ==
  \A a, b \in accesses : Nearest(a, b) => Carried(a, b) \subseteq LDDepResult[b.loop].LCD

\* Every reported loop-carried dependence is one between two accesses to one node
\* with this difference of iterations; what is not of one execution of the loop
\* is of an earlier one and the present one: then the distance may be anything.
LCSound ==
  \A loop \in Loops : \A d \in LDDepResult[loop].LCD :
    \E a, b \in accesses :
      /\ a.loop = loop /\ b.loop = loop /\ a.node = b.node
      /\ d \in Carried(a, b) /\ d.dist # 0
      /\ (a.exec = b.exec /\ d.dist > 0) \/ a.exec < b.exec

\* The loop-independent dependences of a loop that was executed once are exactly
\* those the program has had; in later executions none is lost.
LIExact ==
  \A loop \in Loops :
    LET real == {[type |-> p.type, src |-> p.src, sink |-> p.sink] :
                   p \in {q \in liPairs : q.loop = loop}}
    IN /\ real \subseteq LDDepResult[loop].LID
       /\ entries[loop] =< 1 => LDDepResult[loop].LID \subseteq real

\* The output has every loop-carried dependence of the program whose source comes
\* before s.addr in the order of the output.
OutputComplete ==
  printed.done =>
    \A a, b \in accesses :
      Nearest(a, b) /\ (\A s \in SAddr : a.id < s) => Carried(a, b) \subseteq printed.deps[b.loop]

=============================================================================
