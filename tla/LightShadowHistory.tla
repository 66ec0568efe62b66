------------------------- MODULE LightShadowHistory -------------------------
(***************************************************************************)
(* The light-shadow profiler together with the history of the accesses of  *)
(* the profiled program, and what the reported dependences mean in terms   *)
(* of that history.                                                        *)
(***************************************************************************)
EXTENDS LightShadow, Sequences

CONSTANT MaxAccess    \* bound on the profiled accesses

VARIABLE hist         \* the profiled accesses, in program order

hvars == <<vars, hist>>

Record(op, pc, addr, len) ==
  /\ Len(hist) < MaxAccess
  /\ hist' = Append(hist, [op |-> op, pc |-> pc, bytes |-> addr .. addr + len - 1,
                           iter |-> LDDProfLoopIter, session |-> sessions])

ProfiledLoad(pc, addr, len)  == Load(pc, addr, len) /\ Record("R", pc, addr, len)
ProfiledStore(pc, addr, len) == Store(pc, addr, len) /\ Record("W", pc, addr, len)

HInit == Init /\ hist = <<>>

HNext ==
  \/ \E pc \in LoadPCs, al \in Access : ProfiledLoad(pc, al[1], al[2])
  \/ \E pc \in StorePCs, al \in Access : ProfiledStore(pc, al[1], al[2])
  \/ EnterLoop /\ UNCHANGED hist
  \/ EndIteration /\ UNCHANGED hist
  \/ EndNestedIteration /\ UNCHANGED hist
  \/ ExitLoop /\ UNCHANGED hist

HSpec == HInit /\ [][HNext]_hvars

-----------------------------------------------------------------------------
(***************************************************************************)
(* What the program did.                                                   *)
(***************************************************************************)
Acc == DOMAIN hist
Writes == {i \in Acc : hist[i].op = "W"}
Reads  == {i \in Acc : hist[i].op = "R"}
SharedBytes(i, j) == hist[i].bytes \cap hist[j].bytes

SameIteration(i, j) ==
  hist[i].session = hist[j].session /\ hist[i].iter = hist[j].iter

\* The access has bytes in words of two pages, of which one is recorded
CrossesPage(i) ==
  \E b, c \in hist[i].bytes : PageOf(FirstWord(b)) # PageOf(FirstWord(c))

Distance(i, j) == hist[j].iter - hist[i].iter

\* j comes after i in the same iteration, and nothing in ks touches b between them
Adjacent(i, j, b, ks) ==
  /\ i < j /\ SameIteration(i, j) /\ b \in SharedBytes(i, j)
  /\ \A k \in ks : i < k /\ k < j => b \notin hist[k].bytes

\* i is the first access to b in its iteration; the last write to b in its iteration
FirstAccess(i, b) ==
  b \in hist[i].bytes
    /\ \A k \in Acc : k < i /\ SameIteration(k, i) => b \notin hist[k].bytes
LastWrite(i, b) ==
  i \in Writes /\ b \in hist[i].bytes
    /\ \A k \in Writes : i < k /\ SameIteration(i, k) => b \notin hist[k].bytes

\* Both ends of a loop-carried dependence of the kind
CarriedPair(kind, i, j) ==
  /\ hist[i].session = hist[j].session /\ hist[i].iter < hist[j].iter
  /\ SharedBytes(i, j) # {}
  /\ CASE kind = "True" -> i \in Writes /\ j \in Reads
       [] kind = "Anti" -> i \in Reads /\ j \in Writes
       [] kind = "Out"  -> i \in Writes /\ j \in Writes

\* The pairs the runtime promises to keep: last writes and first reads per byte
KeptPair(kind, i, j, b) ==
  CASE kind = "True" -> LastWrite(i, b) /\ j \in Reads /\ FirstAccess(j, b)
    [] kind = "Anti" -> i \in Reads /\ FirstAccess(i, b) /\ LastWrite(j, b)
    [] kind = "Out"  -> LastWrite(i, b) /\ LastWrite(j, b)

Dep(kind, i, j) == <<kind, hist[i].pc, hist[j].pc>>

Analyzed(j) ==
  \/ LDDProfLoopID = 0
  \/ hist[j].session < sessions
  \/ hist[j].iter < LDDProfLoopIter

LITrueDeps ==
  {Dep("True", ij[1], ij[2]) :
     ij \in {ij \in Writes \X Reads : \E b \in SharedBytes(ij[1], ij[2]) :
                                        Adjacent(ij[1], ij[2], b, Writes)}}

LIOutDeps ==
  {Dep("Out", ij[1], ij[2]) :
     ij \in {ij \in Writes \X Writes : \E b \in SharedBytes(ij[1], ij[2]) :
                                         Adjacent(ij[1], ij[2], b, Writes)}}
=============================================================================
