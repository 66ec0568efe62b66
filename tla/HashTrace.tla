------------------------------ MODULE HashTrace ------------------------------
(***************************************************************************)
(* The hash profiler: the loop control inserted by                         *)
(* lib/Transforms/DDA/LDDHash.cpp and the runtime LDDHashRT.cpp.  Every    *)
(* accessed address has a node in a hash table of the profiled loop; the   *)
(* node keeps, for every instruction that has read or written the address, *)
(* the two last iterations in which it did.                                *)
(*                                                                         *)
(* The program is the environment: calls and returns of functions, loops   *)
(* entered and left, also through exceptions, and accesses in any order.   *)
(***************************************************************************)
EXTENDS Integers, Sequences, FiniteSets

CONSTANTS
  Loops,        \* the profiled loops, numbered from 1 as NumLoops does
  Accesses,     \* pairs of an address and a length in bytes
  Ids,          \* AddrPos and VarName of an instruction, in the order of Dep
  SAddr,        \* the Ids whose VarName is "s.addr"
  N,            \* entries of a hash table
  MaxIter,      \* bound on the iterations of one execution of a loop
  MaxAccess,    \* bound on the profiled accesses
  MaxEntries,   \* bound on the profiled executions of loops
  MaxDepth      \* bound on the calls within each other

ASSUME HashTraceAssumption ==
  /\ Loops \subseteq Nat \ {0}
  /\ Accesses \subseteq (Nat \ {0}) \X (Nat \ {0})
  /\ Ids \subseteq Nat /\ SAddr \subseteq Ids
  /\ N \in Nat \ {0}
  /\ {MaxAccess, MaxEntries} \subseteq Nat
  /\ {MaxIter, MaxDepth} \subseteq Nat \ {0}

Op == {"R", "W"}                       \* RTrace and WTrace of a node
DepType == {"True", "Anti", "Output"}

VARIABLES
  DDAProfilingFlag,     \* the loop that is profiled, or 0
  ProfilingLoopIterID,
  frames,               \* the active functions: loop they are in, DDABeginCurFunc
  MaxProfilingLoopID,   \* the loops that have a buffer
  HashRWTrace,
  LDDepResult,
  printed,              \* whether __outputdependence has run, and what it has written
  \* history
  entries,              \* profiled executions of every loop
  accesses,             \* the profiled accesses
  liPairs,              \* dependences within an iteration the program has had
  left                  \* TRUE once a profiled loop was left by an exception

control == <<DDAProfilingFlag, ProfilingLoopIterID, frames>>
tables  == <<MaxProfilingLoopID, HashRWTrace, LDDepResult>>
history == <<accesses, liPairs>>
vars    == <<control, tables, printed, entries, history, left>>

-----------------------------------------------------------------------------
(***************************************************************************)
(* The table.  lookupRWTraceInfo finds the node of an address in the chain *)
(* of its bucket or adds one, so that a node is a bucket and an address.   *)
(***************************************************************************)
Key(addr, AddrLen) == (addr \div 2 ^ (AddrLen \div 2)) % N
Node(access) == <<Key(access[1], access[2]), access[1]>>
Nodes == {Node(access) : access \in Accesses}

\* RWIterNo of an instruction that is not in the vector of a node
Absent == [i \in {0, 1} |-> 0]
EmptyTable == [op \in Op |-> [node \in Nodes |-> [id \in Ids |-> Absent]]]
NoDeps == [LID |-> {}, LCD |-> {}]

\* __addnewprofilingbuffer: the table of a loop is made once and kept
AddNewProfilingBuffer(loop) ==
  /\ MaxProfilingLoopID' = MaxProfilingLoopID \cup {loop}
  /\ HashRWTrace' = IF loop \in MaxProfilingLoopID THEN HashRWTrace
                    ELSE [HashRWTrace EXCEPT ![loop] = EmptyTable]
  /\ UNCHANGED LDDepResult

-----------------------------------------------------------------------------
(***************************************************************************)
(* Loop control, by the function on top of the stack.                      *)
(***************************************************************************)
Top == frames[Len(frames)]
SetTop(frame) == frames' = [frames EXCEPT ![Len(frames)] = frame]
Running == ~ printed.done

\* Mutation: the flag is not tested.
EnterLoopUntested(loop) ==
  /\ Running /\ Top.loop = 0
  /\ entries[loop] < MaxEntries
  /\ entries' = [entries EXCEPT ![loop] = @ + 1]
  /\ DDAProfilingFlag' = loop
  /\ ProfilingLoopIterID' = 1
  /\ SetTop([loop |-> loop, DDABeginCurFunc |-> 1])
  /\ AddNewProfilingBuffer(loop)
  /\ UNCHANGED <<printed, history, left>>

\* Mutation: the iterations are counted from 0.
EnterLoopFromZero(loop) ==
  /\ Running /\ Top.loop = 0
  /\ IF DDAProfilingFlag = 0
     THEN /\ entries[loop] < MaxEntries
          /\ entries' = [entries EXCEPT ![loop] = @ + 1]
          /\ DDAProfilingFlag' = loop
          /\ ProfilingLoopIterID' = 0
          /\ SetTop([loop |-> loop, DDABeginCurFunc |-> 1])
          /\ AddNewProfilingBuffer(loop)
     ELSE /\ SetTop([Top EXCEPT !.loop = loop])
          /\ UNCHANGED <<DDAProfilingFlag, ProfilingLoopIterID, tables, entries>>
  /\ UNCHANGED <<printed, history, left>>

\* ProfileIf: only the outermost of the loops entered is profiled
EnterLoop(loop) ==
  /\ Running /\ Top.loop = 0
  /\ IF DDAProfilingFlag = 0
     THEN /\ entries[loop] < MaxEntries
          /\ entries' = [entries EXCEPT ![loop] = @ + 1]
          /\ DDAProfilingFlag' = loop
          /\ ProfilingLoopIterID' = 1
          /\ SetTop([loop |-> loop, DDABeginCurFunc |-> 1])
          /\ AddNewProfilingBuffer(loop)
     ELSE /\ SetTop([Top EXCEPT !.loop = loop])
          /\ UNCHANGED <<DDAProfilingFlag, ProfilingLoopIterID, tables, entries>>
  /\ UNCHANGED <<printed, history, left>>

\* The body of a loop begins: ProfilingLoopIterID += DDABeginCurFunc
LoopBody ==
  /\ Running /\ Top.loop # 0
  /\ ProfilingLoopIterID + Top.DDABeginCurFunc =< MaxIter
  /\ ProfilingLoopIterID' = ProfilingLoopIterID + Top.DDABeginCurFunc
  /\ UNCHANGED <<DDAProfilingFlag, frames, tables, printed, entries, history, left>>

\* ProfileExitIf
ExitLoop ==
  /\ Running /\ Top.loop # 0
  /\ SetTop([loop |-> 0, DDABeginCurFunc |-> 0])
  /\ DDAProfilingFlag' = IF Top.DDABeginCurFunc = 1 THEN 0 ELSE DDAProfilingFlag
  /\ UNCHANGED <<ProfilingLoopIterID, tables, printed, entries, history, left>>

\* A function is called; DDABeginCurFunc = 0 at its start
Call ==
  /\ Running /\ Len(frames) < MaxDepth
  /\ frames' = Append(frames, [loop |-> 0, DDABeginCurFunc |-> 0])
  /\ UNCHANGED <<DDAProfilingFlag, ProfilingLoopIterID, tables, printed, entries, history, left>>

Return ==
  /\ Running /\ Len(frames) > 1 /\ Top.loop = 0
  /\ frames' = SubSeq(frames, 1, Len(frames) - 1)
  /\ UNCHANGED <<DDAProfilingFlag, ProfilingLoopIterID, tables, printed, entries, history, left>>

\* An exception is caught in frame k, in its loop or behind it: the edges of an
\* invoke are not instrumented, and DDABeginCurFunc of k keeps its value
Unwind(k) ==
  /\ Running /\ k \in 1 .. Len(frames)
  /\ \E loop \in {0, frames[k].loop} :
       /\ frames' = Append(SubSeq(frames, 1, k - 1), [frames[k] EXCEPT !.loop = loop])
       /\ left' = (left \/ \E j \in k .. Len(frames) :
                             frames[j].DDABeginCurFunc = 1 /\ (j > k \/ loop = 0))
  /\ UNCHANGED <<DDAProfilingFlag, ProfilingLoopIterID, tables, printed, entries, history>>

-----------------------------------------------------------------------------
(***************************************************************************)
(* The checks: the access is added to the table, then compared with it.    *)
(***************************************************************************)
\* Mutation: the iteration before the last one is lost.
AddedForgetful(RWIterNo) ==
  IF RWIterNo = Absent \/ RWIterNo[0] # ProfilingLoopIterID
  THEN [i \in {0, 1} |-> ProfilingLoopIterID]
  ELSE RWIterNo

\* addReadtoHashTraceInfo, addWritetoHashTraceInfo: RWIterNo after an access
Added(RWIterNo) ==
  IF RWIterNo = Absent
  THEN [i \in {0, 1} |-> ProfilingLoopIterID]
  ELSE IF RWIterNo[0] # ProfilingLoopIterID
  THEN [i \in {0, 1} |-> IF i = 0 THEN ProfilingLoopIterID ELSE RWIterNo[0]]
  ELSE RWIterNo

\* The iteration the loops over RWIterNo stop at: the first that is not this one
CarriedFrom(RWIterNo) ==
  IF RWIterNo[0] # ProfilingLoopIterID THEN {RWIterNo[0]}
  ELSE IF RWIterNo[1] # ProfilingLoopIterID THEN {RWIterNo[1]} ELSE {}

\* Mutation: output dependences of an instruction on itself, too.
LoopIndependentSelf(type, trace, sink) ==
  {[type |-> type, src |-> src, sink |-> sink] :
     src \in {id \in Ids : trace[id][0] = ProfilingLoopIterID}}

\* The dependences of a sink with the instructions in a trace of its node
LoopIndependent(type, trace, sink) ==
  {[type |-> type, src |-> src, sink |-> sink] :
     src \in {id \in Ids : /\ trace[id][0] = ProfilingLoopIterID
                           /\ type = "Output" => id # sink}}

\* Mutation: the operands of the distance are swapped.
LoopCarriedSwapped(type, trace, sink) ==
  UNION {{[type |-> type, src |-> src, sink |-> sink, dist |-> iter - ProfilingLoopIterID] :
            iter \in CarriedFrom(trace[src])} :
         src \in {id \in Ids : trace[id] # Absent}}

LoopCarried(type, trace, sink) ==
  UNION {{[type |-> type, src |-> src, sink |-> sink, dist |-> ProfilingLoopIterID - iter] :
            iter \in CarriedFrom(trace[src])} :
         src \in {id \in Ids : trace[id] # Absent}}

\* analyzeReadAddrDepSet, analyzeWriteAddrDepSet: what an access is compared with
Analyze(op) ==
  IF op = "R" THEN {[type |-> "True", with |-> "W"]}
  ELSE {[type |-> "Output", with |-> "W"], [type |-> "Anti", with |-> "R"]}

\* An access at present, for the history
Access(op, node, id) ==
  [exec |-> entries[DDAProfilingFlag], loop |-> DDAProfilingFlag,
   iter |-> ProfilingLoopIterID, op |-> op, node |-> node, id |-> id]

\* __loadcheck, __storecheck.  The ...stackvar variants, for variables of the
\* function itself, pass on only what is in the function that began to profile.
Check(op, access, id, stackvar) ==
  LET loop == DDAProfilingFlag
      node == Node(access)
      trace(a) == HashRWTrace'[loop][a.with][node]
  IN /\ Running
     /\ stackvar => Top.DDABeginCurFunc = 1
     /\ loop # 0
     /\ Cardinality(accesses) < MaxAccess
     /\ HashRWTrace' = [HashRWTrace EXCEPT ![loop][op][node][id] = Added(@)]
     /\ LDDepResult' = [LDDepResult EXCEPT
          ![loop].LID = @ \cup UNION {LoopIndependent(a.type, trace(a), id) : a \in Analyze(op)},
          ![loop].LCD = @ \cup UNION {LoopCarried(a.type, trace(a), id) : a \in Analyze(op)}]
     /\ accesses' = accesses \cup {Access(op, node, id)}
     /\ liPairs' = liPairs \cup UNION
          {{[loop |-> loop, type |-> a.type, src |-> src, sink |-> id] :
              src \in {i \in Ids : /\ Access(a.with, node, i) \in accesses
                                   /\ a.type = "Output" => i # id}} :
           a \in Analyze(op)}
     /\ UNCHANGED <<control, MaxProfilingLoopID, printed, entries, left>>

-----------------------------------------------------------------------------
(***************************************************************************)
(* __outputdependence, called where main returns: the loop-carried         *)
(* dependences of a loop and a type, in the order of Dep, up to the first  *)
(* whose source is s.addr.                                                 *)
(***************************************************************************)
Before(d, e) == d.src < e.src \/ (d.src = e.src /\ d.sink < e.sink)

\* Mutation: the output stops at the first sink s.addr.
WrittenBySink(loop) ==
  {d \in LDDepResult[loop].LCD :
     \A e \in LDDepResult[loop].LCD :
       e.type = d.type /\ e.sink \in SAddr => Before(d, e)}

Written(loop) ==
  {d \in LDDepResult[loop].LCD :
     \A e \in LDDepResult[loop].LCD :
       e.type = d.type /\ e.src \in SAddr => Before(d, e)}

OutputDependence ==
  /\ Running /\ Len(frames) = 1 /\ Top.loop = 0
  /\ printed' = [done |-> TRUE, deps |-> [loop \in Loops |-> Written(loop)]]
  /\ UNCHANGED <<control, tables, entries, history, left>>

-----------------------------------------------------------------------------
Init ==
  /\ DDAProfilingFlag = 0 /\ ProfilingLoopIterID = 0
  /\ frames = <<[loop |-> 0, DDABeginCurFunc |-> 0]>>
  /\ MaxProfilingLoopID = {}
  /\ HashRWTrace = [loop \in Loops |-> EmptyTable]
  /\ LDDepResult = [loop \in Loops |-> NoDeps]
  /\ printed = [done |-> FALSE, deps |-> [loop \in Loops |-> {}]]
  /\ entries = [loop \in Loops |-> 0]
  /\ accesses = {} /\ liPairs = {} /\ left = FALSE

Next ==
  \/ \E loop \in Loops : EnterLoop(loop)
  \/ LoopBody
  \/ ExitLoop
  \/ Call
  \/ Return
  \/ \E k \in 1 .. MaxDepth : Unwind(k)
  \/ \E op \in Op, access \in Accesses, id \in Ids, stackvar \in BOOLEAN :
       Check(op, access, id, stackvar)
  \/ OutputDependence

Spec == Init /\ [][Next]_vars
=============================================================================
