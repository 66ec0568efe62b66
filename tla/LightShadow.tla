----------------------------- MODULE LightShadow -----------------------------
(***************************************************************************)
(* The light-shadow profiler in its default, serial build: the loop        *)
(* control inserted by lib/Transforms/DDA/LDDLightShadow.cpp and the       *)
(* runtime LDDLightShadowRT.cpp it calls.  The instrumented program is the *)
(* environment: it enters the target loop, loads and stores, ends          *)
(* iterations and leaves the loop, in any order the control flow allows.   *)
(***************************************************************************)
EXTENDS ShadowWord

CONSTANTS
  LoadPCs, StorePCs,  \* instrumented load and store instructions
  NumWords,           \* shadow words, numbered 0 .. NumWords-1
  WordsPerPage,       \* shadow words per 8192-byte page
  CBUFLEN,            \* entries of the page cache
  AccessLens,         \* sizes of the accesses, in bytes
  NestedTargets,      \* TRUE iff another target loop can run inside the profiled one
  MaxIter,            \* bound on the iterations of one execution of the loop
  MaxSessions         \* bound on the executions of the loop

PC    == LoadPCs \cup StorePCs
Word  == 0 .. NumWords - 1
PageOf(w) == 1 + w \div WordsPerPage
Page  == {PageOf(w) : w \in Word}
NoPage == 0           \* a cleared cache entry; no shadow page has number 0

ASSUME LightShadowAssumption ==
  /\ NumWords \in Nat \ {0}
  /\ WordsPerPage \in Nat \ {0}
  /\ CBUFLEN \in Nat \ {0}
  /\ AccessLens \subseteq Nat \ {0}
  /\ NestedTargets \in BOOLEAN
  /\ MaxIter \in Nat /\ MaxSessions \in Nat

DepKey == DepKind \X PC \X PC          \* kind, source, sink

VARIABLES
  LDDProfLoopID,      \* 1 while the target loop is profiled, else 0
  LDDProfLoopIter,
  sessions,           \* executions of the target loop so far
  shadow,             \* the Trace of every word
  liDeps,             \* dependences with Dist[0] = 0
  lcDist,             \* Dist[1] of every dependence, 0 when there is none
  ShdwPageSet, CacheBuf, CacheBufNum

loopVars  == <<LDDProfLoopID, LDDProfLoopIter, sessions>>
depVars   == <<liDeps, lcDist>>
pageVars  == <<ShdwPageSet, CacheBuf, CacheBufNum>>
vars      == <<loopVars, shadow, depVars, pageVars>>

-----------------------------------------------------------------------------
(***************************************************************************)
(* An access: which words it touches, which bytes of each, which page is   *)
(* recorded for the analysis at the end of the iteration.                  *)
(***************************************************************************)
FirstWord(addr) == addr \div WordBytes
Offset(addr) == addr % WordBytes
Straddles(addr, len) == Offset(addr) + len > WordBytes

\* (1 << (off + len)) - (1 << off), cut to the word
Mask1(addr, len) == {b \in Byte : Offset(addr) =< b /\ b < Offset(addr) + len}

\* (1 << (off + len - 8)) - 1 in an unsigned char: bytes of a third word are lost
Mask2(addr, len) == {b \in Byte : b < Offset(addr) + len - WordBytes}

Access == {al \in (0 .. NumWords * WordBytes - 1) \X AccessLens :
             al[1] + al[2] =< NumWords * WordBytes}

\* Mutation: the cache index does not wrap around.
RecordPageUnwrapped(page) ==
  IF \E i \in 0 .. CBUFLEN - 1 : CacheBuf[i] = page
  THEN UNCHANGED pageVars
  ELSE /\ ShdwPageSet' = ShdwPageSet \cup {page}
       /\ CacheBuf' = [CacheBuf EXCEPT ![CacheBufNum] = page]
       /\ CacheBufNum' = CacheBufNum + 1

\* Only the page of the first word is recorded; the cache is a ring.
RecordPage(page) ==
  IF \E i \in 0 .. CBUFLEN - 1 : CacheBuf[i] = page
  THEN UNCHANGED pageVars
  ELSE /\ ShdwPageSet' = ShdwPageSet \cup {page}
       /\ CacheBuf' = [CacheBuf EXCEPT ![CacheBufNum] = page]
       /\ CacheBufNum' = (CacheBufNum + 1) % CBUFLEN

\* Apply Update to the one or two words of the access.
Touched(addr, len) ==
  {FirstWord(addr)} \cup (IF Straddles(addr, len) THEN {FirstWord(addr) + 1} ELSE {})

MaskIn(addr, len, w) ==
  IF w = FirstWord(addr) THEN Mask1(addr, len) ELSE Mask2(addr, len)

Present(w) == EnterIteration(shadow[w], LDDProfLoopIter)

Load(pc, addr, len) ==
  /\ LDDProfLoopID # 0
  /\ RecordPage(PageOf(FirstWord(addr)))
  /\ liDeps' = liDeps \cup
       UNION {ReadLID(Present(w), pc, MaskIn(addr, len, w)) : w \in Touched(addr, len)}
  /\ shadow' = [w \in Word |->
       IF w \in Touched(addr, len)
       THEN UpdatePresentRTrace(Present(w), pc, MaskIn(addr, len, w))
       ELSE shadow[w]]
  /\ UNCHANGED <<loopVars, lcDist>>

Store(pc, addr, len) ==
  /\ LDDProfLoopID # 0
  /\ RecordPage(PageOf(FirstWord(addr)))
  /\ liDeps' = liDeps \cup
       UNION {WriteLID(Present(w), pc, MaskIn(addr, len, w)) : w \in Touched(addr, len)}
  /\ shadow' = [w \in Word |->
       IF w \in Touched(addr, len)
       THEN UpdatePresentWTrace(Present(w), pc, MaskIn(addr, len, w))
       ELSE shadow[w]]
  /\ UNCHANGED <<loopVars, lcDist>>

-----------------------------------------------------------------------------
(***************************************************************************)
(* __addPresentToPrecedeTrace: nothing before the third iteration, then    *)
(* the loop-carried analysis of every word of every recorded page.         *)
(***************************************************************************)
FirstAnalysedIter == 3

\* What Dist[1] can become when the distances in ds are folded into d one by
\* one: the least one, where 0 stands for "none yet".  A distance 0 among
\* them forgets what was folded before it, so the order of the lists, which
\* the model does not keep, decides.
FoldedDist(d, ds) ==
  LET all == ds \cup ({d} \ {0})
  IN  IF all = {} THEN {0}
      ELSE IF 0 \notin ds \/ \E e \in all : e < 0
      THEN {e \in all : \A f \in all : e =< f}
      ELSE ds

RecordedWords == {w \in Word : PageOf(w) \in ShdwPageSet}

\* <<kind, source, sink, distance>> for everything the analysis comes across.
Found ==
  UNION {CarriedDeps(shadow[w], LDDProfLoopIter) :
           w \in {x \in RecordedWords : Analysed(shadow[x], LDDProfLoopIter)}}

FoldFound(found) ==
  LET key(c)  == <<c[1], c[2], c[3]>>
      keys    == {key(c) : c \in found}
      dist(k) == FoldedDist(lcDist[k], {c[4] : c \in {x \in found : key(x) = k}})
  IN  \E new \in [keys -> UNION {dist(k) : k \in keys}] :
        /\ \A k \in keys : new[k] \in dist(k)
        /\ lcDist' = [k \in DepKey |-> IF k \in keys THEN new[k] ELSE lcDist[k]]

\* Mutation: the page cache outlives the set it stands for.
AddPresentKeepingCache ==
  IF LDDProfLoopIter < FirstAnalysedIter
  THEN UNCHANGED <<shadow, lcDist, pageVars>>
  ELSE /\ FoldFound(Found)
       /\ shadow' = [w \in Word |->
            IF w \in RecordedWords
            THEN SetupPrecedeTrace(shadow[w], LDDProfLoopIter) ELSE shadow[w]]
       /\ ShdwPageSet' = {}
       /\ UNCHANGED <<CacheBuf, CacheBufNum>>

AddPresentToPrecedeTrace ==
  IF LDDProfLoopIter < FirstAnalysedIter
  THEN UNCHANGED <<shadow, lcDist, pageVars>>
  ELSE /\ FoldFound(Found)
       /\ shadow' = [w \in Word |->
            IF w \in RecordedWords
            THEN SetupPrecedeTrace(shadow[w], LDDProfLoopIter) ELSE shadow[w]]
       /\ ShdwPageSet' = {}
       /\ CacheBuf' = [i \in 0 .. CBUFLEN - 1 |-> NoPage]
       \* CacheBuf[9] = 0 writes past the array, where CacheBufNum may lie
       /\ CacheBufNum' \in {CacheBufNum, 0}

-----------------------------------------------------------------------------
(***************************************************************************)
(* The inserted loop control.  LDDTLoopFunc, the flag of the function that *)
(* started profiling, is 1 exactly while LDDProfLoopID # 0 in the target   *)
(* loop, and 0 in a target loop nested in it.                              *)
(***************************************************************************)
EnterLoop ==
  /\ LDDProfLoopID = 0
  /\ sessions < MaxSessions
  /\ LDDProfLoopID' = 1
  /\ LDDProfLoopIter' = 1
  /\ sessions' = sessions + 1
  /\ UNCHANGED <<shadow, depVars, pageVars>>

\* for.inc of the profiled loop: analyse, then count
EndIteration ==
  /\ LDDProfLoopID # 0
  /\ LDDProfLoopIter < MaxIter
  /\ AddPresentToPrecedeTrace
  /\ LDDProfLoopIter' = LDDProfLoopIter + 1
  /\ UNCHANGED <<LDDProfLoopID, sessions, liDeps>>

\* for.inc of a target loop nested in it: the same call, LDDTLoopFunc is 0
EndNestedIteration ==
  /\ NestedTargets
  /\ LDDProfLoopID # 0
  /\ AddPresentToPrecedeTrace
  /\ UNCHANGED <<loopVars, liDeps>>

ExitLoop ==
  /\ LDDProfLoopID # 0
  /\ AddPresentToPrecedeTrace
  /\ LDDProfLoopID' = 0
  /\ UNCHANGED <<LDDProfLoopIter, sessions, liDeps>>

Init ==
  /\ LDDProfLoopID = 0
  /\ LDDProfLoopIter = 0
  /\ sessions = 0
  /\ shadow = [w \in Word |-> NoTrace]
  /\ liDeps = {}
  /\ lcDist = [k \in DepKey |-> 0]
  /\ ShdwPageSet = {}
  /\ CacheBuf = [i \in 0 .. CBUFLEN - 1 |-> NoPage]
  /\ CacheBufNum = 0

Next ==
  \/ EnterLoop
  \/ \E pc \in LoadPCs, al \in Access : Load(pc, al[1], al[2])
  \/ \E pc \in StorePCs, al \in Access : Store(pc, al[1], al[2])
  \/ EndIteration
  \/ EndNestedIteration
  \/ ExitLoop

Spec == Init /\ [][Next]_vars

-----------------------------------------------------------------------------
(***************************************************************************)
(* Invariants.  They hold with nested target loops and over re-entries.    *)
(***************************************************************************)
TypeOK ==
  /\ LDDProfLoopID \in {0, 1}
  /\ LDDProfLoopIter \in Nat
  /\ sessions \in Nat
  /\ shadow \in [Word -> Trace(PC)]
  /\ liDeps \subseteq DepKey
  /\ lcDist \in [DepKey -> Int]
  /\ ShdwPageSet \subseteq Page
  /\ CacheBuf \in [0 .. CBUFLEN - 1 -> Page \cup {NoPage}]
  /\ CacheBufNum \in 0 .. CBUFLEN - 1

\* The page cache never hides a page from the analysis: a cached page, whose
\* insertion an access skips, is in ShdwPageSet.
CacheInv == \A i \in 0 .. CBUFLEN - 1 : CacheBuf[i] # NoPage => CacheBuf[i] \in ShdwPageSet

\* Of every byte the present tables know at most one first reader and one last
\* writer in the iteration Present->RWIter, and then the global mask has it.
LiveInv == \A w \in Word : Live(shadow[w])

\* From iteration 3 on the analysis at the end of the iteration reaches every
\* word accessed in it, so that no present table outlives its iteration.  The
\* first word of a page is left out: as the second word of a straddling access
\* it is not recorded.
FirstOfPage(w) == w % WordsPerPage = 0

Pending(w) ==
  /\ shadow[w].RTrace # {} \/ shadow[w].WTrace # {}
  /\ shadow[w].RWIter >= FirstAnalysedIter

ReachInv ==
  \A w \in Word : Pending(w) /\ ~ FirstOfPage(w) =>
    /\ LDDProfLoopID # 0
    /\ shadow[w].RWIter = LDDProfLoopIter
    /\ PageOf(w) \in ShdwPageSet
=============================================================================
