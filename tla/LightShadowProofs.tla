-------------------------- MODULE LightShadowProofs --------------------------
(***************************************************************************)
(* The invariants of LightShadow, for every program, word size, page size  *)
(* and cache length.                                                       *)
(***************************************************************************)
EXTENDS LightShadow, TLAPS

-----------------------------------------------------------------------------
(***************************************************************************)
(* What the operations on one word's Trace return, whatever the word's     *)
(* size and the set of instructions.                                       *)
(***************************************************************************)
\* Resetting the global masks of a word gives a Trace again.
LEMMA EnterIterationType ==
  ASSUME NEW Instrs, NEW t \in Trace(Instrs), NEW iter \in Nat
  PROVE  EnterIteration(t, iter) \in Trace(Instrs)
<1>1. ASSUME NEW nodes \in SUBSET PresentNode(Instrs)
      PROVE  Older(nodes) \in SUBSET PresentNode(Instrs)
  BY DEF Older, PresentNode
<1>2. {} \in Mask
  BY DEF Mask
<1> QED
  BY <1>1, <1>2 DEF EnterIteration, Trace

\* A read leaves a Trace, and so does a write.
LEMMA UpdatePresentRTraceType ==
  ASSUME NEW Instrs, NEW t \in Trace(Instrs), NEW pc \in Instrs, NEW mask \in Mask
  PROVE  UpdatePresentRTrace(t, pc, mask) \in Trace(Instrs)
<1> DEFINE first == (mask \ t.GlobalReadMask) \ t.GlobalWriteMask
<1>1. CASE first = {}
  BY <1>1 DEF UpdatePresentRTrace
<1>2. CASE first # {}
  <2>1. NewNode(pc, first) \in PresentNode(Instrs)
    BY <1>2 DEF NewNode, PresentNode, Mask
  <2>2. t.GlobalReadMask \cup mask \in Mask
    BY DEF Trace, Mask
  <2> QED
    BY <1>2, <2>1, <2>2 DEF UpdatePresentRTrace, Trace
<1> QED
  BY <1>1, <1>2

\* The nodes left of the older writes are nodes.
LEMMA TrimmedType ==
  ASSUME NEW Instrs, NEW nodes \in SUBSET PresentNode(Instrs), NEW mask \in Mask
  PROVE  Trimmed(nodes, mask) \in SUBSET PresentNode(Instrs)
<1> SUFFICES ASSUME NEW m \in nodes, ~ m.mask \subseteq mask
             PROVE  [m EXCEPT !.mask = @ \ mask] \in PresentNode(Instrs)
  BY DEF Trimmed
<1> QED
  BY DEF PresentNode, Mask

\* A write leaves a Trace, too.
LEMMA UpdatePresentWTraceType ==
  ASSUME NEW Instrs, NEW t \in Trace(Instrs), NEW pc \in Instrs, NEW mask \in Mask \ {{}}
  PROVE  UpdatePresentWTrace(t, pc, mask) \in Trace(Instrs)
<1>1. Trimmed(t.WTrace, mask) \in SUBSET PresentNode(Instrs)
  BY TrimmedType DEF Trace
<1>2. NewNode(pc, mask) \in PresentNode(Instrs)
  BY DEF NewNode, PresentNode
<1>3. t.GlobalWriteMask \cup mask \in Mask
  BY DEF Trace, Mask
<1> QED
  BY <1>1, <1>2, <1>3 DEF UpdatePresentWTrace, Trace

\* Moving the present nodes to the precede tables leaves a Trace.
LEMMA SetupPrecedeTraceType ==
  ASSUME NEW Instrs, NEW t \in Trace(Instrs), NEW iter \in Nat
  PROVE  SetupPrecedeTrace(t, iter) \in Trace(Instrs)
<1>1. ASSUME NEW precede \in SUBSET PrecedeNode(Instrs), NEW present \in SUBSET PresentNode(Instrs)
      PROVE  AddToPrecede(precede, present, iter) \in SUBSET PrecedeNode(Instrs)
  BY DEF AddToPrecede, PrecedeNode, PresentNode
<1> QED
  BY <1>1 DEF SetupPrecedeTrace, Trace

-----------------------------------------------------------------------------
\* The dependences a read or a write reports are between instructions.
LEMMA LIDType ==
  ASSUME NEW Instrs, NEW t \in Trace(Instrs), NEW pc \in Instrs, NEW mask \in Mask
  PROVE  /\ ReadLID(t, pc, mask)  \subseteq DepKind \X Instrs \X Instrs
         /\ WriteLID(t, pc, mask) \subseteq DepKind \X Instrs \X Instrs
<1>1. ASSUME NEW nodes \in SUBSET PresentNode(Instrs), NEW m,
             NEW n \in Covering(nodes, m)
      PROVE  n.pc \in Instrs
  BY DEF Covering, PresentNode
<1>2. t.RTrace \in SUBSET PresentNode(Instrs) /\ t.WTrace \in SUBSET PresentNode(Instrs)
  BY DEF Trace
<1>3. \A n \in Covering(t.WTrace, mask \cap t.GlobalWriteMask) : n.pc \in Instrs
  BY <1>1, <1>2
<1>4. \A n \in Covering(t.RTrace, mask \cap t.GlobalReadMask) : n.pc \in Instrs
  BY <1>1, <1>2
<1>5. ASSUME NEW kind \in DepKind, NEW nodes, \A n \in nodes : n.pc \in Instrs
      PROVE  {<<kind, n.pc, pc>> : n \in nodes} \subseteq DepKind \X Instrs \X Instrs
  BY <1>5
<1>6. "True" \in DepKind /\ "Out" \in DepKind /\ "Anti" \in DepKind
  BY DEF DepKind
<1>7. ReadLID(t, pc, mask) \subseteq DepKind \X Instrs \X Instrs
  BY <1>3, <1>5, <1>6 DEF ReadLID
<1>8. WriteLID(t, pc, mask) \subseteq DepKind \X Instrs \X Instrs
  BY <1>3, <1>4, <1>5, <1>6 DEF WriteLID
<1> QED
  BY <1>7, <1>8

\* The analysis at the end of an iteration finds dependences between
\* instructions, at integer distances.
LEMMA CarriedDepsType ==
  ASSUME NEW Instrs, NEW t \in Trace(Instrs), NEW iter \in Nat
  PROVE  CarriedDeps(t, iter) \subseteq DepKind \X Instrs \X Instrs \X Int
<1>1. ASSUME NEW kind \in DepKind, NEW sinks \in SUBSET PresentNode(Instrs), NEW m,
             NEW sources \in SUBSET PrecedeNode(Instrs)
      PROVE  Carried(kind, sinks, m, sources, iter) \subseteq DepKind \X Instrs \X Instrs \X Int
  <2>1. ASSUME NEW pair \in sinks \X sources
        PROVE  <<kind, pair[2].pc, pair[1].pc, iter - pair[2].iter>>
                 \in DepKind \X Instrs \X Instrs \X Int
    BY DEF PresentNode, PrecedeNode
  <2> QED
    BY <2>1 DEF Carried
<1>2. /\ t.RTrace \in SUBSET PresentNode(Instrs) /\ t.WTrace \in SUBSET PresentNode(Instrs)
      /\ t.PrecedeR \in SUBSET PrecedeNode(Instrs) /\ t.PrecedeW \in SUBSET PrecedeNode(Instrs)
  BY DEF Trace
<1>3. "True" \in DepKind /\ "Out" \in DepKind /\ "Anti" \in DepKind
  BY DEF DepKind
<1> QED
  BY <1>1, <1>2, <1>3 DEF CarriedDeps

-----------------------------------------------------------------------------
\* The reset of the masks leaves no live node, and so keeps Live.
LEMMA EnterIterationLive ==
  ASSUME NEW Instrs, NEW t \in Trace(Instrs), NEW iter \in Nat, Live(t)
  PROVE  Live(EnterIteration(t, iter))
<1>1. CASE t.RWIter = iter
  BY <1>1 DEF EnterIteration
<1>2. CASE t.RWIter # iter
  <2>1. ASSUME NEW nodes \in SUBSET PresentNode(Instrs), NEW n \in Older(nodes)
        PROVE  n.age # 0
    BY DEF Older, PresentNode
  <2>2. /\ EnterIteration(t, iter).RTrace = Older(t.RTrace)
        /\ EnterIteration(t, iter).WTrace = Older(t.WTrace)
    BY <1>2 DEF EnterIteration, Trace
  <2>3. t.RTrace \in SUBSET PresentNode(Instrs) /\ t.WTrace \in SUBSET PresentNode(Instrs)
    BY DEF Trace
  <2> QED
    BY <2>1, <2>2, <2>3 DEF Live, LiveIn
<1> QED
  BY <1>1, <1>2

\* A read inserts a node for bytes no live node has.
LEMMA UpdatePresentRTraceLive ==
  ASSUME NEW Instrs, NEW t \in Trace(Instrs), NEW pc \in Instrs, NEW mask \in Mask, Live(t)
  PROVE  Live(UpdatePresentRTrace(t, pc, mask))
<1> DEFINE first == (mask \ t.GlobalReadMask) \ t.GlobalWriteMask
           new   == NewNode(pc, first)
           u     == UpdatePresentRTrace(t, pc, mask)
<1>1. CASE first = {}
  BY <1>1 DEF UpdatePresentRTrace
<1>2. CASE first # {}
  <2>1. /\ u.RTrace = t.RTrace \cup {new}
        /\ u.GlobalReadMask = t.GlobalReadMask \cup mask
        /\ u.WTrace = t.WTrace /\ u.GlobalWriteMask = t.GlobalWriteMask
    BY <1>2 DEF UpdatePresentRTrace, Trace
  <2>2. new.mask = first /\ new.age = 0
    BY DEF NewNode
  <2>3. \A n \in t.RTrace : n.age = 0 => n.mask \cap first = {}
    BY DEF Live, LiveIn
  <2>4. LiveIn(t.RTrace \cup {new}, t.GlobalReadMask \cup mask)
    <3> SUFFICES ASSUME NEW n \in t.RTrace \cup {new}, n.age = 0
                 PROVE  /\ n.mask \subseteq t.GlobalReadMask \cup mask
                        /\ \A m \in t.RTrace \cup {new} :
                              m.age = 0 /\ m.mask \cap n.mask # {} => m = n
      BY DEF LiveIn
    <3>1. CASE n = new
      BY <3>1, <2>2, <2>3
    <3>2. CASE n \in t.RTrace
      BY <3>2, <2>2, <2>3 DEF Live, LiveIn
    <3> QED
      BY <3>1, <3>2
  <2> QED
    BY <2>1, <2>4 DEF Live
<1> QED
  BY <1>1, <1>2

\* A write takes its bytes away from every other node.
LEMMA UpdatePresentWTraceLive ==
  ASSUME NEW Instrs, NEW t \in Trace(Instrs), NEW pc \in Instrs, NEW mask \in Mask \ {{}}, Live(t)
  PROVE  Live(UpdatePresentWTrace(t, pc, mask))
<1> DEFINE older == IF mask \cap t.GlobalWriteMask = {} THEN t.WTrace
                    ELSE Trimmed(t.WTrace, mask)
           new   == NewNode(pc, mask)
           u     == UpdatePresentWTrace(t, pc, mask)
<1>1. /\ u.WTrace = older \cup {new}
      /\ u.GlobalWriteMask = t.GlobalWriteMask \cup mask
      /\ u.RTrace = t.RTrace /\ u.GlobalReadMask = t.GlobalReadMask
  BY DEF UpdatePresentWTrace, Trace
<1>2. new.mask = mask /\ new.age = 0
  BY DEF NewNode
<1>3. LiveIn(older, t.GlobalWriteMask) /\ \A n \in older : n.age = 0 => n.mask \cap mask = {}
  <2>1. CASE mask \cap t.GlobalWriteMask = {}
    BY <2>1 DEF Live, LiveIn
  <2>2. CASE mask \cap t.GlobalWriteMask # {}
    <3>1. ASSUME NEW n \in Trimmed(t.WTrace, mask)
          PROVE  \E o \in t.WTrace : /\ n = [o EXCEPT !.mask = @ \ mask]
                                     /\ n.mask = o.mask \ mask /\ n.age = o.age
      <4>1. PICK o \in t.WTrace : n = [o EXCEPT !.mask = @ \ mask]
        BY DEF Trimmed
      <4>2. o \in PresentNode(Instrs)
        BY DEF Trace
      <4>3. n.mask = o.mask \ mask /\ n.age = o.age
        BY <4>1, <4>2 DEF PresentNode
      <4> QED
        BY <4>1, <4>3
    <3>2. ASSUME NEW n \in Trimmed(t.WTrace, mask), n.age = 0
          PROVE  n.mask \subseteq t.GlobalWriteMask /\ n.mask \cap mask = {}
      BY <3>1, <3>2 DEF Live, LiveIn
    <3>3. ASSUME NEW n \in Trimmed(t.WTrace, mask), NEW m \in Trimmed(t.WTrace, mask),
                 n.age = 0, m.age = 0, m.mask \cap n.mask # {}
          PROVE  m = n
      <4>1. PICK o \in t.WTrace : n = [o EXCEPT !.mask = @ \ mask]
                                  /\ n.mask = o.mask \ mask /\ n.age = o.age
        BY <3>1
      <4>2. PICK q \in t.WTrace : m = [q EXCEPT !.mask = @ \ mask]
                                  /\ m.mask = q.mask \ mask /\ m.age = q.age
        BY <3>1
      <4>3. q.mask \cap o.mask # {}
        BY <3>3, <4>1, <4>2
      <4>4. q = o
        BY <3>3, <4>1, <4>2, <4>3 DEF Live, LiveIn
      <4> QED
        BY <4>1, <4>2, <4>4
    <3> QED
      BY <2>2, <3>2, <3>3 DEF LiveIn
  <2> QED
    BY <2>1, <2>2
<1>4. LiveIn(older \cup {new}, t.GlobalWriteMask \cup mask)
  <2> HIDE DEF older
  <2> SUFFICES ASSUME NEW n \in older \cup {new}, n.age = 0
               PROVE  /\ n.mask \subseteq t.GlobalWriteMask \cup mask
                      /\ \A m \in older \cup {new} :
                            m.age = 0 /\ m.mask \cap n.mask # {} => m = n
    BY DEF LiveIn
  <2>1. CASE n = new
    BY <2>1, <1>2, <1>3
  <2>2. CASE n \in older
    BY <2>2, <1>2, <1>3 DEF LiveIn
  <2> QED
    BY <2>1, <2>2
<1> QED
  BY <1>1, <1>4 DEF Live

\* The analysis empties the present tables or leaves the word alone.
LEMMA SetupPrecedeTraceLive ==
  ASSUME NEW Instrs, NEW t \in Trace(Instrs), NEW iter \in Nat, Live(t)
  PROVE  Live(SetupPrecedeTrace(t, iter))
<1>1. CASE ~ Analysed(t, iter)
  BY <1>1 DEF SetupPrecedeTrace
<1>2. CASE Analysed(t, iter)
  <2>1. /\ SetupPrecedeTrace(t, iter).RTrace = {}
        /\ SetupPrecedeTrace(t, iter).WTrace = {}
    BY <1>2 DEF SetupPrecedeTrace, Trace
  <2> QED
    BY <2>1 DEF Live, LiveIn
<1> QED
  BY <1>1, <1>2

-----------------------------------------------------------------------------
(***************************************************************************)
(* Words and pages.                                                        *)
(***************************************************************************)

\* Division by a positive number.
LEMMA DivMod ==
  ASSUME NEW a \in Nat, NEW d \in Nat \ {0}
  PROVE  a \div d \in Nat /\ a % d \in 0 .. d - 1 /\ a = d * (a \div d) + (a % d)
  BY SMT

\* Quotient and remainder are unique.
LEMMA DivUnique ==
  ASSUME NEW d \in Nat \ {0}, NEW p \in Nat, NEW q \in Nat,
         NEW r \in 0 .. d - 1, NEW s \in 0 .. d - 1, d * p + r = d * q + s
  PROVE  p = q /\ r = s
  BY SMT

\* The last byte of an access lies in the last word it touches.
LEMMA LastWord ==
  ASSUME NEW d \in Nat \ {0}, NEW n \in Nat, NEW f \in Nat, NEW o \in 0 .. d - 1,
         NEW len \in Nat \ {0}, d * f + o + len =< n * d
  PROVE  f < n /\ (o + len > d => f + 1 < n)
<1>1. d * f < n * d /\ (o + len > d => d * (f + 1) < n * d)
  BY SMT
<1>2. f < n
  <2> SUFFICES ASSUME f >= n PROVE FALSE
    OBVIOUS
  <2>1. d * f >= d * n
    BY SMT
  <2> QED
    BY <1>1, <2>1
<1>3. ASSUME o + len > d PROVE f + 1 < n
  <2> SUFFICES ASSUME f + 1 >= n PROVE FALSE
    OBVIOUS
  <2>1. d * (f + 1) >= d * n
    BY SMT
  <2> QED
    BY <1>1, <1>3, <2>1
<1> QED
  BY <1>2, <1>3

\* Every word an access touches exists, some byte of it is accessed, and unless
\* it is the first of its page it lies on the page of the access's first word.
LEMMA TouchedWords ==
  ASSUME NEW al \in Access, NEW w \in Touched(al[1], al[2])
  PROVE  /\ w \in Word
         /\ MaskIn(al[1], al[2], w) \in Mask \ {{}}
         /\ ~ FirstOfPage(w) => PageOf(w) = PageOf(FirstWord(al[1]))
<1> DEFINE addr == al[1]
           len  == al[2]
           f    == addr \div WordBytes
           o    == addr % WordBytes
<1> USE WordBytesAssumption, LightShadowAssumption
<1>1. addr \in Nat /\ len \in Nat \ {0} /\ addr + len =< NumWords * WordBytes
  <2>1. al \in (0 .. NumWords * WordBytes - 1) \X AccessLens
    BY DEF Access
  <2>2. al[1] + al[2] =< NumWords * WordBytes
    BY DEF Access
  <2>3. addr \in Nat
    <3>1. NumWords * WordBytes - 1 \in Int /\ al[1] \in 0 .. NumWords * WordBytes - 1
      BY <2>1
    <3> HIDE DEF addr
    <3> QED
      BY <3>1 DEF addr
  <2>4. len \in Nat \ {0}
    BY <2>1
  <2> QED
    BY <2>2, <2>3, <2>4
<1>2. f \in Nat /\ o \in 0 .. WordBytes - 1 /\ addr = WordBytes * f + o
  BY <1>1, DivMod
<1>3. f < NumWords /\ (o + len > WordBytes => f + 1 < NumWords)
  <2> HIDE DEF f, o, addr, len
  <2> QED
    BY <1>1, <1>2, LastWord
<1>4. CASE w = f
  <2>1. o \in Mask1(addr, len)
    <3> HIDE DEF addr, len
    <3>1. o \in Byte /\ Offset(addr) = o /\ o =< o /\ o < o + len
      BY <1>1, <1>2 DEF Byte, Offset
    <3> HIDE DEF o
    <3> QED
      BY <3>1 DEF Mask1
  <2>2. Mask1(addr, len) \in Mask \ {{}}
    BY <2>1 DEF Mask1, Mask
  <2>3. MaskIn(addr, len, w) = Mask1(addr, len)
    BY <1>4 DEF MaskIn, FirstWord
  <2> QED
    BY <1>2, <1>3, <1>4, <2>2, <2>3 DEF Word, FirstWord
<1>5. CASE w # f
  <2>1. w = f + 1 /\ o + len > WordBytes
    BY <1>5 DEF Touched, Straddles, FirstWord, Offset
  <2>2. f + 1 < NumWords
    BY <2>1, <1>3
  <2>3. 0 \in Mask2(addr, len)
    <3> HIDE DEF addr, len
    <3>1. 0 \in Byte /\ Offset(addr) = o /\ 0 < o + len - WordBytes
      BY <2>1, <1>1, <1>2 DEF Byte, Offset
    <3> HIDE DEF o
    <3> QED
      BY <3>1 DEF Mask2
  <2>4. MaskIn(addr, len, w) \in Mask \ {{}}
    BY <1>5, <2>3 DEF MaskIn, FirstWord, Mask2, Mask
  <2>5. ~ FirstOfPage(w) => PageOf(w) = PageOf(f)
    <3> DEFINE q == (f + 1) \div WordsPerPage
               r == (f + 1) % WordsPerPage
               p == f \div WordsPerPage
               s == f % WordsPerPage
    <3>1. q \in Nat /\ r \in 0 .. WordsPerPage - 1 /\ f + 1 = WordsPerPage * q + r
      <4>1. f + 1 \in Nat
        BY <1>2
      <4> HIDE DEF f
      <4> QED
        BY <4>1, DivMod
    <3>2. p \in Nat /\ s \in 0 .. WordsPerPage - 1 /\ f = WordsPerPage * p + s
      BY <1>2, DivMod
    <3>3. ASSUME r # 0  PROVE p = q
      <4> HIDE DEF p, q, r, s, f
      <4>1. r - 1 \in 0 .. WordsPerPage - 1 /\ WordsPerPage * p + s = WordsPerPage * q + (r - 1)
        BY <3>1, <3>2, <3>3
      <4> QED
        BY <3>1, <3>2, <4>1, DivUnique
    <3> QED
      BY <2>1, <3>3 DEF FirstOfPage, PageOf
  <2> QED
    BY <1>2, <2>1, <2>2, <2>4, <2>5 DEF Word, FirstWord
<1> QED
  BY <1>4, <1>5

\* The first word of an access is a word, on a page.
LEMMA FirstWordType ==
  ASSUME NEW al \in Access
  PROVE  /\ FirstWord(al[1]) \in Word
         /\ PageOf(FirstWord(al[1])) \in Page
         /\ PageOf(FirstWord(al[1])) # NoPage
<1>1. FirstWord(al[1]) \in Word
  BY TouchedWords DEF Touched
<1>2. FirstWord(al[1]) \div WordsPerPage \in Nat
  BY <1>1, DivMod, LightShadowAssumption DEF Word
<1> QED
  BY <1>1, <1>2 DEF Page, PageOf, NoPage

-----------------------------------------------------------------------------
\* Recording a page keeps the cache a part of the set, and the page is in it.
LEMMA RecordPageInv ==
  ASSUME TypeOK, CacheInv, NEW page \in Page, page # NoPage, RecordPage(page)
  PROVE  /\ ShdwPageSet' \subseteq Page
         /\ CacheBuf' \in [0 .. CBUFLEN - 1 -> Page \cup {NoPage}]
         /\ CacheBufNum' \in 0 .. CBUFLEN - 1
         /\ CacheInv'
         /\ page \in ShdwPageSet' /\ ShdwPageSet \subseteq ShdwPageSet'
<1>1. CASE \E i \in 0 .. CBUFLEN - 1 : CacheBuf[i] = page
  BY <1>1 DEF RecordPage, CacheInv, TypeOK, pageVars
<1>2. CASE ~ \E i \in 0 .. CBUFLEN - 1 : CacheBuf[i] = page
  <2>1. /\ ShdwPageSet' = ShdwPageSet \cup {page}
        /\ CacheBuf' = [CacheBuf EXCEPT ![CacheBufNum] = page]
        /\ CacheBufNum' = (CacheBufNum + 1) % CBUFLEN
    BY <1>2 DEF RecordPage
  <2>2. CacheBufNum' \in 0 .. CBUFLEN - 1
    <3>1. CacheBufNum + 1 \in Nat /\ CBUFLEN \in Nat \ {0}
      BY LightShadowAssumption DEF TypeOK
    <3> QED
      BY <2>1, <3>1, DivMod
  <2>3. CacheInv'
    BY <2>1 DEF CacheInv, TypeOK
  <2> QED
    BY <2>1, <2>2, <2>3 DEF TypeOK
<1> QED
  BY <1>1, <1>2

\* A word's iteration is the current one once it has been accessed.
LEMMA PresentRWIter ==
  ASSUME TypeOK, NEW w \in Word, NEW pc, NEW mask
  PROVE  /\ Present(w) \in Trace(PC)
         /\ UpdatePresentRTrace(Present(w), pc, mask).RWIter = LDDProfLoopIter
         /\ UpdatePresentWTrace(Present(w), pc, mask).RWIter = LDDProfLoopIter
<1>1. shadow[w] \in Trace(PC) /\ LDDProfLoopIter \in Nat
  BY DEF TypeOK
<1>2. Present(w) \in Trace(PC)
  BY <1>1, EnterIterationType DEF Present
<1>3. Present(w).RWIter = LDDProfLoopIter
  BY <1>1 DEF Present, EnterIteration, Trace
<1> QED
  BY <1>2, <1>3 DEF UpdatePresentRTrace, UpdatePresentWTrace, Trace

\* What the analysis folds into a distance is an integer.
LEMMA FoldFoundType ==
  ASSUME NEW found \in SUBSET (DepKind \X PC \X PC \X Int),
         lcDist \in [DepKey -> Int], FoldFound(found)
  PROVE  lcDist' \in [DepKey -> Int]
<1> DEFINE key(c)  == <<c[1], c[2], c[3]>>
           keys    == {key(c) : c \in found}
           ds(k)   == {c[4] : c \in {x \in found : key(x) = k}}
           dist(k) == FoldedDist(lcDist[k], ds(k))
<1>1. ASSUME NEW k \in DepKey  PROVE dist(k) \subseteq Int
  <2>1. lcDist[k] \in Int
    OBVIOUS
  <2>2. ds(k) \subseteq Int
    OBVIOUS
  <2> HIDE DEF ds
  <2> QED
    BY <2>1, <2>2 DEF FoldedDist
<1>2. PICK new \in [keys -> UNION {dist(k) : k \in keys}] :
        /\ \A k \in keys : new[k] \in dist(k)
        /\ lcDist' = [k \in DepKey |-> IF k \in keys THEN new[k] ELSE lcDist[k]]
  BY DEF FoldFound
<1> HIDE DEF dist, keys
<1> QED
  BY <1>1, <1>2

-----------------------------------------------------------------------------
Inv == TypeOK /\ CacheInv /\ LiveInv /\ ReachInv

\* The analysis at the end of an iteration keeps every part of the state in its
\* type, every live node alone on its bytes, the cache a part of the set, and
\* leaves no word behind but the first of a page.
LEMMA AnalysisInv ==
  ASSUME Inv, AddPresentToPrecedeTrace
  PROVE  /\ shadow' \in [Word -> Trace(PC)]
         /\ lcDist' \in [DepKey -> Int]
         /\ ShdwPageSet' \subseteq Page
         /\ CacheBuf' \in [0 .. CBUFLEN - 1 -> Page \cup {NoPage}]
         /\ CacheBufNum' \in 0 .. CBUFLEN - 1
         /\ CacheInv' /\ LiveInv'
         /\ \A w \in Word : FirstOfPage(w) \/ ~ Pending(w)'
<1> USE DEF Inv
<1>1. CASE LDDProfLoopIter < FirstAnalysedIter
  <2>1. UNCHANGED <<shadow, lcDist, pageVars>>
    BY <1>1 DEF AddPresentToPrecedeTrace
  <2>2. \A w \in Word : FirstOfPage(w) \/ ~ Pending(w)'
    BY <1>1, <2>1 DEF ReachInv, Pending, TypeOK, FirstAnalysedIter
  <2>3. CacheInv' /\ LiveInv'
    BY <2>1 DEF CacheInv, LiveInv, pageVars
  <2> QED
    BY <2>1, <2>2, <2>3 DEF TypeOK, pageVars
<1>2. CASE ~ (LDDProfLoopIter < FirstAnalysedIter)
  <2>1. /\ FoldFound(Found)
        /\ shadow' = [w \in Word |->
             IF w \in RecordedWords
             THEN SetupPrecedeTrace(shadow[w], LDDProfLoopIter) ELSE shadow[w]]
        /\ ShdwPageSet' = {}
        /\ CacheBuf' = [i \in 0 .. CBUFLEN - 1 |-> NoPage]
        /\ CacheBufNum' \in {CacheBufNum, 0}
    BY <1>2 DEF AddPresentToPrecedeTrace
  <2>2. \A w \in Word : shadow[w] \in Trace(PC) /\ LDDProfLoopIter \in Nat
    BY DEF TypeOK
  <2>3. shadow' \in [Word -> Trace(PC)]
    BY <2>1, <2>2, SetupPrecedeTraceType
  <2>4. lcDist' \in [DepKey -> Int]
    <3>1. Found \subseteq DepKind \X PC \X PC \X Int
      <4>1. \A w \in Word : CarriedDeps(shadow[w], LDDProfLoopIter) \subseteq DepKind \X PC \X PC \X Int
        BY <2>2, CarriedDepsType
      <4> QED
        BY <4>1 DEF Found, RecordedWords
    <3> QED
      BY <2>1, <3>1, FoldFoundType DEF TypeOK
  <2>5. CacheBufNum' \in 0 .. CBUFLEN - 1
    BY <2>1, LightShadowAssumption DEF TypeOK
  <2>6. CacheInv'
    BY <2>1 DEF CacheInv
  <2>7. LiveInv'
    BY <2>1, <2>2, SetupPrecedeTraceLive DEF LiveInv
  <2>8. ASSUME NEW w \in Word, ~ FirstOfPage(w), Pending(w)'  PROVE FALSE
    <3>1. shadow'[w] # shadow[w]
      <4> SUFFICES ASSUME shadow'[w] = shadow[w] PROVE FALSE
        OBVIOUS
      <4>1. Pending(w)
        BY <2>8 DEF Pending
      <4>2. w \in RecordedWords /\ Analysed(shadow[w], LDDProfLoopIter)
        BY <2>8, <4>1 DEF ReachInv, RecordedWords, Analysed, Pending
      <4>3. shadow'[w].RTrace = {} /\ shadow'[w].WTrace = {}
        BY <2>1, <2>2, <4>2 DEF SetupPrecedeTrace, Trace
      <4> QED
        BY <2>8, <4>3 DEF Pending
    <3>2. shadow'[w] = SetupPrecedeTrace(shadow[w], LDDProfLoopIter)
          /\ Analysed(shadow[w], LDDProfLoopIter)
      BY <2>1, <3>1 DEF SetupPrecedeTrace
    <3>3. shadow'[w].RTrace = {} /\ shadow'[w].WTrace = {}
      BY <2>2, <3>2 DEF SetupPrecedeTrace, Trace
    <3> QED
      BY <2>8, <3>3 DEF Pending
  <2> QED
    BY <2>1, <2>3, <2>4, <2>5, <2>6, <2>7, <2>8
<1> QED
  BY <1>1, <1>2

\* An access: its words get nodes, the other words stay as they are.
LEMMA LoadInv ==
  ASSUME Inv, NEW pc \in LoadPCs, NEW al \in Access, Load(pc, al[1], al[2])
  PROVE  Inv'
<1> USE DEF Inv
<1> DEFINE page == PageOf(FirstWord(al[1]))
           T    == Touched(al[1], al[2])
           mk(w) == MaskIn(al[1], al[2], w)
<1>1. /\ LDDProfLoopID # 0
      /\ RecordPage(page)
      /\ liDeps' = liDeps \cup UNION {ReadLID(Present(w), pc, mk(w)) : w \in T}
      /\ shadow' = [w \in Word |-> IF w \in T
                       THEN UpdatePresentRTrace(Present(w), pc, mk(w)) ELSE shadow[w]]
      /\ UNCHANGED <<LDDProfLoopID, LDDProfLoopIter, sessions, lcDist>>
  BY DEF Load, loopVars
<1>2. /\ ShdwPageSet' \subseteq Page
      /\ CacheBuf' \in [0 .. CBUFLEN - 1 -> Page \cup {NoPage}]
      /\ CacheBufNum' \in 0 .. CBUFLEN - 1
      /\ CacheInv'
      /\ page \in ShdwPageSet' /\ ShdwPageSet \subseteq ShdwPageSet'
  BY <1>1, FirstWordType, RecordPageInv
<1>3. ASSUME NEW w \in T
      PROVE  /\ w \in Word /\ mk(w) \in Mask \ {{}}
             /\ ~ FirstOfPage(w) => PageOf(w) = page
  BY TouchedWords
<1>4. ASSUME NEW w \in T
      PROVE  /\ Present(w) \in Trace(PC)
             /\ UpdatePresentRTrace(Present(w), pc, mk(w)) \in Trace(PC)
             /\ UpdatePresentRTrace(Present(w), pc, mk(w)).RWIter = LDDProfLoopIter
             /\ Live(UpdatePresentRTrace(Present(w), pc, mk(w)))
             /\ ReadLID(Present(w), pc, mk(w)) \subseteq DepKey
  <2> HIDE DEF T, mk
  <2>1. w \in Word /\ mk(w) \in Mask /\ pc \in PC
    BY <1>3 DEF PC
  <2>2. Present(w) \in Trace(PC)
        /\ UpdatePresentRTrace(Present(w), pc, mk(w)).RWIter = LDDProfLoopIter
    BY <2>1, PresentRWIter
  <2>3. Live(Present(w))
    BY <2>1, EnterIterationLive DEF Present, LiveInv, TypeOK
  <2>4. UpdatePresentRTrace(Present(w), pc, mk(w)) \in Trace(PC)
    BY <2>1, <2>2, UpdatePresentRTraceType
  <2>5. Live(UpdatePresentRTrace(Present(w), pc, mk(w)))
    BY <2>1, <2>2, <2>3, UpdatePresentRTraceLive
  <2>6. ReadLID(Present(w), pc, mk(w)) \subseteq DepKey
    BY <2>1, <2>2, LIDType DEF DepKey
  <2> QED
    BY <2>2, <2>4, <2>5, <2>6
<1> HIDE DEF T, mk, page
<1>5. TypeOK'
  <2>1. shadow' \in [Word -> Trace(PC)]
    BY <1>1, <1>4 DEF TypeOK
  <2>2. liDeps' \subseteq DepKey
    BY <1>1, <1>4 DEF TypeOK
  <2> QED
    BY <1>1, <1>2, <2>1, <2>2 DEF TypeOK
<1>6. LiveInv'
  BY <1>1, <1>4 DEF LiveInv
<1>7. ReachInv'
  <2> SUFFICES ASSUME NEW w \in Word, Pending(w)', ~ FirstOfPage(w)
               PROVE  /\ LDDProfLoopID' # 0
                      /\ shadow'[w].RWIter = LDDProfLoopIter'
                      /\ PageOf(w) \in ShdwPageSet'
    BY DEF ReachInv
  <2>1. CASE w \in T
    BY <2>1, <1>1, <1>2, <1>3, <1>4
  <2>2. CASE w \notin T
    <3>1. shadow'[w] = shadow[w]
      BY <2>2, <1>1
    <3>2. Pending(w)
      BY <3>1 DEF Pending
    <3> QED
      BY <3>1, <3>2, <1>1, <1>2 DEF ReachInv
  <2> QED
    BY <2>1, <2>2
<1> QED
  BY <1>2, <1>5, <1>6, <1>7

\* A store keeps the invariant.
LEMMA StoreInv ==
  ASSUME Inv, NEW pc \in StorePCs, NEW al \in Access, Store(pc, al[1], al[2])
  PROVE  Inv'
<1> USE DEF Inv
<1> DEFINE page == PageOf(FirstWord(al[1]))
           T    == Touched(al[1], al[2])
           mk(w) == MaskIn(al[1], al[2], w)
<1>1. /\ LDDProfLoopID # 0
      /\ RecordPage(page)
      /\ liDeps' = liDeps \cup UNION {WriteLID(Present(w), pc, mk(w)) : w \in T}
      /\ shadow' = [w \in Word |-> IF w \in T
                       THEN UpdatePresentWTrace(Present(w), pc, mk(w)) ELSE shadow[w]]
      /\ UNCHANGED <<LDDProfLoopID, LDDProfLoopIter, sessions, lcDist>>
  BY DEF Store, loopVars
<1>2. /\ ShdwPageSet' \subseteq Page
      /\ CacheBuf' \in [0 .. CBUFLEN - 1 -> Page \cup {NoPage}]
      /\ CacheBufNum' \in 0 .. CBUFLEN - 1
      /\ CacheInv'
      /\ page \in ShdwPageSet' /\ ShdwPageSet \subseteq ShdwPageSet'
  BY <1>1, FirstWordType, RecordPageInv
<1>3. ASSUME NEW w \in T
      PROVE  /\ w \in Word /\ mk(w) \in Mask \ {{}}
             /\ ~ FirstOfPage(w) => PageOf(w) = page
  BY TouchedWords
<1>4. ASSUME NEW w \in T
      PROVE  /\ Present(w) \in Trace(PC)
             /\ UpdatePresentWTrace(Present(w), pc, mk(w)) \in Trace(PC)
             /\ UpdatePresentWTrace(Present(w), pc, mk(w)).RWIter = LDDProfLoopIter
             /\ Live(UpdatePresentWTrace(Present(w), pc, mk(w)))
             /\ WriteLID(Present(w), pc, mk(w)) \subseteq DepKey
  <2> HIDE DEF T, mk
  <2>1. w \in Word /\ mk(w) \in Mask \ {{}} /\ pc \in PC
    BY <1>3 DEF PC
  <2>2. Present(w) \in Trace(PC)
        /\ UpdatePresentWTrace(Present(w), pc, mk(w)).RWIter = LDDProfLoopIter
    BY <2>1, PresentRWIter
  <2>3. Live(Present(w))
    BY <2>1, EnterIterationLive DEF Present, LiveInv, TypeOK
  <2>4. UpdatePresentWTrace(Present(w), pc, mk(w)) \in Trace(PC)
    BY <2>1, <2>2, UpdatePresentWTraceType
  <2>5. Live(UpdatePresentWTrace(Present(w), pc, mk(w)))
    BY <2>1, <2>2, <2>3, UpdatePresentWTraceLive
  <2>6. WriteLID(Present(w), pc, mk(w)) \subseteq DepKey
    BY <2>1, <2>2, LIDType DEF DepKey
  <2> QED
    BY <2>2, <2>4, <2>5, <2>6
<1> HIDE DEF T, mk, page
<1>5. TypeOK'
  <2>1. shadow' \in [Word -> Trace(PC)]
    BY <1>1, <1>4 DEF TypeOK
  <2>2. liDeps' \subseteq DepKey
    BY <1>1, <1>4 DEF TypeOK
  <2> QED
    BY <1>1, <1>2, <2>1, <2>2 DEF TypeOK
<1>6. LiveInv'
  BY <1>1, <1>4 DEF LiveInv
<1>7. ReachInv'
  <2> SUFFICES ASSUME NEW w \in Word, Pending(w)', ~ FirstOfPage(w)
               PROVE  /\ LDDProfLoopID' # 0
                      /\ shadow'[w].RWIter = LDDProfLoopIter'
                      /\ PageOf(w) \in ShdwPageSet'
    BY DEF ReachInv
  <2>1. CASE w \in T
    BY <2>1, <1>1, <1>2, <1>3, <1>4
  <2>2. CASE w \notin T
    <3>1. shadow'[w] = shadow[w]
      BY <2>2, <1>1
    <3>2. Pending(w)
      BY <3>1 DEF Pending
    <3> QED
      BY <3>1, <3>2, <1>1, <1>2 DEF ReachInv
  <2> QED
    BY <2>1, <2>2
<1> QED
  BY <1>2, <1>5, <1>6, <1>7

-----------------------------------------------------------------------------
\* The three calls of the analysis differ only in what they do to the loop's
\* variables.
LEMMA AnalysisStepInv ==
  ASSUME Inv, AddPresentToPrecedeTrace, LDDProfLoopID' \in {0, 1},
         LDDProfLoopIter' \in Nat, UNCHANGED <<sessions, liDeps>>
  PROVE  Inv'
<1>1. TypeOK'
  BY AnalysisInv DEF Inv, TypeOK
<1>2. ReachInv'
  BY AnalysisInv DEF ReachInv
<1> QED
  BY <1>1, <1>2, AnalysisInv DEF Inv

\* The invariant holds initially.
LEMMA InitInv == Init => Inv
<1> SUFFICES ASSUME Init PROVE Inv
  OBVIOUS
<1>1. NoTrace \in Trace(PC)
  BY DEF NoTrace, Trace, Mask
<1>2. TypeOK
  BY <1>1, LightShadowAssumption DEF Init, TypeOK
<1>3. CacheInv
  BY DEF Init, CacheInv
<1>4. LiveInv
  BY DEF Init, LiveInv, Live, LiveIn, NoTrace
<1>5. ReachInv
  BY DEF Init, ReachInv, Pending, NoTrace
<1> QED
  BY <1>2, <1>3, <1>4, <1>5 DEF Inv

\* Every step keeps the invariant.
LEMMA NextInv == Inv /\ [Next]_vars => Inv'
<1> SUFFICES ASSUME Inv, [Next]_vars PROVE Inv'
  OBVIOUS
<1>1. CASE EnterLoop
  <2>1. TypeOK'
    BY <1>1 DEF EnterLoop, Inv, TypeOK, depVars, pageVars
  <2>2. CacheInv' /\ LiveInv'
    BY <1>1 DEF EnterLoop, Inv, CacheInv, LiveInv, pageVars
  <2>3. ReachInv'
    BY <1>1 DEF EnterLoop, Inv, ReachInv, Pending
  <2> QED
    BY <2>1, <2>2, <2>3 DEF Inv
<1>2. ASSUME NEW pc \in LoadPCs, NEW al \in Access, Load(pc, al[1], al[2])
      PROVE  Inv'
  BY <1>2, LoadInv
<1>3. ASSUME NEW pc \in StorePCs, NEW al \in Access, Store(pc, al[1], al[2])
      PROVE  Inv'
  BY <1>3, StoreInv
<1>4. CASE EndIteration
  <2>1. LDDProfLoopIter' \in Nat /\ LDDProfLoopID' \in {0, 1}
    BY <1>4 DEF EndIteration, Inv, TypeOK
  <2> QED
    BY <1>4, <2>1, AnalysisStepInv DEF EndIteration
<1>5. CASE EndNestedIteration
  <2>1. LDDProfLoopIter' \in Nat /\ LDDProfLoopID' \in {0, 1}
    BY <1>5 DEF EndNestedIteration, Inv, TypeOK, loopVars
  <2> QED
    BY <1>5, <2>1, AnalysisStepInv DEF EndNestedIteration, loopVars
<1>6. CASE ExitLoop
  <2>1. LDDProfLoopIter' \in Nat /\ LDDProfLoopID' \in {0, 1}
    BY <1>6 DEF ExitLoop, Inv, TypeOK
  <2> QED
    BY <1>6, <2>1, AnalysisStepInv DEF ExitLoop
<1>7. CASE UNCHANGED vars
  BY <1>7 DEF Inv, TypeOK, CacheInv, LiveInv, ReachInv, Pending,
              vars, loopVars, depVars, pageVars
<1> QED
  BY <1>1, <1>2, <1>3, <1>4, <1>5, <1>6, <1>7 DEF Next

\* The four invariants together are inductive.
THEOREM Invariance == Spec => []Inv
  BY InitInv, NextInv, PTL DEF Spec

\* Every variable of the profiler keeps its type.
THEOREM TypeCorrect == Spec => []TypeOK
<1>1. Inv => TypeOK
  BY DEF Inv
<1> QED
  BY <1>1, Invariance, PTL

\* A page whose insertion an access skips, because the page cache has it, is in
\* ShdwPageSet.
THEOREM CacheCorrect == Spec => []CacheInv
<1>1. Inv => CacheInv
  BY DEF Inv
<1> QED
  BY <1>1, Invariance, PTL

\* The present tables know at most one first reader and one last writer of a
\* byte in the iteration they were filled in.
THEOREM OneLiveNode == Spec => []LiveInv
<1>1. Inv => LiveInv
  BY DEF Inv
<1> QED
  BY <1>1, Invariance, PTL

\* From iteration 3 on every present table is in reach of the analysis at the end
\* of its iteration, except that of the first word of a page.
THEOREM AnalysisReaches == Spec => []ReachInv
<1>1. Inv => ReachInv
  BY DEF Inv
<1> QED
  BY <1>1, Invariance, PTL
=============================================================================
