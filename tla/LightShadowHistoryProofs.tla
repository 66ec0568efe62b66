---------------------- MODULE LightShadowHistoryProofs ----------------------
(***************************************************************************)
(* The dependences the light-shadow profiler reports are those of the      *)
(* profiled program, whatever its accesses, the word and page size and the *)
(* number of iterations, in one execution of the profiled loop.            *)
(*                                                                         *)
(* The argument ties the shadow words to the history of the accesses:      *)
(* NowInv says, byte by byte, what the present tables know of the current  *)
(* iteration; CarryInv, which accesses the nodes of all tables stand for;  *)
(* KeptInv, that no last write and no first read is missing from the       *)
(* precede tables.                                                         *)
(***************************************************************************)
EXTENDS LightShadowProps, LightShadowProofs

\* No access has bytes in a third word.
AccessFits == \A al \in Access : Offset(al[1]) + al[2] =< 2 * WordBytes

\* The bytes of the program, and byte b of word w
Address == 0 .. NumWords * WordBytes - 1
At(w, b) == w * WordBytes + b

\* A profiled access
Event == [op : {"R", "W"}, pc : PC, bytes : SUBSET Address, iter : Nat, session : Nat]

\* The accesses to byte x in the current iteration
Here(x) ==
  {i \in Acc : x \in hist[i].bytes /\ hist[i].session = sessions
                 /\ hist[i].iter = LDDProfLoopIter}

\* Byte x has been written, or touched, in the current iteration; the instruction
\* that wrote it last, and those that read it first
WrittenHere(x)  == Here(x) \cap Writes # {}
TouchedHere(x)  == Here(x) # {}
LastPC(x, q)    == \E i \in Here(x) : LastWrite(i, x) /\ hist[i].pc = q
FirstReadPC(x, q) == \E i \in Here(x) \cap Reads : FirstAccess(i, x) /\ hist[i].pc = q

\* What the Trace t of word w knows of its byte b in the current iteration.
ByteInv(t, w, b) ==
  /\ b \in t.GlobalWriteMask <=> WrittenHere(At(w, b))
  /\ b \in t.GlobalReadMask => TouchedHere(At(w, b))
  /\ \A n \in t.WTrace : n.age = 0 /\ b \in n.mask => LastPC(At(w, b), n.pc)
  /\ b \in t.GlobalWriteMask /\ (\E n \in t.WTrace : b \in n.mask)
       => \E n \in t.WTrace : n.age = 0 /\ b \in n.mask
  /\ ~ NestedTargets =>
       /\ b \in t.GlobalWriteMask => \E n \in t.WTrace : b \in n.mask
       /\ \A q \in PC : FirstReadPC(At(w, b), q) =>
            b \in t.GlobalReadMask /\ \E n \in t.RTrace : n.age = 0 /\ b \in n.mask /\ n.pc = q

\* A word whose RWIter is another iteration has not been touched in this one.
WordInv(w) ==
  \A b \in Byte :
    IF shadow[w].RWIter = LDDProfLoopIter THEN ByteInv(shadow[w], w, b)
    ELSE ~ TouchedHere(At(w, b))

\* The history runs along with the iterations of the one execution of the loop.
HistInv ==
  /\ hist \in Seq(Event)
  /\ sessions = 0 => LDDProfLoopID = 0 /\ hist = <<>> /\ LDDProfLoopIter = 0
  /\ LDDProfLoopID = 0 => sessions = 0 \/ sessions >= MaxSessions
  /\ LDDProfLoopID # 0 => LDDProfLoopIter # 0
  /\ \A i \in Acc : hist[i].session = sessions /\ hist[i].iter =< LDDProfLoopIter
  /\ \A i, j \in Acc : i < j => hist[i].iter =< hist[j].iter
  /\ \A w \in Word : shadow[w].RWIter =< LDDProfLoopIter

\* The present tables are true to the current iteration.
NowInv == LDDProfLoopID # 0 => \A w \in Word : WordInv(w)

HInv == Inv /\ HistInv /\ NowInv

-----------------------------------------------------------------------------
\* Bytes and words.
LEMMA AtWord ==
  ASSUME NEW w \in Word, NEW b \in Byte
  PROVE  At(w, b) \in Address /\ FirstWord(At(w, b)) = w /\ Offset(At(w, b)) = b
<1> DEFINE x == w * WordBytes + b
<1> USE WordBytesAssumption, LightShadowAssumption
<1>1. w \in Nat /\ w + 1 =< NumWords /\ b \in 0 .. WordBytes - 1
  BY DEF Word, Byte
<1>2. (w + 1) * WordBytes =< NumWords * WordBytes
  BY <1>1
<1>3. x \in Nat /\ x < NumWords * WordBytes
  BY <1>1, <1>2
<1>4. x \div WordBytes \in Nat /\ x % WordBytes \in 0 .. WordBytes - 1
      /\ x = WordBytes * (x \div WordBytes) + (x % WordBytes)
  BY <1>3, DivMod
<1>5. x = WordBytes * w + b
  BY <1>1
<1>6. x \div WordBytes = w /\ x % WordBytes = b
  <2> HIDE DEF x
  <2> QED  BY <1>1, <1>4, <1>5, DivUnique
<1>7. x \in Address
  BY <1>3 DEF Address
<1> QED
  BY <1>6, <1>7 DEF At, FirstWord, Offset

\* Every byte is the byte of one word.
LEMMA WordAt ==
  ASSUME NEW x \in Address
  PROVE  FirstWord(x) \in Word /\ Offset(x) \in Byte /\ At(FirstWord(x), Offset(x)) = x
<1> DEFINE w == x \div WordBytes
           b == x % WordBytes
<1> USE WordBytesAssumption, LightShadowAssumption
<1>1. x \in Nat /\ x < NumWords * WordBytes
  BY DEF Address
<1>2. w \in Nat /\ b \in 0 .. WordBytes - 1 /\ x = WordBytes * w + b
  BY <1>1, DivMod
<1>3. w < NumWords
  <2> HIDE DEF w, b
  <2> SUFFICES ASSUME w >= NumWords PROVE FALSE
    BY <1>2
  <2>1. WordBytes * w >= NumWords * WordBytes
    BY <1>2
  <2> QED
    BY <1>1, <1>2, <2>1
<1>4. w * WordBytes + b = x
  <2> HIDE DEF w, b
  <2> QED  BY <1>2
<1> QED
  BY <1>2, <1>3, <1>4 DEF At, FirstWord, Offset, Word, Byte

\* An access touches a byte exactly if the byte is in the mask of a word it touches.
LEMMA AccessBytes ==
  ASSUME AccessFits, NEW al \in Access
  PROVE  /\ al[1] .. al[1] + al[2] - 1 \subseteq Address
         /\ \A w \in Word, b \in Byte :
              At(w, b) \in al[1] .. al[1] + al[2] - 1
                <=> w \in Touched(al[1], al[2]) /\ b \in MaskIn(al[1], al[2], w)
<1> DEFINE addr == al[1]
           len  == al[2]
           f    == addr \div WordBytes
           o    == addr % WordBytes
<1> USE WordBytesAssumption, LightShadowAssumption
<1>1. addr \in Nat /\ len \in Nat \ {0} /\ addr + len =< NumWords * WordBytes
  <2>1. al \in (0 .. NumWords * WordBytes - 1) \X AccessLens
    BY DEF Access
  <2>2. NumWords * WordBytes - 1 \in Int /\ al[1] \in 0 .. NumWords * WordBytes - 1
    BY <2>1
  <2>3. al[1] + al[2] =< NumWords * WordBytes /\ al[2] \in AccessLens
    BY <2>1 DEF Access
  <2>4. al[1] \in Nat
    BY <2>2
  <2>5. al[2] \in Nat \ {0}
    BY <2>3
  <2> QED
    BY <2>3, <2>4, <2>5
<1>2. f \in Nat /\ o \in 0 .. WordBytes - 1 /\ addr = WordBytes * f + o
  BY <1>1, DivMod
<1>3. o + len =< 2 * WordBytes
  BY DEF AccessFits, Offset
<1>4. addr .. addr + len - 1 \subseteq Address
  <2> HIDE DEF addr, len
  <2> QED  BY <1>1 DEF Address
<1>5. ASSUME NEW w \in Word, NEW b \in Byte
      PROVE  At(w, b) \in addr .. addr + len - 1
               <=> w \in Touched(addr, len) /\ b \in MaskIn(addr, len, w)
  <2>1. w \in Nat /\ b \in 0 .. WordBytes - 1
    BY DEF Word, Byte
  <2>2. At(w, b) = w * WordBytes + b
    BY DEF At
  <2>3. w \in Touched(addr, len) <=> w = f \/ (w = f + 1 /\ o + len > WordBytes)
    BY DEF Touched, Straddles, FirstWord, Offset
  <2>4. b \in MaskIn(addr, len, w) <=>
          IF w = f THEN o =< b /\ b < o + len ELSE b < o + len - WordBytes
    BY DEF MaskIn, FirstWord, Offset, Mask1, Mask2
  <2>5. At(w, b) \in addr .. addr + len - 1 <=>
          addr =< w * WordBytes + b /\ w * WordBytes + b < addr + len
    <3>1. w * WordBytes + b \in Int
      BY <2>1
    <3> HIDE DEF addr, len
    <3> QED  BY <1>1, <2>2, <3>1
  <2> HIDE DEF addr, len, f, o
  <2>6. CASE w = f
    <3>1. w * WordBytes = WordBytes * f
      BY <2>1, <2>6
    <3> QED  BY <1>1, <1>2, <2>1, <2>3, <2>4, <2>5, <2>6, <3>1
  <2>7. CASE w = f + 1
    <3>1. w * WordBytes = WordBytes * f + WordBytes
      BY <1>2, <2>1, <2>7
    <3> QED  BY <1>1, <1>2, <2>1, <2>3, <2>4, <2>5, <2>7, <3>1
  <2>8. CASE w < f
    <3>1. w * WordBytes + WordBytes =< WordBytes * f
      <4>1. (w + 1) * WordBytes =< f * WordBytes
        BY <1>2, <2>1, <2>8
      <4> QED  BY <1>2, <2>1, <4>1
    <3> QED  BY <1>1, <1>2, <2>1, <2>3, <2>5, <2>8, <3>1
  <2>9. CASE w > f + 1
    <3>1. w * WordBytes >= WordBytes * f + 2 * WordBytes
      <4>1. w * WordBytes >= (f + 2) * WordBytes
        BY <1>2, <2>1, <2>9
      <4> QED  BY <1>2, <2>1, <4>1
    <3> QED  BY <1>1, <1>2, <1>3, <2>1, <2>3, <2>5, <2>9, <3>1
  <2> QED
    BY <1>2, <2>1, <2>6, <2>7, <2>8, <2>9
<1> QED
  BY <1>4, <1>5

-----------------------------------------------------------------------------
\* The access that is appended to the history is later than all others.
New == Len(hist) + 1
Bytes(al) == al[1] .. al[1] + al[2] - 1

\* What recording an access adds to the history
LEMMA RecordStep ==
  ASSUME TypeOK, HistInv, AccessFits, NEW op \in {"R", "W"}, NEW pc \in PC, NEW al \in Access,
         Record(op, pc, al[1], al[2])
  PROVE  /\ hist' \in Seq(Event)
         /\ Acc' = Acc \cup {New} /\ New \notin Acc /\ Acc \subseteq Nat /\ New \in Nat
         /\ \A i \in Acc : i < New /\ hist'[i] = hist[i]
         /\ hist'[New] = [op |-> op, pc |-> pc, bytes |-> Bytes(al),
                          iter |-> LDDProfLoopIter, session |-> sessions]
<1> DEFINE e == [op |-> op, pc |-> pc, bytes |-> Bytes(al),
                 iter |-> LDDProfLoopIter, session |-> sessions]
<1>1. hist \in Seq(Event)
  BY DEF HistInv
<1>2. Bytes(al) \subseteq Address
  BY AccessBytes DEF Bytes
<1>3. e \in Event
  BY <1>2 DEF Event, TypeOK
<1>4. hist' = Append(hist, e)
  BY DEF Record, Bytes
<1> HIDE DEF e
<1>5. hist' \in Seq(Event) /\ Len(hist') = New /\ hist'[New] = e
      /\ \A i \in 1 .. Len(hist) : hist'[i] = hist[i]
  BY <1>1, <1>3, <1>4 DEF New
<1>6. Acc = 1 .. Len(hist) /\ Acc' = 1 .. New /\ Len(hist) \in Nat
  BY <1>1, <1>5 DEF Acc
<1>7. Acc' = Acc \cup {New} /\ New \notin Acc /\ Acc \subseteq Nat /\ New \in Nat
      /\ \A i \in Acc : i < New
  BY <1>6 DEF New
<1> QED
  BY <1>5, <1>6, <1>7 DEF e

\* What the new access does to the facts about a byte in the current iteration.
LEMMA HereStep ==
  ASSUME TypeOK, HistInv, AccessFits, NEW op \in {"R", "W"}, NEW pc \in PC, NEW al \in Access,
         Record(op, pc, al[1], al[2]), UNCHANGED loopVars, NEW x
  PROVE  /\ WrittenHere(x)' <=> WrittenHere(x) \/ (op = "W" /\ x \in Bytes(al))
         /\ TouchedHere(x)' <=> TouchedHere(x) \/ x \in Bytes(al)
         /\ \A q : LastPC(x, q)' <=>
              IF op = "W" /\ x \in Bytes(al) THEN q = pc ELSE LastPC(x, q)
         /\ \A q : FirstReadPC(x, q)' <=>
              \/ FirstReadPC(x, q)
              \/ op = "R" /\ x \in Bytes(al) /\ ~ TouchedHere(x) /\ q = pc
<1> PICK m : m = New
  OBVIOUS
<1>0. /\ Acc' = Acc \cup {m} /\ m \notin Acc /\ Acc \subseteq Nat /\ m \in Nat
      /\ \A i \in Acc : i < m /\ hist'[i] = hist[i]
  BY RecordStep
<1>a. hist'[m] = [op |-> op, pc |-> pc, bytes |-> Bytes(al),
                  iter |-> LDDProfLoopIter, session |-> sessions]
  BY RecordStep
<1>1. /\ hist'[m].op = op /\ hist'[m].pc = pc /\ hist'[m].bytes = Bytes(al)
      /\ hist'[m].iter = LDDProfLoopIter /\ hist'[m].session = sessions
  BY <1>a
<1>2. sessions' = sessions /\ LDDProfLoopIter' = LDDProfLoopIter
  BY DEF loopVars
<1>3. Here(x)' = Here(x) \cup (IF x \in Bytes(al) THEN {m} ELSE {})
  BY <1>0, <1>1, <1>2 DEF Here
<1>4. Writes' = Writes \cup (IF op = "W" THEN {m} ELSE {})
  BY <1>0, <1>1 DEF Writes
<1>5. Reads' = Reads \cup (IF op = "R" THEN {m} ELSE {})
  BY <1>0, <1>1 DEF Reads
<1>6. Writes \subseteq Acc /\ Reads \subseteq Acc /\ Here(x) \subseteq Acc
  BY DEF Writes, Reads, Here
<1>7. ASSUME NEW i \in Here(x)
      PROVE  LastWrite(i, x)' <=> LastWrite(i, x) /\ ~ (op = "W" /\ x \in Bytes(al))
  <2>1. i \in Acc /\ i < m /\ hist'[i] = hist[i] /\ x \in hist[i].bytes
        /\ hist[i].session = sessions /\ hist[i].iter = LDDProfLoopIter
    BY <1>0, <1>7 DEF Here
  <2>2. SameIteration(i, m)'
    BY <1>1, <2>1 DEF SameIteration
  <2>3. \A k \in Writes : SameIteration(i, k)' <=> SameIteration(i, k)
    BY <1>0, <1>6, <2>1 DEF SameIteration
  <2>4. i \in Writes' <=> i \in Writes
    BY <1>0, <1>4, <2>1
  <2>5. (\A k \in Writes' : i < k /\ SameIteration(i, k)' => x \notin hist'[k].bytes)
          <=> /\ \A k \in Writes : i < k /\ SameIteration(i, k) => x \notin hist[k].bytes
              /\ ~ (op = "W" /\ x \in Bytes(al))
    <3>1. op = "W" => m \in Writes'
      BY <1>4
    <3>2. \A k \in Writes : k \in Writes' /\ hist'[k] = hist[k]
      BY <1>0, <1>4, <1>6
    <3> QED
      BY <1>1, <1>4, <2>1, <2>2, <2>3, <3>1, <3>2
  <2> QED
    BY <2>1, <2>4, <2>5 DEF LastWrite
<1>8. x \in Bytes(al) => (LastWrite(m, x)' <=> op = "W")
  <2>1. m \in Writes' <=> op = "W"
    BY <1>0, <1>4, <1>6
  <2>2. \A k \in Writes' : ~ m < k
    <3>1. \A k \in Acc : ~ m < k
      BY <1>0
    <3>2. ~ m < m
      BY <1>0
    <3> QED
      BY <1>4, <1>6, <3>1, <3>2
  <2> QED
    BY <1>1, <2>1, <2>2 DEF LastWrite
<1>9. ASSUME NEW i \in Here(x)  PROVE FirstAccess(i, x)' <=> FirstAccess(i, x)
  <2>1. i \in Acc /\ i < m /\ hist'[i] = hist[i]
    BY <1>0, <1>9 DEF Here
  <2>2. \A k \in Acc : SameIteration(k, i)' <=> SameIteration(k, i)
    BY <1>0, <2>1 DEF SameIteration
  <2>3. ~ m < i
    BY <1>0, <2>1
  <2> QED
    BY <1>0, <2>1, <2>2, <2>3 DEF FirstAccess
<1>10. x \in Bytes(al) => (FirstAccess(m, x)' <=> ~ TouchedHere(x))
  <2>1. \A k \in Acc : SameIteration(k, m)' <=>
          hist[k].session = sessions /\ hist[k].iter = LDDProfLoopIter
    BY <1>0, <1>1 DEF SameIteration
  <2>2. ~ m < m
    BY <1>0
  <2> QED
    BY <1>0, <1>1, <2>1, <2>2 DEF FirstAccess, TouchedHere, Here
<1>11. WrittenHere(x)' <=> WrittenHere(x) \/ (op = "W" /\ x \in Bytes(al))
  BY <1>0, <1>3, <1>4, <1>6 DEF WrittenHere
<1>12. TouchedHere(x)' <=> TouchedHere(x) \/ x \in Bytes(al)
  BY <1>3 DEF TouchedHere
<1>13. ASSUME NEW q
       PROVE  LastPC(x, q)' <=> IF op = "W" /\ x \in Bytes(al) THEN q = pc ELSE LastPC(x, q)
  <2>1. \A i \in Here(x) : hist'[i].pc = hist[i].pc
    BY <1>0, <1>6
  <2>2. LastPC(x, q)' <=> \E i \in Here(x)' : LastWrite(i, x)' /\ hist'[i].pc = q
    BY DEF LastPC
  <2> QED
    BY <1>1, <1>3, <1>7, <1>8, <2>1, <2>2 DEF LastPC
<1>14. ASSUME NEW q
       PROVE  FirstReadPC(x, q)' <=>
                \/ FirstReadPC(x, q)
                \/ op = "R" /\ x \in Bytes(al) /\ ~ TouchedHere(x) /\ q = pc
  <2>1. \A i \in Here(x) : hist'[i].pc = hist[i].pc /\ (i \in Reads' <=> i \in Reads)
    BY <1>0, <1>5, <1>6
  <2>2. FirstReadPC(x, q)' <=>
          \E i \in Here(x)' \cap Reads' : FirstAccess(i, x)' /\ hist'[i].pc = q
    BY DEF FirstReadPC
  <2>3. m \in Reads' <=> op = "R"
    BY <1>0, <1>5, <1>6
  <2> QED
    BY <1>1, <1>3, <1>9, <1>10, <2>1, <2>2, <2>3 DEF FirstReadPC
<1> QED
  BY <1>11, <1>12, <1>13, <1>14

-----------------------------------------------------------------------------
\* One word.
LEMMA PresentByte ==
  ASSUME TypeOK, NEW w \in Word, NEW b \in Byte, WordInv(w)
  PROVE  ByteInv(Present(w), w, b)
<1> DEFINE t == shadow[w]
           p == Present(w)
<1>1. t \in Trace(PC)
  BY DEF TypeOK
<1>2. CASE t.RWIter = LDDProfLoopIter
  BY <1>2 DEF Present, EnterIteration, WordInv
<1>3. CASE t.RWIter # LDDProfLoopIter
  <2>1. p.GlobalReadMask = {} /\ p.GlobalWriteMask = {}
        /\ p.WTrace = Older(t.WTrace)
    BY <1>1, <1>3 DEF Present, EnterIteration, Trace
  <2>2. \A n \in p.WTrace : n.age # 0
    BY <1>1, <2>1 DEF Older, Trace, PresentNode
  <2>3. ~ TouchedHere(At(w, b))
    BY <1>3 DEF WordInv
  <2>4. ~ WrittenHere(At(w, b)) /\ \A q : ~ FirstReadPC(At(w, b), q)
    BY <2>3 DEF TouchedHere, WrittenHere, FirstReadPC
  <2> HIDE DEF p
  <2> QED
    BY <2>1, <2>2, <2>4 DEF ByteInv, p
<1> QED
  BY <1>2, <1>3

\* A read keeps what the word knows of each of its bytes.
LEMMA ReadByte ==
  ASSUME TypeOK, HistInv, AccessFits, NEW pc \in LoadPCs, NEW al \in Access,
         Record("R", pc, al[1], al[2]), UNCHANGED loopVars,
         NEW w \in Touched(al[1], al[2]), NEW b \in Byte,
         NEW t \in Trace(PC), ByteInv(t, w, b)
  PROVE  ByteInv(UpdatePresentRTrace(t, pc, MaskIn(al[1], al[2], w)), w, b)'
<1> DEFINE x     == At(w, b)
           mask  == MaskIn(al[1], al[2], w)
           first == (mask \ t.GlobalReadMask) \ t.GlobalWriteMask
           u     == UpdatePresentRTrace(t, pc, mask)
<1>1. w \in Word /\ pc \in PC
  BY TouchedWords DEF PC
<1>2. x \in Bytes(al) <=> b \in mask
  BY <1>1, AccessBytes DEF Bytes
<1>3. /\ WrittenHere(x)' <=> WrittenHere(x)
      /\ TouchedHere(x)' <=> TouchedHere(x) \/ b \in mask
      /\ \A q : LastPC(x, q)' <=> LastPC(x, q)
      /\ \A q : FirstReadPC(x, q)' <=>
              FirstReadPC(x, q) \/ (b \in mask /\ ~ TouchedHere(x) /\ q = pc)
  BY <1>1, <1>2, HereStep
<1>4. u.WTrace = t.WTrace /\ u.GlobalWriteMask = t.GlobalWriteMask
  BY DEF UpdatePresentRTrace, Trace
<1>5. u.GlobalReadMask = IF first = {} THEN t.GlobalReadMask ELSE t.GlobalReadMask \cup mask
  BY DEF UpdatePresentRTrace, Trace
<1>6. u.RTrace = IF first = {} THEN t.RTrace ELSE t.RTrace \cup {NewNode(pc, first)}
  BY DEF UpdatePresentRTrace, Trace
<1>7. ByteInv(t, w, b)
  OBVIOUS
<1>8. WrittenHere(x) => TouchedHere(x)
  BY DEF WrittenHere, TouchedHere
<1>9. ASSUME b \in mask, ~ TouchedHere(x)  PROVE b \in first
  BY <1>7, <1>8, <1>9 DEF ByteInv
<1>10. /\ NewNode(pc, first).age = 0 /\ NewNode(pc, first).mask = first
       /\ NewNode(pc, first).pc = pc
  BY DEF NewNode
<1> HIDE DEF u, first, mask, x
<1>11. ASSUME NEW q \in PC, FirstReadPC(x, q)', ~ NestedTargets
       PROVE  b \in u.GlobalReadMask
                /\ \E n \in u.RTrace : n.age = 0 /\ b \in n.mask /\ n.pc = q
  <2>1. CASE FirstReadPC(x, q)
    <3>1. b \in t.GlobalReadMask
            /\ \E n \in t.RTrace : n.age = 0 /\ b \in n.mask /\ n.pc = q
      BY <1>7, <1>11, <2>1 DEF ByteInv, x
    <3> QED
      BY <1>5, <1>6, <3>1
  <2>2. CASE b \in mask /\ ~ TouchedHere(x) /\ q = pc
    BY <1>5, <1>6, <1>9, <1>10, <2>2
  <2> QED
    BY <1>3, <1>11, <2>1, <2>2
<1>12. /\ b \in u.GlobalWriteMask <=> WrittenHere(x)'
       /\ b \in u.GlobalReadMask => TouchedHere(x)'
  BY <1>3, <1>4, <1>5, <1>7 DEF ByteInv, x
<1>13. \A n \in u.WTrace : n.age = 0 /\ b \in n.mask => LastPC(x, n.pc)'
  BY <1>3, <1>4, <1>7 DEF ByteInv, x
<1>14. /\ b \in u.GlobalWriteMask /\ (\E n \in u.WTrace : b \in n.mask)
            => \E n \in u.WTrace : n.age = 0 /\ b \in n.mask
       /\ ~ NestedTargets => (b \in u.GlobalWriteMask => \E n \in u.WTrace : b \in n.mask)
  BY <1>4, <1>7 DEF ByteInv
<1> QED
  BY <1>11, <1>12, <1>13, <1>14 DEF ByteInv, u, mask, x

\* What trimming leaves of the nodes.
LEMMA TrimmedNodes ==
  ASSUME NEW P, NEW nodes \in SUBSET PresentNode(P), NEW mask
  PROVE  /\ \A n \in Trimmed(nodes, mask) : \E m \in nodes :
              n.pc = m.pc /\ n.age = m.age /\ n.mask = m.mask \ mask
         /\ \A m \in nodes : \A b \in m.mask \ mask : \E n \in Trimmed(nodes, mask) :
              n.pc = m.pc /\ n.age = m.age /\ b \in n.mask
<1>1. \A m \in nodes : LET n == [m EXCEPT !.mask = @ \ mask]
                       IN  n.pc = m.pc /\ n.age = m.age /\ n.mask = m.mask \ mask
  BY DEF PresentNode
<1>2. \A m \in nodes : ~ m.mask \subseteq mask => [m EXCEPT !.mask = @ \ mask] \in Trimmed(nodes, mask)
  BY DEF Trimmed
<1>3. \A n \in Trimmed(nodes, mask) : \E m \in nodes : n = [m EXCEPT !.mask = @ \ mask]
  BY DEF Trimmed
<1> QED
  BY <1>1, <1>2, <1>3

\* A write keeps what the word knows of each of its bytes.
LEMMA WriteByte ==
  ASSUME TypeOK, HistInv, AccessFits, NEW pc \in StorePCs, NEW al \in Access,
         Record("W", pc, al[1], al[2]), UNCHANGED loopVars,
         NEW w \in Touched(al[1], al[2]), NEW b \in Byte,
         NEW t \in Trace(PC), Live(t), ByteInv(t, w, b)
  PROVE  ByteInv(UpdatePresentWTrace(t, pc, MaskIn(al[1], al[2], w)), w, b)'
<1> DEFINE x     == At(w, b)
           mask  == MaskIn(al[1], al[2], w)
           new   == NewNode(pc, mask)
           older == IF mask \cap t.GlobalWriteMask = {} THEN t.WTrace
                    ELSE Trimmed(t.WTrace, mask)
           u     == UpdatePresentWTrace(t, pc, mask)
<1>1. w \in Word /\ pc \in PC
  BY TouchedWords DEF PC
<1>2. x \in Bytes(al) <=> b \in mask
  BY <1>1, AccessBytes DEF Bytes
<1>3. /\ WrittenHere(x)' <=> WrittenHere(x) \/ b \in mask
      /\ TouchedHere(x)' <=> TouchedHere(x) \/ b \in mask
      /\ \A q : LastPC(x, q)' <=> IF b \in mask THEN q = pc ELSE LastPC(x, q)
      /\ \A q : FirstReadPC(x, q)' <=> FirstReadPC(x, q)
  BY <1>1, <1>2, HereStep
<1>4. u.RTrace = t.RTrace /\ u.GlobalReadMask = t.GlobalReadMask
  BY DEF UpdatePresentWTrace, Trace
<1>5. u.WTrace = older \cup {new} /\ u.GlobalWriteMask = t.GlobalWriteMask \cup mask
  BY DEF UpdatePresentWTrace, Trace
<1>6. new.age = 0 /\ new.mask = mask /\ new.pc = pc
  BY DEF NewNode
<1>7. \A n \in t.WTrace : n.age = 0 => n.mask \subseteq t.GlobalWriteMask
  BY DEF Live, LiveIn
<1>8. t.WTrace \in SUBSET PresentNode(PC)
  BY DEF Trace
<1>9. \A n \in older : b \in n.mask /\ b \in mask => n.age # 0
  BY <1>7, <1>8, TrimmedNodes
<1>10. ASSUME NEW n \in older, b \in n.mask
       PROVE  \E m \in t.WTrace : m.pc = n.pc /\ m.age = n.age /\ b \in m.mask
  <2>1. \A k \in Trimmed(t.WTrace, mask) : \E m \in t.WTrace :
          k.pc = m.pc /\ k.age = m.age /\ k.mask = m.mask \ mask
    BY <1>8, TrimmedNodes
  <2>2. CASE mask \cap t.GlobalWriteMask = {}
    BY <1>10, <2>2
  <2>3. CASE mask \cap t.GlobalWriteMask # {}
    BY <1>10, <2>1, <2>3
  <2> QED
    BY <2>2, <2>3
<1>11. ASSUME NEW m \in t.WTrace, b \in m.mask, b \notin mask
       PROVE  \E n \in older : m.pc = n.pc /\ m.age = n.age /\ b \in n.mask
  BY <1>8, <1>11, TrimmedNodes
<1>12. ByteInv(t, w, b)
  OBVIOUS
<1> HIDE DEF u, older, new, mask, x
<1>13. /\ b \in u.GlobalWriteMask <=> WrittenHere(x)'
       /\ b \in u.GlobalReadMask => TouchedHere(x)'
  BY <1>3, <1>4, <1>5, <1>12 DEF ByteInv, x
<1>14. ASSUME NEW n \in u.WTrace, n.age = 0, b \in n.mask  PROVE LastPC(x, n.pc)'
  <2>1. CASE n = new
    BY <1>3, <1>6, <1>14, <2>1
  <2>2. CASE n \in older
    <3>1. b \notin mask
      BY <1>9, <1>14, <2>2
    <3>2. PICK m \in t.WTrace : m.pc = n.pc /\ m.age = n.age /\ b \in m.mask
      BY <1>10, <1>14, <2>2
    <3>3. LastPC(x, m.pc)
      BY <1>12, <1>14, <3>2 DEF ByteInv, x
    <3>4. LastPC(x, n.pc)
      BY <3>2, <3>3
    <3> QED
      BY <1>3, <3>1, <3>4
  <2> QED
    BY <1>5, <1>14, <2>1, <2>2
<1>15. ASSUME b \in u.GlobalWriteMask, NEW n \in u.WTrace, b \in n.mask
       PROVE  \E m \in u.WTrace : m.age = 0 /\ b \in m.mask
  <2>1. CASE b \in mask
    BY <1>5, <1>6, <2>1
  <2>2. CASE b \notin mask
    <3>1. n \in older
      BY <1>5, <1>6, <1>15, <2>2
    <3>2. PICK m \in t.WTrace : m.pc = n.pc /\ m.age = n.age /\ b \in m.mask
      BY <1>10, <1>15, <3>1
    <3>3. PICK k \in t.WTrace : k.age = 0 /\ b \in k.mask
      BY <1>5, <1>12, <1>15, <2>2, <3>2 DEF ByteInv
    <3> QED
      BY <1>5, <1>11, <2>2, <3>3
  <2> QED
    BY <2>1, <2>2
<1>16. ASSUME ~ NestedTargets, b \in u.GlobalWriteMask
       PROVE  \E n \in u.WTrace : b \in n.mask
  <2>1. CASE b \in mask
    BY <1>5, <1>6, <2>1
  <2>2. CASE b \notin mask
    <3>1. PICK k \in t.WTrace : b \in k.mask
      BY <1>5, <1>12, <1>16, <2>2 DEF ByteInv
    <3> QED
      BY <1>5, <1>11, <2>2, <3>1
  <2> QED
    BY <2>1, <2>2
<1>17. ~ NestedTargets => \A q \in PC : FirstReadPC(x, q)' =>
         b \in u.GlobalReadMask /\ \E n \in u.RTrace : n.age = 0 /\ b \in n.mask /\ n.pc = q
  BY <1>3, <1>4, <1>12 DEF ByteInv, x
<1> QED
  BY <1>13, <1>14, <1>15, <1>16, <1>17 DEF ByteInv, u, mask, x

-----------------------------------------------------------------------------
\* The steps.
LEMMA InitHInv == Init /\ hist = <<>> => HInv
<1> SUFFICES ASSUME Init, hist = <<>> PROVE HInv
  OBVIOUS
<1>1. Inv
  BY InitInv
<1>2. HistInv
  BY DEF Init, HistInv, Acc, NoTrace
<1>3. NowInv
  BY DEF Init, NowInv
<1> QED
  BY <1>1, <1>2, <1>3 DEF HInv

\* The word's invariant after a step that makes t of its Trace.
LEMMA WordStep ==
  ASSUME NEW w \in Word, NEW t, shadow'[w] = t,
         \/ t.RWIter = LDDProfLoopIter' /\ \A b \in Byte : ByteInv(t, w, b)'
         \/ t.RWIter # LDDProfLoopIter' /\ \A b \in Byte : ~ TouchedHere(At(w, b))'
  PROVE  WordInv(w)'
<1>1. CASE t.RWIter = LDDProfLoopIter' /\ \A b \in Byte : ByteInv(t, w, b)'
  BY <1>1 DEF WordInv, ByteInv
<1>2. CASE t.RWIter # LDDProfLoopIter' /\ \A b \in Byte : ~ TouchedHere(At(w, b))'
  BY <1>2 DEF WordInv
<1> QED
  BY <1>1, <1>2

\* An access leaves the words alone that it does not touch.
LEMMA UntouchedWord ==
  ASSUME TypeOK, HistInv, AccessFits, NEW op \in {"R", "W"}, NEW pc \in PC, NEW al \in Access,
         Record(op, pc, al[1], al[2]), UNCHANGED loopVars,
         NEW w \in Word, w \notin Touched(al[1], al[2]), shadow'[w] = shadow[w], WordInv(w)
  PROVE  WordInv(w)'
<1>1. ASSUME NEW b \in Byte
      PROVE  /\ WrittenHere(At(w, b))' <=> WrittenHere(At(w, b))
             /\ TouchedHere(At(w, b))' <=> TouchedHere(At(w, b))
             /\ \A q : LastPC(At(w, b), q)' <=> LastPC(At(w, b), q)
             /\ \A q : FirstReadPC(At(w, b), q)' <=> FirstReadPC(At(w, b), q)
  <2>1. At(w, b) \notin Bytes(al)
    BY AccessBytes DEF Bytes
  <2> QED
    BY <2>1, HereStep
<1>2. LDDProfLoopIter' = LDDProfLoopIter
  BY DEF loopVars
<1>3. CASE shadow[w].RWIter = LDDProfLoopIter
  <2>1. \A b \in Byte : ByteInv(shadow[w], w, b)
    BY <1>3 DEF WordInv
  <2>2. PICK t : t = shadow[w]
    OBVIOUS
  <2>3. ASSUME NEW b \in Byte PROVE ByteInv(t, w, b)'
    <3>1. ByteInv(t, w, b)
      BY <2>1, <2>2
    <3> QED
      BY <1>1, <3>1 DEF ByteInv
  <2> QED
    BY <1>2, <1>3, <2>2, <2>3, WordStep
<1>4. CASE shadow[w].RWIter # LDDProfLoopIter
  BY <1>1, <1>2, <1>4 DEF WordInv
<1> QED
  BY <1>3, <1>4

\* A word that has entered the iteration
LEMMA PresentType ==
  ASSUME TypeOK, LiveInv, NEW w \in Word
  PROVE  Present(w) \in Trace(PC) /\ Live(Present(w)) /\ Present(w).RWIter = LDDProfLoopIter
<1>1. shadow[w] \in Trace(PC) /\ LDDProfLoopIter \in Nat /\ Live(shadow[w])
  BY DEF TypeOK, LiveInv
<1>2. Present(w) \in Trace(PC) /\ Live(Present(w))
  BY <1>1, EnterIterationType, EnterIterationLive DEF Present
<1>3. Present(w).RWIter = LDDProfLoopIter
  BY <1>1 DEF Present, EnterIteration, Trace
<1> QED
  BY <1>2, <1>3

\* The history grows by an access of the current iteration.
LEMMA RecordHist ==
  ASSUME TypeOK, HistInv, AccessFits, LDDProfLoopID # 0,
         NEW op \in {"R", "W"}, NEW pc \in PC, NEW al \in Access,
         Record(op, pc, al[1], al[2]), UNCHANGED loopVars,
         \A w \in Word : shadow'[w].RWIter \in {shadow[w].RWIter, LDDProfLoopIter}
  PROVE  HistInv'
<1> PICK m : m = New
  OBVIOUS
<1>1. /\ hist' \in Seq(Event)
      /\ Acc' = Acc \cup {m}
      /\ \A i \in Acc : hist'[i] = hist[i]
      /\ hist'[m] = [op |-> op, pc |-> pc, bytes |-> Bytes(al),
                     iter |-> LDDProfLoopIter, session |-> sessions]
  BY RecordStep
<1>2. LDDProfLoopIter \in Nat
  BY DEF TypeOK
<1>3. /\ LDDProfLoopID' = LDDProfLoopID /\ LDDProfLoopIter' = LDDProfLoopIter
      /\ sessions' = sessions
  BY DEF loopVars
<1>4. \A i \in Acc' : hist'[i].session = sessions /\ hist'[i].iter =< LDDProfLoopIter
  BY <1>1, <1>2 DEF HistInv
<1>5. \A w \in Word : shadow'[w].RWIter =< LDDProfLoopIter
  BY <1>2 DEF HistInv
<1>6. \A i, j \in Acc' : i < j => hist'[i].iter =< hist'[j].iter
  <2>1. Acc \subseteq Nat /\ m \in Nat /\ \A i \in Acc : i < m
    BY RecordStep
  <2>2. ASSUME NEW i \in Acc', NEW j \in Acc', i < j  PROVE hist'[i].iter =< hist'[j].iter
    <3>1. i \in Acc
      BY <1>1, <2>1, <2>2
    <3> QED
      BY <1>1, <1>4, <2>2, <3>1 DEF HistInv
  <2> QED
    BY <2>2
<1> QED
  BY <1>1, <1>3, <1>4, <1>5, <1>6 DEF HistInv

\* A load keeps the tables true to the history.
LEMMA LoadHist ==
  ASSUME HInv, AccessFits, NEW pc \in LoadPCs, NEW al \in Access,
         ProfiledLoad(pc, al[1], al[2])
  PROVE  HistInv' /\ NowInv'
<1> DEFINE T == Touched(al[1], al[2])
           u(w) == UpdatePresentRTrace(Present(w), pc, MaskIn(al[1], al[2], w))
<1>1. TypeOK /\ LiveInv /\ HistInv /\ NowInv /\ pc \in PC
  BY DEF HInv, Inv, PC
<1>2. /\ LDDProfLoopID # 0 /\ UNCHANGED loopVars /\ Record("R", pc, al[1], al[2])
      /\ \A w \in Word : shadow'[w] = IF w \in T THEN u(w) ELSE shadow[w]
  BY DEF ProfiledLoad, Load
<1>3. \A w \in Word : u(w).RWIter = LDDProfLoopIter
  BY <1>1, PresentType DEF UpdatePresentRTrace, Trace
<1>4. HistInv'
  BY <1>1, <1>2, <1>3, RecordHist
<1>5. ASSUME NEW w \in Word  PROVE WordInv(w)'
  <2>1. WordInv(w)
    BY <1>1, <1>2 DEF NowInv
  <2>2. CASE w \notin T
    BY <1>1, <1>2, <2>1, <2>2, UntouchedWord
  <2>3. CASE w \in T
    <3>1. PICK t : t = Present(w)
      OBVIOUS
    <3>2. t \in Trace(PC)
      BY <1>1, <3>1, PresentType
    <3>3. PICK s : s = UpdatePresentRTrace(t, pc, MaskIn(al[1], al[2], w))
      OBVIOUS
    <3>4. ASSUME NEW b \in Byte PROVE ByteInv(s, w, b)'
      <4>1. ByteInv(t, w, b)
        BY <1>1, <2>1, <3>1, PresentByte
      <4>2. ByteInv(UpdatePresentRTrace(t, pc, MaskIn(al[1], al[2], w)), w, b)'
        BY <1>1, <1>2, <2>3, <3>2, <4>1, ReadByte
      <4> QED
        BY <3>3, <4>2
    <3>5. shadow'[w] = s
      BY <1>2, <2>3, <3>1, <3>3
    <3>6. s.RWIter = LDDProfLoopIter'
      BY <1>2, <1>3, <3>1, <3>3 DEF loopVars
    <3> QED
      BY <3>4, <3>5, <3>6, WordStep
  <2> QED
    BY <2>2, <2>3
<1> QED
  BY <1>4, <1>5 DEF NowInv

\* A store keeps the tables true to the history.
LEMMA StoreHist ==
  ASSUME HInv, AccessFits, NEW pc \in StorePCs, NEW al \in Access,
         ProfiledStore(pc, al[1], al[2])
  PROVE  HistInv' /\ NowInv'
<1> DEFINE T == Touched(al[1], al[2])
           u(w) == UpdatePresentWTrace(Present(w), pc, MaskIn(al[1], al[2], w))
<1>1. TypeOK /\ LiveInv /\ HistInv /\ NowInv /\ pc \in PC
  BY DEF HInv, Inv, PC
<1>2. /\ LDDProfLoopID # 0 /\ UNCHANGED loopVars /\ Record("W", pc, al[1], al[2])
      /\ \A w \in Word : shadow'[w] = IF w \in T THEN u(w) ELSE shadow[w]
  BY DEF ProfiledStore, Store
<1>3. \A w \in Word : u(w).RWIter = LDDProfLoopIter
  BY <1>1, PresentType DEF UpdatePresentWTrace, Trace
<1>4. HistInv'
  BY <1>1, <1>2, <1>3, RecordHist
<1>5. ASSUME NEW w \in Word  PROVE WordInv(w)'
  <2>1. WordInv(w)
    BY <1>1, <1>2 DEF NowInv
  <2>2. CASE w \notin T
    BY <1>1, <1>2, <2>1, <2>2, UntouchedWord
  <2>3. CASE w \in T
    <3>1. PICK t : t = Present(w)
      OBVIOUS
    <3>2. t \in Trace(PC) /\ Live(t)
      BY <1>1, <3>1, PresentType
    <3>3. PICK s : s = UpdatePresentWTrace(t, pc, MaskIn(al[1], al[2], w))
      OBVIOUS
    <3>4. ASSUME NEW b \in Byte PROVE ByteInv(s, w, b)'
      <4>1. ByteInv(t, w, b)
        BY <1>1, <2>1, <3>1, PresentByte
      <4>2. ByteInv(UpdatePresentWTrace(t, pc, MaskIn(al[1], al[2], w)), w, b)'
        BY <1>1, <1>2, <2>3, <3>2, <4>1, WriteByte
      <4> QED
        BY <3>3, <4>2
    <3>5. shadow'[w] = s
      BY <1>2, <2>3, <3>1, <3>3
    <3>6. s.RWIter = LDDProfLoopIter'
      BY <1>2, <1>3, <3>1, <3>3 DEF loopVars
    <3> QED
      BY <3>4, <3>5, <3>6, WordStep
  <2> QED
    BY <2>2, <2>3
<1> QED
  BY <1>4, <1>5 DEF NowInv

\* The analysis empties present tables, and leaves the masks.
LEMMA AnalysisTraces ==
  ASSUME TypeOK, AddPresentToPrecedeTrace, NEW w \in Word
  PROVE  /\ shadow'[w].RWIter = shadow[w].RWIter
         /\ shadow'[w].GlobalReadMask = shadow[w].GlobalReadMask
         /\ shadow'[w].GlobalWriteMask = shadow[w].GlobalWriteMask
         /\ shadow'[w].WTrace \in {{}, shadow[w].WTrace}
<1>1. shadow[w] \in Trace(PC)
  BY DEF TypeOK
<1>2. shadow'[w] = shadow[w] \/ shadow'[w] = SetupPrecedeTrace(shadow[w], LDDProfLoopIter)
  BY DEF AddPresentToPrecedeTrace
<1>3. CASE shadow'[w] = shadow[w]
  BY <1>3
<1>4. CASE shadow'[w] = SetupPrecedeTrace(shadow[w], LDDProfLoopIter)
  BY <1>1, <1>4 DEF SetupPrecedeTrace, Trace
<1> QED
  BY <1>2, <1>3, <1>4

\* The end of an iteration of a nested target loop may take first reads away, no last write.
LEMMA NestedHist ==
  ASSUME HInv, EndNestedIteration, UNCHANGED hist
  PROVE  HistInv' /\ NowInv'
<1>1. TypeOK /\ HistInv /\ NowInv
  BY DEF HInv, Inv
<1>2. /\ NestedTargets /\ AddPresentToPrecedeTrace
      /\ LDDProfLoopID # 0 /\ UNCHANGED <<LDDProfLoopID, LDDProfLoopIter, sessions>>
  BY DEF EndNestedIteration, loopVars
<1>3. \A w \in Word : shadow'[w].RWIter = shadow[w].RWIter
  BY <1>1, <1>2, AnalysisTraces
<1>4. HistInv'
  BY <1>1, <1>2, <1>3 DEF HistInv, Acc
<1>5. ASSUME NEW x
      PROVE  /\ WrittenHere(x)' <=> WrittenHere(x)
             /\ TouchedHere(x)' <=> TouchedHere(x)
             /\ \A q : LastPC(x, q)' <=> LastPC(x, q)
  BY <1>2 DEF WrittenHere, TouchedHere, LastPC, Here, LastWrite, Writes, Acc, SameIteration
<1>6. ASSUME NEW w \in Word  PROVE WordInv(w)'
  <2>1. WordInv(w)
    BY <1>1, <1>2 DEF NowInv
  <2>2. CASE shadow[w].RWIter = LDDProfLoopIter
    <3>1. PICK s : s = shadow'[w]
      OBVIOUS
    <3>2. ASSUME NEW b \in Byte PROVE ByteInv(s, w, b)'
      <4>1. ByteInv(shadow[w], w, b)
        BY <2>1, <2>2 DEF WordInv
      <4>2. s.GlobalReadMask = shadow[w].GlobalReadMask
            /\ s.GlobalWriteMask = shadow[w].GlobalWriteMask
            /\ (s.WTrace = {} \/ s.WTrace = shadow[w].WTrace)
        BY <1>1, <1>2, <3>1, AnalysisTraces
      <4> QED
        BY <1>2, <1>5, <4>1, <4>2 DEF ByteInv
    <3> QED
      BY <1>2, <1>3, <2>2, <3>1, <3>2, WordStep
  <2>3. CASE shadow[w].RWIter # LDDProfLoopIter
    BY <1>2, <1>3, <1>5, <2>1, <2>3 DEF WordInv
  <2> QED
    BY <2>2, <2>3
<1> QED
  BY <1>4, <1>6 DEF NowInv

\* No word has been accessed in an iteration that begins.
LEMMA EndHist ==
  ASSUME HInv, EndIteration \/ ExitLoop, UNCHANGED hist, MaxSessions =< 1
  PROVE  HistInv' /\ NowInv'
<1>1. TypeOK /\ HistInv
  BY DEF HInv, Inv
<1>2. /\ AddPresentToPrecedeTrace /\ LDDProfLoopID # 0 /\ UNCHANGED sessions
      /\ \/ LDDProfLoopIter' = LDDProfLoopIter + 1 /\ LDDProfLoopID' = LDDProfLoopID
         \/ LDDProfLoopIter' = LDDProfLoopIter /\ LDDProfLoopID' = 0
  BY DEF EndIteration, ExitLoop
<1>3. LDDProfLoopIter \in Nat /\ sessions \in Nat /\ MaxSessions \in Nat
      /\ shadow \in [Word -> Trace(PC)]
  BY <1>1, LightShadowAssumption DEF TypeOK
<1>4. \A w \in Word : shadow'[w].RWIter = shadow[w].RWIter /\ shadow[w].RWIter \in Nat
  BY <1>1, <1>2, <1>3, AnalysisTraces DEF Trace
<1>5. \A i \in Acc : hist[i].iter \in Nat
  <2>1. hist \in Seq(Event)
    BY <1>1 DEF HistInv
  <2>2. \A i \in Acc : hist[i] \in Event
    BY <2>1 DEF Acc
  <2> QED
    BY <2>2 DEF Event
<1>6. HistInv'
  <2>1. \A i \in Acc' : hist'[i].session = sessions' /\ hist'[i].iter =< LDDProfLoopIter'
    BY <1>1, <1>2, <1>3, <1>5 DEF HistInv, Acc
  <2>2. \A w \in Word : shadow'[w].RWIter =< LDDProfLoopIter'
    BY <1>1, <1>2, <1>3, <1>4 DEF HistInv
  <2>3. sessions # 0
    BY <1>1, <1>2 DEF HistInv
  <2>4. LDDProfLoopID' # 0 => LDDProfLoopIter' # 0
    BY <1>2, <1>3
  <2>5. hist' \in Seq(Event)
    BY <1>1 DEF HistInv
  <2>6. LDDProfLoopID' = 0 => sessions' = 0 \/ sessions' >= MaxSessions
    BY <1>2, <1>3, <2>3
  <2>7. \A i, j \in Acc' : i < j => hist'[i].iter =< hist'[j].iter
    BY <1>1 DEF HistInv, Acc
  <2> QED
    BY <1>2, <2>1, <2>2, <2>3, <2>4, <2>5, <2>6, <2>7 DEF HistInv
<1>7. ASSUME NEW w \in Word, LDDProfLoopID' # 0  PROVE WordInv(w)'
  <2>1. LDDProfLoopIter' = LDDProfLoopIter + 1
    BY <1>2, <1>7
  <2>2. PICK s : s = shadow'[w]
    OBVIOUS
  <2>3. s.RWIter # LDDProfLoopIter'
    BY <1>1, <1>3, <1>4, <2>1, <2>2 DEF HistInv
  <2>4. \A i \in Acc' : hist'[i].iter # LDDProfLoopIter'
    BY <1>1, <1>3, <1>5, <2>1 DEF HistInv, Acc
  <2>5. \A b \in Byte : ~ TouchedHere(At(w, b))'
    BY <2>4 DEF TouchedHere, Here
  <2> QED
    BY <2>2, <2>3, <2>5, WordStep
<1> QED
  BY <1>6, <1>7 DEF NowInv

\* The first execution of the loop finds no history.
LEMMA EnterHist ==
  ASSUME HInv, EnterLoop, UNCHANGED hist, MaxSessions =< 1
  PROVE  HistInv' /\ NowInv'
<1>1. TypeOK /\ HistInv
  BY DEF HInv, Inv
<1>2. /\ LDDProfLoopID = 0 /\ sessions < MaxSessions /\ LDDProfLoopID' = 1
      /\ LDDProfLoopIter' = 1 /\ sessions' = sessions + 1 /\ UNCHANGED shadow
  BY DEF EnterLoop
<1>3. sessions \in Nat /\ MaxSessions \in Nat /\ shadow \in [Word -> Trace(PC)]
  BY <1>1, LightShadowAssumption DEF TypeOK
<1>4. sessions = 0
  BY <1>1, <1>2, <1>3 DEF HistInv
<1>5. hist = <<>> /\ LDDProfLoopIter = 0 /\ hist' = <<>> /\ Acc' = {}
  BY <1>1, <1>4 DEF HistInv, Acc
<1>6. \A w \in Word : shadow'[w].RWIter = 0
  BY <1>1, <1>2, <1>3, <1>5 DEF HistInv, Trace
<1>7. HistInv'
  BY <1>2, <1>4, <1>5, <1>6 DEF HistInv
<1>8. ASSUME NEW w \in Word  PROVE WordInv(w)'
  <2>1. \A b \in Byte : ~ TouchedHere(At(w, b))'
    BY <1>5 DEF TouchedHere, Here
  <2>2. PICK s : s = shadow'[w]
    OBVIOUS
  <2> QED
    BY <1>2, <1>6, <2>1, <2>2, WordStep
<1> QED
  BY <1>7, <1>8 DEF NowInv

\* Every step keeps the tables true to the history.
LEMMA NextHInv ==
  ASSUME HInv, [HNext]_hvars, AccessFits, MaxSessions =< 1
  PROVE  HInv'
<1>1. [Next]_vars
  BY DEF HNext, hvars, Next, ProfiledLoad, ProfiledStore
<1>2. Inv'
  BY <1>1, NextInv DEF HInv
<1>3. HistInv' /\ NowInv'
  <2>1. CASE \E pc \in LoadPCs, al \in Access : ProfiledLoad(pc, al[1], al[2])
    BY <2>1, LoadHist
  <2>2. CASE \E pc \in StorePCs, al \in Access : ProfiledStore(pc, al[1], al[2])
    BY <2>2, StoreHist
  <2>3. CASE EnterLoop /\ UNCHANGED hist
    BY <2>3, EnterHist
  <2>4. CASE (EndIteration \/ ExitLoop) /\ UNCHANGED hist
    BY <2>4, EndHist
  <2>5. CASE EndNestedIteration /\ UNCHANGED hist
    BY <2>5, NestedHist
  <2>6. CASE UNCHANGED hvars
    <3>1. HistInv'
      BY <2>6 DEF HInv, HistInv, hvars, vars, loopVars, Acc
    <3>2. NowInv'
      BY <2>6 DEF HInv, NowInv, hvars, vars, loopVars, WordInv, ByteInv, WrittenHere,
                  TouchedHere, LastPC, FirstReadPC, Here, LastWrite, FirstAccess, Writes,
                  Reads, Acc, SameIteration
    <3> QED
      BY <3>1, <3>2
  <2> QED
    BY <2>1, <2>2, <2>3, <2>4, <2>5, <2>6 DEF HNext
<1> QED
  BY <1>2, <1>3 DEF HInv

-----------------------------------------------------------------------------
\* What the loop-independent checks report.
LEMMA LeastAge ==
  ASSUME NEW P, NEW nodes \in SUBSET PresentNode(P), NEW mask,
         NEW n \in nodes, n.age = 0, NEW b \in n.mask \cap mask
  PROVE  n \in Covering(nodes, mask)
<1>1. \A m \in nodes : m.age \in Nat
  BY DEF PresentNode
<1> QED
  BY <1>1 DEF Covering

\* What a walk for bytes written in this iteration finds is the last to write one.
LEMMA FoundIsLast ==
  ASSUME NEW w \in Word, NEW t \in Trace(PC), \A b \in Byte : ByteInv(t, w, b),
         NEW mask, NEW n \in Covering(t.WTrace, mask \cap t.GlobalWriteMask)
  PROVE  \E b \in mask \cap Byte : LastPC(At(w, b), n.pc)
<1>1. t.WTrace \in SUBSET PresentNode(PC) /\ t.GlobalWriteMask \subseteq Byte
  BY DEF Trace, Mask
<1>2. n \in t.WTrace
  BY DEF Covering
<1>3. PICK b \in n.mask \cap (mask \cap t.GlobalWriteMask) :
        \A m \in t.WTrace : b \in m.mask => n.age =< m.age
  BY DEF Covering
<1>4. b \in Byte
  BY <1>1, <1>3
<1>5. PICK m \in t.WTrace : m.age = 0 /\ b \in m.mask
  BY <1>2, <1>3, <1>4 DEF ByteInv
<1>6. n.age \in Nat
  BY <1>1, <1>2 DEF PresentNode
<1>7. n.age = 0
  BY <1>3, <1>5, <1>6
<1>8. LastPC(At(w, b), n.pc)
  BY <1>2, <1>3, <1>4, <1>7 DEF ByteInv
<1> QED
  BY <1>3, <1>4, <1>8

\* One instruction is the last to write a byte.
LEMMA LastPCUnique ==
  ASSUME HistInv, NEW x, NEW q, NEW r, LastPC(x, q), LastPC(x, r)
  PROVE  q = r
<1>1. PICK i \in Here(x) : LastWrite(i, x) /\ hist[i].pc = q
  BY DEF LastPC
<1>2. PICK j \in Here(x) : LastWrite(j, x) /\ hist[j].pc = r
  BY DEF LastPC
<1>3. i \in Acc /\ j \in Acc /\ SameIteration(i, j) /\ SameIteration(j, i)
  BY <1>1, <1>2 DEF Here, SameIteration
<1>4. ~ i < j /\ ~ j < i
  BY <1>1, <1>2, <1>3 DEF LastWrite
<1>5. Acc \subseteq Nat
  BY DEF HistInv, Acc
<1>6. i = j
  BY <1>3, <1>4, <1>5
<1> QED
  BY <1>1, <1>2, <1>6

\* A read reports the last writers of its bytes and no other instruction.
LEMMA ReadReports ==
  ASSUME HistInv, NEW w \in Word, NEW t \in Trace(PC),
         \A b \in Byte : ByteInv(t, w, b), ~ NestedTargets, NEW pc, NEW mask \in Mask, NEW q
  PROVE  <<"True", q, pc>> \in ReadLID(t, pc, mask) <=> \E b \in mask : LastPC(At(w, b), q)
<1>1. t.WTrace \in SUBSET PresentNode(PC) /\ mask \subseteq Byte
  BY DEF Trace, Mask
<1>2. <<"True", q, pc>> \in ReadLID(t, pc, mask)
        <=> \E n \in Covering(t.WTrace, mask \cap t.GlobalWriteMask) : n.pc = q
  BY DEF ReadLID
<1>3. ASSUME NEW n \in Covering(t.WTrace, mask \cap t.GlobalWriteMask), n.pc = q
      PROVE  \E b \in mask : LastPC(At(w, b), q)
  BY <1>3, FoundIsLast
<1>4. ASSUME NEW b \in mask, LastPC(At(w, b), q)
      PROVE  \E n \in Covering(t.WTrace, mask \cap t.GlobalWriteMask) : n.pc = q
  <2>1. b \in Byte /\ ByteInv(t, w, b)
    BY <1>1
  <2>2. WrittenHere(At(w, b))
    BY <1>4 DEF LastPC, WrittenHere, LastWrite
  <2>3. b \in t.GlobalWriteMask
    BY <2>1, <2>2 DEF ByteInv
  <2>4. PICK n \in t.WTrace : n.age = 0 /\ b \in n.mask
    BY <2>1, <2>3 DEF ByteInv
  <2>5. n \in Covering(t.WTrace, mask \cap t.GlobalWriteMask)
    BY <1>1, <2>3, <2>4, LeastAge
  <2>6. LastPC(At(w, b), n.pc)
    BY <2>1, <2>4 DEF ByteInv
  <2> QED
    BY <1>4, <2>5, <2>6, LastPCUnique
<1> QED
  BY <1>2, <1>3, <1>4

\* A write reports only last writers, and all the first readers of its bytes.
LEMMA WriteReports ==
  ASSUME NEW w \in Word, NEW t \in Trace(PC), \A b \in Byte : ByteInv(t, w, b),
         NEW pc, NEW mask \in Mask, NEW q \in PC
  PROVE  /\ <<"Out", q, pc>> \in WriteLID(t, pc, mask) => \E b \in mask : LastPC(At(w, b), q)
         /\ ~ NestedTargets =>
              ((\E b \in mask : FirstReadPC(At(w, b), q)) => <<"Anti", q, pc>> \in WriteLID(t, pc, mask))
<1>1. t.RTrace \in SUBSET PresentNode(PC) /\ mask \subseteq Byte
  BY DEF Trace, Mask
<1>2. ASSUME <<"Out", q, pc>> \in WriteLID(t, pc, mask)
      PROVE  \E b \in mask : LastPC(At(w, b), q)
  <2>1. PICK n \in Covering(t.WTrace, mask \cap t.GlobalWriteMask) : n.pc = q
    BY <1>2 DEF WriteLID
  <2> QED
    BY <2>1, FoundIsLast
<1>3. ASSUME ~ NestedTargets, NEW b \in mask, FirstReadPC(At(w, b), q)
      PROVE  <<"Anti", q, pc>> \in WriteLID(t, pc, mask)
  <2>1. b \in Byte /\ ByteInv(t, w, b)
    BY <1>1
  <2>2. b \in t.GlobalReadMask
    BY <1>3, <2>1 DEF ByteInv
  <2>3. PICK n \in t.RTrace : n.age = 0 /\ b \in n.mask /\ n.pc = q
    BY <1>3, <2>1 DEF ByteInv
  <2>4. n \in Covering(t.RTrace, mask \cap t.GlobalReadMask)
    BY <1>1, <2>2, <2>3, LeastAge
  <2> QED
    BY <2>2, <2>3, <2>4 DEF WriteLID
<1> QED
  BY <1>2, <1>3

-----------------------------------------------------------------------------
\* The loop-independent dependences of the program.
LastBefore(i, j, x) == Adjacent(i, j, x, Writes)

\* Nothing that is appended comes between two accesses; before the new access, the
\* last write of a byte is the last one of the iteration.
LEMMA LastBeforeStep ==
  ASSUME TypeOK, HistInv, AccessFits, NEW op \in {"R", "W"}, NEW pc \in PC, NEW al \in Access,
         Record(op, pc, al[1], al[2]), NEW m, m = New, NEW i \in Acc, NEW x
  PROVE  /\ \A j \in Acc : LastBefore(i, j, x)' <=> LastBefore(i, j, x)
         /\ i \in Writes => (LastBefore(i, m, x)' <=>
              x \in Bytes(al) /\ i \in Here(x) /\ LastWrite(i, x))
         /\ ~ LastBefore(m, i, x)' /\ ~ LastBefore(m, m, x)'
<1>0. /\ Acc' = Acc \cup {m} /\ m \notin Acc /\ Acc \subseteq Nat /\ m \in Nat
      /\ \A k \in Acc : k < m /\ hist'[k] = hist[k]
  BY RecordStep
<1>a. hist'[m] = [op |-> op, pc |-> pc, bytes |-> Bytes(al),
                  iter |-> LDDProfLoopIter, session |-> sessions]
  BY RecordStep
<1>1. /\ hist'[m].op = op /\ hist'[m].pc = pc /\ hist'[m].bytes = Bytes(al)
      /\ hist'[m].iter = LDDProfLoopIter /\ hist'[m].session = sessions
  BY <1>a
<1>2. Writes' = Writes \cup (IF op = "W" THEN {m} ELSE {}) /\ Writes \subseteq Acc
  BY <1>0, <1>1 DEF Writes
<1>3. ASSUME NEW j \in Acc  PROVE LastBefore(i, j, x)' <=> LastBefore(i, j, x)
  <2>1. ~ m < j
    BY <1>0, <1>3
  <2>2. \A k \in Writes : hist'[k] = hist[k]
    BY <1>0, <1>2
  <2> QED
    BY <1>0, <1>2, <1>3, <2>1, <2>2 DEF LastBefore, Adjacent, SameIteration, SharedBytes
<1>4. ASSUME i \in Writes
      PROVE  LastBefore(i, m, x)' <=> x \in Bytes(al) /\ i \in Here(x) /\ LastWrite(i, x)
  <2>1. i \in Acc /\ i < m /\ hist'[i] = hist[i] /\ ~ m < m
    BY <1>0
  <2>2. LastBefore(i, m, x)' <=>
          /\ hist[i].session = sessions /\ hist[i].iter = LDDProfLoopIter
          /\ x \in hist[i].bytes /\ x \in Bytes(al)
          /\ \A k \in Writes : i < k => x \notin hist[k].bytes
    <3>1. \A k \in Writes : k \in Acc /\ k < m /\ hist'[k] = hist[k]
      BY <1>0, <1>2
    <3>2. LastBefore(i, m, x)' <=>
            /\ i < m
            /\ hist'[i].session = hist'[m].session /\ hist'[i].iter = hist'[m].iter
            /\ x \in hist'[i].bytes \cap hist'[m].bytes
            /\ \A k \in Writes' : i < k /\ k < m => x \notin hist'[k].bytes
      BY DEF LastBefore, Adjacent, SameIteration, SharedBytes
    <3> QED
      BY <1>1, <1>2, <2>1, <3>1, <3>2
  <2>3. i \in Here(x) => \A k \in Writes : i < k => SameIteration(i, k)
    <3>1. hist \in Seq(Event) /\ LDDProfLoopIter \in Nat
      BY DEF HistInv, TypeOK
    <3>2. \A k \in Acc : hist[k] \in Event
      BY <3>1 DEF Acc
    <3>3. \A k \in Acc : hist[k].iter \in Nat
      BY <3>2 DEF Event
    <3>4. \A k \in Acc : /\ hist[k].session = sessions /\ hist[k].iter =< LDDProfLoopIter
                         /\ i < k => hist[i].iter =< hist[k].iter
      BY DEF HistInv
    <3> QED
      BY <1>2, <3>1, <3>3, <3>4 DEF Here, SameIteration
  <2> QED
    BY <1>4, <2>2, <2>3 DEF Here, LastWrite
<1>5. ~ LastBefore(m, i, x)' /\ ~ LastBefore(m, m, x)'
  <2>1. ~ m < i /\ ~ m < m
    BY <1>0
  <2> QED
    BY <2>1 DEF LastBefore, Adjacent
<1> QED
  BY <1>3, <1>4, <1>5

\* The flow dependences of the history, one by one
LEMMA TrueDeps ==
  ASSUME NEW d
  PROVE  /\ d \in LITrueDeps <=> \E i \in Writes, j \in Reads : \E x \in hist[j].bytes :
              LastBefore(i, j, x) /\ d = <<"True", hist[i].pc, hist[j].pc>>
         /\ d \in LITrueDeps' <=> \E i \in Writes', j \in Reads' : \E x \in hist'[j].bytes :
              LastBefore(i, j, x)' /\ d = <<"True", hist'[i].pc, hist'[j].pc>>
<1>1. d \in LITrueDeps <=> \E i \in Writes, j \in Reads : \E x \in hist[j].bytes :
        LastBefore(i, j, x) /\ d = <<"True", hist[i].pc, hist[j].pc>>
  <2>1. \A i, j, x : LastBefore(i, j, x) => x \in hist[i].bytes \cap hist[j].bytes
    BY DEF LastBefore, Adjacent, SharedBytes
  <2>2. d \in LITrueDeps <=> \E ij \in Writes \X Reads :
          /\ \E x \in hist[ij[1]].bytes \cap hist[ij[2]].bytes : LastBefore(ij[1], ij[2], x)
          /\ d = <<"True", hist[ij[1]].pc, hist[ij[2]].pc>>
    BY DEF LITrueDeps, LastBefore, SharedBytes, Dep
  <2>3. ASSUME NEW i \in Writes, NEW j \in Reads, NEW x \in hist[j].bytes,
               LastBefore(i, j, x), d = <<"True", hist[i].pc, hist[j].pc>>
        PROVE  d \in LITrueDeps
    <3>1. <<i, j>> \in Writes \X Reads /\ <<i, j>>[1] = i /\ <<i, j>>[2] = j
      OBVIOUS
    <3> QED
      BY <2>1, <2>2, <2>3, <3>1
  <2>4. ASSUME d \in LITrueDeps
        PROVE  \E i \in Writes, j \in Reads : \E x \in hist[j].bytes :
                 LastBefore(i, j, x) /\ d = <<"True", hist[i].pc, hist[j].pc>>
    <3>1. PICK ij \in Writes \X Reads :
          /\ \E x \in hist[ij[1]].bytes \cap hist[ij[2]].bytes : LastBefore(ij[1], ij[2], x)
          /\ d = <<"True", hist[ij[1]].pc, hist[ij[2]].pc>>
      BY <2>2, <2>4
    <3>2. ij[1] \in Writes /\ ij[2] \in Reads
      BY <3>1
    <3> QED
      BY <3>1, <3>2
  <2> QED
    BY <2>3, <2>4
<1>2. d \in LITrueDeps' <=> \E i \in Writes', j \in Reads' : \E x \in hist'[j].bytes :
        LastBefore(i, j, x)' /\ d = <<"True", hist'[i].pc, hist'[j].pc>>
  <2>1. \A i, j, x : LastBefore(i, j, x)' => x \in hist'[i].bytes \cap hist'[j].bytes
    BY DEF LastBefore, Adjacent, SharedBytes
  <2>2. d \in LITrueDeps' <=> \E ij \in Writes' \X Reads' :
          /\ \E x \in hist'[ij[1]].bytes \cap hist'[ij[2]].bytes : LastBefore(ij[1], ij[2], x)'
          /\ d = <<"True", hist'[ij[1]].pc, hist'[ij[2]].pc>>
    BY DEF LITrueDeps, LastBefore, SharedBytes, Dep
  <2>3. ASSUME NEW i \in Writes', NEW j \in Reads', NEW x \in hist'[j].bytes,
               LastBefore(i, j, x)', d = <<"True", hist'[i].pc, hist'[j].pc>>
        PROVE  d \in LITrueDeps'
    <3>1. <<i, j>> \in Writes' \X Reads' /\ <<i, j>>[1] = i /\ <<i, j>>[2] = j
      OBVIOUS
    <3> QED
      BY <2>1, <2>2, <2>3, <3>1
  <2>4. ASSUME d \in LITrueDeps'
        PROVE  \E i \in Writes', j \in Reads' : \E x \in hist'[j].bytes :
                 LastBefore(i, j, x)' /\ d = <<"True", hist'[i].pc, hist'[j].pc>>
    <3>1. PICK ij \in Writes' \X Reads' :
          /\ \E x \in hist'[ij[1]].bytes \cap hist'[ij[2]].bytes : LastBefore(ij[1], ij[2], x)'
          /\ d = <<"True", hist'[ij[1]].pc, hist'[ij[2]].pc>>
      BY <2>2, <2>4
    <3>2. ij[1] \in Writes' /\ ij[2] \in Reads'
      BY <3>1
    <3> QED
      BY <3>1, <3>2
  <2> QED
    BY <2>3, <2>4
<1> QED
  BY <1>1, <1>2

\* The output dependences of the history, one by one
LEMMA OutDeps ==
  ASSUME NEW d
  PROVE  /\ d \in LIOutDeps <=> \E i \in Writes, j \in Writes : \E x \in hist[j].bytes :
              LastBefore(i, j, x) /\ d = <<"Out", hist[i].pc, hist[j].pc>>
         /\ d \in LIOutDeps' <=> \E i \in Writes', j \in Writes' : \E x \in hist'[j].bytes :
              LastBefore(i, j, x)' /\ d = <<"Out", hist'[i].pc, hist'[j].pc>>
<1>1. d \in LIOutDeps <=> \E i \in Writes, j \in Writes : \E x \in hist[j].bytes :
        LastBefore(i, j, x) /\ d = <<"Out", hist[i].pc, hist[j].pc>>
  <2>1. \A i, j, x : LastBefore(i, j, x) => x \in hist[i].bytes \cap hist[j].bytes
    BY DEF LastBefore, Adjacent, SharedBytes
  <2>2. d \in LIOutDeps <=> \E ij \in Writes \X Writes :
          /\ \E x \in hist[ij[1]].bytes \cap hist[ij[2]].bytes : LastBefore(ij[1], ij[2], x)
          /\ d = <<"Out", hist[ij[1]].pc, hist[ij[2]].pc>>
    BY DEF LIOutDeps, LastBefore, SharedBytes, Dep
  <2>3. ASSUME NEW i \in Writes, NEW j \in Writes, NEW x \in hist[j].bytes,
               LastBefore(i, j, x), d = <<"Out", hist[i].pc, hist[j].pc>>
        PROVE  d \in LIOutDeps
    <3>1. <<i, j>> \in Writes \X Writes /\ <<i, j>>[1] = i /\ <<i, j>>[2] = j
      OBVIOUS
    <3> QED
      BY <2>1, <2>2, <2>3, <3>1
  <2>4. ASSUME d \in LIOutDeps
        PROVE  \E i \in Writes, j \in Writes : \E x \in hist[j].bytes :
                 LastBefore(i, j, x) /\ d = <<"Out", hist[i].pc, hist[j].pc>>
    <3>1. PICK ij \in Writes \X Writes :
          /\ \E x \in hist[ij[1]].bytes \cap hist[ij[2]].bytes : LastBefore(ij[1], ij[2], x)
          /\ d = <<"Out", hist[ij[1]].pc, hist[ij[2]].pc>>
      BY <2>2, <2>4
    <3>2. ij[1] \in Writes /\ ij[2] \in Writes
      BY <3>1
    <3> QED
      BY <3>1, <3>2
  <2> QED
    BY <2>3, <2>4
<1>2. d \in LIOutDeps' <=> \E i \in Writes', j \in Writes' : \E x \in hist'[j].bytes :
        LastBefore(i, j, x)' /\ d = <<"Out", hist'[i].pc, hist'[j].pc>>
  <2>1. \A i, j, x : LastBefore(i, j, x)' => x \in hist'[i].bytes \cap hist'[j].bytes
    BY DEF LastBefore, Adjacent, SharedBytes
  <2>2. d \in LIOutDeps' <=> \E ij \in Writes' \X Writes' :
          /\ \E x \in hist'[ij[1]].bytes \cap hist'[ij[2]].bytes : LastBefore(ij[1], ij[2], x)'
          /\ d = <<"Out", hist'[ij[1]].pc, hist'[ij[2]].pc>>
    BY DEF LIOutDeps, LastBefore, SharedBytes, Dep
  <2>3. ASSUME NEW i \in Writes', NEW j \in Writes', NEW x \in hist'[j].bytes,
               LastBefore(i, j, x)', d = <<"Out", hist'[i].pc, hist'[j].pc>>
        PROVE  d \in LIOutDeps'
    <3>1. <<i, j>> \in Writes' \X Writes' /\ <<i, j>>[1] = i /\ <<i, j>>[2] = j
      OBVIOUS
    <3> QED
      BY <2>1, <2>2, <2>3, <3>1
  <2>4. ASSUME d \in LIOutDeps'
        PROVE  \E i \in Writes', j \in Writes' : \E x \in hist'[j].bytes :
                 LastBefore(i, j, x)' /\ d = <<"Out", hist'[i].pc, hist'[j].pc>>
    <3>1. PICK ij \in Writes' \X Writes' :
          /\ \E x \in hist'[ij[1]].bytes \cap hist'[ij[2]].bytes : LastBefore(ij[1], ij[2], x)'
          /\ d = <<"Out", hist'[ij[1]].pc, hist'[ij[2]].pc>>
      BY <2>2, <2>4
    <3>2. ij[1] \in Writes' /\ ij[2] \in Writes'
      BY <3>1
    <3> QED
      BY <3>1, <3>2
  <2> QED
    BY <2>3, <2>4
<1> QED
  BY <1>1, <1>2

\* The dependences the new access brings.
LEMMA NewTrueDeps ==
  ASSUME TypeOK, HistInv, AccessFits, NEW op \in {"R", "W"}, NEW pc \in PC, NEW al \in Access,
         Record(op, pc, al[1], al[2]), NEW d
  PROVE  d \in LITrueDeps' <=>
           \/ d \in LITrueDeps
           \/ op = "R" /\ \E x \in Bytes(al) : \E q : LastPC(x, q) /\ d = <<"True", q, pc>>
<1> PICK m : m = New
  OBVIOUS
<1>0. /\ Acc' = Acc \cup {m} /\ m \notin Acc
      /\ \A k \in Acc : hist'[k] = hist[k]
  BY RecordStep
<1>a. hist'[m] = [op |-> op, pc |-> pc, bytes |-> Bytes(al),
                  iter |-> LDDProfLoopIter, session |-> sessions]
  BY RecordStep
<1>1. hist'[m].op = op /\ hist'[m].pc = pc /\ hist'[m].bytes = Bytes(al)
  BY <1>a
<1>2. /\ Writes' = Writes \cup (IF op = "W" THEN {m} ELSE {}) /\ Writes \subseteq Acc
      /\ Reads' = Reads \cup (IF op = "R" THEN {m} ELSE {}) /\ Reads \subseteq Acc
  BY <1>0, <1>1 DEF Writes, Reads
<1>3. /\ \A i, j \in Acc : \A x : LastBefore(i, j, x)' <=> LastBefore(i, j, x)
      /\ \A i \in Writes : \A x : LastBefore(i, m, x)' <=>
           x \in Bytes(al) /\ i \in Here(x) /\ LastWrite(i, x)
      /\ \A i \in Acc : \A x : ~ LastBefore(m, i, x)'
  BY <1>2, LastBeforeStep
<1>4. \A x, q : LastPC(x, q) <=> \E i \in Writes : i \in Here(x) /\ LastWrite(i, x) /\ hist[i].pc = q
  BY DEF LastPC, LastWrite
<1>5. ASSUME d \in LITrueDeps  PROVE d \in LITrueDeps'
  <2>1. PICK i \in Writes, j \in Reads : \E x \in hist[j].bytes :
          LastBefore(i, j, x) /\ d = <<"True", hist[i].pc, hist[j].pc>>
    BY <1>5, TrueDeps
  <2> QED
    BY <1>0, <1>2, <1>3, <2>1, TrueDeps
<1>6. ASSUME op = "R", NEW x \in Bytes(al), NEW q, LastPC(x, q), d = <<"True", q, pc>>
      PROVE  d \in LITrueDeps'
  <2>1. PICK i \in Writes : i \in Here(x) /\ LastWrite(i, x) /\ hist[i].pc = q
    BY <1>4, <1>6
  <2>2. i \in Writes' /\ m \in Reads' /\ x \in hist'[m].bytes /\ hist'[i].pc = q
    BY <1>0, <1>1, <1>2, <1>6, <2>1
  <2>3. LastBefore(i, m, x)'
    BY <1>3, <2>1
  <2>4. d = <<"True", hist'[i].pc, hist'[m].pc>>
    BY <1>1, <1>6, <2>2
  <2> QED
    BY <2>2, <2>3, <2>4, TrueDeps
<1>7. ASSUME d \in LITrueDeps', d \notin LITrueDeps
      PROVE  op = "R" /\ \E x \in Bytes(al) : \E q : LastPC(x, q) /\ d = <<"True", q, pc>>
  <2>1. PICK i \in Writes', j \in Reads' : \E x \in hist'[j].bytes :
          LastBefore(i, j, x)' /\ d = <<"True", hist'[i].pc, hist'[j].pc>>
    BY <1>7, TrueDeps
  <2>2. PICK x \in hist'[j].bytes :
          LastBefore(i, j, x)' /\ d = <<"True", hist'[i].pc, hist'[j].pc>>
    BY <2>1
  <2>3. CASE j \in Acc
    <3>1. i \in Writes /\ j \in Reads
      <4>1. i \in Acc
        BY <1>2, <1>3, <2>2, <2>3
      <4> QED
        BY <1>0, <1>2, <2>3, <4>1
    <3>2. d \in LITrueDeps
      BY <1>0, <1>2, <1>3, <2>2, <2>3, <3>1, TrueDeps
    <3> QED
      BY <1>7, <3>2
  <2>4. CASE j \notin Acc
    <3>1. j = m /\ op = "R"
      BY <1>2, <2>4
    <3>2. i \in Writes
      BY <1>2, <3>1
    <3>3. x \in Bytes(al) /\ i \in Here(x) /\ LastWrite(i, x)
      BY <1>3, <2>2, <3>1, <3>2
    <3>4. d = <<"True", hist[i].pc, pc>>
      BY <1>0, <1>1, <1>2, <2>2, <3>1, <3>2
    <3>5. LastPC(x, hist[i].pc)
      BY <1>4, <3>2, <3>3
    <3> QED
      BY <3>1, <3>3, <3>4, <3>5
  <2> QED
    BY <2>3, <2>4
<1> QED
  BY <1>5, <1>6, <1>7

\* A write adds output dependences from the last writers of its bytes.
LEMMA NewOutDeps ==
  ASSUME TypeOK, HistInv, AccessFits, NEW op \in {"R", "W"}, NEW pc \in PC, NEW al \in Access,
         Record(op, pc, al[1], al[2])
  PROVE  /\ LIOutDeps \subseteq LIOutDeps'
         /\ op = "W" => \A x \in Bytes(al) : \A q : LastPC(x, q) => <<"Out", q, pc>> \in LIOutDeps'
<1> PICK m : m = New
  OBVIOUS
<1>0. /\ Acc' = Acc \cup {m} /\ m \notin Acc
      /\ \A k \in Acc : hist'[k] = hist[k]
  BY RecordStep
<1>a. hist'[m] = [op |-> op, pc |-> pc, bytes |-> Bytes(al),
                  iter |-> LDDProfLoopIter, session |-> sessions]
  BY RecordStep
<1>1. hist'[m].op = op /\ hist'[m].pc = pc /\ hist'[m].bytes = Bytes(al)
  BY <1>a
<1>2. Writes' = Writes \cup (IF op = "W" THEN {m} ELSE {}) /\ Writes \subseteq Acc
  BY <1>0, <1>1 DEF Writes
<1>3. /\ \A i, j \in Acc : \A x : LastBefore(i, j, x)' <=> LastBefore(i, j, x)
      /\ \A i \in Writes : \A x : LastBefore(i, m, x)' <=>
           x \in Bytes(al) /\ i \in Here(x) /\ LastWrite(i, x)
  BY <1>2, LastBeforeStep
<1>4. ASSUME NEW d \in LIOutDeps  PROVE d \in LIOutDeps'
  <2>1. PICK i \in Writes, j \in Writes : \E x \in hist[j].bytes :
          LastBefore(i, j, x) /\ d = <<"Out", hist[i].pc, hist[j].pc>>
    BY OutDeps
  <2> QED
    BY <1>0, <1>2, <1>3, <2>1, OutDeps
<1>5. ASSUME op = "W", NEW x \in Bytes(al), NEW q, LastPC(x, q)
      PROVE  <<"Out", q, pc>> \in LIOutDeps'
  <2>1. PICK i \in Here(x) : LastWrite(i, x) /\ hist[i].pc = q
    BY <1>5 DEF LastPC
  <2>2. i \in Writes
    BY <2>1 DEF LastWrite
  <2>3. i \in Writes' /\ m \in Writes' /\ x \in hist'[m].bytes /\ hist'[i].pc = q
    BY <1>0, <1>1, <1>2, <1>5, <2>1, <2>2
  <2>4. LastBefore(i, m, x)'
    BY <1>3, <1>5, <2>1, <2>2
  <2>5. <<"Out", q, pc>> = <<"Out", hist'[i].pc, hist'[m].pc>>
    BY <1>1, <2>3
  <2> QED
    BY <2>3, <2>4, <2>5, OutDeps
<1> QED
  BY <1>4, <1>5

-----------------------------------------------------------------------------
\* What is reported against what the program did.
LEMMA PresentBytes ==
  ASSUME HInv, LDDProfLoopID # 0, NEW w \in Word
  PROVE  Present(w) \in Trace(PC) /\ \A b \in Byte : ByteInv(Present(w), w, b)
<1>1. TypeOK /\ LiveInv /\ WordInv(w)
  BY DEF HInv, Inv, NowInv
<1> QED
  BY <1>1, PresentType, PresentByte

\* The bytes of an access are those of the masks it is split into.
LEMMA MaskBytes ==
  ASSUME AccessFits, NEW al \in Access
  PROVE  /\ \A w \in Touched(al[1], al[2]) : \A b \in MaskIn(al[1], al[2], w) :
              w \in Word /\ b \in Byte /\ At(w, b) \in Bytes(al)
         /\ \A x \in Bytes(al) : \E w \in Touched(al[1], al[2]) :
              \E b \in MaskIn(al[1], al[2], w) : x = At(w, b)
<1>1. ASSUME NEW w \in Touched(al[1], al[2]), NEW b \in MaskIn(al[1], al[2], w)
      PROVE  w \in Word /\ b \in Byte /\ At(w, b) \in Bytes(al)
  <2>1. w \in Word /\ b \in Byte
    BY <1>1, TouchedWords DEF Mask
  <2> QED
    BY <1>1, <2>1, AccessBytes DEF Bytes
<1>2. ASSUME NEW x \in Bytes(al)
      PROVE  \E w \in Touched(al[1], al[2]) : \E b \in MaskIn(al[1], al[2], w) : x = At(w, b)
  <2>1. x \in Address
    BY AccessBytes DEF Bytes
  <2>2. PICK w \in Word, b \in Byte : x = At(w, b)
    BY <2>1, WordAt
  <2>3. w \in Touched(al[1], al[2]) /\ b \in MaskIn(al[1], al[2], w)
    BY <2>2, AccessBytes DEF Bytes
  <2> QED
    BY <2>2, <2>3
<1> QED
  BY <1>1, <1>2

\* LITrueExact, over a load
LEMMA LoadTrue ==
  ASSUME HInv, AccessFits, ~ NestedTargets, NEW pc \in LoadPCs, NEW al \in Access,
         ProfiledLoad(pc, al[1], al[2]), LITrueExact
  PROVE  LITrueExact'
<1> DEFINE T    == Touched(al[1], al[2])
           M(w) == MaskIn(al[1], al[2], w)
<1>1. /\ TypeOK /\ HistInv /\ pc \in PC /\ LDDProfLoopID # 0
      /\ Record("R", pc, al[1], al[2])
      /\ liDeps' = liDeps \cup UNION {ReadLID(Present(w), pc, M(w)) : w \in T}
  BY DEF HInv, Inv, PC, ProfiledLoad, Load
<1>2. ASSUME NEW w \in T, NEW q
      PROVE  <<"True", q, pc>> \in ReadLID(Present(w), pc, M(w))
               <=> \E b \in M(w) : LastPC(At(w, b), q)
  <2>1. w \in Word /\ M(w) \in Mask
    BY <1>2, TouchedWords
  <2>2. Present(w) \in Trace(PC) /\ \A b \in Byte : ByteInv(Present(w), w, b)
    BY <1>1, <2>1, PresentBytes
  <2> HIDE DEF M
  <2> QED
    BY <1>1, <2>1, <2>2, ReadReports
<1>3. ASSUME NEW w \in T, NEW d \in ReadLID(Present(w), pc, M(w))
      PROVE  \E q : d = <<"True", q, pc>>
  BY <1>3 DEF ReadLID
<1>4. ASSUME NEW d
      PROVE  d \in liDeps' /\ d[1] = "True" <=> d \in LITrueDeps'
  <2>1. d \in liDeps /\ d[1] = "True" <=> d \in LITrueDeps
    BY DEF LITrueExact
  <2>2. d \in LITrueDeps' <=>
           d \in LITrueDeps \/ \E x \in Bytes(al) : \E q : LastPC(x, q) /\ d = <<"True", q, pc>>
    BY <1>1, NewTrueDeps
  <2>3. ASSUME NEW w \in T, d \in ReadLID(Present(w), pc, M(w))
        PROVE  d[1] = "True" /\ \E x \in Bytes(al) : \E q : LastPC(x, q) /\ d = <<"True", q, pc>>
    <3>1. PICK q : d = <<"True", q, pc>>
      BY <1>3, <2>3
    <3>2. PICK b \in M(w) : LastPC(At(w, b), q)
      BY <1>2, <2>3, <3>1
    <3>3. At(w, b) \in Bytes(al)
      BY <2>3, MaskBytes
    <3> QED
      BY <3>1, <3>2, <3>3
  <2>4. ASSUME NEW x \in Bytes(al), NEW q, LastPC(x, q), d = <<"True", q, pc>>
        PROVE  \E w \in T : d \in ReadLID(Present(w), pc, M(w))
    <3>1. PICK w \in T : \E b \in M(w) : x = At(w, b)
      BY MaskBytes
    <3> QED
      BY <1>2, <2>4, <3>1
  <2>5. d \in liDeps' <=> d \in liDeps \/ \E w \in T : d \in ReadLID(Present(w), pc, M(w))
    BY <1>1
  <2> HIDE DEF T, M
  <2> QED
    BY <2>1, <2>2, <2>3, <2>4, <2>5
<1> QED
  BY <1>4 DEF LITrueExact

\* LITrueExact, over a store, which adds no flow dependence
LEMMA StoreTrue ==
  ASSUME HInv, AccessFits, NEW pc \in StorePCs, NEW al \in Access,
         ProfiledStore(pc, al[1], al[2]), LITrueExact
  PROVE  LITrueExact'
<1>1. /\ TypeOK /\ HistInv /\ pc \in PC
      /\ Record("W", pc, al[1], al[2])
      /\ liDeps' = liDeps \cup UNION {WriteLID(Present(w), pc, MaskIn(al[1], al[2], w)) :
                                        w \in Touched(al[1], al[2])}
  BY DEF HInv, Inv, PC, ProfiledStore, Store
<1>2. \A t, mask : \A d \in WriteLID(t, pc, mask) : d[1] # "True"
  BY DEF WriteLID
<1>3. \A d : d \in LITrueDeps' <=> d \in LITrueDeps
  BY <1>1, NewTrueDeps
<1>4. \A d : d \in liDeps' /\ d[1] = "True" <=> d \in liDeps /\ d[1] = "True"
  BY <1>1, <1>2
<1> QED
  BY <1>3, <1>4 DEF LITrueExact

\* LIOutSound, over a load, which adds no output dependence
LEMMA LoadOut ==
  ASSUME HInv, AccessFits, NEW pc \in LoadPCs, NEW al \in Access,
         ProfiledLoad(pc, al[1], al[2]), LIOutSound
  PROVE  LIOutSound'
<1>1. /\ TypeOK /\ HistInv /\ pc \in PC
      /\ Record("R", pc, al[1], al[2])
      /\ liDeps' = liDeps \cup UNION {ReadLID(Present(w), pc, MaskIn(al[1], al[2], w)) :
                                        w \in Touched(al[1], al[2])}
  BY DEF HInv, Inv, PC, ProfiledLoad, Load
<1>2. \A t, mask : \A d \in ReadLID(t, pc, mask) : d[1] # "Out"
  BY DEF ReadLID
<1>3. LIOutDeps \subseteq LIOutDeps'
  BY <1>1, NewOutDeps
<1>4. \A d : d \in liDeps' /\ d[1] = "Out" => d \in liDeps
  BY <1>1, <1>2
<1> QED
  BY <1>3, <1>4 DEF LIOutSound

\* LIOutSound, over a store
LEMMA StoreOut ==
  ASSUME HInv, AccessFits, NEW pc \in StorePCs, NEW al \in Access,
         ProfiledStore(pc, al[1], al[2]), LIOutSound
  PROVE  LIOutSound'
<1> DEFINE T    == Touched(al[1], al[2])
           M(w) == MaskIn(al[1], al[2], w)
<1>1. /\ TypeOK /\ HistInv /\ pc \in PC /\ LDDProfLoopID # 0
      /\ Record("W", pc, al[1], al[2])
      /\ liDeps' = liDeps \cup UNION {WriteLID(Present(w), pc, M(w)) : w \in T}
  BY DEF HInv, Inv, PC, ProfiledStore, Store
<1>2. ASSUME NEW w \in T, NEW d \in WriteLID(Present(w), pc, M(w)), d[1] = "Out"
      PROVE  d \in LIOutDeps'
  <2>1. w \in Word /\ M(w) \in Mask
    BY <1>2, TouchedWords
  <2>2. Present(w) \in Trace(PC) /\ \A b \in Byte : ByteInv(Present(w), w, b)
    BY <1>1, <2>1, PresentBytes
  <2>3. PICK n \in Present(w).WTrace : d = <<"Out", n.pc, pc>>
    BY <1>2 DEF WriteLID, Covering
  <2>4. n.pc \in PC
    BY <2>2, <2>3 DEF Trace, PresentNode
  <2>5. PICK b \in M(w) : LastPC(At(w, b), n.pc)
    <3> HIDE DEF M
    <3>1. <<"Out", n.pc, pc>> \in WriteLID(Present(w), pc, M(w))
      BY <1>2, <2>3
    <3> QED
      BY <2>1, <2>2, <2>4, <3>1, WriteReports
  <2>6. At(w, b) \in Bytes(al)
    BY <1>2, MaskBytes
  <2> QED
    BY <1>1, <2>3, <2>5, <2>6, NewOutDeps
<1>3. LIOutDeps \subseteq LIOutDeps'
  BY <1>1, NewOutDeps
<1>4. \A d \in liDeps' : d \in liDeps \/ \E w \in T : d \in WriteLID(Present(w), pc, M(w))
  BY <1>1
<1> QED
  BY <1>2, <1>3, <1>4 DEF LIOutSound

\* What comes later does not change what came first.
LEMMA FirstAccessStep ==
  ASSUME TypeOK, HistInv, AccessFits, NEW op \in {"R", "W"}, NEW pc \in PC, NEW al \in Access,
         Record(op, pc, al[1], al[2]), NEW i \in Acc, NEW x
  PROVE  FirstAccess(i, x)' <=> FirstAccess(i, x)
<1> PICK m : m = New
  OBVIOUS
<1>1. /\ Acc' = Acc \cup {m} /\ m \notin Acc /\ Acc \subseteq Nat /\ m \in Nat
      /\ \A k \in Acc : k < m /\ hist'[k] = hist[k]
  BY RecordStep
<1>2. ~ m < i /\ hist'[i] = hist[i]
  BY <1>1
<1>3. \A k \in Acc : SameIteration(k, i)' <=> SameIteration(k, i)
  BY <1>1 DEF SameIteration
<1> QED
  BY <1>1, <1>2, <1>3 DEF FirstAccess

\* LIAntiComplete, over an access that reports its anti dependences
LEMMA AccessAnti ==
  ASSUME HInv, AccessFits, NEW op \in {"R", "W"}, NEW pc \in PC, NEW al \in Access,
         Record(op, pc, al[1], al[2]), liDeps \subseteq liDeps', LIAntiComplete,
         op = "W" => \A x \in Bytes(al) : \A q \in PC :
                       FirstReadPC(x, q) => <<"Anti", q, pc>> \in liDeps'
  PROVE  LIAntiComplete'
<1> PICK m : m = New
  OBVIOUS
<1>1. TypeOK /\ HistInv
  BY DEF HInv, Inv
<1>2. /\ Acc' = Acc \cup {m} /\ m \notin Acc /\ Acc \subseteq Nat /\ m \in Nat
      /\ \A k \in Acc : k < m /\ hist'[k] = hist[k]
  BY <1>1, RecordStep
<1>a. hist'[m] = [op |-> op, pc |-> pc, bytes |-> Bytes(al),
                  iter |-> LDDProfLoopIter, session |-> sessions]
  BY <1>1, RecordStep
<1>3. /\ hist'[m].op = op /\ hist'[m].pc = pc /\ hist'[m].bytes = Bytes(al)
      /\ hist'[m].iter = LDDProfLoopIter /\ hist'[m].session = sessions
  BY <1>a
<1>4. /\ Writes' = Writes \cup (IF op = "W" THEN {m} ELSE {}) /\ Writes \subseteq Acc
      /\ Reads' = Reads \cup (IF op = "R" THEN {m} ELSE {}) /\ Reads \subseteq Acc
  BY <1>2, <1>3 DEF Writes, Reads
<1>b. \A k \in Acc : ~ m < k
  <2> SUFFICES ASSUME NEW k \in Acc PROVE ~ m < k
    OBVIOUS
  <2>1. k \in Nat /\ m \in Nat /\ k < m
    BY <1>2
  <2> QED
    BY <2>1
<1>5. SUFFICES ASSUME NEW i \in Reads', NEW j \in Writes', i < j, SameIteration(i, j)',
                      NEW x \in hist'[i].bytes \cap hist'[j].bytes, FirstAccess(i, x)'
               PROVE  <<"Anti", hist'[i].pc, hist'[j].pc>> \in liDeps'
  BY DEF LIAntiComplete, SharedBytes, Dep
<1>6. i \in Acc /\ i \in Reads
  <2>2. i # m
    <3>1. j \in Acc \cup {m}
      BY <1>4, <1>5
    <3>2. ~ m < m
      BY <1>2
    <3> QED
      BY <1>5, <1>b, <3>1, <3>2
  <2> QED
    BY <1>4, <2>2
<1>7. FirstAccess(i, x) /\ hist'[i] = hist[i]
  BY <1>1, <1>2, <1>5, <1>6, FirstAccessStep
<1>8. CASE j \in Acc
  <2>1. j \in Writes /\ hist'[j] = hist[j]
    BY <1>2, <1>4, <1>8
  <2>2. SameIteration(i, j)
    BY <1>5, <1>7, <2>1 DEF SameIteration
  <2>3. <<"Anti", hist[i].pc, hist[j].pc>> \in liDeps
    BY <1>5, <1>6, <1>7, <2>1, <2>2 DEF LIAntiComplete, SharedBytes, Dep
  <2> QED
    BY <1>7, <2>1, <2>3
<1>9. CASE j \notin Acc
  <2>1. j = m /\ op = "W"
    BY <1>4, <1>9
  <2>2. i \in Here(x)
    BY <1>3, <1>5, <1>6, <1>7, <2>1 DEF Here, SameIteration
  <2>3. FirstReadPC(x, hist[i].pc)
    BY <1>6, <1>7, <2>2 DEF FirstReadPC
  <2>4. hist[i].pc \in PC
    <3>1. hist \in Seq(Event)
      BY <1>1 DEF HistInv
    <3>2. hist[i] \in Event
      BY <1>6, <3>1 DEF Acc
    <3> QED
      BY <3>2 DEF Event
  <2>5. x \in Bytes(al)
    BY <1>3, <1>5, <2>1
  <2> QED
    BY <1>3, <1>7, <2>1, <2>3, <2>4, <2>5
<1> QED
  BY <1>8, <1>9

\* LIAntiComplete, over a store
LEMMA StoreAnti ==
  ASSUME HInv, AccessFits, ~ NestedTargets, NEW pc \in StorePCs, NEW al \in Access,
         ProfiledStore(pc, al[1], al[2]), LIAntiComplete
  PROVE  LIAntiComplete'
<1> DEFINE T    == Touched(al[1], al[2])
           M(w) == MaskIn(al[1], al[2], w)
<1>1. /\ pc \in PC /\ LDDProfLoopID # 0
      /\ Record("W", pc, al[1], al[2])
      /\ liDeps' = liDeps \cup UNION {WriteLID(Present(w), pc, M(w)) : w \in T}
  BY DEF PC, ProfiledStore, Store
<1>2. ASSUME NEW x \in Bytes(al), NEW q \in PC, FirstReadPC(x, q)
      PROVE  <<"Anti", q, pc>> \in liDeps'
  <2>1. PICK w \in T : \E b \in M(w) : x = At(w, b)
    BY MaskBytes
  <2>2. w \in Word /\ M(w) \in Mask
    BY TouchedWords
  <2>3. Present(w) \in Trace(PC) /\ \A b \in Byte : ByteInv(Present(w), w, b)
    BY <1>1, <2>2, PresentBytes
  <2>4. <<"Anti", q, pc>> \in WriteLID(Present(w), pc, M(w))
    <3> HIDE DEF M
    <3>1. \E b \in M(w) : FirstReadPC(At(w, b), q)
      BY <1>2, <2>1
    <3> QED
      BY <2>2, <2>3, <3>1, WriteReports
  <2> QED
    BY <1>1, <2>4
<1>3. liDeps \subseteq liDeps'
  BY <1>1
<1> QED
  BY <1>1, <1>2, <1>3, AccessAnti

\* LIAntiComplete, over a load, which is the sink of no anti dependence
LEMMA LoadAnti ==
  ASSUME HInv, AccessFits, NEW pc \in LoadPCs, NEW al \in Access,
         ProfiledLoad(pc, al[1], al[2]), LIAntiComplete
  PROVE  LIAntiComplete'
<1>1. /\ pc \in PC /\ Record("R", pc, al[1], al[2]) /\ liDeps \subseteq liDeps'
  BY DEF PC, ProfiledLoad, Load
<1> QED
  BY <1>1, AccessAnti

\* The loop control changes neither.
LEMMA Unreported ==
  ASSUME UNCHANGED <<hist, liDeps>>
  PROVE  /\ LITrueExact => LITrueExact'
         /\ LIOutSound => LIOutSound'
         /\ LIAntiComplete => LIAntiComplete'
<1>1. LITrueDeps' = LITrueDeps /\ LIOutDeps' = LIOutDeps
  BY DEF LITrueDeps, LIOutDeps, Writes, Reads, Acc, SharedBytes, Adjacent, SameIteration, Dep
<1>2. LIAntiComplete => LIAntiComplete'
  BY DEF LIAntiComplete, Writes, Reads, Acc, SharedBytes, FirstAccess, SameIteration, Dep
<1> QED
  BY <1>1, <1>2 DEF LITrueExact, LIOutSound

ReportInv ==
  /\ HInv
  /\ LIOutSound
  /\ ~ NestedTargets => LITrueExact /\ LIAntiComplete

\* Every step keeps the reported loop-independent dependences right.
LEMMA NextReport ==
  ASSUME ReportInv, [HNext]_hvars, AccessFits, MaxSessions =< 1
  PROVE  ReportInv'
<1>1. HInv'
  BY NextHInv DEF ReportInv
<1>2. CASE \E pc \in LoadPCs, al \in Access : ProfiledLoad(pc, al[1], al[2])
  BY <1>1, <1>2, LoadTrue, LoadOut, LoadAnti DEF ReportInv
<1>3. CASE \E pc \in StorePCs, al \in Access : ProfiledStore(pc, al[1], al[2])
  BY <1>1, <1>3, StoreTrue, StoreOut, StoreAnti DEF ReportInv
<1>4. CASE UNCHANGED <<hist, liDeps>>
  BY <1>1, <1>4, Unreported DEF ReportInv
<1>5. \/ \E pc \in LoadPCs, al \in Access : ProfiledLoad(pc, al[1], al[2])
      \/ \E pc \in StorePCs, al \in Access : ProfiledStore(pc, al[1], al[2])
      \/ UNCHANGED <<hist, liDeps>>
  BY DEF HNext, hvars, vars, EnterLoop, EndIteration, EndNestedIteration, ExitLoop, depVars
<1> QED
  BY <1>2, <1>3, <1>4, <1>5

\* Nothing is reported of an empty history.
LEMMA InitReport == HInit => ReportInv
<1> SUFFICES ASSUME HInit PROVE ReportInv
  OBVIOUS
<1>1. HInv /\ hist = <<>> /\ liDeps = {} /\ Acc = {}
  BY InitHInv DEF HInit, Init, Acc
<1>2. LITrueDeps = {} /\ LIOutDeps = {}
  BY <1>1 DEF LITrueDeps, LIOutDeps, Writes, Reads
<1> QED
  BY <1>1, <1>2 DEF ReportInv, LIOutSound, LITrueExact, LIAntiComplete, Writes, Reads

\* The tables stay true to the history, and the reports to the tables.
THEOREM ReportInvariance ==
  ASSUME AccessFits, MaxSessions =< 1
  PROVE  HSpec => []ReportInv
  BY InitReport, NextReport, PTL DEF HSpec

\* LITrueExact: without nested target loops and in one execution of the loop, the
\* loop-independent flow dependences reported are those of the program, whatever
\* its accesses, the words and the instructions.
THEOREM TrueExact ==
  ASSUME AccessFits, MaxSessions =< 1, ~ NestedTargets
  PROVE  HSpec => []LITrueExact
<1>1. ReportInv => LITrueExact
  BY DEF ReportInv
<1> QED
  BY <1>1, ReportInvariance, PTL

\* LIOutSound: in one execution of the loop, with nested target loops or without,
\* no loop-independent output dependence is reported that the program has not.
THEOREM OutSound ==
  ASSUME AccessFits, MaxSessions =< 1
  PROVE  HSpec => []LIOutSound
<1>1. ReportInv => LIOutSound
  BY DEF ReportInv
<1> QED
  BY <1>1, ReportInvariance, PTL

\* LIAntiComplete: under the assumptions of TrueExact, whoever writes a byte whose
\* first access in the iteration was a read is reported.
THEOREM AntiComplete ==
  ASSUME AccessFits, MaxSessions =< 1, ~ NestedTargets
  PROVE  HSpec => []LIAntiComplete
<1>1. ReportInv => LIAntiComplete
  BY DEF ReportInv
<1> QED
  BY <1>1, ReportInvariance, PTL

\* The present write tables name the last writer of every byte.
LEMMA KeptLast ==
  ASSUME HInv, ~ NestedTargets
  PROVE  LastWriteKept
<1> SUFFICES ASSUME NEW i \in Writes, NEW x \in hist[i].bytes, LDDProfLoopID # 0,
                    hist[i].session = sessions, hist[i].iter = LDDProfLoopIter,
                    LastWrite(i, x)
             PROVE  {n.pc : n \in {m \in shadow[FirstWord(x)].WTrace :
                                     m.age = 0 /\ Offset(x) \in m.mask}} = {hist[i].pc}
  BY DEF LastWriteKept
<1> DEFINE w == FirstWord(x)
           b == Offset(x)
<1>1. HistInv /\ NowInv
  BY DEF HInv
<1>2. x \in Address
  <2>1. hist \in Seq(Event) /\ i \in Acc
    BY <1>1 DEF HistInv, Writes
  <2>2. hist[i] \in Event
    BY <2>1 DEF Acc
  <2> QED
    BY <2>2 DEF Event
<1>3. w \in Word /\ b \in Byte /\ At(w, b) = x
  BY <1>2, WordAt
<1>4. i \in Here(x) /\ LastPC(x, hist[i].pc)
  BY DEF Here, LastPC, Writes
<1>5. WrittenHere(x) /\ TouchedHere(x)
  BY <1>4 DEF WrittenHere, TouchedHere
<1> HIDE DEF w, b
<1>6. ByteInv(shadow[w], w, b)
  BY <1>1, <1>3, <1>5 DEF NowInv, WordInv
<1>7. PICK n \in shadow[w].WTrace : n.age = 0 /\ b \in n.mask
  BY <1>3, <1>5, <1>6 DEF ByteInv
<1>8. \A m \in shadow[w].WTrace : m.age = 0 /\ b \in m.mask => m.pc = hist[i].pc
  BY <1>1, <1>3, <1>4, <1>6, LastPCUnique DEF ByteInv
<1> QED
  BY <1>7, <1>8 DEF w, b

\* LastWriteKept: under the assumptions of TrueExact, the present write table names,
\* for every byte, the instruction that wrote it last in the iteration.
THEOREM LastWriteCorrect ==
  ASSUME AccessFits, MaxSessions =< 1, ~ NestedTargets
  PROVE  HSpec => []LastWriteKept
<1>1. ReportInv => LastWriteKept
  BY KeptLast DEF ReportInv
<1> QED
  BY <1>1, ReportInvariance, PTL

-----------------------------------------------------------------------------
\* The loop-carried analysis: where the nodes of the tables come from.  An access
\* that crosses pages may leave a word behind, so that nothing is said if there is one.
NoCross == \A i \in Acc : ~ CrossesPage(i)

\* The analysis at the end of the iteration reaches every word accessed in it.
AllReach ==
  \A w \in Word : Pending(w) =>
    LDDProfLoopID # 0 /\ shadow[w].RWIter = LDDProfLoopIter /\ PageOf(w) \in ShdwPageSet

\* Access i is one the node n of word w may stand for.
Backed(w, op, n, i) ==
  i \in Acc /\ hist[i].op = op /\ hist[i].pc = n.pc /\ \A b \in n.mask : At(w, b) \in hist[i].bytes

\* A node of the present tables stands for an access of iteration r, or has been
\* left over by an iteration that was not analysed.
PresentFrom(w, op, n, r) ==
  \E i \in Acc : /\ Backed(w, op, n, i) /\ hist[i].iter =< r
                 /\ IF n.age = 0 THEN hist[i].iter = r ELSE hist[i].iter < FirstAnalysedIter

\* A source stands for an access of its iteration, or for a left-over one.
PrecedeFrom(w, op, q, r) ==
  /\ FirstAnalysedIter =< q.iter /\ q.iter =< r
  /\ \E i \in Acc : Backed(w, op, q, i)
                      /\ (hist[i].iter = q.iter \/ hist[i].iter < FirstAnalysedIter)

\* Nodes left over from before iteration 3 are analysed before there is a source.
TraceFrom(t, w) ==
  /\ \A n \in t.RTrace : PresentFrom(w, "R", n, t.RWIter)
  /\ \A n \in t.WTrace : PresentFrom(w, "W", n, t.RWIter)
  /\ \A q \in t.PrecedeR : PrecedeFrom(w, "R", q, t.RWIter)
  /\ \A q \in t.PrecedeW : PrecedeFrom(w, "W", q, t.RWIter)
  /\ (\E n \in t.RTrace \cup t.WTrace : n.age # 0) => t.PrecedeR = {} /\ t.PrecedeW = {}

\* If no access crosses pages, the analysis reaches every word, and the nodes of
\* every word stand for accesses.
CarryInv == NoCross => AllReach /\ \A w \in Word : TraceFrom(shadow[w], w)
CarryBase == HInv /\ CarryInv

\* The types of an access
LEMMA EventType ==
  ASSUME HistInv, NEW i \in Acc
  PROVE  /\ hist[i] \in Event /\ hist[i].iter \in Nat /\ hist[i].pc \in PC
         /\ hist[i].bytes \subseteq Address /\ hist[i].op \in {"R", "W"}
<1>1. hist \in Seq(Event)
  BY DEF HistInv
<1>2. hist[i] \in Event
  BY <1>1 DEF Acc
<1> QED
  BY <1>2 DEF Event

\* What a node stands for stays in the history.
LEMMA FromGrows ==
  ASSUME \A i \in Acc : i \in Acc' /\ hist'[i] = hist[i], NEW w, NEW op, NEW n, NEW r
  PROVE  /\ PresentFrom(w, op, n, r) => PresentFrom(w, op, n, r)'
         /\ PrecedeFrom(w, op, n, r) => PrecedeFrom(w, op, n, r)'
  BY DEF PresentFrom, PrecedeFrom, Backed

\* What the tables of a word stand for stays in the history.
LEMMA TraceFromGrows ==
  ASSUME \A i \in Acc : i \in Acc' /\ hist'[i] = hist[i], NEW w, NEW t, TraceFrom(t, w)
  PROVE  TraceFrom(t, w)'
  BY FromGrows DEF TraceFrom

\* A node left over by its iteration has an age.
LEMMA OlderNodes ==
  ASSUME NEW P, NEW nodes \in SUBSET PresentNode(P)
  PROVE  \A n \in Older(nodes) : n.age # 0 /\ n.age \in Nat /\ \E m \in nodes : n.pc = m.pc /\ n.mask = m.mask
  BY DEF Older, PresentNode

\* A word that is not pending has nodes of the first two iterations only.
LEMMA PresentTrace ==
  ASSUME TypeOK, HistInv, AllReach, NEW w \in Word, TraceFrom(shadow[w], w)
  PROVE  TraceFrom(Present(w), w)
<1> DEFINE t == shadow[w]
           p == Present(w)
<1>1. t \in Trace(PC) /\ t.RWIter \in Nat /\ LDDProfLoopIter \in Nat
  BY DEF TypeOK, Trace
<1>2. CASE t.RWIter = LDDProfLoopIter
  BY <1>2 DEF Present, EnterIteration
<1>3. CASE t.RWIter # LDDProfLoopIter
  <2>1. /\ p.RTrace = Older(t.RTrace) /\ p.WTrace = Older(t.WTrace)
        /\ p.PrecedeR = t.PrecedeR /\ p.PrecedeW = t.PrecedeW
        /\ p.RWIter = LDDProfLoopIter
    BY <1>1, <1>3 DEF Present, EnterIteration, Trace
  <2>2. t.RWIter < LDDProfLoopIter
    BY <1>1, <1>3 DEF HistInv
  <2>3. t.RTrace # {} \/ t.WTrace # {} => t.RWIter < FirstAnalysedIter
    BY <1>1, <1>3 DEF AllReach, Pending, FirstAnalysedIter
  <2>4. t.RTrace \in SUBSET PresentNode(PC) /\ t.WTrace \in SUBSET PresentNode(PC)
        /\ t.PrecedeR \in SUBSET PrecedeNode(PC) /\ t.PrecedeW \in SUBSET PrecedeNode(PC)
    BY <1>1 DEF Trace
  <2>5. ASSUME NEW nodes \in SUBSET PresentNode(PC), NEW op, NEW n \in Older(nodes),
               \A m \in nodes : PresentFrom(w, op, m, t.RWIter), t.RWIter < FirstAnalysedIter
        PROVE  PresentFrom(w, op, n, LDDProfLoopIter)
    <3>1. PICK m \in nodes : n.pc = m.pc /\ n.mask = m.mask
      BY OlderNodes
    <3>2. PICK i \in Acc : Backed(w, op, m, i) /\ hist[i].iter =< t.RWIter
      BY <2>5 DEF PresentFrom
    <3>3. Backed(w, op, n, i)
      BY <3>1, <3>2 DEF Backed
    <3>4. hist[i].iter \in Nat
      BY EventType
    <3>5. hist[i].iter < FirstAnalysedIter /\ hist[i].iter =< LDDProfLoopIter
      BY <1>1, <2>2, <2>5, <3>2, <3>4 DEF FirstAnalysedIter
    <3>6. n.age # 0
      BY OlderNodes
    <3> QED
      BY <3>3, <3>5, <3>6 DEF PresentFrom
  <2>6. \A n \in p.RTrace : PresentFrom(w, "R", n, LDDProfLoopIter)
    <3> SUFFICES ASSUME NEW n \in Older(t.RTrace) PROVE PresentFrom(w, "R", n, LDDProfLoopIter)
      BY <2>1
    <3>1. t.RTrace # {}
      BY DEF Older
    <3>2. \A m \in t.RTrace : PresentFrom(w, "R", m, t.RWIter)
      BY DEF TraceFrom
    <3> HIDE DEF t
    <3> QED
      BY <2>3, <2>4, <2>5, <3>1, <3>2
  <2>7. \A n \in p.WTrace : PresentFrom(w, "W", n, LDDProfLoopIter)
    <3> SUFFICES ASSUME NEW n \in Older(t.WTrace) PROVE PresentFrom(w, "W", n, LDDProfLoopIter)
      BY <2>1
    <3>1. t.WTrace # {}
      BY DEF Older
    <3>2. \A m \in t.WTrace : PresentFrom(w, "W", m, t.RWIter)
      BY DEF TraceFrom
    <3> HIDE DEF t
    <3> QED
      BY <2>3, <2>4, <2>5, <3>1, <3>2
  <2>8. /\ \A q \in t.PrecedeR : q.iter \in Nat
        /\ \A q \in t.PrecedeW : q.iter \in Nat
    BY <2>4 DEF PrecedeNode
  <2>9. /\ \A q \in p.PrecedeR : PrecedeFrom(w, "R", q, LDDProfLoopIter)
        /\ \A q \in p.PrecedeW : PrecedeFrom(w, "W", q, LDDProfLoopIter)
    <3>1. /\ \A q \in t.PrecedeR : PrecedeFrom(w, "R", q, t.RWIter)
          /\ \A q \in t.PrecedeW : PrecedeFrom(w, "W", q, t.RWIter)
      BY DEF TraceFrom
    <3>2. ASSUME NEW q, NEW op, q.iter \in Nat, PrecedeFrom(w, op, q, t.RWIter)
          PROVE  PrecedeFrom(w, op, q, LDDProfLoopIter)
      <4>1. q.iter =< LDDProfLoopIter
        BY <1>1, <2>2, <3>2 DEF PrecedeFrom
      <4> QED
        BY <3>2, <4>1 DEF PrecedeFrom
    <3> QED
      BY <2>1, <2>8, <3>1, <3>2
  <2>10. (\E n \in p.RTrace \cup p.WTrace : n.age # 0) => p.PrecedeR = {} /\ p.PrecedeW = {}
    <3> SUFFICES ASSUME NEW n \in p.RTrace \cup p.WTrace
                 PROVE  t.PrecedeR = {} /\ t.PrecedeW = {}
      BY <2>1
    <3>1. t.RTrace # {} \/ t.WTrace # {}
      BY <2>1 DEF Older
    <3>2. t.RWIter < FirstAnalysedIter
      BY <2>3, <3>1
    <3> QED
      BY <1>1, <2>8, <3>2 DEF TraceFrom, PrecedeFrom, FirstAnalysedIter
  <2> HIDE DEF p
  <2> QED
    BY <2>1, <2>6, <2>7, <2>9, <2>10 DEF TraceFrom, p
<1> QED
  BY <1>2, <1>3

\* The new access, for the nodes that stand for it
LEMMA NewFrom ==
  ASSUME TypeOK, HistInv, AccessFits, NEW op \in {"R", "W"}, NEW pc \in PC, NEW al \in Access,
         Record(op, pc, al[1], al[2]), NEW w \in Touched(al[1], al[2]),
         NEW n, n.pc = pc, n.age = 0, n.mask \subseteq MaskIn(al[1], al[2], w),
         NEW r, r = LDDProfLoopIter
  PROVE  PresentFrom(w, op, n, r)'
<1> PICK m : m = New
  OBVIOUS
<1>1. m \in Acc'
  BY RecordStep
<1>2. hist'[m] = [op |-> op, pc |-> pc, bytes |-> Bytes(al),
                  iter |-> LDDProfLoopIter, session |-> sessions]
  BY RecordStep
<1>3. hist'[m].op = op /\ hist'[m].pc = pc /\ hist'[m].bytes = Bytes(al)
      /\ hist'[m].iter = LDDProfLoopIter
  BY <1>2
<1>4. r =< r
  BY DEF TypeOK
<1> QED
  BY <1>1, <1>3, <1>4, MaskBytes DEF PresentFrom, Backed

\* The node of a read stands for it.
LEMMA ReadTrace ==
  ASSUME TypeOK, HistInv, AccessFits, NEW pc \in LoadPCs, NEW al \in Access,
         Record("R", pc, al[1], al[2]), NEW w \in Touched(al[1], al[2]),
         NEW t \in Trace(PC), TraceFrom(t, w), t.RWIter = LDDProfLoopIter
  PROVE  TraceFrom(UpdatePresentRTrace(t, pc, MaskIn(al[1], al[2], w)), w)'
<1> DEFINE mask  == MaskIn(al[1], al[2], w)
           first == (mask \ t.GlobalReadMask) \ t.GlobalWriteMask
           new   == NewNode(pc, first)
           u     == UpdatePresentRTrace(t, pc, mask)
<1>1. TraceFrom(t, w)'
  <2>1. \A i \in Acc : i \in Acc' /\ hist'[i] = hist[i]
    BY RecordStep DEF PC
  <2> QED
    BY <2>1, TraceFromGrows
<1>2. /\ u.WTrace = t.WTrace /\ u.PrecedeR = t.PrecedeR /\ u.PrecedeW = t.PrecedeW
      /\ u.RWIter = t.RWIter
      /\ u.RTrace \subseteq t.RTrace \cup {new}
  BY DEF UpdatePresentRTrace, Trace
<1>3. new.pc = pc /\ new.age = 0 /\ new.mask \subseteq mask
  BY DEF NewNode
<1>4. PresentFrom(w, "R", new, t.RWIter)'
  BY <1>3, NewFrom DEF PC
<1> HIDE DEF u, new
<1> QED
  BY <1>1, <1>2, <1>3, <1>4 DEF TraceFrom, u, mask

\* The node of a write stands for it, a trimmed one for the write it stood for.
LEMMA WriteTrace ==
  ASSUME TypeOK, HistInv, AccessFits, NEW pc \in StorePCs, NEW al \in Access,
         Record("W", pc, al[1], al[2]), NEW w \in Touched(al[1], al[2]),
         NEW t \in Trace(PC), TraceFrom(t, w), t.RWIter = LDDProfLoopIter
  PROVE  TraceFrom(UpdatePresentWTrace(t, pc, MaskIn(al[1], al[2], w)), w)'
<1> DEFINE mask  == MaskIn(al[1], al[2], w)
           new   == NewNode(pc, mask)
           older == IF mask \cap t.GlobalWriteMask = {} THEN t.WTrace
                    ELSE Trimmed(t.WTrace, mask)
           u     == UpdatePresentWTrace(t, pc, mask)
<1>1. TraceFrom(t, w)'
  <2>1. \A i \in Acc : i \in Acc' /\ hist'[i] = hist[i]
    BY RecordStep DEF PC
  <2> QED
    BY <2>1, TraceFromGrows
<1>2. /\ u.RTrace = t.RTrace /\ u.PrecedeR = t.PrecedeR /\ u.PrecedeW = t.PrecedeW
      /\ u.RWIter = t.RWIter
      /\ u.WTrace = older \cup {new}
  BY DEF UpdatePresentWTrace, Trace
<1>3. new.pc = pc /\ new.age = 0 /\ new.mask \subseteq mask
  BY DEF NewNode
<1>4. PresentFrom(w, "W", new, t.RWIter)'
  BY <1>3, NewFrom DEF PC
<1>5. \A n \in older : \E m \in t.WTrace : n.pc = m.pc /\ n.age = m.age /\ n.mask \subseteq m.mask
  <2>1. t.WTrace \in SUBSET PresentNode(PC)
    BY DEF Trace
  <2>2. \A n \in Trimmed(t.WTrace, mask) : \E m \in t.WTrace :
          n.pc = m.pc /\ n.age = m.age /\ n.mask = m.mask \ mask
    BY <2>1, TrimmedNodes
  <2> QED
    BY <2>2
<1> HIDE DEF u, new, older
<1>6. ASSUME NEW n \in older  PROVE PresentFrom(w, "W", n, t.RWIter)'
  <2>1. PICK m \in t.WTrace : n.pc = m.pc /\ n.age = m.age /\ n.mask \subseteq m.mask
    BY <1>5
  <2>2. PresentFrom(w, "W", m, t.RWIter)'
    BY <1>1 DEF TraceFrom
  <2> QED
    BY <2>1, <2>2 DEF PresentFrom, Backed
<1>7. (\E n \in u.RTrace \cup u.WTrace : n.age # 0) => \E n \in t.RTrace \cup t.WTrace : n.age # 0
  BY <1>2, <1>3, <1>5
<1> QED
  BY <1>1, <1>2, <1>4, <1>6, <1>7 DEF TraceFrom, u, mask

\* A source stands for an access of its iteration, or for a left-over one.
LEMMA AnalyseTrace ==
  ASSUME NEW w, NEW t \in Trace(PC), TraceFrom(t, w), NEW r \in Nat, r >= FirstAnalysedIter
  PROVE  TraceFrom(SetupPrecedeTrace(t, r), w)
<1>1. CASE ~ Analysed(t, r)
  BY <1>1 DEF SetupPrecedeTrace
<1>2. CASE Analysed(t, r)
  <2> DEFINE u == SetupPrecedeTrace(t, r)
  <2>1. /\ u.RTrace = {} /\ u.WTrace = {} /\ u.RWIter = t.RWIter /\ t.RWIter = r
        /\ u.PrecedeR = AddToPrecede(t.PrecedeR, t.RTrace, r)
        /\ u.PrecedeW = AddToPrecede(t.PrecedeW, t.WTrace, r)
    BY <1>2 DEF SetupPrecedeTrace, Trace, Analysed
  <2>2. ASSUME NEW op, NEW precede, NEW present,
               \A n \in present : PresentFrom(w, op, n, r),
               \A q \in precede : PrecedeFrom(w, op, q, r),
               NEW q \in AddToPrecede(precede, present, r)
        PROVE  PrecedeFrom(w, op, q, r)
    <3>1. CASE q \in precede
      BY <2>2, <3>1
    <3>2. CASE q \notin precede
      <4>1. PICK n \in present : q = [pc |-> n.pc, mask |-> n.mask, iter |-> r]
        BY <2>2, <3>2 DEF AddToPrecede
      <4>2. q.pc = n.pc /\ q.mask = n.mask /\ q.iter = r
        BY <4>1
      <4>3. PresentFrom(w, op, n, r)
        BY <2>2
      <4> QED
        BY <4>2, <4>3 DEF PresentFrom, PrecedeFrom, Backed
    <3> QED
      BY <3>1, <3>2
  <2>3. /\ \A q \in u.PrecedeR : PrecedeFrom(w, "R", q, r)
        /\ \A q \in u.PrecedeW : PrecedeFrom(w, "W", q, r)
    BY <2>1, <2>2 DEF TraceFrom
  <2> HIDE DEF u
  <2> QED
    BY <2>1, <2>3 DEF TraceFrom, u
<1> QED
  BY <1>1, <1>2

\* Like WordStep
LEMMA TraceFromStep ==
  ASSUME NEW w, NEW t, shadow'[w] = t, TraceFrom(t, w)'
  PROVE  TraceFrom(shadow[w], w)'
  BY DEF TraceFrom

\* An access that stays on its page has all its words recorded.
LEMMA AccessReach ==
  ASSUME HInv, AllReach, AccessFits, NEW op \in {"R", "W"}, NEW pc \in PC, NEW al \in Access,
         Record(op, pc, al[1], al[2]), UNCHANGED loopVars, LDDProfLoopID # 0,
         RecordPage(PageOf(FirstWord(al[1]))), NoCross',
         \A w \in Word : IF w \in Touched(al[1], al[2])
                         THEN shadow'[w].RWIter = LDDProfLoopIter
                         ELSE shadow'[w] = shadow[w]
  PROVE  AllReach'
<1>1. TypeOK /\ CacheInv /\ HistInv
  BY DEF HInv, Inv
<1>2. PageOf(FirstWord(al[1])) \in ShdwPageSet' /\ ShdwPageSet \subseteq ShdwPageSet'
  BY <1>1, FirstWordType, RecordPageInv
<1>3. LDDProfLoopID' = LDDProfLoopID /\ LDDProfLoopIter' = LDDProfLoopIter
  BY DEF loopVars
<1>4. ASSUME NEW w \in Touched(al[1], al[2])  PROVE PageOf(w) = PageOf(FirstWord(al[1]))
  <2> PICK m : m = New
    OBVIOUS
  <2>1. m \in Acc'
    BY <1>1, RecordStep
  <2>2. hist'[m] = [op |-> op, pc |-> pc, bytes |-> Bytes(al),
                    iter |-> LDDProfLoopIter, session |-> sessions]
    BY <1>1, RecordStep
  <2>3. hist'[m].bytes = Bytes(al)
    BY <2>2
  <2>4. \A b, c \in Bytes(al) : PageOf(FirstWord(b)) = PageOf(FirstWord(c))
    BY <2>1, <2>3 DEF NoCross, CrossesPage
  <2>5. \A v \in Touched(al[1], al[2]) : \E b \in Bytes(al) : FirstWord(b) = v
    <3> SUFFICES ASSUME NEW v \in Touched(al[1], al[2]) PROVE \E b \in Bytes(al) : FirstWord(b) = v
      OBVIOUS
    <3>1. PICK b : b \in MaskIn(al[1], al[2], v)
      BY TouchedWords
    <3>2. v \in Word /\ b \in Byte /\ At(v, b) \in Bytes(al)
      BY <3>1, MaskBytes
    <3> QED
      BY <3>2, AtWord
  <2>6. FirstWord(al[1]) \in Touched(al[1], al[2])
    BY DEF Touched
  <2> QED
    BY <2>4, <2>5, <2>6
<1>5. ASSUME NEW w \in Word, Pending(w)'
      PROVE  LDDProfLoopID' # 0 /\ shadow'[w].RWIter = LDDProfLoopIter' /\ PageOf(w) \in ShdwPageSet'
  <2>1. CASE w \in Touched(al[1], al[2])
    BY <1>2, <1>3, <1>4, <2>1
  <2>2. CASE w \notin Touched(al[1], al[2])
    <3>1. Pending(w)
      BY <1>5, <2>2 DEF Pending
    <3> QED
      BY <1>2, <1>3, <2>2, <3>1 DEF AllReach
  <2> QED
    BY <2>1, <2>2
<1> QED
  BY <1>5 DEF AllReach

\* CarryInv, over a load
LEMMA LoadCarry ==
  ASSUME CarryBase, AccessFits, NEW pc \in LoadPCs, NEW al \in Access,
         ProfiledLoad(pc, al[1], al[2])
  PROVE  CarryInv'
<1> SUFFICES ASSUME NoCross' PROVE AllReach' /\ \A w \in Word : TraceFrom(shadow[w], w)'
  BY DEF CarryInv
<1> DEFINE T == Touched(al[1], al[2])
           u(w) == UpdatePresentRTrace(Present(w), pc, MaskIn(al[1], al[2], w))
<1>1. TypeOK /\ LiveInv /\ HistInv /\ HInv /\ CarryInv /\ pc \in PC
  BY DEF CarryBase, HInv, Inv, PC
<1>2. /\ LDDProfLoopID # 0 /\ UNCHANGED loopVars /\ Record("R", pc, al[1], al[2])
      /\ RecordPage(PageOf(FirstWord(al[1])))
      /\ \A w \in Word : shadow'[w] = IF w \in T THEN u(w) ELSE shadow[w]
  BY DEF ProfiledLoad, Load
<1>3. \A i \in Acc : i \in Acc' /\ hist'[i] = hist[i]
  BY <1>1, <1>2, RecordStep
<1>4. NoCross
  BY <1>3 DEF NoCross, CrossesPage
<1>5. AllReach /\ \A w \in Word : TraceFrom(shadow[w], w)
  BY <1>1, <1>4 DEF CarryInv
<1>6. \A w \in Word : u(w).RWIter = LDDProfLoopIter
  BY <1>1, PresentRWIter
<1>7. AllReach'
  BY <1>1, <1>2, <1>5, <1>6, AccessReach
<1>8. ASSUME NEW w \in Word  PROVE TraceFrom(shadow[w], w)'
  <2>1. CASE w \notin T
    <3>1. PICK t : t = shadow[w]
      OBVIOUS
    <3>2. TraceFrom(t, w)'
      BY <1>3, <1>5, <3>1, TraceFromGrows
    <3> QED
      BY <1>2, <2>1, <3>1, <3>2, TraceFromStep
  <2>2. CASE w \in T
    <3>1. PICK t : t = Present(w)
      OBVIOUS
    <3>2. t \in Trace(PC) /\ t.RWIter = LDDProfLoopIter
      BY <1>1, <3>1, PresentType
    <3>3. TraceFrom(t, w)
      BY <1>1, <1>5, <3>1, PresentTrace
    <3>4. PICK s : s = UpdatePresentRTrace(t, pc, MaskIn(al[1], al[2], w))
      OBVIOUS
    <3>5. TraceFrom(UpdatePresentRTrace(t, pc, MaskIn(al[1], al[2], w)), w)'
      BY <1>1, <1>2, <2>2, <3>2, <3>3, ReadTrace
    <3>6. TraceFrom(s, w)'
      BY <3>4, <3>5
    <3>7. shadow'[w] = s
      BY <1>2, <2>2, <3>1, <3>4
    <3> QED
      BY <3>6, <3>7, TraceFromStep
  <2> QED
    BY <2>1, <2>2
<1> QED
  BY <1>7, <1>8

\* CarryInv, over a store
LEMMA StoreCarry ==
  ASSUME CarryBase, AccessFits, NEW pc \in StorePCs, NEW al \in Access,
         ProfiledStore(pc, al[1], al[2])
  PROVE  CarryInv'
<1> SUFFICES ASSUME NoCross' PROVE AllReach' /\ \A w \in Word : TraceFrom(shadow[w], w)'
  BY DEF CarryInv
<1> DEFINE T == Touched(al[1], al[2])
           u(w) == UpdatePresentWTrace(Present(w), pc, MaskIn(al[1], al[2], w))
<1>1. TypeOK /\ LiveInv /\ HistInv /\ HInv /\ CarryInv /\ pc \in PC
  BY DEF CarryBase, HInv, Inv, PC
<1>2. /\ LDDProfLoopID # 0 /\ UNCHANGED loopVars /\ Record("W", pc, al[1], al[2])
      /\ RecordPage(PageOf(FirstWord(al[1])))
      /\ \A w \in Word : shadow'[w] = IF w \in T THEN u(w) ELSE shadow[w]
  BY DEF ProfiledStore, Store
<1>3. \A i \in Acc : i \in Acc' /\ hist'[i] = hist[i]
  BY <1>1, <1>2, RecordStep
<1>4. NoCross
  BY <1>3 DEF NoCross, CrossesPage
<1>5. AllReach /\ \A w \in Word : TraceFrom(shadow[w], w)
  BY <1>1, <1>4 DEF CarryInv
<1>6. \A w \in Word : u(w).RWIter = LDDProfLoopIter
  BY <1>1, PresentRWIter
<1>7. AllReach'
  BY <1>1, <1>2, <1>5, <1>6, AccessReach
<1>8. ASSUME NEW w \in Word  PROVE TraceFrom(shadow[w], w)'
  <2>1. CASE w \notin T
    <3>1. PICK t : t = shadow[w]
      OBVIOUS
    <3>2. TraceFrom(t, w)'
      BY <1>3, <1>5, <3>1, TraceFromGrows
    <3> QED
      BY <1>2, <2>1, <3>1, <3>2, TraceFromStep
  <2>2. CASE w \in T
    <3>1. PICK t : t = Present(w)
      OBVIOUS
    <3>2. t \in Trace(PC) /\ t.RWIter = LDDProfLoopIter
      BY <1>1, <3>1, PresentType
    <3>3. TraceFrom(t, w)
      BY <1>1, <1>5, <3>1, PresentTrace
    <3>4. PICK s : s = UpdatePresentWTrace(t, pc, MaskIn(al[1], al[2], w))
      OBVIOUS
    <3>5. TraceFrom(UpdatePresentWTrace(t, pc, MaskIn(al[1], al[2], w)), w)'
      BY <1>1, <1>2, <2>2, <3>2, <3>3, WriteTrace
    <3>6. TraceFrom(s, w)'
      BY <3>4, <3>5
    <3>7. shadow'[w] = s
      BY <1>2, <2>2, <3>1, <3>4
    <3> QED
      BY <3>6, <3>7, TraceFromStep
  <2> QED
    BY <2>1, <2>2
<1> QED
  BY <1>7, <1>8

\* The analysis leaves no word behind.
LEMMA AnalysisReach ==
  ASSUME TypeOK, AllReach, AddPresentToPrecedeTrace, NEW w \in Word
  PROVE  ~ Pending(w)'
<1> SUFFICES ASSUME Pending(w)' PROVE FALSE
  OBVIOUS
<1>1. shadow[w] \in Trace(PC) /\ LDDProfLoopIter \in Nat
  BY DEF TypeOK
<1>2. CASE shadow'[w] = shadow[w]
  <2>1. Pending(w)
    BY <1>2 DEF Pending
  <2>2. /\ shadow[w].RWIter = LDDProfLoopIter /\ PageOf(w) \in ShdwPageSet
        /\ LDDProfLoopIter >= FirstAnalysedIter
    BY <2>1 DEF AllReach, Pending
  <2>3. w \in RecordedWords /\ Analysed(shadow[w], LDDProfLoopIter)
        /\ ~ (LDDProfLoopIter < FirstAnalysedIter)
    BY <1>1, <2>1, <2>2 DEF RecordedWords, Analysed, Pending, FirstAnalysedIter
  <2>4. shadow'[w] = SetupPrecedeTrace(shadow[w], LDDProfLoopIter)
    BY <2>3 DEF AddPresentToPrecedeTrace
  <2>5. shadow'[w].RTrace = {} /\ shadow'[w].WTrace = {}
    BY <1>1, <2>3, <2>4 DEF SetupPrecedeTrace, Trace
  <2> QED
    BY <2>5 DEF Pending
<1>3. CASE shadow'[w] # shadow[w]
  <2>1. shadow'[w] = SetupPrecedeTrace(shadow[w], LDDProfLoopIter)
        /\ Analysed(shadow[w], LDDProfLoopIter)
    BY <1>3 DEF AddPresentToPrecedeTrace, SetupPrecedeTrace
  <2>2. shadow'[w].RTrace = {} /\ shadow'[w].WTrace = {}
    BY <1>1, <2>1 DEF SetupPrecedeTrace, Trace
  <2> QED
    BY <2>2 DEF Pending
<1> QED
  BY <1>2, <1>3

\* CarryInv, over the end of an iteration
LEMMA AnalysisCarry ==
  ASSUME CarryBase, AddPresentToPrecedeTrace, UNCHANGED hist
  PROVE  CarryInv'
<1> SUFFICES ASSUME NoCross' PROVE AllReach' /\ \A w \in Word : TraceFrom(shadow[w], w)'
  BY DEF CarryInv
<1>1. TypeOK /\ CarryInv
  BY DEF CarryBase, HInv, Inv
<1>2. NoCross
  BY DEF NoCross, CrossesPage, Acc
<1>3. AllReach /\ \A w \in Word : TraceFrom(shadow[w], w)
  BY <1>1, <1>2 DEF CarryInv
<1>4. AllReach'
  BY <1>1, <1>3, AnalysisReach DEF AllReach
<1>5. \A i \in Acc : i \in Acc' /\ hist'[i] = hist[i]
  BY DEF Acc
<1>6. ASSUME NEW w \in Word  PROVE TraceFrom(shadow[w], w)'
  <2>1. PICK t : t = shadow[w]
    OBVIOUS
  <2>2. PICK s : s = shadow'[w]
    OBVIOUS
  <2>3. PICK r : r = LDDProfLoopIter
    OBVIOUS
  <2>4. t \in Trace(PC) /\ r \in Nat /\ TraceFrom(t, w)
    BY <1>1, <1>3, <2>1, <2>3 DEF TypeOK
  <2>5. s = t \/ (r >= FirstAnalysedIter /\ s = SetupPrecedeTrace(t, r))
    BY <2>1, <2>2, <2>3, <2>4 DEF AddPresentToPrecedeTrace, FirstAnalysedIter
  <2>6. TraceFrom(s, w)
    BY <2>4, <2>5, AnalyseTrace
  <2>7. TraceFrom(s, w)'
    BY <1>5, <2>6, TraceFromGrows
  <2> QED
    BY <2>2, <2>7, TraceFromStep
<1> QED
  BY <1>4, <1>6

\* CarryInv, over the entry of the loop
LEMMA EnterCarry ==
  ASSUME CarryBase, EnterLoop, UNCHANGED hist, MaxSessions =< 1
  PROVE  CarryInv'
<1> SUFFICES ASSUME NoCross' PROVE AllReach' /\ \A w \in Word : TraceFrom(shadow[w], w)'
  BY DEF CarryInv
<1>1. TypeOK /\ HistInv /\ CarryInv
  BY DEF CarryBase, HInv, Inv
<1>2. NoCross
  BY DEF NoCross, CrossesPage, Acc
<1>3. AllReach /\ \A w \in Word : TraceFrom(shadow[w], w)
  BY <1>1, <1>2 DEF CarryInv
<1>4. \A i \in Acc : i \in Acc' /\ hist'[i] = hist[i]
  BY DEF Acc
<1>5. UNCHANGED shadow /\ LDDProfLoopID = 0
  BY DEF EnterLoop
<1>6. ASSUME NEW w \in Word  PROVE TraceFrom(shadow[w], w)'
  <2>1. PICK t : t = shadow[w]
    OBVIOUS
  <2>2. TraceFrom(t, w)'
    BY <1>3, <1>4, <2>1, TraceFromGrows
  <2> QED
    BY <1>5, <2>1, <2>2, TraceFromStep
<1>7. AllReach'
  BY <1>3, <1>5 DEF AllReach, Pending
<1> QED
  BY <1>6, <1>7

-----------------------------------------------------------------------------
\* What the analysis reports.
LEMMA FoldStep ==
  ASSUME NEW found \in SUBSET (DepKind \X PC \X PC \X Int),
         lcDist \in [DepKey -> Int], FoldFound(found), NEW k \in DepKey
  PROVE  LET ds == {c[4] : c \in {x \in found : <<x[1], x[2], x[3]>> = k}}
         IN  IF ds = {} THEN lcDist'[k] = lcDist[k] ELSE lcDist'[k] \in FoldedDist(lcDist[k], ds)
<1> DEFINE key(c)  == <<c[1], c[2], c[3]>>
           keys    == {key(c) : c \in found}
           ds(j)   == {c[4] : c \in {x \in found : key(x) = j}}
           dist(j) == FoldedDist(lcDist[j], ds(j))
<1>1. PICK new \in [keys -> UNION {dist(j) : j \in keys}] :
        /\ \A j \in keys : new[j] \in dist(j)
        /\ lcDist' = [j \in DepKey |-> IF j \in keys THEN new[j] ELSE lcDist[j]]
  BY DEF FoldFound
<1>2. k \in keys <=> ds(k) # {}
  OBVIOUS
<1> HIDE DEF dist, keys
<1>3. IF k \in keys THEN lcDist'[k] \in dist(k) ELSE lcDist'[k] = lcDist[k]
  BY <1>1
<1> QED
  BY <1>2, <1>3 DEF dist

\* Every tuple found, and every distance made of them
LEMMA FoundStep ==
  ASSUME TypeOK, AddPresentToPrecedeTrace, ~ (LDDProfLoopIter < FirstAnalysedIter), NEW k \in DepKey
  PROVE  LET ds == {c[4] : c \in {x \in Found : <<x[1], x[2], x[3]>> = k}}
         IN  /\ ds \subseteq Int
             /\ IF ds = {} THEN lcDist'[k] = lcDist[k] ELSE lcDist'[k] \in FoldedDist(lcDist[k], ds)
<1>1. \A w \in Word : CarriedDeps(shadow[w], LDDProfLoopIter) \subseteq DepKind \X PC \X PC \X Int
  BY CarriedDepsType DEF TypeOK
<1>2. Found \in SUBSET (DepKind \X PC \X PC \X Int)
  BY <1>1 DEF Found, RecordedWords
<1>3. FoldFound(Found) /\ lcDist \in [DepKey -> Int]
  BY DEF AddPresentToPrecedeTrace, TypeOK
<1>4. {c[4] : c \in {x \in Found : <<x[1], x[2], x[3]>> = k}} \subseteq Int
  BY <1>2
<1> QED
  BY <1>2, <1>3, <1>4, FoldStep

\* A tuple is found for a sink and a source of the same word that share a byte.
TablePair(t, kind, n, q) ==
  /\ CASE kind = "True" -> n \in t.RTrace /\ q \in t.PrecedeW
       [] kind = "Out"  -> n \in t.WTrace /\ q \in t.PrecedeW
       [] kind = "Anti" -> n \in t.WTrace /\ q \in t.PrecedeR
  /\ n.mask \cap q.mask # {}

\* What is found comes from two nodes of one word.
LEMMA FoundPair ==
  ASSUME NEW c \in Found
  PROVE  \E w \in Word : /\ Analysed(shadow[w], LDDProfLoopIter)
                         /\ \E n, q : \E kind \in DepKind :
                              /\ TablePair(shadow[w], kind, n, q)
                              /\ c = <<kind, q.pc, n.pc, LDDProfLoopIter - q.iter>>
<1>1. PICK w \in Word : Analysed(shadow[w], LDDProfLoopIter)
                          /\ c \in CarriedDeps(shadow[w], LDDProfLoopIter)
  BY DEF Found, RecordedWords
<1>2. ASSUME NEW kind, NEW sinks, NEW mask, NEW sources, c \in Carried(kind, sinks, mask, sources, LDDProfLoopIter)
      PROVE  \E n \in sinks, q \in sources :
               n.mask \cap q.mask # {} /\ c = <<kind, q.pc, n.pc, LDDProfLoopIter - q.iter>>
  BY <1>2 DEF Carried
<1>3. \E n, q : \E kind \in DepKind : TablePair(shadow[w], kind, n, q)
                     /\ c = <<kind, q.pc, n.pc, LDDProfLoopIter - q.iter>>
  <2>1. CASE c \in Carried("True", shadow[w].RTrace, shadow[w].GlobalReadMask,
                           shadow[w].PrecedeW, LDDProfLoopIter)
    BY <1>2, <2>1 DEF TablePair, DepKind
  <2>2. CASE c \in Carried("Out", shadow[w].WTrace, shadow[w].GlobalWriteMask,
                           shadow[w].PrecedeW, LDDProfLoopIter)
    BY <1>2, <2>2 DEF TablePair, DepKind
  <2>3. CASE c \in Carried("Anti", shadow[w].WTrace, shadow[w].GlobalWriteMask,
                           shadow[w].PrecedeR, LDDProfLoopIter)
    BY <1>2, <2>3 DEF TablePair, DepKind
  <2> QED
    BY <1>1, <2>1, <2>2, <2>3 DEF CarriedDeps
<1> QED
  BY <1>1, <1>3

\* Two nodes that share a byte stand for a loop-carried dependence.
LEMMA PairSound ==
  ASSUME HInv, CarryInv, NoCross, NEW w \in Word, Analysed(shadow[w], LDDProfLoopIter),
         NEW kind \in DepKind, NEW n, NEW q, TablePair(shadow[w], kind, n, q),
         NEW d, d = LDDProfLoopIter - q.iter, d # 0
  PROVE  \E i, j \in Acc :
           /\ CarriedPair(kind, i, j) /\ Dep(kind, i, j) = <<kind, q.pc, n.pc>>
           /\ \/ d = Distance(i, j)
              \/ /\ hist[i].iter < FirstAnalysedIter
                 /\ 0 < d /\ d =< Distance(i, j)
<1> DEFINE t   == shadow[w]
           snk == IF kind = "True" THEN "R" ELSE "W"
           src == IF kind = "Anti" THEN "R" ELSE "W"
<1>1. HistInv /\ t \in Trace(PC) /\ LDDProfLoopIter \in Nat
  BY DEF HInv, Inv, TypeOK
<1>2. TraceFrom(t, w) /\ t.RWIter = LDDProfLoopIter
  BY DEF CarryInv, Analysed
<1>3. n \in t.RTrace \cup t.WTrace /\ q \in t.PrecedeR \cup t.PrecedeW
  BY DEF TablePair, DepKind
<1>4. n.age = 0
  BY <1>2, <1>3 DEF TraceFrom
<1>5. PresentFrom(w, snk, n, LDDProfLoopIter) /\ PrecedeFrom(w, src, q, LDDProfLoopIter)
  BY <1>2 DEF TraceFrom, TablePair, DepKind
<1>6. PICK j \in Acc : Backed(w, snk, n, j) /\ hist[j].iter = LDDProfLoopIter
  BY <1>4, <1>5 DEF PresentFrom
<1>7. PICK i \in Acc : Backed(w, src, q, i)
                         /\ (hist[i].iter = q.iter \/ hist[i].iter < FirstAnalysedIter)
  BY <1>5 DEF PrecedeFrom
<1>8. FirstAnalysedIter =< q.iter /\ q.iter =< LDDProfLoopIter /\ q.iter \in Nat
  <2>1. q.iter \in Nat
    BY <1>1, <1>3 DEF Trace, PrecedeNode
  <2> QED
    BY <1>5, <2>1 DEF PrecedeFrom
<1>9. hist[i].iter \in Nat /\ hist[i].iter =< q.iter /\ 0 < d
  BY <1>1, <1>7, <1>8, EventType DEF FirstAnalysedIter
<1>10. Distance(i, j) = LDDProfLoopIter - hist[i].iter
  BY <1>6 DEF Distance
<1>11. d = Distance(i, j) \/ (hist[i].iter < FirstAnalysedIter /\ 0 < d /\ d =< Distance(i, j))
  BY <1>1, <1>7, <1>8, <1>9, <1>10
<1>12. CarriedPair(kind, i, j)
  <2>1. hist[i].session = hist[j].session
    BY <1>1 DEF HistInv
  <2>2. hist[i].iter < hist[j].iter
    BY <1>1, <1>6, <1>8, <1>9
  <2>3. SharedBytes(i, j) # {}
    <3>1. PICK b : b \in n.mask \cap q.mask
      BY DEF TablePair
    <3>2. At(w, b) \in hist[i].bytes /\ At(w, b) \in hist[j].bytes
      BY <1>6, <1>7, <3>1 DEF Backed
    <3> QED
      BY <3>2 DEF SharedBytes
  <2>4. (kind = "True" => i \in Writes /\ j \in Reads)
        /\ (kind = "Anti" => i \in Reads /\ j \in Writes)
        /\ (kind = "Out" => i \in Writes /\ j \in Writes)
    BY <1>6, <1>7 DEF Backed, Writes, Reads
  <2> QED
    BY <2>1, <2>2, <2>3, <2>4 DEF CarriedPair, DepKind
<1>13. Dep(kind, i, j) = <<kind, q.pc, n.pc>>
  BY <1>6, <1>7 DEF Dep, Backed
<1> QED
  BY <1>11, <1>12, <1>13

\* LCSound, over the end of an iteration: the distance kept is one of those found or the old one.
LEMMA AnalysisSound ==
  ASSUME CarryBase, LCSound, AddPresentToPrecedeTrace, UNCHANGED hist
  PROVE  LCSound'
<1>1. TypeOK /\ HInv /\ CarryInv
  BY DEF CarryBase, HInv, Inv
<1>2. SUFFICES ASSUME NoCross', NEW k \in DepKey, lcDist'[k] # 0
               PROVE  \E i, j \in Acc' :
                        /\ CarriedPair(k[1], i, j)' /\ Dep(k[1], i, j)' = k
                        /\ \/ lcDist'[k] = Distance(i, j)'
                           \/ /\ hist'[i].iter < FirstAnalysedIter
                              /\ 0 < lcDist'[k] /\ lcDist'[k] =< Distance(i, j)'
  BY DEF LCSound, NoCross
<1>3. SUFFICES \E i, j \in Acc :
                 /\ CarriedPair(k[1], i, j) /\ Dep(k[1], i, j) = k
                 /\ \/ lcDist'[k] = Distance(i, j)
                    \/ /\ hist[i].iter < FirstAnalysedIter
                       /\ 0 < lcDist'[k] /\ lcDist'[k] =< Distance(i, j)
  BY DEF Acc, CarriedPair, Dep, Distance, SharedBytes, Writes, Reads
<1>4. NoCross
  BY <1>2 DEF NoCross, CrossesPage, Acc
<1>5. CASE lcDist'[k] = lcDist[k]
  BY <1>2, <1>4, <1>5 DEF LCSound, NoCross
<1>6. CASE lcDist'[k] # lcDist[k]
  <2>1. ~ (LDDProfLoopIter < FirstAnalysedIter)
    BY <1>6 DEF AddPresentToPrecedeTrace
  <2> DEFINE ds == {c[4] : c \in {x \in Found : <<x[1], x[2], x[3]>> = k}}
  <2>2. ds # {} /\ lcDist'[k] \in FoldedDist(lcDist[k], ds)
    BY <1>1, <1>6, <2>1, FoundStep
  <2>3. lcDist'[k] \in ds
    <3> HIDE DEF ds
    <3> QED
      BY <1>2, <1>6, <2>2 DEF FoldedDist
  <2>4. PICK c \in Found : <<c[1], c[2], c[3]>> = k /\ c[4] = lcDist'[k]
    BY <2>3
  <2>5. PICK w \in Word : Analysed(shadow[w], LDDProfLoopIter)
          /\ \E n, q : \E kind \in DepKind :
               TablePair(shadow[w], kind, n, q) /\ c = <<kind, q.pc, n.pc, LDDProfLoopIter - q.iter>>
    BY FoundPair
  <2>6. PICK n, q : \E kind \in DepKind :
               TablePair(shadow[w], kind, n, q) /\ c = <<kind, q.pc, n.pc, LDDProfLoopIter - q.iter>>
    BY <2>5
  <2>7. PICK kind \in DepKind :
               TablePair(shadow[w], kind, n, q) /\ c = <<kind, q.pc, n.pc, LDDProfLoopIter - q.iter>>
    BY <2>6
  <2>8. k = <<kind, q.pc, n.pc>> /\ k[1] = kind /\ lcDist'[k] = LDDProfLoopIter - q.iter
    BY <2>4, <2>7
  <2>9. PICK d : d = lcDist'[k]
    OBVIOUS
  <2> QED
    BY <1>1, <1>2, <1>4, <2>5, <2>7, <2>8, <2>9, PairSound
<1> QED
  BY <1>5, <1>6

\* LCSound, over a step that reports nothing
LEMMA AccessSound ==
  ASSUME LCSound, UNCHANGED lcDist, \A i \in Acc : i \in Acc' /\ hist'[i] = hist[i]
  PROVE  LCSound'
<1>1. SUFFICES ASSUME NoCross', NEW k \in DepKey, lcDist'[k] # 0
               PROVE  \E i, j \in Acc' :
                        /\ CarriedPair(k[1], i, j)' /\ Dep(k[1], i, j)' = k
                        /\ \/ lcDist'[k] = Distance(i, j)'
                           \/ /\ hist'[i].iter < FirstAnalysedIter
                              /\ 0 < lcDist'[k] /\ lcDist'[k] =< Distance(i, j)'
  BY DEF LCSound, NoCross
<1>2. NoCross
  BY <1>1 DEF NoCross, CrossesPage
<1>3. PICK i, j \in Acc :
        /\ CarriedPair(k[1], i, j) /\ Dep(k[1], i, j) = k
        /\ \/ lcDist[k] = Distance(i, j)
           \/ /\ hist[i].iter < FirstAnalysedIter
              /\ 0 < lcDist[k] /\ lcDist[k] =< Distance(i, j)
  BY <1>1, <1>2 DEF LCSound, NoCross
<1>4. CarriedPair(k[1], i, j)' /\ Dep(k[1], i, j)' = k /\ Distance(i, j)' = Distance(i, j)
  BY <1>3 DEF CarriedPair, Dep, Distance, SharedBytes, Writes, Reads
<1> QED
  BY <1>3, <1>4

SoundInv == CarryBase /\ LCSound

\* Every step keeps the reported loop-carried dependences right.
LEMMA NextSound ==
  ASSUME SoundInv, [HNext]_hvars, AccessFits, MaxSessions =< 1
  PROVE  SoundInv'
<1>1. CarryBase /\ HInv' /\ TypeOK /\ HistInv
  BY NextHInv DEF SoundInv, CarryBase, HInv, Inv
<1>2. CASE \E pc \in LoadPCs, al \in Access : ProfiledLoad(pc, al[1], al[2])
  <2>1. PICK pc \in LoadPCs, al \in Access : ProfiledLoad(pc, al[1], al[2])
    BY <1>2
  <2>2. pc \in PC /\ Record("R", pc, al[1], al[2]) /\ UNCHANGED lcDist
    BY <2>1 DEF ProfiledLoad, Load, PC
  <2>3. LCSound'
    BY <1>1, <2>2, RecordStep, AccessSound DEF SoundInv
  <2> QED
    BY <1>1, <2>1, <2>3, LoadCarry DEF SoundInv, CarryBase
<1>3. CASE \E pc \in StorePCs, al \in Access : ProfiledStore(pc, al[1], al[2])
  <2>1. PICK pc \in StorePCs, al \in Access : ProfiledStore(pc, al[1], al[2])
    BY <1>3
  <2>2. pc \in PC /\ Record("W", pc, al[1], al[2]) /\ UNCHANGED lcDist
    BY <2>1 DEF ProfiledStore, Store, PC
  <2>3. LCSound'
    BY <1>1, <2>2, RecordStep, AccessSound DEF SoundInv
  <2> QED
    BY <1>1, <2>1, <2>3, StoreCarry DEF SoundInv, CarryBase
<1>4. CASE AddPresentToPrecedeTrace /\ UNCHANGED hist
  BY <1>1, <1>4, AnalysisCarry, AnalysisSound DEF SoundInv, CarryBase
<1>5. CASE EnterLoop /\ UNCHANGED hist
  <2>1. LCSound'
    BY <1>5, AccessSound DEF SoundInv, EnterLoop, depVars, Acc
  <2> QED
    BY <1>1, <1>5, <2>1, EnterCarry DEF SoundInv, CarryBase
<1>6. CASE UNCHANGED hvars
  <2>1. LCSound'
    BY <1>6, AccessSound DEF SoundInv, hvars, vars, depVars, Acc
  <2>2. CarryInv'
    BY <1>1, <1>6 DEF CarryBase, CarryInv, hvars, vars, loopVars, pageVars, NoCross, CrossesPage,
       AllReach, Pending, TraceFrom, PresentFrom, PrecedeFrom, Backed, Acc
  <2> QED
    BY <1>1, <2>1, <2>2 DEF SoundInv, CarryBase
<1> QED
  BY <1>2, <1>3, <1>4, <1>5, <1>6 DEF HNext, EndIteration, EndNestedIteration, ExitLoop

\* No distance is reported at first.
LEMMA InitSound == HInit => SoundInv
<1> SUFFICES ASSUME HInit PROVE SoundInv
  OBVIOUS
<1>1. HInv /\ hist = <<>> /\ Acc = {}
  BY InitHInv DEF HInit, Init, Acc
<1>2. \A w \in Word : shadow[w] = NoTrace
  BY DEF HInit, Init
<1>3. CarryInv
  BY <1>2 DEF CarryInv, AllReach, Pending, TraceFrom, NoTrace
<1>4. LCSound
  BY DEF HInit, Init, LCSound
<1> QED
  BY <1>1, <1>3, <1>4 DEF SoundInv, CarryBase

\* LCSound: in one execution of the loop, with nested target loops or without, every
\* loop-carried dependence reported is one of the program, at its distance.
THEOREM CarriedSound ==
  ASSUME AccessFits, MaxSessions =< 1
  PROVE  HSpec => []LCSound
<1>1. SoundInv => LCSound
  BY DEF SoundInv
<1> QED
  BY <1>1, InitSound, NextSound, PTL DEF HSpec

-----------------------------------------------------------------------------
\* Nothing is lost, if no access crosses pages.
AccessOnePage ==
  \A al \in Access : \A w \in Touched(al[1], al[2]) : PageOf(w) = PageOf(FirstWord(al[1]))

\* No source has the iteration that is being recorded.
FreshInv ==
  LDDProfLoopID # 0 =>
    \A w \in Word : \A q \in shadow[w].PrecedeR \cup shadow[w].PrecedeW : q.iter < LDDProfLoopIter

\* A source names the instruction of access i for byte x, in iteration i or later.
KeptIn(nodes, i, x) ==
  \E q \in nodes : q.pc = hist[i].pc /\ Offset(x) \in q.mask /\ hist[i].iter =< q.iter

\* No last write and no first read of an analysed iteration is missing.
KeptInv ==
  \A i \in Acc : \A x \in hist[i].bytes :
    hist[i].iter >= FirstAnalysedIter /\ Analyzed(i) =>
      /\ LastWrite(i, x) => KeptIn(shadow[FirstWord(x)].PrecedeW, i, x)
      /\ i \in Reads /\ FirstAccess(i, x) => KeptIn(shadow[FirstWord(x)].PrecedeR, i, x)

\* No distance is negative.
DistInv == \A k \in DepKey : lcDist[k] >= 0

\* An access that stays on its page does not cross pages.
LEMMA OnePage ==
  ASSUME TypeOK, HistInv, NoCross, AccessFits, AccessOnePage, NEW op \in {"R", "W"},
         NEW pc \in PC, NEW al \in Access, Record(op, pc, al[1], al[2])
  PROVE  NoCross'
<1> PICK m : m = New
  OBVIOUS
<1>1. Acc' = Acc \cup {m} /\ \A i \in Acc : hist'[i] = hist[i]
  BY RecordStep
<1>2. hist'[m] = [op |-> op, pc |-> pc, bytes |-> Bytes(al),
                  iter |-> LDDProfLoopIter, session |-> sessions]
  BY RecordStep
<1>3. hist'[m].bytes = Bytes(al)
  BY <1>2
<1>4. \A b \in Bytes(al) : PageOf(FirstWord(b)) = PageOf(FirstWord(al[1]))
  <2> SUFFICES ASSUME NEW x \in Bytes(al) PROVE PageOf(FirstWord(x)) = PageOf(FirstWord(al[1]))
    OBVIOUS
  <2>1. PICK w \in Touched(al[1], al[2]) : \E b \in MaskIn(al[1], al[2], w) : x = At(w, b)
    BY MaskBytes
  <2>2. PICK b \in MaskIn(al[1], al[2], w) : x = At(w, b)
    BY <2>1
  <2>3. w \in Word /\ b \in Byte
    BY MaskBytes
  <2>4. FirstWord(x) = w
    BY <2>2, <2>3, AtWord
  <2> QED
    BY <2>4 DEF AccessOnePage
<1> QED
  BY <1>1, <1>3, <1>4 DEF NoCross, CrossesPage

\* An access has been analysed iff its iteration has ended.
LEMMA AnalyzedNow ==
  ASSUME HistInv, TypeOK, NEW i \in Acc
  PROVE  Analyzed(i) <=> LDDProfLoopID = 0 \/ hist[i].iter < LDDProfLoopIter
  BY DEF HistInv, TypeOK, Analyzed

\* What the tables have of an access to be analysed
LEMMA Sink ==
  ASSUME HInv, AllReach, ~ NestedTargets, LDDProfLoopID # 0, NEW j \in Acc,
         hist[j].iter = LDDProfLoopIter, LDDProfLoopIter >= FirstAnalysedIter,
         NEW x \in hist[j].bytes, LastWrite(j, x) \/ (j \in Reads /\ FirstAccess(j, x)),
         NEW t, t = shadow[FirstWord(x)]
  PROVE  /\ LastWrite(j, x) =>
              Offset(x) \in t.GlobalWriteMask
                /\ \E n \in t.WTrace : n.pc = hist[j].pc /\ Offset(x) \in n.mask
         /\ j \in Reads /\ FirstAccess(j, x) =>
              Offset(x) \in t.GlobalReadMask
                /\ \E n \in t.RTrace : n.pc = hist[j].pc /\ Offset(x) \in n.mask
         /\ FirstWord(x) \in RecordedWords /\ Analysed(t, LDDProfLoopIter)
<1> DEFINE w == FirstWord(x)
           b == Offset(x)
<1>1. HistInv /\ NowInv
  BY DEF HInv
<1>2. hist[j].session = sessions /\ x \in Address /\ hist[j].pc \in PC
  BY <1>1, EventType DEF HistInv
<1>3. w \in Word /\ b \in Byte /\ At(w, b) = x
  BY <1>2, WordAt
<1>4. j \in Here(x)
  BY <1>2 DEF Here
<1>5. TouchedHere(x)
  BY <1>4 DEF TouchedHere
<1> HIDE DEF w, b
<1>6. t = shadow[w] /\ Offset(x) = b /\ FirstWord(x) = w
  BY DEF w, b
<1>7. ByteInv(t, w, b) /\ t.RWIter = LDDProfLoopIter
  BY <1>1, <1>3, <1>5, <1>6 DEF NowInv, WordInv
<1>8. ASSUME LastWrite(j, x)
      PROVE  b \in t.GlobalWriteMask /\ \E n \in t.WTrace : n.pc = hist[j].pc /\ b \in n.mask
  <2>1. LastPC(x, hist[j].pc) /\ WrittenHere(x)
    BY <1>4, <1>8 DEF LastPC, WrittenHere, LastWrite
  <2>2. b \in t.GlobalWriteMask
    BY <1>3, <1>7, <2>1 DEF ByteInv
  <2>3. PICK n \in t.WTrace : n.age = 0 /\ b \in n.mask
    BY <1>7, <2>2 DEF ByteInv
  <2>4. LastPC(x, n.pc)
    BY <1>3, <1>7, <2>3 DEF ByteInv
  <2>5. n.pc = hist[j].pc
    BY <1>1, <2>1, <2>4, LastPCUnique
  <2> QED
    BY <2>2, <2>3, <2>5
<1>9. ASSUME j \in Reads, FirstAccess(j, x)
      PROVE  b \in t.GlobalReadMask /\ \E n \in t.RTrace : n.pc = hist[j].pc /\ b \in n.mask
  <2>1. FirstReadPC(x, hist[j].pc)
    BY <1>4, <1>9 DEF FirstReadPC
  <2> QED
    BY <1>2, <1>3, <1>7, <2>1 DEF ByteInv
<1>10. Pending(w)
  BY <1>6, <1>7, <1>8, <1>9 DEF Pending
<1>11. w \in RecordedWords /\ Analysed(t, LDDProfLoopIter)
  BY <1>3, <1>6, <1>7, <1>10 DEF AllReach, RecordedWords, Analysed, Pending
<1> QED
  BY <1>6, <1>8, <1>9, <1>11

\* A precede node is refreshed or stays.
LEMMA AddKeeps ==
  ASSUME NEW precede, NEW present, NEW r \in Nat, NEW q \in precede,
         q.iter \in Nat, q.iter =< r
  PROVE  \E p \in AddToPrecede(precede, present, r) :
           p.pc = q.pc /\ p.mask = q.mask /\ q.iter =< p.iter /\ p.iter \in Nat
<1>1. CASE \E n \in present : <<n.pc, n.mask>> = <<q.pc, q.mask>>
  <2>1. PICK n \in present : n.pc = q.pc /\ n.mask = q.mask
    BY <1>1
  <2>2. PICK p : p = [pc |-> n.pc, mask |-> n.mask, iter |-> r]
    OBVIOUS
  <2>3. p \in AddToPrecede(precede, present, r) /\ p.pc = n.pc /\ p.mask = n.mask /\ p.iter = r
    BY <2>2 DEF AddToPrecede
  <2> QED
    BY <2>1, <2>3
<1>2. CASE \A n \in present : <<n.pc, n.mask>> # <<q.pc, q.mask>>
  <2>1. q \in AddToPrecede(precede, present, r)
    BY <1>2 DEF AddToPrecede
  <2> QED
    BY <2>1
<1> QED
  BY <1>1, <1>2

\* A word that is analysed
LEMMA AnalysedWord ==
  ASSUME TypeOK, AddPresentToPrecedeTrace, LDDProfLoopIter >= FirstAnalysedIter,
         NEW w \in Word, NEW t, t = shadow[w]
  PROVE  \/ /\ w \in RecordedWords /\ Analysed(t, LDDProfLoopIter)
            /\ shadow'[w].PrecedeR = AddToPrecede(t.PrecedeR, t.RTrace, LDDProfLoopIter)
            /\ shadow'[w].PrecedeW = AddToPrecede(t.PrecedeW, t.WTrace, LDDProfLoopIter)
         \/ /\ ~ (w \in RecordedWords /\ Analysed(t, LDDProfLoopIter))
            /\ shadow'[w] = t
<1>1. t \in Trace(PC) /\ ~ (LDDProfLoopIter < FirstAnalysedIter)
  BY DEF TypeOK, FirstAnalysedIter
<1>2. shadow'[w] = IF w \in RecordedWords THEN SetupPrecedeTrace(t, LDDProfLoopIter) ELSE t
  BY <1>1 DEF AddPresentToPrecedeTrace
<1> QED
  BY <1>1, <1>2 DEF SetupPrecedeTrace, Trace

\* Nothing moves into the precede tables but at the end of an iteration.
LEMMA AccessPrecede ==
  ASSUME TypeOK, LiveInv, NEW pc, NEW al \in Access, Load(pc, al[1], al[2]) \/ Store(pc, al[1], al[2]),
         NEW w \in Word
  PROVE  shadow'[w].PrecedeR = shadow[w].PrecedeR /\ shadow'[w].PrecedeW = shadow[w].PrecedeW
<1> DEFINE p == Present(w)
<1>1. shadow[w] \in Trace(PC)
  BY DEF TypeOK
<1>2. p \in Trace(PC) /\ p.PrecedeR = shadow[w].PrecedeR /\ p.PrecedeW = shadow[w].PrecedeW
  <2>1. p \in Trace(PC)
    BY PresentType
  <2> QED
    BY <1>1, <2>1 DEF Present, EnterIteration, Trace
<1> HIDE DEF p
<1>3. ASSUME NEW mask
      PROVE  /\ UpdatePresentRTrace(p, pc, mask).PrecedeR = p.PrecedeR
             /\ UpdatePresentRTrace(p, pc, mask).PrecedeW = p.PrecedeW
             /\ UpdatePresentWTrace(p, pc, mask).PrecedeR = p.PrecedeR
             /\ UpdatePresentWTrace(p, pc, mask).PrecedeW = p.PrecedeW
  BY <1>2 DEF UpdatePresentRTrace, UpdatePresentWTrace, Trace
<1>4. CASE Load(pc, al[1], al[2])
  <2>1. shadow'[w] = IF w \in Touched(al[1], al[2])
                     THEN UpdatePresentRTrace(p, pc, MaskIn(al[1], al[2], w)) ELSE shadow[w]
    BY <1>4 DEF Load, p
  <2> QED
    BY <1>2, <1>3, <2>1
<1>5. CASE Store(pc, al[1], al[2])
  <2>1. shadow'[w] = IF w \in Touched(al[1], al[2])
                     THEN UpdatePresentWTrace(p, pc, MaskIn(al[1], al[2], w)) ELSE shadow[w]
    BY <1>5 DEF Store, p
  <2> QED
    BY <1>2, <1>3, <2>1
<1> QED
  BY <1>4, <1>5

\* Later accesses can only end that an access is a last write or a first access.
LEMMA KeptShrinks ==
  ASSUME \A i \in Acc : i \in Acc' /\ hist'[i] = hist[i], NEW i \in Acc, NEW x
  PROVE  /\ LastWrite(i, x)' => LastWrite(i, x)
         /\ FirstAccess(i, x)' => FirstAccess(i, x)
  BY DEF LastWrite, FirstAccess, Writes, SameIteration

\* The least of positive distances
LEMMA FoldPositive ==
  ASSUME NEW d \in Int, d >= 0, NEW ds \in SUBSET Int, ds # {}, \A e \in ds : e > 0,
         NEW v \in FoldedDist(d, ds)
  PROVE  v \in Int /\ v > 0 /\ (\A e \in ds : v =< e) /\ (d > 0 => v =< d)
<1> DEFINE all == ds \cup ({d} \ {0})
<1>1. all # {} /\ 0 \notin ds
  OBVIOUS
<1>2. v \in all /\ \A f \in all : v =< f
  BY <1>1 DEF FoldedDist
<1> QED
  BY <1>2

CompleteInv == CarryBase /\ NoCross /\ FreshInv /\ KeptInv /\ DistInv /\ LCComplete

\* An access is not analysed before its iteration ends, and so takes nothing away.
LEMMA AccessComplete ==
  ASSUME CompleteInv, AccessFits, LDDProfLoopID # 0, UNCHANGED loopVars, UNCHANGED lcDist,
         NEW op \in {"R", "W"}, NEW pc \in PC, NEW al \in Access, Record(op, pc, al[1], al[2]),
         \A w \in Word : /\ shadow'[w].PrecedeR = shadow[w].PrecedeR
                         /\ shadow'[w].PrecedeW = shadow[w].PrecedeW
  PROVE  (FreshInv /\ KeptInv /\ DistInv /\ LCComplete)'
<1> PICK m : m = New
  OBVIOUS
<1>1. TypeOK /\ HistInv
  BY DEF CompleteInv, CarryBase, HInv, Inv
<1>2. m \in Acc' /\ Acc' = Acc \cup {m} /\ \A i \in Acc : i \in Acc' /\ hist'[i] = hist[i]
  BY <1>1, RecordStep
<1>3. hist'[m] = [op |-> op, pc |-> pc, bytes |-> Bytes(al),
                  iter |-> LDDProfLoopIter, session |-> sessions]
  BY <1>1, RecordStep
<1>4. hist'[m].iter = LDDProfLoopIter /\ hist'[m].session = sessions /\ LDDProfLoopIter \in Nat
      /\ sessions \in Nat
  BY <1>1, <1>3 DEF TypeOK
<1>5. LDDProfLoopIter' = LDDProfLoopIter /\ LDDProfLoopID' = LDDProfLoopID /\ sessions' = sessions
  BY DEF loopVars
<1>6. ~ Analyzed(m)'
  BY <1>4, <1>5 DEF Analyzed
<1>7. \A i \in Acc : Analyzed(i)' <=> Analyzed(i)
  BY <1>2, <1>5 DEF Analyzed
<1>8. FreshInv'
  BY <1>5 DEF CompleteInv, FreshInv
<1>9. KeptInv'
  <2> SUFFICES ASSUME NEW i \in Acc', NEW x \in hist'[i].bytes,
                      hist'[i].iter >= FirstAnalysedIter, Analyzed(i)'
               PROVE  /\ LastWrite(i, x)' => KeptIn(shadow[FirstWord(x)].PrecedeW, i, x)'
                      /\ (i \in Reads /\ FirstAccess(i, x))' => KeptIn(shadow[FirstWord(x)].PrecedeR, i, x)'
    BY DEF KeptInv
  <2>1. i \in Acc /\ hist'[i] = hist[i] /\ Analyzed(i)
    BY <1>2, <1>6, <1>7
  <2>2. FirstWord(x) \in Word
    BY <1>1, <2>1, EventType, WordAt
  <2>3. /\ LastWrite(i, x)' => KeptIn(shadow[FirstWord(x)].PrecedeW, i, x)
        /\ (i \in Reads /\ FirstAccess(i, x))' => KeptIn(shadow[FirstWord(x)].PrecedeR, i, x)
    BY <1>2, <2>1, KeptShrinks DEF CompleteInv, KeptInv, Reads
  <2> QED
    BY <2>1, <2>2, <2>3 DEF KeptIn
<1>10. DistInv'
  BY DEF CompleteInv, DistInv
<1>11. LCComplete'
  <2> SUFFICES ASSUME NEW kind \in DepKind, NEW i \in Acc', NEW j \in Acc', CarriedPair(kind, i, j)',
                      hist'[i].iter >= FirstAnalysedIter, Analyzed(j)',
                      NEW b \in SharedBytes(i, j)', KeptPair(kind, i, j, b)'
               PROVE  lcDist'[Dep(kind, i, j)'] \in 1 .. Distance(i, j)'
    BY DEF LCComplete
  <2>1. j \in Acc /\ hist'[j] = hist[j] /\ Analyzed(j)
    BY <1>2, <1>6, <1>7
  <2>2. hist[j].iter < LDDProfLoopIter
    BY <1>1, <2>1, AnalyzedNow
  <2>3. i # m
    <3>1. hist[j].iter \in Nat /\ hist'[i].iter < hist[j].iter
      BY <1>1, <2>1, EventType DEF CarriedPair
    <3> QED
      BY <1>4, <2>2, <3>1
  <2>4. i \in Acc /\ hist'[i] = hist[i]
    BY <1>2, <2>3
  <2>5. CarriedPair(kind, i, j) /\ b \in SharedBytes(i, j) /\ Distance(i, j)' = Distance(i, j)
        /\ Dep(kind, i, j)' = Dep(kind, i, j)
    BY <2>1, <2>4 DEF CarriedPair, SharedBytes, Distance, Dep, Writes, Reads
  <2>6. KeptPair(kind, i, j, b)
    BY <1>2, <2>1, <2>4, KeptShrinks DEF KeptPair, Reads, DepKind
  <2>7. lcDist[Dep(kind, i, j)] \in 1 .. Distance(i, j)
    BY <2>1, <2>4, <2>5, <2>6 DEF CompleteInv, LCComplete
  <2> QED
    BY <2>5, <2>7
<1> QED
  BY <1>8, <1>9, <1>10, <1>11

-----------------------------------------------------------------------------
\* The end of an iteration: the loop has left, or its next iteration begins.
Analyses ==
  /\ AddPresentToPrecedeTrace /\ UNCHANGED hist
  /\ LDDProfLoopID # 0 /\ sessions' = sessions
  /\ \/ LDDProfLoopID' = 0 /\ LDDProfLoopIter' = LDDProfLoopIter
     \/ LDDProfLoopID' = LDDProfLoopID /\ LDDProfLoopIter' = LDDProfLoopIter + 1

\* The accesses not analysed before are those of the iteration that ends.
LEMMA AnalysedAll ==
  ASSUME TypeOK, HistInv, Analyses, NEW i \in Acc
  PROVE  hist[i].iter =< LDDProfLoopIter /\ hist[i].iter \in Nat
         /\ (hist[i].iter # LDDProfLoopIter => Analyzed(i))
<1>1. hist[i].iter =< LDDProfLoopIter /\ hist[i].iter \in Nat /\ LDDProfLoopIter \in Nat
  BY EventType DEF HistInv, TypeOK
<1> QED
  BY <1>1, AnalyzedNow

\* A source is analysed against the sinks of its own iteration before it is one.
LEMMA AnalysisFresh ==
  ASSUME CarryBase, NoCross, Analyses
  PROVE  FreshInv'
<1>1. TypeOK /\ HistInv /\ CarryInv
  BY DEF CarryBase, HInv, Inv
<1>2. SUFFICES ASSUME LDDProfLoopID' # 0, NEW w \in Word,
                      NEW q \in shadow'[w].PrecedeR \cup shadow'[w].PrecedeW
               PROVE  q.iter < LDDProfLoopIter'
  BY DEF FreshInv
<1>3. LDDProfLoopIter' = LDDProfLoopIter + 1 /\ LDDProfLoopIter \in Nat
  BY <1>1, <1>2 DEF Analyses, TypeOK
<1>4. PICK t : t = shadow[w]
  OBVIOUS
<1>5. PICK r : r = LDDProfLoopIter
  OBVIOUS
<1>6. t \in Trace(PC) /\ t.RWIter \in Nat /\ r \in Nat /\ t.RWIter =< r /\ TraceFrom(t, w)
  BY <1>1, <1>4, <1>5 DEF TypeOK, HistInv, CarryInv, Trace
<1>7. \A p \in t.PrecedeR \cup t.PrecedeW : p.iter \in Nat /\ p.iter =< r
  <2>1. \A p \in t.PrecedeR \cup t.PrecedeW : p.iter \in Nat
    BY <1>6 DEF Trace, PrecedeNode
  <2>2. \A p \in t.PrecedeR \cup t.PrecedeW : p.iter =< t.RWIter
    BY <1>6 DEF TraceFrom, PrecedeFrom
  <2> QED
    BY <1>6, <2>1, <2>2
<1>8. CASE shadow'[w] = t
  BY <1>2, <1>3, <1>5, <1>7, <1>8
<1>9. CASE shadow'[w] # t
  <2>1. ~ (LDDProfLoopIter < FirstAnalysedIter) /\ LDDProfLoopIter >= FirstAnalysedIter
    BY <1>3, <1>4, <1>9 DEF Analyses, AddPresentToPrecedeTrace, FirstAnalysedIter
  <2>2. /\ shadow'[w].PrecedeR = AddToPrecede(t.PrecedeR, t.RTrace, r)
        /\ shadow'[w].PrecedeW = AddToPrecede(t.PrecedeW, t.WTrace, r)
    BY <1>1, <1>4, <1>5, <1>9, <2>1, AnalysedWord DEF Analyses
  <2>3. ASSUME NEW precede, NEW present, NEW p \in AddToPrecede(precede, present, r), p \notin precede
        PROVE  p.iter = r
    BY <2>3 DEF AddToPrecede
  <2>4. q.iter = r \/ q \in t.PrecedeR \cup t.PrecedeW
    BY <1>2, <2>2, <2>3
  <2> QED
    BY <1>3, <1>5, <1>7, <2>4
<1> QED
  BY <1>8, <1>9

\* The last writes and first reads of the iteration become sources, and no source
\* goes away.
LEMMA AnalysisKept ==
  ASSUME CarryBase, NoCross, FreshInv, KeptInv, ~ NestedTargets, Analyses
  PROVE  KeptInv'
<1>1. TypeOK /\ HistInv /\ HInv /\ CarryInv /\ AllReach /\ LDDProfLoopID # 0
  BY DEF CarryBase, HInv, Inv, CarryInv, Analyses
<1>2. UNCHANGED hist /\ Acc' = Acc
  BY DEF Analyses, Acc
<1> SUFFICES ASSUME NEW i \in Acc, NEW x \in hist[i].bytes, hist[i].iter >= FirstAnalysedIter
             PROVE  /\ LastWrite(i, x) => KeptIn(shadow'[FirstWord(x)].PrecedeW, i, x)
                    /\ i \in Reads /\ FirstAccess(i, x) => KeptIn(shadow'[FirstWord(x)].PrecedeR, i, x)
  BY <1>2 DEF KeptInv, KeptIn, LastWrite, FirstAccess, Reads, Writes, SameIteration
<1>3. hist[i].iter =< LDDProfLoopIter /\ hist[i].iter \in Nat /\ LDDProfLoopIter \in Nat
      /\ (hist[i].iter # LDDProfLoopIter => Analyzed(i))
  BY <1>1, AnalysedAll DEF TypeOK
<1>4. LDDProfLoopIter >= FirstAnalysedIter
  BY <1>3 DEF FirstAnalysedIter
<1>5. PICK w : w = FirstWord(x)
  OBVIOUS
<1>6. w \in Word /\ Offset(x) \in Byte
  BY <1>1, <1>5, EventType, WordAt
<1>7. PICK t : t = shadow[w]
  OBVIOUS
<1>8. t \in Trace(PC)
  BY <1>1, <1>6, <1>7 DEF TypeOK
<1>9. \/ /\ w \in RecordedWords /\ Analysed(t, LDDProfLoopIter)
         /\ shadow'[w].PrecedeR = AddToPrecede(t.PrecedeR, t.RTrace, LDDProfLoopIter)
         /\ shadow'[w].PrecedeW = AddToPrecede(t.PrecedeW, t.WTrace, LDDProfLoopIter)
      \/ /\ ~ (w \in RecordedWords /\ Analysed(t, LDDProfLoopIter))
         /\ shadow'[w] = t
  BY <1>1, <1>4, <1>6, <1>7, AnalysedWord DEF Analyses
<1>10. CASE hist[i].iter # LDDProfLoopIter
  <2>1. /\ LastWrite(i, x) => KeptIn(t.PrecedeW, i, x)
        /\ i \in Reads /\ FirstAccess(i, x) => KeptIn(t.PrecedeR, i, x)
    BY <1>3, <1>5, <1>7, <1>10 DEF KeptInv
  <2>2. \A q \in t.PrecedeR \cup t.PrecedeW : q.iter \in Nat /\ q.iter =< LDDProfLoopIter
    <3>1. \A q \in t.PrecedeR \cup t.PrecedeW : q.iter \in Nat
      BY <1>8 DEF Trace, PrecedeNode
    <3>2. \A q \in t.PrecedeR \cup t.PrecedeW : q.iter < LDDProfLoopIter
      BY <1>1, <1>6, <1>7 DEF FreshInv
    <3> QED
      BY <1>3, <3>1, <3>2
  <2>3. ASSUME NEW nodes, NEW present, KeptIn(nodes, i, x),
               \A q \in nodes : q.iter \in Nat /\ q.iter =< LDDProfLoopIter
        PROVE  KeptIn(AddToPrecede(nodes, present, LDDProfLoopIter), i, x)
    <3>1. PICK q \in nodes : q.pc = hist[i].pc /\ Offset(x) \in q.mask /\ hist[i].iter =< q.iter
      BY <2>3 DEF KeptIn
    <3>2. PICK p \in AddToPrecede(nodes, present, LDDProfLoopIter) :
            p.pc = q.pc /\ p.mask = q.mask /\ q.iter =< p.iter /\ p.iter \in Nat
      BY <1>3, <2>3, AddKeeps
    <3>3. hist[i].iter =< p.iter
      BY <1>3, <2>3, <3>1, <3>2
    <3> QED
      BY <3>1, <3>2, <3>3 DEF KeptIn
  <2> QED
    BY <1>5, <1>9, <2>1, <2>2, <2>3
<1>11. CASE hist[i].iter = LDDProfLoopIter
  <2>1. ASSUME NEW nodes, NEW present,
               \E n \in present : n.pc = hist[i].pc /\ Offset(x) \in n.mask
        PROVE  KeptIn(AddToPrecede(nodes, present, LDDProfLoopIter), i, x)
    <3>1. PICK n \in present : n.pc = hist[i].pc /\ Offset(x) \in n.mask
      BY <2>1
    <3>2. PICK p : p = [pc |-> n.pc, mask |-> n.mask, iter |-> LDDProfLoopIter]
      OBVIOUS
    <3>3. p \in AddToPrecede(nodes, present, LDDProfLoopIter)
      BY <3>2 DEF AddToPrecede
    <3>4. p.pc = hist[i].pc /\ Offset(x) \in p.mask /\ hist[i].iter =< p.iter
      BY <1>3, <1>11, <3>1, <3>2
    <3> QED
      BY <3>3, <3>4 DEF KeptIn
  <2>2. ASSUME LastWrite(i, x) \/ (i \in Reads /\ FirstAccess(i, x))
        PROVE  /\ LastWrite(i, x) => \E n \in t.WTrace : n.pc = hist[i].pc /\ Offset(x) \in n.mask
               /\ i \in Reads /\ FirstAccess(i, x) =>
                    \E n \in t.RTrace : n.pc = hist[i].pc /\ Offset(x) \in n.mask
               /\ w \in RecordedWords /\ Analysed(t, LDDProfLoopIter)
    BY <1>1, <1>4, <1>5, <1>7, <1>11, <2>2, Sink
  <2> QED
    BY <1>5, <1>9, <2>1, <2>2
<1> QED
  BY <1>10, <1>11

\* Every distance found is positive.
LEMMA FoundPositive ==
  ASSUME CarryBase, FreshInv, LDDProfLoopID # 0, NEW c \in Found
  PROVE  c[4] > 0
<1>1. TypeOK /\ LDDProfLoopIter \in Nat
  BY DEF CarryBase, HInv, Inv, TypeOK
<1>2. PICK w \in Word : \E n, q : \E kind \in DepKind :
        /\ TablePair(shadow[w], kind, n, q)
        /\ c = <<kind, q.pc, n.pc, LDDProfLoopIter - q.iter>>
  BY FoundPair
<1>3. PICK n, q : \E kind \in DepKind :
        /\ TablePair(shadow[w], kind, n, q)
        /\ c = <<kind, q.pc, n.pc, LDDProfLoopIter - q.iter>>
  BY <1>2
<1>4. q \in shadow[w].PrecedeR \cup shadow[w].PrecedeW /\ c[4] = LDDProfLoopIter - q.iter
  <2>1. PICK kind \in DepKind : /\ TablePair(shadow[w], kind, n, q)
                                /\ c = <<kind, q.pc, n.pc, LDDProfLoopIter - q.iter>>
    BY <1>3
  <2> QED
    BY <2>1 DEF TablePair, DepKind
<1>5. shadow[w] \in Trace(PC)
  BY <1>1 DEF TypeOK
<1>6. q.iter \in Nat /\ q.iter < LDDProfLoopIter
  BY <1>4, <1>5 DEF FreshInv, Trace, PrecedeNode
<1> QED
  BY <1>1, <1>4, <1>6

\* What the analysis makes of the distance of a dependence
LEMMA DistStep ==
  ASSUME CarryBase, FreshInv, DistInv, Analyses, NEW k \in DepKey
  PROVE  /\ lcDist'[k] >= 0
         /\ lcDist[k] > 0 => lcDist'[k] > 0 /\ lcDist'[k] =< lcDist[k]
         /\ lcDist'[k] \in Int
         /\ LDDProfLoopIter >= FirstAnalysedIter =>
              \A c \in Found : <<c[1], c[2], c[3]>> = k => 0 < lcDist'[k] /\ lcDist'[k] =< c[4]
<1>1. TypeOK /\ LDDProfLoopIter \in Nat /\ LDDProfLoopID # 0 /\ AddPresentToPrecedeTrace
  BY DEF CarryBase, HInv, Inv, TypeOK, Analyses
<1>2. lcDist[k] \in Int /\ lcDist[k] >= 0
  BY <1>1 DEF TypeOK, DistInv
<1>3. CASE LDDProfLoopIter < FirstAnalysedIter
  <2>1. lcDist' = lcDist /\ ~ (LDDProfLoopIter >= FirstAnalysedIter)
    BY <1>1, <1>3 DEF AddPresentToPrecedeTrace, FirstAnalysedIter
  <2> QED
    BY <1>2, <2>1
<1>4. CASE ~ (LDDProfLoopIter < FirstAnalysedIter)
  <2> DEFINE ds == {c[4] : c \in {x \in Found : <<x[1], x[2], x[3]>> = k}}
  <2>1. /\ ds \subseteq Int
        /\ IF ds = {} THEN lcDist'[k] = lcDist[k] ELSE lcDist'[k] \in FoldedDist(lcDist[k], ds)
    BY <1>1, <1>4, FoundStep
  <2>2. \A e \in ds : e > 0
    BY <1>1, FoundPositive
  <2>3. \A c \in Found : <<c[1], c[2], c[3]>> = k => c[4] \in ds
    OBVIOUS
  <2> HIDE DEF ds
  <2>4. CASE ds = {}
    BY <1>2, <2>1, <2>3, <2>4
  <2>5. CASE ds # {}
    <3>1. PICK v : v = lcDist'[k]
      OBVIOUS
    <3>2. v \in Int /\ v > 0 /\ (\A e \in ds : v =< e) /\ (lcDist[k] > 0 => v =< lcDist[k])
      BY <1>2, <2>1, <2>2, <2>5, <3>1, FoldPositive
    <3> QED
      BY <2>3, <3>1, <3>2
  <2> QED
    BY <2>4, <2>5
<1> QED
  BY <1>3, <1>4

\* A kept pair whose sink is analysed now is found.
LEMMA PairFound ==
  ASSUME CarryBase, NoCross, FreshInv, KeptInv, ~ NestedTargets, Analyses,
         NEW kind \in DepKind, NEW i \in Acc, NEW j \in Acc, CarriedPair(kind, i, j),
         hist[i].iter >= FirstAnalysedIter, hist[j].iter = LDDProfLoopIter,
         NEW x \in SharedBytes(i, j), KeptPair(kind, i, j, x)
  PROVE  \E c \in Found : <<c[1], c[2], c[3]>> = Dep(kind, i, j) /\ c[4] =< Distance(i, j)
<1>1. TypeOK /\ HistInv /\ HInv /\ CarryInv /\ AllReach /\ LDDProfLoopID # 0
  BY DEF CarryBase, HInv, Inv, CarryInv, Analyses
<1>2. x \in hist[i].bytes /\ x \in hist[j].bytes /\ hist[i].iter < hist[j].iter
  BY DEF SharedBytes, CarriedPair
<1>3. hist[i].iter \in Nat /\ LDDProfLoopIter \in Nat /\ Analyzed(i)
      /\ LDDProfLoopIter >= FirstAnalysedIter
  <2>1. hist[i].iter \in Nat /\ LDDProfLoopIter \in Nat
    BY <1>1, EventType DEF TypeOK
  <2>2. Analyzed(i)
    BY <1>1, <1>2, AnalyzedNow
  <2> QED
    BY <1>2, <2>1, <2>2 DEF FirstAnalysedIter
<1>4. PICK w : w = FirstWord(x)
  OBVIOUS
<1>5. PICK b : b = Offset(x)
  OBVIOUS
<1>6. PICK t : t = shadow[w]
  OBVIOUS
<1>7. w \in Word /\ t \in Trace(PC)
  BY <1>1, <1>2, <1>4, <1>6, EventType, WordAt DEF TypeOK
<1>8. /\ LastWrite(i, x) => KeptIn(t.PrecedeW, i, x)
      /\ i \in Reads /\ FirstAccess(i, x) => KeptIn(t.PrecedeR, i, x)
  BY <1>2, <1>3, <1>4, <1>6 DEF KeptInv
<1>9. LastWrite(j, x) \/ (j \in Reads /\ FirstAccess(j, x))
  BY DEF KeptPair, DepKind
<1>10. /\ LastWrite(j, x) =>
              b \in t.GlobalWriteMask /\ \E n \in t.WTrace : n.pc = hist[j].pc /\ b \in n.mask
       /\ j \in Reads /\ FirstAccess(j, x) =>
              b \in t.GlobalReadMask /\ \E n \in t.RTrace : n.pc = hist[j].pc /\ b \in n.mask
       /\ w \in RecordedWords /\ Analysed(t, LDDProfLoopIter)
  BY <1>1, <1>2, <1>3, <1>4, <1>5, <1>6, <1>9, Sink
<1>11. CarriedDeps(t, LDDProfLoopIter) \subseteq Found
  BY <1>6, <1>10 DEF Found, RecordedWords
<1>12. ASSUME NEW sinks, NEW mask, NEW sources,
              \A q \in sources : q.iter \in Nat,
              KeptIn(sources, i, x), b \in mask, \E n \in sinks : n.pc = hist[j].pc /\ b \in n.mask,
              Carried(kind, sinks, mask, sources, LDDProfLoopIter) \subseteq CarriedDeps(t, LDDProfLoopIter)
       PROVE  \E c \in Found : <<c[1], c[2], c[3]>> = Dep(kind, i, j) /\ c[4] =< Distance(i, j)
  <2>1. PICK q \in sources : q.pc = hist[i].pc /\ b \in q.mask /\ hist[i].iter =< q.iter
    BY <1>5, <1>12 DEF KeptIn
  <2>2. PICK n \in sinks : n.pc = hist[j].pc /\ b \in n.mask
    BY <1>12
  <2>3. PICK c : c = <<kind, q.pc, n.pc, LDDProfLoopIter - q.iter>>
    OBVIOUS
  <2>4. b \in mask \cap GlobalMask(sources)
    BY <1>12, <2>1 DEF GlobalMask
  <2>5. PICK pair : pair = <<n, q>>
    OBVIOUS
  <2>6. pair[1] = n /\ pair[2] = q /\ pair \in sinks \X sources /\ pair[1].mask \cap pair[2].mask # {}
    BY <2>1, <2>2, <2>5
  <2>7. c \in Carried(kind, sinks, mask, sources, LDDProfLoopIter)
    BY <2>3, <2>4, <2>6 DEF Carried
  <2>8. c \in Found
    BY <1>11, <1>12, <2>7
  <2>9. <<c[1], c[2], c[3]>> = Dep(kind, i, j)
    BY <2>1, <2>2, <2>3 DEF Dep
  <2>10. c[4] =< Distance(i, j)
    <3>1. c[4] = LDDProfLoopIter - q.iter /\ q.iter \in Nat
      BY <1>12, <2>3
    <3>2. Distance(i, j) = LDDProfLoopIter - hist[i].iter
      BY DEF Distance
    <3> QED
      BY <1>3, <2>1, <3>1, <3>2
  <2> QED
    BY <2>8, <2>9, <2>10
<1>13. /\ \A q \in t.PrecedeR : q.iter \in Nat
       /\ \A q \in t.PrecedeW : q.iter \in Nat
  BY <1>7 DEF Trace, PrecedeNode
<1>14. CASE kind = "True"
  <2>1. Carried(kind, t.RTrace, t.GlobalReadMask, t.PrecedeW, LDDProfLoopIter)
          \subseteq CarriedDeps(t, LDDProfLoopIter)
    BY <1>14 DEF CarriedDeps
  <2> QED
    BY <1>8, <1>10, <1>12, <1>13, <1>14, <2>1 DEF KeptPair
<1>15. CASE kind = "Out"
  <2>1. Carried(kind, t.WTrace, t.GlobalWriteMask, t.PrecedeW, LDDProfLoopIter)
          \subseteq CarriedDeps(t, LDDProfLoopIter)
    BY <1>15 DEF CarriedDeps
  <2> QED
    BY <1>8, <1>10, <1>12, <1>13, <1>15, <2>1 DEF KeptPair
<1>16. CASE kind = "Anti"
  <2>1. Carried(kind, t.WTrace, t.GlobalWriteMask, t.PrecedeR, LDDProfLoopIter)
          \subseteq CarriedDeps(t, LDDProfLoopIter)
    BY <1>16 DEF CarriedDeps
  <2> QED
    BY <1>8, <1>10, <1>12, <1>13, <1>16, <2>1 DEF KeptPair
<1> QED
  BY <1>14, <1>15, <1>16 DEF DepKind

\* The pairs of a history that does not grow
LEMMA SamePairs ==
  ASSUME UNCHANGED hist, NEW kind \in DepKind, NEW i, NEW j
  PROVE  /\ SharedBytes(i, j)' = SharedBytes(i, j) /\ Distance(i, j)' = Distance(i, j)
         /\ Dep(kind, i, j)' = Dep(kind, i, j)
         /\ CarriedPair(kind, i, j)' <=> CarriedPair(kind, i, j)
         /\ \A x : KeptPair(kind, i, j, x)' <=> KeptPair(kind, i, j, x)
<1>1. SharedBytes(i, j)' = SharedBytes(i, j) /\ Distance(i, j)' = Distance(i, j)
      /\ Dep(kind, i, j)' = Dep(kind, i, j)
  BY DEF SharedBytes, Distance, Dep
<1>2. Writes' = Writes /\ Reads' = Reads /\ Acc' = Acc
  BY DEF Writes, Reads, Acc
<1>3. ASSUME NEW k, NEW x
      PROVE  LastWrite(k, x)' = LastWrite(k, x) /\ FirstAccess(k, x)' = FirstAccess(k, x)
  BY <1>2 DEF LastWrite, FirstAccess, SameIteration
<1>4. CarriedPair(kind, i, j)' <=> CarriedPair(kind, i, j)
  BY <1>1, <1>2 DEF CarriedPair
<1>5. ASSUME NEW x  PROVE KeptPair(kind, i, j, x)' <=> KeptPair(kind, i, j, x)
  <2>1. CASE kind = "True"
    BY <1>2, <1>3, <2>1 DEF KeptPair
  <2>2. CASE kind = "Anti"
    BY <1>2, <1>3, <2>2 DEF KeptPair
  <2>3. CASE kind = "Out"
    BY <1>2, <1>3, <2>3 DEF KeptPair
  <2> QED
    BY <2>1, <2>2, <2>3 DEF DepKind
<1> QED
  BY <1>1, <1>4, <1>5

\* CompleteInv, over the end of an iteration
LEMMA AnalysisComplete ==
  ASSUME CompleteInv, ~ NestedTargets, Analyses
  PROVE  (FreshInv /\ KeptInv /\ DistInv /\ LCComplete)'
<1>1. CarryBase /\ TypeOK /\ HistInv
  BY DEF CompleteInv, CarryBase, HInv, Inv
<1>2. FreshInv'
  BY AnalysisFresh DEF CompleteInv
<1>3. KeptInv'
  BY AnalysisKept DEF CompleteInv
<1>4. DistInv'
  BY DistStep DEF CompleteInv, DistInv
<1>5. UNCHANGED hist /\ Acc' = Acc
  BY DEF Analyses, Acc
<1>6. LCComplete'
  <2>1. SUFFICES ASSUME NEW kind \in DepKind, NEW i \in Acc, NEW j \in Acc, CarriedPair(kind, i, j),
                        hist[i].iter >= FirstAnalysedIter,
                        NEW x \in SharedBytes(i, j), KeptPair(kind, i, j, x)
                 PROVE  lcDist'[Dep(kind, i, j)] \in 1 .. Distance(i, j)
    <3> SUFFICES ASSUME NEW kind \in DepKind, NEW i \in Acc', NEW j \in Acc', CarriedPair(kind, i, j)',
                        hist'[i].iter >= FirstAnalysedIter,
                        NEW x \in SharedBytes(i, j)', KeptPair(kind, i, j, x)'
                 PROVE  lcDist'[Dep(kind, i, j)'] \in 1 .. Distance(i, j)'
      BY DEF LCComplete
    <3> QED
      BY <1>5, <2>1, SamePairs
  <2>2. Distance(i, j) \in Int /\ hist[j].iter =< LDDProfLoopIter
        /\ (hist[j].iter # LDDProfLoopIter => Analyzed(j))
    BY <1>1, AnalysedAll, EventType DEF CompleteInv, Distance
  <2>3. PICK k : k = Dep(kind, i, j)
    OBVIOUS
  <2>4. k \in DepKey
    BY <1>1, <2>3, EventType DEF Dep, DepKey
  <2>5. /\ lcDist'[k] \in Int
        /\ lcDist[k] > 0 => lcDist'[k] > 0 /\ lcDist'[k] =< lcDist[k]
        /\ LDDProfLoopIter >= FirstAnalysedIter =>
             \A c \in Found : <<c[1], c[2], c[3]>> = k => 0 < lcDist'[k] /\ lcDist'[k] =< c[4]
    BY <2>4, DistStep DEF CompleteInv
  <2>6. CASE hist[j].iter # LDDProfLoopIter
    <3>1. lcDist[k] \in 1 .. Distance(i, j)
      <4>1. Analyzed(j)
        BY <2>2, <2>6
      <4> QED
        BY <2>1, <2>3, <4>1 DEF CompleteInv, LCComplete
    <3> QED
      BY <2>2, <2>3, <2>5, <3>1
  <2>7. CASE hist[j].iter = LDDProfLoopIter
    <3>1. PICK c \in Found : <<c[1], c[2], c[3]>> = k /\ c[4] =< Distance(i, j)
      BY <2>1, <2>3, <2>7, PairFound DEF CompleteInv
    <3>2. LDDProfLoopIter >= FirstAnalysedIter
      <4>1. hist[i].iter \in Nat /\ hist[j].iter \in Nat /\ hist[i].iter < hist[j].iter
        BY <1>1, <2>1, EventType DEF CarriedPair
      <4> QED
        BY <2>1, <2>7, <4>1 DEF FirstAnalysedIter
    <3>3. c[4] \in Int
      <4>1. Found \subseteq DepKind \X PC \X PC \X Int
        BY <1>1, CarriedDepsType DEF Found, TypeOK, RecordedWords
      <4> QED
        BY <4>1
    <3>4. 0 < lcDist'[k] /\ lcDist'[k] =< c[4]
      BY <2>5, <3>1, <3>2
    <3> QED
      BY <2>2, <2>3, <2>5, <3>1, <3>3, <3>4
  <2> QED
    BY <2>6, <2>7
<1> QED
  BY <1>2, <1>3, <1>4, <1>6

\* CompleteInv, over the entry of the loop, where there is no history
LEMMA EnterComplete ==
  ASSUME CompleteInv, EnterLoop, UNCHANGED hist, MaxSessions =< 1
  PROVE  (FreshInv /\ KeptInv /\ DistInv /\ LCComplete)'
<1>1. TypeOK /\ HistInv /\ CarryInv /\ NoCross
  BY DEF CompleteInv, CarryBase, HInv, Inv
<1>2. sessions = 0
  BY <1>1, LightShadowAssumption DEF EnterLoop, TypeOK
<1>3. hist = <<>> /\ LDDProfLoopIter = 0
  BY <1>1, <1>2 DEF HistInv
<1>4. Acc = {} /\ Acc' = {}
  BY <1>3 DEF Acc
<1>5. UNCHANGED shadow /\ UNCHANGED lcDist
  BY DEF EnterLoop, depVars
<1>6. ASSUME NEW w \in Word, NEW q \in shadow[w].PrecedeR \cup shadow[w].PrecedeW
      PROVE  FALSE
  <2>1. PICK t : t = shadow[w]
    OBVIOUS
  <2>2. t \in Trace(PC) /\ t.RWIter \in Nat /\ t.RWIter =< 0 /\ TraceFrom(t, w)
    BY <1>1, <1>3, <2>1 DEF TypeOK, HistInv, CarryInv, Trace
  <2>3. q.iter \in Nat
    BY <1>6, <2>1, <2>2 DEF Trace, PrecedeNode
  <2>4. FirstAnalysedIter =< q.iter /\ q.iter =< t.RWIter
    BY <1>6, <2>1, <2>2 DEF TraceFrom, PrecedeFrom
  <2> QED
    BY <2>2, <2>3, <2>4 DEF FirstAnalysedIter
<1>7. FreshInv'
  BY <1>5, <1>6 DEF FreshInv
<1>8. KeptInv' /\ LCComplete'
  BY <1>4 DEF KeptInv, LCComplete
<1>9. DistInv'
  BY <1>5 DEF CompleteInv, DistInv
<1> QED
  BY <1>7, <1>8, <1>9

\* Every step keeps the loop-carried dependences of the history reported.
LEMMA NextComplete ==
  ASSUME CompleteInv, [HNext]_hvars, AccessFits, AccessOnePage, MaxSessions =< 1, ~ NestedTargets
  PROVE  CompleteInv'
<1>1. CarryBase /\ NoCross /\ HInv /\ HInv' /\ TypeOK /\ LiveInv /\ HistInv
  BY NextHInv DEF CompleteInv, CarryBase, HInv, Inv
<1>2. CASE \E pc \in LoadPCs, al \in Access : ProfiledLoad(pc, al[1], al[2])
  <2>1. PICK pc \in LoadPCs, al \in Access : ProfiledLoad(pc, al[1], al[2])
    BY <1>2
  <2>2. pc \in PC /\ Record("R", pc, al[1], al[2]) /\ UNCHANGED lcDist /\ UNCHANGED loopVars
        /\ LDDProfLoopID # 0 /\ Load(pc, al[1], al[2])
    BY <2>1 DEF ProfiledLoad, Load, PC
  <2>3. (FreshInv /\ KeptInv /\ DistInv /\ LCComplete)'
    BY <1>1, <2>2, AccessPrecede, AccessComplete
  <2>4. NoCross'
    BY <1>1, <2>2, OnePage
  <2> QED
    BY <1>1, <2>1, <2>3, <2>4, LoadCarry DEF CompleteInv, CarryBase
<1>3. CASE \E pc \in StorePCs, al \in Access : ProfiledStore(pc, al[1], al[2])
  <2>1. PICK pc \in StorePCs, al \in Access : ProfiledStore(pc, al[1], al[2])
    BY <1>3
  <2>2. pc \in PC /\ Record("W", pc, al[1], al[2]) /\ UNCHANGED lcDist /\ UNCHANGED loopVars
        /\ LDDProfLoopID # 0 /\ Store(pc, al[1], al[2])
    BY <2>1 DEF ProfiledStore, Store, PC
  <2>3. (FreshInv /\ KeptInv /\ DistInv /\ LCComplete)'
    BY <1>1, <2>2, AccessPrecede, AccessComplete
  <2>4. NoCross'
    BY <1>1, <2>2, OnePage
  <2> QED
    BY <1>1, <2>1, <2>3, <2>4, StoreCarry DEF CompleteInv, CarryBase
<1>4. UNCHANGED hist => (NoCross' <=> NoCross)
  BY DEF NoCross, CrossesPage, Acc
<1>5. CASE (EndIteration \/ ExitLoop) /\ UNCHANGED hist
  <2>1. Analyses
    BY <1>5 DEF Analyses, EndIteration, ExitLoop
  <2>2. (FreshInv /\ KeptInv /\ DistInv /\ LCComplete)'
    BY <2>1, AnalysisComplete
  <2> QED
    BY <1>1, <1>4, <2>1, <2>2, AnalysisCarry DEF CompleteInv, CarryBase, Analyses
<1>6. CASE EnterLoop /\ UNCHANGED hist
  BY <1>1, <1>4, <1>6, EnterCarry, EnterComplete DEF CompleteInv, CarryBase
<1>7. CASE UNCHANGED hvars
  <2>1. CarryInv'
    BY <1>1, <1>7 DEF CarryBase, CarryInv, hvars, vars, loopVars, pageVars, NoCross, CrossesPage,
       AllReach, Pending, TraceFrom, PresentFrom, PrecedeFrom, Backed, Acc
  <2>2. FreshInv' /\ KeptInv' /\ DistInv'
    BY <1>7 DEF CompleteInv, FreshInv, KeptInv, KeptIn, DistInv, Analyzed, LastWrite, FirstAccess,
       SameIteration, Writes, Reads, Acc, hvars, vars, loopVars, depVars
  <2>3. LCComplete'
    <3>1. UNCHANGED <<hist, lcDist>> /\ Acc' = Acc /\ \A j : Analyzed(j)' <=> Analyzed(j)
      BY <1>7 DEF hvars, vars, loopVars, depVars, Acc, Analyzed
    <3> SUFFICES ASSUME NEW kind \in DepKind, NEW i \in Acc', NEW j \in Acc', CarriedPair(kind, i, j)',
                        hist'[i].iter >= FirstAnalysedIter, Analyzed(j)',
                        NEW x \in SharedBytes(i, j)', KeptPair(kind, i, j, x)'
                 PROVE  lcDist'[Dep(kind, i, j)'] \in 1 .. Distance(i, j)'
      BY DEF LCComplete
    <3>2. lcDist[Dep(kind, i, j)] \in 1 .. Distance(i, j)
      BY <3>1, SamePairs DEF CompleteInv, LCComplete
    <3> QED
      BY <3>1, <3>2, SamePairs
  <2> QED
    BY <1>1, <1>4, <1>7, <2>1, <2>2, <2>3 DEF CompleteInv, CarryBase, hvars
<1> QED
  BY <1>2, <1>3, <1>5, <1>6, <1>7 DEF HNext, EndNestedIteration

\* An empty history has no dependences.
LEMMA InitComplete == HInit => CompleteInv
<1> SUFFICES ASSUME HInit PROVE CompleteInv
  OBVIOUS
<1>1. CarryBase
  BY InitSound DEF SoundInv
<1>2. Acc = {}
  BY DEF HInit, Acc
<1>3. NoCross /\ KeptInv /\ LCComplete
  BY <1>2 DEF NoCross, KeptInv, LCComplete
<1>4. FreshInv /\ DistInv
  BY DEF HInit, Init, FreshInv, DistInv
<1> QED
  BY <1>1, <1>3, <1>4 DEF CompleteInv

\* LCComplete: without nested target loops, in one execution of the loop and with no
\* access across pages, no loop-carried dependence between last writes and first
\* reads is lost from iteration 3 on.
THEOREM CarriedComplete ==
  ASSUME AccessFits, AccessOnePage, MaxSessions =< 1, ~ NestedTargets
  PROVE  HSpec => []LCComplete
<1>1. CompleteInv => LCComplete
  BY DEF CompleteInv
<1> QED
  BY <1>1, InitComplete, NextComplete, PTL DEF HSpec
=============================================================================
