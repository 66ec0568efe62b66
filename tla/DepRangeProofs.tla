--------------------------- MODULE DepRangeProofs ---------------------------
(***************************************************************************)
(* For every set of instructions, the bounds of the slots in use are what  *)
(* RangeInv says, and the output has exactly the dependences OutputExact   *)
(* names.                                                                  *)
(***************************************************************************)
EXTENDS DepRange, TLAPS

IInv == TypeOK /\ RangeInv /\ OutputExact

\* AppAddrToShadow stays in the text section.
LEMMA SlotInText ==
  ASSUME NEW pc \in PC
  PROVE  Slot(pc) \in Nat /\ Slot(pc) < TextBytes
<1>1. pc \in Nat /\ pc < TextBytes /\ SlotBytes \in Nat \ {0} /\ TextBytes \in Nat
  BY DepRangeAssumption
<1>2. pc % SlotBytes \in 0 .. SlotBytes - 1 /\ pc \div SlotBytes \in Int
        /\ pc = SlotBytes * (pc \div SlotBytes) + (pc % SlotBytes)
  BY <1>1
<1>3. pc \div SlotBytes >= 0
  BY <1>1
<1>4. SlotBytes * (pc \div SlotBytes) \in Nat
  BY <1>1, <1>2, <1>3
<1> QED BY <1>1, <1>2, <1>4 DEF Slot

\* A dependence found at pc, before the output: CheckLID and ReportLCD.
LEMMA LocateKeeps ==
  ASSUME NEW pc \in PC, IInv, ~ ended, Locate(pc),
         sinks' \in {sinks, sinks \cup {pc}}, UNCHANGED output
  PROVE  IInv'
<1> DEFINE slot == Slot(pc)
<1>1. slot \in Nat /\ slot < TextBytes /\ TextBytes \in Nat
  BY SlotInText, DepRangeAssumption
<1>2. allocated \subseteq Nat /\ LDDLSResultMax \in Nat /\ LDDLSResultMin \in Nat
  BY SlotInText DEF IInv, TypeOK
<1>3. ended' = ended /\ printed' = printed
  BY DEF output
<1>4. CASE slot \in allocated
  <2>1. UNCHANGED <<allocated, range>>
    BY <1>4 DEF Locate
  <2> QED BY <1>3, <1>4, <2>1 DEF IInv, TypeOK, RangeInv, OutputExact, range
<1>5. CASE slot \notin allocated
  <2>1. Allocate(slot)
    BY <1>5 DEF Locate
  <2>2. allocated' = allocated \cup {slot} /\ slot \in {Slot(p) : p \in PC}
    BY <2>1 DEF Allocate
  <2>3. CASE slot > LDDLSResultMax
    <3>1. /\ LDDLSResultMax' = slot /\ raised' = raised \cup {slot}
          /\ LDDLSResultMin' = LDDLSResultMin
      BY <2>1, <2>3 DEF Allocate
    <3>2. allocated' \ raised' = allocated \ raised
      BY <1>5, <2>2, <3>1 DEF IInv, TypeOK
    <3>3. TypeOK'
      BY <1>1, <1>3, <2>2, <3>1 DEF IInv, TypeOK
    <3>4. RangeInv'
      BY <1>1, <1>2, <2>2, <2>3, <3>1, <3>2 DEF IInv, RangeInv
    <3> QED BY <1>3, <3>3, <3>4 DEF IInv, OutputExact
  <2>4. CASE ~ (slot > LDDLSResultMax)
    <3>1. /\ LDDLSResultMin' = IF slot < LDDLSResultMin THEN slot ELSE LDDLSResultMin
          /\ LDDLSResultMax' = LDDLSResultMax /\ raised' = raised
      BY <2>1, <2>4 DEF Allocate
    <3>2. allocated' \ raised' = (allocated \ raised) \cup {slot}
      BY <1>5, <2>2, <3>1 DEF IInv, TypeOK
    <3>3. TypeOK'
      BY <1>1, <1>3, <2>2, <3>1 DEF IInv, TypeOK
    <3>4. \A s \in allocated' : s =< LDDLSResultMax'
      BY <1>1, <1>2, <2>2, <2>4, <3>1 DEF IInv, RangeInv
    <3>5. \A s \in allocated' \ raised' : LDDLSResultMin' =< s
      <4> TAKE s \in allocated' \ raised'
      <4>1. s = slot \/ s \in allocated \ raised
        BY <3>2
      <4>2. s \in Nat
        BY <1>1, <1>2, <4>1
      <4>3. s \in allocated \ raised => LDDLSResultMin =< s
        BY DEF IInv, RangeInv
      <4> QED BY <1>1, <1>2, <3>1, <4>1, <4>2, <4>3
    <3>6. RangeInv'
      BY <2>2, <3>1, <3>2, <3>4, <3>5 DEF IInv, RangeInv
    <3> QED BY <1>3, <3>3, <3>6 DEF IInv, OutputExact
  <2> QED BY <2>3, <2>4
<1> QED BY <1>4, <1>5

\* The loop over the slots meets every slot that is not hidden, and no other.
LEMMA OutputKeeps ==
  ASSUME IInv, Output
  PROVE  IInv'
<1>1. ended' = TRUE /\ UNCHANGED <<allocated, sinks, range>>
        /\ printed' = {pc \in sinks : LDDLSResultMin =< Slot(pc) /\ Slot(pc) =< LDDLSResultMax}
  BY DEF Output
<1>2. ASSUME NEW pc \in sinks
      PROVE  (LDDLSResultMin =< Slot(pc) /\ Slot(pc) =< LDDLSResultMax) <=> ~ Hidden(Slot(pc))
  <2>1. pc \in PC /\ Slot(pc) \in allocated
    BY DEF IInv, TypeOK
  <2>2. Slot(pc) \in Nat /\ Slot(pc) < TextBytes /\ TextBytes \in Nat
    BY <2>1, SlotInText, DepRangeAssumption
  <2>3. allocated \subseteq Nat /\ LDDLSResultMax \in Nat /\ LDDLSResultMin \in Nat
    BY SlotInText DEF IInv, TypeOK
  <2>4. Slot(pc) =< LDDLSResultMax
    BY <2>1 DEF IInv, RangeInv
  <2>5. Slot(pc) < LDDLSResultMin => Hidden(Slot(pc))
    BY <2>1, <2>2, <2>3 DEF IInv, RangeInv, Hidden
  <2>6. Hidden(Slot(pc)) => Slot(pc) < LDDLSResultMin
    BY <2>2, <2>3 DEF IInv, RangeInv, Hidden
  <2> QED BY <2>2, <2>3, <2>4, <2>5, <2>6
<1>3. printed' = {pc \in sinks : ~ Hidden(Slot(pc))}
  BY <1>1, <1>2
<1>4. OutputExact'
  BY <1>1, <1>3 DEF OutputExact, Hidden, range
<1>5. TypeOK' /\ RangeInv'
  BY <1>1 DEF IInv, TypeOK, RangeInv, range
<1> QED BY <1>4, <1>5 DEF IInv

\* The inductive invariant holds in every state.
THEOREM Invariance == Spec => []IInv
<1>1. Init => IInv
  <2> SUFFICES ASSUME Init PROVE IInv
    OBVIOUS
  <2>1. TypeOK
    BY DepRangeAssumption DEF Init, TypeOK
  <2>2. RangeInv
    BY DEF Init, RangeInv
  <2>3. OutputExact
    BY DEF Init, OutputExact
  <2> QED BY <2>1, <2>2, <2>3 DEF IInv
<1>2. IInv /\ [Next]_vars => IInv'
  <2> SUFFICES ASSUME IInv, [Next]_vars PROVE IInv'
    OBVIOUS
  <2>1. ASSUME NEW pc \in PC, CheckLID(pc) PROVE IInv'
    BY <2>1, LocateKeeps DEF CheckLID
  <2>2. ASSUME NEW pc \in PC, ReportLCD(pc) PROVE IInv'
    BY <2>2, LocateKeeps DEF ReportLCD
  <2>3. CASE Output
    BY <2>3, OutputKeeps
  <2>4. CASE UNCHANGED vars
    BY <2>4 DEF IInv, TypeOK, RangeInv, OutputExact, Hidden, vars, range, output
  <2> QED BY <2>1, <2>2, <2>3, <2>4 DEF Next
<1> QED BY <1>1, <1>2, PTL DEF Spec

\* The sinks of the stored dependences have a slot, and only instructions do.
THEOREM TypeCorrect == Spec => []TypeOK
BY Invariance, PTL DEF IInv

\* LDDLSResultMax is the largest slot in use; LDDLSResultMin is the least one
\* that was not the largest when it came into use.
THEOREM RangeCorrect == Spec => []RangeInv
BY Invariance, PTL DEF IInv

\* The output loses exactly the dependences the bounds hide.
THEOREM OutputCorrect == Spec => []OutputExact
BY Invariance, PTL DEF IInv
=============================================================================
