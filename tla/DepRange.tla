------------------------------ MODULE DepRange ------------------------------
(***************************************************************************)
(* Where the light-shadow profiler keeps the dependences of an             *)
(* instruction, and which of them it prints.  A dependence is stored in    *)
(* the LSDepInfo that the shadow of its sink's PC points to;               *)
(* LDDLSResultMin and LDDLSResultMax bound the slots in use, and           *)
(* __outputLSResultWithSinkPCAsKey prints the slots between them.          *)
(*                                                                         *)
(* Addresses are offsets into the text section, whose shadow starts at     *)
(* 0x6cf000000000 and ends at LDDGlobalMin.                                *)
(***************************************************************************)
EXTENDS Integers

CONSTANTS
  SlotBytes,        \* 8: size of a slot
  TextBytes,        \* 0x400000: size of the text section's shadow
  PC                \* instrumented instructions

ASSUME DepRangeAssumption ==
  /\ SlotBytes \in Nat \ {0}
  /\ TextBytes \in Nat \ {0}
  /\ PC \subseteq 0 .. TextBytes - 1

\* AppAddrToShadow clears the low bits.
Slot(pc) == pc - (pc % SlotBytes)

VARIABLES
  allocated,        \* the slots that point to an LSDepInfo
  sinks,            \* the sinks of the dependences stored so far
  LDDLSResultMax, LDDLSResultMin,
  raised,           \* history: the slots that became LDDLSResultMax
  ended,            \* TRUE when the program has ended and the output is written
  printed           \* the sinks of the dependences in the output

range  == <<LDDLSResultMax, LDDLSResultMin, raised>>
output == <<ended, printed>>
vars   == <<allocated, sinks, range, output>>

\* Mutation: the two tests the other way round.
AllocateMinFirst(slot) ==
  /\ allocated' = allocated \cup {slot}
  /\ IF slot < LDDLSResultMin
     THEN LDDLSResultMin' = slot /\ UNCHANGED <<LDDLSResultMax, raised>>
     ELSE /\ LDDLSResultMax' = IF slot > LDDLSResultMax THEN slot ELSE LDDLSResultMax
          /\ raised' = IF slot > LDDLSResultMax THEN raised \cup {slot} ELSE raised
          /\ UNCHANGED LDDLSResultMin

\* Mutation: the slot is not made to point to the new LSDepInfo.
AllocateUnlinked(slot) ==
  /\ UNCHANGED allocated
  /\ IF slot > LDDLSResultMax
     THEN LDDLSResultMax' = slot /\ UNCHANGED <<LDDLSResultMin, raised>>
     ELSE /\ LDDLSResultMin' = IF slot < LDDLSResultMin THEN slot ELSE LDDLSResultMin
          /\ UNCHANGED <<LDDLSResultMax, raised>>

\* A new LSDepInfo; a slot that raises the maximum does not lower the minimum.
Allocate(slot) ==
  /\ allocated' = allocated \cup {slot}
  /\ IF slot > LDDLSResultMax
     THEN LDDLSResultMax' = slot /\ raised' = raised \cup {slot} /\ UNCHANGED LDDLSResultMin
     ELSE /\ LDDLSResultMin' = IF slot < LDDLSResultMin THEN slot ELSE LDDLSResultMin
          /\ UNCHANGED <<LDDLSResultMax, raised>>

Locate(pc) ==
  IF Slot(pc) \in allocated THEN UNCHANGED <<allocated, range>> ELSE Allocate(Slot(pc))

\* The loop-independent checks allocate before they look for a dependence.
CheckLID(pc) ==
  /\ ~ ended
  /\ Locate(pc)
  /\ sinks' \in {sinks, sinks \cup {pc}}
  /\ UNCHANGED output

\* The loop-carried analysis allocates for a dependence it has found.
ReportLCD(pc) ==
  /\ ~ ended
  /\ Locate(pc)
  /\ sinks' = sinks \cup {pc}
  /\ UNCHANGED output

\* Mutation: the last slot is left out.
OutputShort ==
  /\ ~ ended
  /\ ended' = TRUE
  /\ printed' = {pc \in sinks : LDDLSResultMin =< Slot(pc) /\ Slot(pc) < LDDLSResultMax}
  /\ UNCHANGED <<allocated, sinks, range>>

\* for( ; LDDB <= LDDE; LDDB += 8 ), at the end of the program
Output ==
  /\ ~ ended
  /\ ended' = TRUE
  /\ printed' = {pc \in sinks : LDDLSResultMin =< Slot(pc) /\ Slot(pc) =< LDDLSResultMax}
  /\ UNCHANGED <<allocated, sinks, range>>

Init ==
  /\ allocated = {} /\ sinks = {} /\ raised = {}
  /\ LDDLSResultMax = 0 /\ LDDLSResultMin = TextBytes
  /\ ended = FALSE /\ printed = {}

Next ==
  \/ \E pc \in PC : CheckLID(pc) \/ ReportLCD(pc)
  \/ Output

Spec == Init /\ [][Next]_vars

-----------------------------------------------------------------------------
\* Type invariant: slots are those of instructions, every sink has its slot.
TypeOK ==
  /\ allocated \subseteq {Slot(pc) : pc \in PC}
  /\ sinks \subseteq {pc \in PC : Slot(pc) \in allocated}
  /\ raised \subseteq allocated
  /\ LDDLSResultMax \in Nat /\ LDDLSResultMin \in Nat
  /\ ended \in BOOLEAN /\ printed \subseteq sinks

\* The bounds the code maintains: the maximum is the largest slot in use, the
\* minimum the least one that was not the largest when it came into use.
RangeInv ==
  /\ \A s \in allocated : s =< LDDLSResultMax
  /\ LDDLSResultMax \in allocated \cup {0}
  /\ \A s \in allocated \ raised : LDDLSResultMin =< s
  /\ LDDLSResultMin \in (allocated \ raised) \cup {TextBytes}

\* A slot that was the largest when it came into use, and so were all below it
Hidden(slot) == slot \in raised /\ \A s \in allocated \ raised : slot < s

\* LDDLightShadowRT.cpp:273 calls the bounds "the PC scope that has LI/LC data
\* dependence"; the output has exactly the dependences that are not hidden by the
\* way they are kept.
OutputExact == ended => printed = {pc \in sinks : ~ Hidden(Slot(pc))}
=============================================================================
