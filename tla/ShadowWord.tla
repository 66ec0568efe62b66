----------------------------- MODULE ShadowWord -----------------------------
(***************************************************************************)
(* The Trace that LDDLightShadowRT.cpp keeps for one 8-byte word of the    *)
(* profiled program, and what the runtime does to it when the program      *)
(* reads the word, writes it, and ends an iteration of the profiled loop.  *)
(*                                                                         *)
(* A byte mask (unsigned char RWMask) is the set of the bytes whose bit is *)
(* set.  A linked list of LSPresentRWAddrID nodes is a set of nodes: every *)
(* new node goes to the head, nodes of one iteration have disjoint masks,  *)
(* and so the order of the list is only visible between nodes of different *)
(* iterations.  "age" counts the times the word's global masks have been   *)
(* reset since the node was inserted; a node of age 0 belongs to the       *)
(* iteration Present->RWIter, an older one was left over by it.            *)
(***************************************************************************)
EXTENDS Integers, FiniteSets

CONSTANT WordBytes      \* bytes of the program one shadow word describes: 8

ASSUME WordBytesAssumption == WordBytes \in Nat \ {0}

Byte == 0 .. WordBytes - 1
Mask == SUBSET Byte

DepKind == {"True", "Anti", "Out"}

(***************************************************************************)
(* Trace, LSPresentRWTrace, LSPrecedeRWTrace and their nodes.              *)
(***************************************************************************)
PresentNode(PC) == [pc : PC, mask : Mask \ {{}}, age : Nat]
PrecedeNode(PC) == [pc : PC, mask : Mask \ {{}}, iter : Nat]

Trace(PC) ==
  [RTrace          : SUBSET PresentNode(PC),
   WTrace          : SUBSET PresentNode(PC),
   RWIter          : Nat,
   GlobalReadMask  : Mask,
   GlobalWriteMask : Mask,
   PrecedeR        : SUBSET PrecedeNode(PC),
   PrecedeW        : SUBSET PrecedeNode(PC)]

\* The word's pointer is NULL: no iteration is numbered 0, so the first
\* access treats this value exactly as a freshly allocated Trace.
NoTrace ==
  [RTrace |-> {}, WTrace |-> {}, RWIter |-> 0,
   GlobalReadMask |-> {}, GlobalWriteMask |-> {},
   PrecedeR |-> {}, PrecedeW |-> {}]

-----------------------------------------------------------------------------
(***************************************************************************)
(* Reads and writes.                                                       *)
(***************************************************************************)
Older(nodes) == {[n EXCEPT !.age = @ + 1] : n \in nodes}

\* Mutation: the masks outlive their iteration.
EnterIterationKeepingMasks(t, iter) ==
  [t EXCEPT !.RWIter = iter,
            !.RTrace = IF t.RWIter = iter THEN @ ELSE Older(@),
            !.WTrace = IF t.RWIter = iter THEN @ ELSE Older(@)]

\* The first access to the word in an iteration resets the global masks but
\* not the two lists.
EnterIteration(t, iter) ==
  IF t.RWIter = iter THEN t
  ELSE [t EXCEPT !.RWIter = iter,
                 !.GlobalReadMask = {}, !.GlobalWriteMask = {},
                 !.RTrace = Older(@), !.WTrace = Older(@)]

\* The nodes a walk from the head of the list stops at: those that are the
\* first to cover a byte of the mask the walk is looking for.
Covering(nodes, mask) ==
  {n \in nodes : \E b \in n.mask \cap mask :
                    \A m \in nodes : b \in m.mask => n.age =< m.age}

NewNode(pc, mask) == [pc |-> pc, mask |-> mask, age |-> 0]

\* Only the bytes neither read nor written before in the iteration get a node.
UpdatePresentRTrace(t, pc, mask) ==
  LET first == (mask \ t.GlobalReadMask) \ t.GlobalWriteMask
  IN  IF first = {} THEN t
      ELSE [t EXCEPT !.RTrace = @ \cup {NewNode(pc, first)},
                     !.GlobalReadMask = @ \cup mask]

\* Take the bytes of mask away from every node, and free the emptied nodes.
Trimmed(nodes, mask) ==
  {[n EXCEPT !.mask = @ \ mask] : n \in {m \in nodes : ~ m.mask \subseteq mask}}

\* Mutation: a node that loses only some of its bytes keeps its mask.
UpdatePresentWTraceUntrimmed(t, pc, mask) ==
  [t EXCEPT !.WTrace = {n \in @ : ~ n.mask \subseteq mask} \cup {NewNode(pc, mask)},
            !.GlobalWriteMask = @ \cup mask]

UpdatePresentWTrace(t, pc, mask) ==
  LET older == IF mask \cap t.GlobalWriteMask = {} THEN t.WTrace
               ELSE Trimmed(t.WTrace, mask)
  IN  [t EXCEPT !.WTrace = older \cup {NewNode(pc, mask)},
                !.GlobalWriteMask = @ \cup mask]

\* Mutation: the walk looks for all bytes read, written in this iteration or not.
ReadLIDUnmasked(t, pc, mask) ==
  IF t.GlobalWriteMask = {} THEN {}
  ELSE {<<"True", n.pc, pc>> : n \in Covering(t.WTrace, mask)}

\* Loop-independent dependences whose sink is this access; t has entered the
\* iteration already.
ReadLID(t, pc, mask) ==
  {<<"True", n.pc, pc>> : n \in Covering(t.WTrace, mask \cap t.GlobalWriteMask)}

\* Mutation: the write check is guarded by the wrong mask.
WriteLIDWrongGuard(t, pc, mask) ==
  IF t.GlobalWriteMask = {} THEN {}
  ELSE {<<"Out", n.pc, pc>> : n \in Covering(t.WTrace, mask \cap t.GlobalWriteMask)}
       \cup
       {<<"Anti", n.pc, pc>> : n \in Covering(t.RTrace, mask \cap t.GlobalReadMask)}

WriteLID(t, pc, mask) ==
  IF t.GlobalReadMask = {} THEN {}
  ELSE {<<"Out", n.pc, pc>> : n \in Covering(t.WTrace, mask \cap t.GlobalWriteMask)}
       \cup
       {<<"Anti", n.pc, pc>> : n \in Covering(t.RTrace, mask \cap t.GlobalReadMask)}

-----------------------------------------------------------------------------
(***************************************************************************)
(* The end of an iteration: loop-carried dependences between the present   *)
(* and the precede tables, then the present nodes move to the precede      *)
(* tables, where they stay.                                                *)
(***************************************************************************)
\* Precede->Global{Read,Write}Mask is or-ed at every insertion, and nothing
\* is ever removed from a precede table.
GlobalMask(nodes) == UNION {n.mask : n \in nodes}

\* Mutation: a word is analysed only when it was both read and written.
AnalysedBoth(t, iter) ==
  /\ t.RTrace # {} /\ t.WTrace # {}
  /\ t.RWIter = iter

Analysed(t, iter) ==
  /\ t.RTrace # {} \/ t.WTrace # {}
  /\ t.RWIter = iter

\* One of the three double loops of the analysis, behind its global-mask test.
Carried(kind, sinks, sinkMask, sources, iter) ==
  IF sinkMask \cap GlobalMask(sources) = {} THEN {}
  ELSE {<<kind, pair[2].pc, pair[1].pc, iter - pair[2].iter>> :
          pair \in {pq \in sinks \X sources : pq[1].mask \cap pq[2].mask # {}}}

CarriedDeps(t, iter) ==
  Carried("True", t.RTrace, t.GlobalReadMask, t.PrecedeW, iter)
    \cup Carried("Out", t.WTrace, t.GlobalWriteMask, t.PrecedeW, iter)
    \cup Carried("Anti", t.WTrace, t.GlobalWriteMask, t.PrecedeR, iter)

\* Mutation: a precede node that is found keeps its iteration.
AddToPrecedeOnce(precede, present, iter) ==
  precede \cup
    {[pc |-> n.pc, mask |-> n.mask, iter |-> iter] :
       n \in {m \in present : \A q \in precede : <<m.pc, m.mask>> # <<q.pc, q.mask>>}}

\* A present node refreshes the precede node of the same <PC, mask> or becomes
\* a new one.
AddToPrecede(precede, present, iter) ==
  {q \in precede : \A n \in present : <<n.pc, n.mask>> # <<q.pc, q.mask>>}
    \cup {[pc |-> n.pc, mask |-> n.mask, iter |-> iter] : n \in present}

\* Mutation: the present tables are not emptied.
SetupPrecedeTraceKeepingPresent(t, iter) ==
  IF ~ Analysed(t, iter) THEN t
  ELSE [t EXCEPT !.PrecedeR = AddToPrecede(@, t.RTrace, iter),
                 !.PrecedeW = AddToPrecede(@, t.WTrace, iter)]

SetupPrecedeTrace(t, iter) ==
  IF ~ Analysed(t, iter) THEN t
  ELSE [t EXCEPT !.PrecedeR = AddToPrecede(@, t.RTrace, iter),
                 !.PrecedeW = AddToPrecede(@, t.WTrace, iter),
                 !.RTrace = {}, !.WTrace = {}]

-----------------------------------------------------------------------------
(***************************************************************************)
(* What the present tables of a word keep true of the current iteration.   *)
(***************************************************************************)
LiveIn(nodes, mask) ==
  \A n \in nodes : n.age = 0 =>
    /\ n.mask \subseteq mask
    /\ \A m \in nodes : m.age = 0 /\ m.mask \cap n.mask # {} => m = n

Live(t) == LiveIn(t.RTrace, t.GlobalReadMask) /\ LiveIn(t.WTrace, t.GlobalWriteMask)
=============================================================================
