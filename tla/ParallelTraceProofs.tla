------------------------- MODULE ParallelTraceProofs -------------------------
(***************************************************************************)
(* The invariants of ParallelTrace, for every number of processes, of      *)
(* tables and of iterations, every distribution of the iterations and      *)
(* every set of instructions.                                              *)
(***************************************************************************)
EXTENDS ParallelTraceProps, FiniteSetTheorems, WellFoundedInduction, TLAPS

-----------------------------------------------------------------------------
(***************************************************************************)
(* Induction: every set of numbers that is not empty has a least one.      *)
(***************************************************************************)
Before == {ss \in Nat \X Nat : ss[1] < ss[2]}

\* A set of numbers that is not empty has a least one.
LEMMA LeastNumber ==
  ASSUME NEW T, T \subseteq Nat, T # {}
  PROVE  \E n \in T : \A m \in T : n =< m
<1>1. IsWellFoundedOn(Before, Nat)
  BY NatLessThanWellFounded DEF OpToRel, Before
<1>2. PICK n \in T : \A m \in T : ~(<<m, n>> \in Before)
  BY <1>1, WFMin
<1>3. \A m \in T : <<m, n>> \in Nat \X Nat
  OBVIOUS
<1>4. \A m \in T : ~(m < n)
  BY <1>2, <1>3 DEF Before
<1>5. n \in Nat /\ \A m \in T : m \in Nat
  OBVIOUS
<1>6. \A m \in T : n =< m
  BY <1>4, <1>5
<1> QED
  BY <1>6

\* A number with a property that is not 0 and whose predecessor does not have it:
\* what a proof by induction needs of a counterexample.
LEMMA LeastCounterexample ==
  ASSUME NEW T, T \subseteq Nat, T # {}, 0 \notin T
  PROVE  \E n \in Nat : n + 1 \in T /\ \A m \in 0 .. n : m \notin T
<1>1. PICK k \in T : \A m \in T : k =< m
  BY LeastNumber
<1>2. k \in Nat /\ k # 0
  BY <1>1
<1>3. k - 1 \in Nat /\ (k - 1) + 1 = k
  BY <1>2
<1>4. ASSUME NEW m \in 0 .. k - 1, m \in T PROVE FALSE
  <2>1. k =< m
    BY <1>1, <1>4
  <2> QED
    BY <2>1, <1>2
<1> QED
  BY <1>1, <1>3, <1>4

-----------------------------------------------------------------------------
(***************************************************************************)
(* The walk of updatePresentWTrace is a recursive function: it exists, and *)
(* its steps are those of Overwrite.                                       *)
(***************************************************************************)
Base(mask) == [left |-> mask, new |-> TRUE, list |-> <<>>]

IsWalk(f, pc, mask, list, n) ==
  f = [k \in 0 .. n |-> IF k = 0 THEN Base(mask) ELSE Overwrite(pc, f[k - 1], list[k])]

\* There is a function that is the walk down a list: each value is a step on the one before.
LEMMA WalkExists ==
  ASSUME NEW pc, NEW mask, NEW list, NEW n \in Nat
  PROVE  \E f : IsWalk(f, pc, mask, list, n)
<1> DEFINE T == {m \in Nat : ~ \E f : IsWalk(f, pc, mask, list, m)}
<1> SUFFICES ASSUME T # {} PROVE FALSE
  OBVIOUS
<1>1. IsWalk([k \in 0 .. 0 |-> Base(mask)], pc, mask, list, 0)
  BY DEF IsWalk
<1>2. 0 \notin T
  BY <1>1
<1>3. PICK m \in Nat : m + 1 \in T /\ \A l \in 0 .. m : l \notin T
  <2> HIDE DEF T
  <2> QED BY <1>2, LeastCounterexample DEF T
<1>4. PICK f : IsWalk(f, pc, mask, list, m)
  BY <1>3
<1> DEFINE next == Overwrite(pc, f[m], list[m + 1])
           g == [k \in 0 .. m + 1 |-> IF k = m + 1 THEN next ELSE f[k]]
<1>5. \A k \in 0 .. m : f[k] = IF k = 0 THEN Base(mask) ELSE Overwrite(pc, f[k - 1], list[k])
  BY <1>4 DEF IsWalk
<1>6. \A k \in 0 .. m + 1 :
        g[k] = IF k = 0 THEN Base(mask) ELSE Overwrite(pc, g[k - 1], list[k])
  <2> SUFFICES ASSUME NEW k \in 0 .. m + 1
               PROVE  g[k] = IF k = 0 THEN Base(mask) ELSE Overwrite(pc, g[k - 1], list[k])
    OBVIOUS
  <2>1. CASE k = m + 1
    <3>1. k # 0 /\ k - 1 = m /\ k - 1 \in 0 .. m + 1 /\ k - 1 # m + 1
      BY <2>1
    <3>2. g[k] = next /\ g[k - 1] = f[m]
      BY <3>1, <2>1
    <3> QED
      BY <3>1, <3>2, <2>1
  <2>2. CASE k # m + 1
    <3>1. k \in 0 .. m
      BY <2>2
    <3>2. k # 0 => k - 1 \in 0 .. m + 1 /\ k - 1 # m + 1
      BY <3>1
    <3>3. g[k] = f[k] /\ (k # 0 => g[k - 1] = f[k - 1])
      BY <3>1, <3>2, <2>2
    <3> QED
      BY <3>1, <3>3, <1>5
  <2> QED
    BY <2>1, <2>2
<1>7. IsWalk(g, pc, mask, list, m + 1)
  BY <1>6 DEF IsWalk
<1> QED
  BY <1>3, <1>7

\* Walked is that walk: it starts with the whole mask and takes one step per node.
LEMMA WalkedIs ==
  ASSUME NEW pc, NEW mask, NEW list, Len(list) \in Nat
  PROVE  \E f : IsWalk(f, pc, mask, list, Len(list)) /\ Walked(pc, mask, list) = f[Len(list)]
<1> DEFINE f == CHOOSE g : IsWalk(g, pc, mask, list, Len(list))
<1>1. IsWalk(f, pc, mask, list, Len(list))
  <2>1. \E g : IsWalk(g, pc, mask, list, Len(list))
    BY WalkExists
  <2> QED
    BY <2>1, Zenon
<1>2. Walked(pc, mask, list) = f[Len(list)]
  BY Zenon DEF Walked, IsWalk, Base
<1> QED
  BY <1>1, <1>2

\* Induction, for the members of a set: what holds of 0, and of k + 1 if of k, holds of all.
LEMMA Induction ==
  ASSUME NEW S, NEW n \in Nat, 0 \in S, \A k \in 0 .. n - 1 : k \in S => k + 1 \in S
  PROVE  \A k \in 0 .. n : k \in S
<1> DEFINE T == {k \in 0 .. n : k \notin S}
<1> SUFFICES ASSUME T # {} PROVE FALSE
  OBVIOUS
<1>1. T \subseteq Nat /\ 0 \notin T
  OBVIOUS
<1>2. PICK m \in Nat : m + 1 \in T /\ \A l \in 0 .. m : l \notin T
  <2> HIDE DEF T
  <2> QED BY <1>1, LeastCounterexample
<1>3. m + 1 \in 0 .. n /\ m + 1 \notin S
  BY <1>2
<1>4. m \in 0 .. n - 1 /\ m \in 0 .. n /\ m \in 0 .. m
  BY <1>3
<1>5. m \in S
  BY <1>2, <1>4
<1> QED
  BY <1>3, <1>4, <1>5

\* A node put in front of a list
LEMMA InFront ==
  ASSUME NEW S, NEW n \in S, NEW L \in Seq(S)
  PROVE  /\ <<n>> \o L \in Seq(S)
         /\ Len(<<n>> \o L) = Len(L) + 1
         /\ (<<n>> \o L)[1] = n
         /\ \A k \in 1 .. Len(L) : (<<n>> \o L)[k + 1] = L[k]
         /\ <<n>> \o L # <<>>
  OBVIOUS

\* The rest of a list
LEMMA Rest ==
  ASSUME NEW S, NEW L \in Seq(S), L # <<>>
  PROVE  /\ Tail(L) \in Seq(S)
         /\ Len(L) \in Nat \ {0}
         /\ Head(L) = L[1]
         /\ Len(Tail(L)) = Len(L) - 1
         /\ \A k \in 1 .. Len(Tail(L)) : Tail(L)[k] = L[k + 1]
  OBVIOUS

\* A node put behind a list
LEMMA AtEnd ==
  ASSUME NEW S, NEW n \in S, NEW L \in Seq(S)
  PROVE  /\ Append(L, n) \in Seq(S)
         /\ Len(Append(L, n)) = Len(L) + 1
         /\ Append(L, n)[Len(L) + 1] = n
         /\ \A k \in 1 .. Len(L) : Append(L, n)[k] = L[k]
         /\ Append(L, n) # <<>>
  OBVIOUS

\* The four ways a node of the list is met
LEMMA OverwriteCases ==
  ASSUME NEW pc, NEW w, NEW n
  PROVE  \/ n.mask \cap w.left = {}
            /\ Overwrite(pc, w, n) = [w EXCEPT !.list = Append(@, n)]
         \/ /\ n.mask \cap w.left # {} /\ n.mask \subseteq w.left /\ n.mask # {} /\ w.new
            /\ Overwrite(pc, w, n) = [left |-> w.left \ n.mask, new |-> FALSE,
                                      list |-> Append(w.list, Node(pc, w.left))]
         \/ /\ n.mask \cap w.left # {} /\ n.mask \subseteq w.left /\ n.mask # {} /\ ~ w.new
            /\ Overwrite(pc, w, n) = [w EXCEPT !.left = @ \ n.mask]
         \/ /\ ~ n.mask \subseteq w.left /\ n.mask \cap w.left # {}
            /\ Overwrite(pc, w, n) = [w EXCEPT !.left = @ \ n.mask,
                                               !.list = Append(@, Node(n.pc, n.mask \ w.left))]
  BY DEF Overwrite

-----------------------------------------------------------------------------
(***************************************************************************)
(* What the walk keeps, whatever the list: nodes of instructions Q, and    *)
(* a list that is not empty unless no byte has been placed.                *)
(***************************************************************************)
NodesOf(Q) == [pc : Q, mask : (SUBSET (0 .. 7)) \ {{}}]

Walk(Q) == [left : SUBSET (0 .. 7), new : BOOLEAN, list : Seq(NodesOf(Q))]

WalkOK(w, mask, Q) ==
  /\ w \in Walk(Q)
  /\ w.list = <<>> => w.new /\ w.left = mask

\* A node of bytes of the word, and its fields.
LEMMA NodeType ==
  ASSUME NEW Q, NEW pc \in Q, NEW mask \in SUBSET (0 .. 7), mask # {}
  PROVE  /\ Node(pc, mask) \in NodesOf(Q)
         /\ Node(pc, mask).pc = pc /\ Node(pc, mask).mask = mask
  BY DEF Node, NodesOf

\* A step of the walk over the older writes leaves nodes again.
LEMMA OverwriteType ==
  ASSUME NEW Q, NEW pc \in Q, NEW mask, NEW w, WalkOK(w, mask, Q), NEW n \in NodesOf(Q)
  PROVE  WalkOK(Overwrite(pc, w, n), mask, Q)
<1>1. /\ w.left \in SUBSET (0 .. 7) /\ w.new \in BOOLEAN /\ w.list \in Seq(NodesOf(Q))
      /\ w = [left |-> w.left, new |-> w.new, list |-> w.list]
  BY DEF WalkOK, Walk
<1>2. n.pc \in Q /\ n.mask \in SUBSET (0 .. 7) /\ n.mask # {}
  BY DEF NodesOf
<1>3. CASE n.mask \cap w.left = {} /\ Overwrite(pc, w, n) = [w EXCEPT !.list = Append(@, n)]
  <2>1. Append(w.list, n) \in Seq(NodesOf(Q)) /\ Append(w.list, n) # <<>>
    BY <1>1, AtEnd
  <2> QED
    BY <2>1, <1>1, <1>3 DEF WalkOK, Walk
<1>4. CASE /\ n.mask \subseteq w.left
           /\ Overwrite(pc, w, n) = [left |-> w.left \ n.mask, new |-> FALSE,
                                     list |-> Append(w.list, Node(pc, w.left))]
  <2>1. Node(pc, w.left) \in NodesOf(Q)
    BY <1>1, <1>2, <1>4, NodeType
  <2>2. Append(w.list, Node(pc, w.left)) \in Seq(NodesOf(Q)) /\ Append(w.list, Node(pc, w.left)) # <<>>
    BY <1>1, <2>1, AtEnd
  <2> QED
    BY <2>2, <1>1, <1>4 DEF WalkOK, Walk
<1>5. CASE ~ w.new /\ Overwrite(pc, w, n) = [w EXCEPT !.left = @ \ n.mask]
  <2>1. w.list # <<>>
    BY <1>5 DEF WalkOK
  <2> QED
    BY <2>1, <1>1, <1>5 DEF WalkOK, Walk
<1>6. CASE /\ ~ n.mask \subseteq w.left
           /\ Overwrite(pc, w, n) = [w EXCEPT !.left = @ \ n.mask,
                                              !.list = Append(@, Node(n.pc, n.mask \ w.left))]
  <2>1. Node(n.pc, n.mask \ w.left) \in NodesOf(Q)
    <3>1. n.mask \ w.left \in SUBSET (0 .. 7) /\ n.mask \ w.left # {}
      BY <1>2, <1>6
    <3> QED BY <3>1, <1>2, NodeType
  <2>2. /\ Append(w.list, Node(n.pc, n.mask \ w.left)) \in Seq(NodesOf(Q))
        /\ Append(w.list, Node(n.pc, n.mask \ w.left)) # <<>>
    BY <1>1, <2>1, AtEnd
  <2> QED
    BY <2>2, <1>1, <1>6 DEF WalkOK, Walk
<1> QED
  BY <1>3, <1>4, <1>5, <1>6, OverwriteCases

\* So does the whole walk.
LEMMA WalkedType ==
  ASSUME NEW Q, NEW pc \in Q, NEW mask \in SUBSET (0 .. 7), NEW L \in Seq(NodesOf(Q))
  PROVE  WalkOK(Walked(pc, mask, L), mask, Q)
<1>1. PICK f : IsWalk(f, pc, mask, L, Len(L)) /\ Walked(pc, mask, L) = f[Len(L)]
  BY WalkedIs
<1>2. /\ f[0] = Base(mask)
      /\ \A k \in 0 .. Len(L) - 1 : f[k + 1] = Overwrite(pc, f[k], L[k + 1])
  BY <1>1 DEF IsWalk
<1> DEFINE S == {k \in 0 .. Len(L) : WalkOK(f[k], mask, Q)}
<1>3. 0 \in S
  <2>1. f[0].left = mask /\ f[0].new = TRUE /\ f[0].list = <<>>
    BY <1>2 DEF Base
  <2>2. f[0] \in Walk(Q)
    <3>1. <<>> \in Seq(NodesOf(Q))
      OBVIOUS
    <3> QED BY <3>1, <1>2 DEF Base, Walk
  <2>3. 0 \in 0 .. Len(L)
    OBVIOUS
  <2> QED BY <2>1, <2>2, <2>3 DEF WalkOK
<1>4. ASSUME NEW k \in 0 .. Len(L) - 1, k \in S PROVE k + 1 \in S
  <2>1. L[k + 1] \in NodesOf(Q) /\ k + 1 \in 0 .. Len(L)
    OBVIOUS
  <2>2. WalkOK(f[k], mask, Q)
    BY <1>4
  <2>3. WalkOK(f[k + 1], mask, Q)
    BY <1>2, <2>1, <2>2, OverwriteType
  <2> QED
    BY <2>1, <2>3
<1>5. \A k \in 0 .. Len(L) : k \in S
  <2> HIDE DEF S
  <2> QED BY <1>3, <1>4, Induction
<1> QED
  BY <1>1, <1>5

-----------------------------------------------------------------------------
(***************************************************************************)
(* What the walk does to a list of nodes with disjoint masks: every node   *)
(* keeps the bytes that are not overwritten, and no other node has them.   *)
(***************************************************************************)
Disjoint(L) == \A x, y \in DOMAIN L : x # y => L[x].mask \cap L[y].mask = {}

\* Node n is what is left of one of the first k nodes of L.
LeftOver(n, mask, L, k) == \E j \in 1 .. k : n.pc = L[j].pc /\ n.mask = L[j].mask \ mask

WalkedTo(w, pc, mask, L, k) ==
  /\ \A b : b \in w.left <=> b \in mask /\ \A j \in 1 .. k : b \notin L[j].mask
  /\ \A x \in DOMAIN w.list : \/ LeftOver(w.list[x], mask, L, k)
                              \/ ~ w.new /\ w.list[x].pc = pc /\ w.list[x].mask \subseteq mask
  /\ Disjoint(w.list)
  /\ k = 0 => w.new
  /\ \A j \in 1 .. k : \A b \in L[j].mask \ mask :
       \E x \in DOMAIN w.list : w.list[x].pc = L[j].pc /\ b \in w.list[x].mask
  /\ k > 0 /\ (\A j \in 1 .. k : L[j].mask \subseteq mask)
       => ~ w.new /\ \E x \in DOMAIN w.list : w.list[x].pc = pc /\ w.list[x].mask = mask

\* A step of the walk takes the bytes of the new write from one node more, and keeps
\* the rest of it.
LEMMA OverwriteWalksOn ==
  ASSUME NEW Q, NEW pc \in Q, NEW mask \in SUBSET (0 .. 7), NEW L \in Seq(NodesOf(Q)), Disjoint(L),
         NEW k \in 0 .. Len(L) - 1, NEW w, WalkOK(w, mask, Q), WalkedTo(w, pc, mask, L, k)
  PROVE  WalkedTo(Overwrite(pc, w, L[k + 1]), pc, mask, L, k + 1)
<1> DEFINE n == L[k + 1]
           v == Overwrite(pc, w, n)
<1>1. /\ n \in NodesOf(Q) /\ n.pc \in Q /\ n.mask \in SUBSET (0 .. 7) /\ n.mask # {}
      /\ Len(L) \in Nat /\ k \in Nat /\ DOMAIN L = 1 .. Len(L) /\ k + 1 \in DOMAIN L
      /\ \A j \in 1 .. k : j \in DOMAIN L /\ j # k + 1
    <2>1. n \in NodesOf(Q) /\ Len(L) \in Nat /\ k \in Nat /\ DOMAIN L = 1 .. Len(L) /\ k + 1 \in DOMAIN L
    OBVIOUS
  <2>2. n.pc \in Q /\ n.mask \in SUBSET (0 .. 7) /\ n.mask # {}
    BY <2>1 DEF NodesOf
  <2> QED BY <2>1, <2>2
<1>2. /\ w.left \in SUBSET (0 .. 7) /\ w.new \in BOOLEAN /\ w.list \in Seq(NodesOf(Q))
      /\ w = [left |-> w.left, new |-> w.new, list |-> w.list]
      /\ DOMAIN w.list = 1 .. Len(w.list) /\ Len(w.list) \in Nat
  BY DEF WalkOK, Walk
<1>3. \A b : b \in w.left <=> b \in mask /\ \A j \in 1 .. k : b \notin L[j].mask
  BY DEF WalkedTo
<1>4. \A j \in 1 .. k : L[j].mask \cap n.mask = {}
  <2> SUFFICES ASSUME NEW j \in 1 .. k PROVE L[j].mask \cap L[k + 1].mask = {}
    OBVIOUS
  <2> QED BY <1>1 DEF Disjoint
<1>5. n.mask \cap mask = n.mask \cap w.left
  BY <1>3, <1>4
<1>6. \A x \in DOMAIN w.list : \/ LeftOver(w.list[x], mask, L, k)
                               \/ ~ w.new /\ w.list[x].pc = pc /\ w.list[x].mask \subseteq mask
  BY DEF WalkedTo
<1>7. \A m : LeftOver(m, mask, L, k) => LeftOver(m, mask, L, k + 1)
  <2>1. \A j \in 1 .. k : j \in 1 .. k + 1
    BY <1>1
  <2> QED
    BY <2>1 DEF LeftOver
<1>8. \A j \in 1 .. k + 1 : j \in 1 .. k \/ j = k + 1
  BY <1>1
<1>9. 1 .. k + 1 = 1 .. k \cup {k + 1}
  BY <1>1
<1> DEFINE Kept(l) == \A j \in 1 .. k : \A b \in L[j].mask \ mask :
                        \E x \in DOMAIN l : l[x].pc = L[j].pc /\ b \in l[x].mask
           Whole(l) == \E x \in DOMAIN l : l[x].pc = pc /\ l[x].mask = mask
<1>10. Kept(w.list) /\ Disjoint(w.list)
       /\ (k > 0 /\ (\A j \in 1 .. k : L[j].mask \subseteq mask) => ~ w.new /\ Whole(w.list))
  BY DEF WalkedTo
\* A node behind the list leaves the others where they are.
<1>11. ASSUME NEW m \in NodesOf(Q)
       PROVE  LET l == Append(w.list, m) IN
              /\ l \in Seq(NodesOf(Q)) /\ DOMAIN l = 1 .. Len(w.list) + 1
              /\ l[Len(w.list) + 1] = m /\ \A x \in DOMAIN w.list : x \in DOMAIN l /\ l[x] = w.list[x]
              /\ \A x \in DOMAIN l : x \in DOMAIN w.list \/ x = Len(w.list) + 1
  BY <1>2, AtEnd
<1>12. ASSUME NEW m \in NodesOf(Q), \A x \in DOMAIN w.list : w.list[x].mask \cap m.mask = {}
       PROVE  Disjoint(Append(w.list, m))
  <2> DEFINE l == Append(w.list, m)
  <2> SUFFICES ASSUME NEW x \in DOMAIN l, NEW y \in DOMAIN l, x # y
               PROVE  l[x].mask \cap l[y].mask = {}
    BY DEF Disjoint
  <2>1. CASE x \in DOMAIN w.list /\ y \in DOMAIN w.list
    BY <2>1, <1>10, <1>11 DEF Disjoint
  <2>2. CASE x \in DOMAIN w.list /\ y = Len(w.list) + 1
    BY <2>2, <1>11, <1>12
  <2>3. CASE x = Len(w.list) + 1 /\ y \in DOMAIN w.list
    BY <2>3, <1>11, <1>12
  <2> QED
    BY <2>1, <2>2, <2>3, <1>11
<1>13. ASSUME NEW m \in NodesOf(Q)
       PROVE  Kept(Append(w.list, m)) /\ (Whole(w.list) => Whole(Append(w.list, m)))
  <2> DEFINE l == Append(w.list, m)
  <2>1. \A x \in DOMAIN w.list : x \in DOMAIN l /\ l[x] = w.list[x]
    BY <1>11
  <2>2. Kept(l)
    BY <2>1, <1>10
  <2>3. Whole(w.list) => Whole(l)
    BY <2>1
  <2> QED
    BY <2>2, <2>3
\* The bytes left
<1>14. \A b : b \in w.left \ n.mask <=> b \in mask /\ \A j \in 1 .. k + 1 : b \notin L[j].mask
  BY <1>3, <1>9
<1> HIDE DEF n
<1>15. CASE n.mask \cap w.left = {} /\ v = [w EXCEPT !.list = Append(@, n)]
  <2> DEFINE l == Append(w.list, n)
  <2>1. v.left = w.left \ n.mask /\ v.new = w.new /\ v.list = l
    BY <1>2, <1>15
  <2>2. n.mask \cap mask = {} /\ n.mask = n.mask \ mask
    BY <1>5, <1>15
  <2>3. LeftOver(n, mask, L, k + 1)
    BY <2>2, <1>9 DEF LeftOver, n
  <2>4. \A x \in DOMAIN l : \/ LeftOver(l[x], mask, L, k + 1)
                            \/ ~ w.new /\ l[x].pc = pc /\ l[x].mask \subseteq mask
    BY <2>3, <1>1, <1>6, <1>7, <1>11
  <2>5. \A x \in DOMAIN w.list : w.list[x].mask \cap n.mask = {}
    BY <2>2, <1>4, <1>6 DEF LeftOver
  <2>6. Disjoint(l)
    BY <2>5, <1>1, <1>12
  <2>7. \A b \in n.mask \ mask : \E x \in DOMAIN l : l[x].pc = n.pc /\ b \in l[x].mask
    BY <1>1, <1>11, <1>2
  <2>8. Kept(l) /\ (Whole(w.list) => Whole(l))
    BY <1>1, <1>13
  <2>9. ~ n.mask \subseteq mask
    BY <2>2, <1>1
  <2>10. \A j \in 1 .. k + 1 : \A b \in L[j].mask \ mask :
           \E x \in DOMAIN l : l[x].pc = L[j].pc /\ b \in l[x].mask
    BY <2>7, <2>8, <1>8 DEF n
  <2>11. ~ \A j \in 1 .. k + 1 : L[j].mask \subseteq mask
    BY <2>9, <1>9 DEF n
  <2> HIDE DEF l, v
  <2> QED
    BY <2>1, <2>4, <2>6, <2>10, <2>11, <1>14 DEF WalkedTo, v, n
<1>16. CASE /\ n.mask \subseteq w.left /\ w.new
            /\ v = [left |-> w.left \ n.mask, new |-> FALSE,
                    list |-> Append(w.list, Node(pc, w.left))]
  <2> DEFINE m == Node(pc, w.left)
             l == Append(w.list, m)
  <2>1. v.left = w.left \ n.mask /\ ~ v.new /\ v.list = l
    BY <1>16
  <2>2. m \in NodesOf(Q) /\ m.pc = pc /\ m.mask = w.left /\ w.left \subseteq mask
    BY <1>1, <1>2, <1>3, <1>16, NodeType
  <2> HIDE DEF m
  <2>3. n.mask \ mask = {}
    BY <2>2, <1>16
  <2>4. \A x \in DOMAIN l : \/ LeftOver(l[x], mask, L, k + 1)
                            \/ ~ v.new /\ l[x].pc = pc /\ l[x].mask \subseteq mask
    BY <2>1, <2>2, <1>6, <1>7, <1>11
  <2>5. \A x \in DOMAIN w.list : w.list[x].mask \cap m.mask = {}
    BY <2>2, <1>6, <1>16 DEF LeftOver
  <2>6. Disjoint(l)
    BY <2>5, <2>2, <1>12
  <2>7. Kept(l) /\ (Whole(w.list) => Whole(l))
    BY <2>2, <1>13
  <2>8. \A j \in 1 .. k + 1 : \A b \in L[j].mask \ mask :
           \E x \in DOMAIN l : l[x].pc = L[j].pc /\ b \in l[x].mask
    BY <2>3, <2>7, <1>8 DEF n
  <2>9. (\A j \in 1 .. k + 1 : L[j].mask \subseteq mask) => Whole(l)
    <3>1. k = 0 \/ k > 0
      BY <1>1
    <3>2. CASE k > 0
      BY <3>2, <1>9, <1>10, <1>16
    <3>3. CASE k = 0
      <4>1. \A b : b \in w.left <=> b \in mask
        <5>1. 1 .. k = {}
          BY <3>3
        <5> QED BY <5>1, <1>3
      <4>3. w.left = mask
        BY <4>1
      <4>2. Len(w.list) + 1 \in DOMAIN l /\ l[Len(w.list) + 1] = m
        BY <2>2, <1>2, <1>11
      <4> QED
        BY <4>2, <4>3, <2>2
    <3> QED
      BY <3>1, <3>2, <3>3
  <2> HIDE DEF l, v
  <2> QED
    BY <2>1, <2>4, <2>6, <2>8, <2>9, <1>14 DEF WalkedTo, v, n
<1>17. CASE /\ n.mask \subseteq w.left /\ ~ w.new
            /\ v = [w EXCEPT !.left = @ \ n.mask]
  <2>1. v.left = w.left \ n.mask /\ v.new = w.new /\ v.list = w.list
    BY <1>2, <1>17
  <2>2. n.mask \ mask = {}
    BY <1>3, <1>17
  <2>3. \A x \in DOMAIN w.list : \/ LeftOver(w.list[x], mask, L, k + 1)
                                 \/ ~ w.new /\ w.list[x].pc = pc /\ w.list[x].mask \subseteq mask
    BY <1>6, <1>7
  <2>4. \A j \in 1 .. k + 1 : \A b \in L[j].mask \ mask :
           \E x \in DOMAIN w.list : w.list[x].pc = L[j].pc /\ b \in w.list[x].mask
    BY <2>2, <1>8, <1>10 DEF n
  <2>5. (\A j \in 1 .. k + 1 : L[j].mask \subseteq mask) => Whole(w.list)
    <3>1. k # 0
      BY <1>17 DEF WalkedTo
    <3> QED
      BY <3>1, <1>1, <1>9, <1>10
  <2> HIDE DEF v
  <2> QED
    BY <2>1, <2>3, <2>4, <2>5, <1>10, <1>14, <1>17 DEF WalkedTo, v, n
<1>18. CASE /\ ~ n.mask \subseteq w.left
            /\ v = [w EXCEPT !.left = @ \ n.mask,
                             !.list = Append(@, Node(n.pc, n.mask \ w.left))]
  <2> DEFINE m == Node(n.pc, n.mask \ w.left)
             l == Append(w.list, m)
  <2>1. v.left = w.left \ n.mask /\ v.new = w.new /\ v.list = l
    BY <1>2, <1>18
  <2>2. n.mask \ w.left \in SUBSET (0 .. 7) /\ n.mask \ w.left # {} /\ n.mask \ w.left = n.mask \ mask
    BY <1>1, <1>5, <1>18
  <2>3. m \in NodesOf(Q) /\ m.pc = n.pc /\ m.mask = n.mask \ mask
    BY <2>2, <1>1 DEF NodesOf, Node
  <2> HIDE DEF m
  <2>4. LeftOver(m, mask, L, k + 1)
    BY <2>3, <1>9 DEF LeftOver, n
  <2>5. \A x \in DOMAIN l : \/ LeftOver(l[x], mask, L, k + 1)
                            \/ ~ w.new /\ l[x].pc = pc /\ l[x].mask \subseteq mask
    BY <2>3, <2>4, <1>6, <1>7, <1>11
  <2>6. \A x \in DOMAIN w.list : w.list[x].mask \cap m.mask = {}
    BY <2>3, <1>4, <1>6 DEF LeftOver
  <2>7. Disjoint(l)
    BY <2>6, <2>3, <1>12
  <2>8. \A b \in n.mask \ mask : \E x \in DOMAIN l : l[x].pc = n.pc /\ b \in l[x].mask
    BY <2>3, <1>11, <1>2
  <2>9. Kept(l)
    BY <2>3, <1>13
  <2>10. \A j \in 1 .. k + 1 : \A b \in L[j].mask \ mask :
           \E x \in DOMAIN l : l[x].pc = L[j].pc /\ b \in l[x].mask
    BY <2>8, <2>9, <1>8 DEF n
  <2>11. ~ \A j \in 1 .. k + 1 : L[j].mask \subseteq mask
    BY <2>2, <1>9 DEF n
  <2> HIDE DEF l, v
  <2> QED
    BY <2>1, <2>5, <2>7, <2>10, <2>11, <1>14 DEF WalkedTo, v, n
<1> QED
  BY <1>15, <1>16, <1>17, <1>18, OverwriteCases DEF n

\* At its end the walk has taken them from all nodes.
LEMMA WalkedWalks ==
  ASSUME NEW Q, NEW pc \in Q, NEW mask \in SUBSET (0 .. 7), NEW L \in Seq(NodesOf(Q)), Disjoint(L)
  PROVE  WalkedTo(Walked(pc, mask, L), pc, mask, L, Len(L))
<1>1. PICK f : IsWalk(f, pc, mask, L, Len(L)) /\ Walked(pc, mask, L) = f[Len(L)]
  BY WalkedIs
<1>2. /\ f[0] = Base(mask)
      /\ \A k \in 0 .. Len(L) - 1 : f[k + 1] = Overwrite(pc, f[k], L[k + 1])
  BY <1>1 DEF IsWalk
<1> DEFINE S == {k \in 0 .. Len(L) : WalkOK(f[k], mask, Q) /\ WalkedTo(f[k], pc, mask, L, k)}
<1>3. 0 \in S
  <2>1. f[0].left = mask /\ f[0].new = TRUE /\ f[0].list = <<>>
    BY <1>2 DEF Base
  <2>2. f[0] \in Walk(Q)
    <3>1. <<>> \in Seq(NodesOf(Q))
      OBVIOUS
    <3> QED BY <3>1, <1>2 DEF Base, Walk
  <2>3. 0 \in 0 .. Len(L) /\ 1 .. 0 = {} /\ ~ 0 > 0 /\ DOMAIN f[0].list = {}
    BY <2>1
  <2>4. WalkedTo(f[0], pc, mask, L, 0)
    BY <2>1, <2>3 DEF WalkedTo, Disjoint
  <2> QED BY <2>1, <2>2, <2>3, <2>4 DEF WalkOK
<1>4. ASSUME NEW k \in 0 .. Len(L) - 1, k \in S PROVE k + 1 \in S
  <2>1. L[k + 1] \in NodesOf(Q) /\ k + 1 \in 0 .. Len(L)
    OBVIOUS
  <2>2. WalkOK(f[k], mask, Q) /\ WalkedTo(f[k], pc, mask, L, k)
    BY <1>4
  <2>3. WalkOK(f[k + 1], mask, Q)
    BY <1>2, <2>1, <2>2, OverwriteType
  <2>4. WalkedTo(f[k + 1], pc, mask, L, k + 1)
    BY <1>2, <2>1, <2>2, OverwriteWalksOn
  <2> QED
    BY <2>1, <2>3, <2>4
<1>5. \A k \in 0 .. Len(L) : k \in S
  <2> HIDE DEF S
  <2> QED BY <1>3, <1>4, Induction
<1> QED
  BY <1>1, <1>5

-----------------------------------------------------------------------------
(***************************************************************************)
(* A present table and the two updates of it.                              *)
(***************************************************************************)
TableOver(Q) ==
  [RTrace : Seq(NodesOf(Q)), WTrace : Seq(NodesOf(Q)), RWIter : 0 .. NumIters,
   GlobalReadMask : SUBSET (0 .. 7), GlobalWriteMask : SUBSET (0 .. 7)]

\* The table of given lists and masks
TableWith(R, W, iter, gr, gw) ==
  [RTrace |-> R, WTrace |-> W, RWIter |-> iter, GlobalReadMask |-> gr, GlobalWriteMask |-> gw]

\* The fields of a present table, which they determine.
LEMMA TableFields ==
  ASSUME NEW Q, NEW t \in TableOver(Q)
  PROVE  /\ t = TableWith(t.RTrace, t.WTrace, t.RWIter, t.GlobalReadMask, t.GlobalWriteMask)
         /\ t.RTrace \in Seq(NodesOf(Q)) /\ t.WTrace \in Seq(NodesOf(Q)) /\ t.RWIter \in 0 .. NumIters
         /\ t.GlobalReadMask \in SUBSET (0 .. 7) /\ t.GlobalWriteMask \in SUBSET (0 .. 7)
  BY DEF TableOver, TableWith

\* The empty table is a table, and follows no NULL pointer.
LEMMA EmptyTableType ==
  ASSUME NEW Q
  PROVE  EmptyTable \in TableOver(Q) /\ TableOK(EmptyTable)
<1>1. <<>> \in Seq(NodesOf(Q)) /\ 0 \in 0 .. NumIters
  BY ParallelTraceAssumption
<1>2. EmptyTable \in TableOver(Q)
  BY <1>1 DEF EmptyTable, TableOver
<1>3. /\ EmptyTable.RTrace = <<>> /\ EmptyTable.WTrace = <<>> /\ EmptyTable.RWIter = 0
      /\ EmptyTable.GlobalReadMask = {} /\ EmptyTable.GlobalWriteMask = {}
  BY DEF EmptyTable
<1>4. Range(<<>>) = {}
  BY DEF Range
<1> QED
  BY <1>1, <1>2, <1>3, <1>4 DEF TableOK

\* An access covers the first bytes of the word.
LEMMA Mask ==
  ASSUME NEW pc \in PC
  PROVE  /\ RWMask(pc.len) \in SUBSET (0 .. 7) /\ 0 \in RWMask(pc.len) /\ RWMask(pc.len) # {}
         /\ pc.len \in 1 .. 8 /\ pc.write \in BOOLEAN
         /\ \A b : b \in RWMask(pc.len) <=> b \in 0 .. 7 /\ b < pc.len
<1>1. pc.len \in 1 .. 8 /\ pc.write \in BOOLEAN
  BY ParallelTraceAssumption
<1>2. \A b : b \in RWMask(pc.len) <=> b \in 0 .. 7 /\ b < pc.len
  BY <1>1 DEF RWMask
<1>3. 0 \in RWMask(pc.len)
  BY <1>1, <1>2
<1> QED
  BY <1>1, <1>2, <1>3

\* A read notes the bytes that the iteration has not accessed yet, in a node at the
\* head of the list.
LEMMA ReadUpdated ==
  ASSUME NEW Q, NEW pc \in Q, NEW t \in TableOver(Q), TableOK(t), NEW mask \in SUBSET (0 .. 7)
  PROVE  LET u == UpdatePresentRTrace(t, pc, mask)
             first == mask \ (t.GlobalReadMask \cup t.GlobalWriteMask) IN
         /\ u \in TableOver(Q)
         /\ u.WTrace = t.WTrace /\ u.GlobalWriteMask = t.GlobalWriteMask /\ u.RWIter = t.RWIter
         /\ u.GlobalReadMask = t.GlobalReadMask \cup first
         /\ first = {} => u.RTrace = t.RTrace
         /\ first # {} => u.RTrace = <<Node(pc, first)>> \o t.RTrace
<1> DEFINE first == mask \ (t.GlobalReadMask \cup t.GlobalWriteMask)
           u == UpdatePresentRTrace(t, pc, mask)
           list == <<Node(pc, first)>> \o t.RTrace
           read == t.GlobalReadMask \cup first
<1>1. first \in SUBSET (0 .. 7) /\ t.GlobalReadMask \cup first \in SUBSET (0 .. 7)
  BY TableFields
<1>2. CASE first = {}
  <2>1. u = t
    BY <1>2 DEF UpdatePresentRTrace
  <2> QED
    BY <2>1, <1>2
<1>3. CASE first # {}
  <2>1. Node(pc, first) \in NodesOf(Q)
    BY <1>1, <1>3, NodeType
  <2>2. <<Node(pc, first)>> \o t.RTrace \in Seq(NodesOf(Q))
    BY <2>1, TableFields, InFront
  <2>3. u = [t EXCEPT !.RTrace = <<Node(pc, first)>> \o @, !.GlobalReadMask = @ \cup first]
    BY <1>3 DEF UpdatePresentRTrace
  <2>4. u = TableWith(<<Node(pc, first)>> \o t.RTrace, t.WTrace, t.RWIter,
                      t.GlobalReadMask \cup first, t.GlobalWriteMask)
    BY <2>3 DEF TableWith, TableOver
  <2>5. t.WTrace \in Seq(NodesOf(Q)) /\ t.RWIter \in 0 .. NumIters /\ t.GlobalWriteMask \in SUBSET (0 .. 7)
    BY TableFields
  <2>6. /\ list \in Seq(NodesOf(Q)) /\ read \in SUBSET (0 .. 7)
        /\ u = TableWith(list, t.WTrace, t.RWIter, read, t.GlobalWriteMask)
    BY <2>2, <2>4, <1>1
  <2> HIDE DEF first, u, list, read
  <2>7. /\ u \in TableOver(Q)
        /\ u.RTrace = list /\ u.WTrace = t.WTrace /\ u.RWIter = t.RWIter
        /\ u.GlobalReadMask = read /\ u.GlobalWriteMask = t.GlobalWriteMask
    BY <2>5, <2>6 DEF TableWith, TableOver
  <2> QED
    BY <2>7, <1>3 DEF first, u, list, read
<1> QED
  BY <1>2, <1>3

\* The list of writes after one more, whatever the list
WritesAfter(pc, mask, t) ==
  LET walk == Walked(pc, mask, t.WTrace)
  IN  IF mask \cap t.GlobalWriteMask = {} THEN <<Node(pc, mask)>> \o t.WTrace
      ELSE IF Head(t.WTrace).mask = mask THEN <<Node(pc, mask)>> \o Tail(t.WTrace)
      ELSE IF walk.new /\ walk.left # {} THEN <<Node(pc, walk.left)>> \o walk.list
      ELSE walk.list

\* A write notes all its bytes; its list is that of WritesAfter, which is not empty.
LEMMA WriteUpdated ==
  ASSUME NEW Q, NEW pc \in Q, NEW t \in TableOver(Q), TableOK(t), NEW mask \in SUBSET (0 .. 7),
         mask # {}
  PROVE  LET u == UpdatePresentWTrace(t, pc, mask) IN
         /\ u \in TableOver(Q)
         /\ u.RTrace = t.RTrace /\ u.GlobalReadMask = t.GlobalReadMask /\ u.RWIter = t.RWIter
         /\ u.GlobalWriteMask = t.GlobalWriteMask \cup mask
         /\ u.WTrace = WritesAfter(pc, mask, t)
         /\ u.WTrace # <<>>
<1> DEFINE walk == Walked(pc, mask, t.WTrace)
           list == WritesAfter(pc, mask, t)
           u == UpdatePresentWTrace(t, pc, mask)
<1>1. WalkOK(walk, mask, Q)
  BY WalkedType, TableFields
<1>2. /\ walk.left \in SUBSET (0 .. 7) /\ walk.list \in Seq(NodesOf(Q))
      /\ walk.list = <<>> => walk.new /\ walk.left = mask
  BY <1>1 DEF WalkOK, Walk
<1>3. Node(pc, mask) \in NodesOf(Q) /\ t.WTrace \in Seq(NodesOf(Q))
  BY NodeType, TableFields
<1>4. list \in Seq(NodesOf(Q)) /\ list # <<>>
  <2>1. CASE mask \cap t.GlobalWriteMask = {}
    <3>1. list = <<Node(pc, mask)>> \o t.WTrace
      BY <2>1 DEF WritesAfter
    <3> QED BY <3>1, <1>3, InFront
  <2>2. CASE mask \cap t.GlobalWriteMask # {} /\ Head(t.WTrace).mask = mask
    <3>1. list = <<Node(pc, mask)>> \o Tail(t.WTrace)
      BY <2>2 DEF WritesAfter
    <3>2. Tail(t.WTrace) \in Seq(NodesOf(Q))
      <4>1. t.WTrace # <<>>
        BY <2>2 DEF TableOK
      <4> QED BY <4>1, <1>3, Rest
    <3> QED BY <3>1, <3>2, <1>3, InFront
  <2>3. CASE /\ ~ (mask \cap t.GlobalWriteMask = {}) /\ ~ (Head(t.WTrace).mask = mask)
             /\ walk.new /\ walk.left # {}
    <3>1. list = <<Node(pc, walk.left)>> \o walk.list
      BY <2>3 DEF WritesAfter
    <3>2. Node(pc, walk.left) \in NodesOf(Q)
      BY <2>3, <1>2, NodeType
    <3> QED BY <3>1, <3>2, <1>2, InFront
  <2>4. CASE /\ ~ (mask \cap t.GlobalWriteMask = {}) /\ ~ (Head(t.WTrace).mask = mask)
             /\ ~ (walk.new /\ walk.left # {})
    <3>1. list = walk.list
      BY <2>4 DEF WritesAfter
    <3> QED BY <3>1, <1>2, <2>4
  <2> QED
    BY <2>1, <2>2, <2>3, <2>4
<1>5. u = [t EXCEPT !.WTrace = list, !.GlobalWriteMask = @ \cup mask]
  BY DEF UpdatePresentWTrace, WritesAfter
<1> HIDE DEF list
<1>6. u = TableWith(t.RTrace, list, t.RWIter, t.GlobalReadMask, t.GlobalWriteMask \cup mask)
  BY <1>5 DEF TableWith, TableOver
<1>7. t.GlobalWriteMask \cup mask \in SUBSET (0 .. 7)
  BY TableFields
<1>8. /\ t.RTrace \in Seq(NodesOf(Q)) /\ t.RWIter \in 0 .. NumIters
      /\ t.GlobalReadMask \in SUBSET (0 .. 7)
  BY TableFields
<1> HIDE DEF u
<1>9. /\ u \in TableOver(Q)
      /\ u.RTrace = t.RTrace /\ u.WTrace = list /\ u.RWIter = t.RWIter
      /\ u.GlobalReadMask = t.GlobalReadMask /\ u.GlobalWriteMask = t.GlobalWriteMask \cup mask
  BY <1>4, <1>6, <1>7, <1>8 DEF TableWith, TableOver
<1> QED
  BY <1>4, <1>9 DEF list, u

\* Of list L is left M, to which a write of mask has been added: the older nodes
\* keep the bytes that are not overwritten, and the write has a node of its own if
\* no node keeps any.
WrittenOver(L, M, pc, mask) ==
  /\ Disjoint(M)
  /\ \A x \in DOMAIN M :
       \/ M[x].pc = pc /\ M[x].mask \subseteq mask
       \/ \E j \in DOMAIN L : M[x].pc = L[j].pc /\ M[x].mask \subseteq L[j].mask \ mask
  /\ \A j \in DOMAIN L : \A b \in L[j].mask \ mask :
       \E x \in DOMAIN M : M[x].pc = L[j].pc /\ b \in M[x].mask
  /\ (\A j \in DOMAIN L : L[j].mask \subseteq mask)
       => \E x \in DOMAIN M : M[x].pc = pc /\ M[x].mask = mask

\* M is list R with the new node n at its head, which has no byte of the others.
PutInFront(Q, n, R, M) ==
  /\ n \in NodesOf(Q) /\ R \in Seq(NodesOf(Q)) /\ M = <<n>> \o R
  /\ Disjoint(R) /\ \A x \in DOMAIN R : R[x].mask \cap n.mask = {}

\* The nodes of such a list are disjoint again, and the others follow the new one.
LEMMA PutInFrontIs ==
  ASSUME NEW Q, NEW n, NEW R, NEW M, PutInFront(Q, n, R, M)
  PROVE  /\ 1 \in DOMAIN M /\ M[1] = n
         /\ \A x \in DOMAIN R : x + 1 \in DOMAIN M /\ M[x + 1] = R[x]
         /\ \A y \in DOMAIN M : y = 1 \/ (y - 1 \in DOMAIN R /\ M[y] = R[y - 1])
         /\ Disjoint(M)
<1>0. /\ n \in NodesOf(Q) /\ R \in Seq(NodesOf(Q)) /\ M = <<n>> \o R
      /\ Disjoint(R) /\ \A x \in DOMAIN R : R[x].mask \cap n.mask = {}
  BY DEF PutInFront
<1>1. /\ M \in Seq(NodesOf(Q)) /\ Len(M) = Len(R) + 1 /\ M[1] = n
      /\ \A k \in 1 .. Len(R) : M[k + 1] = R[k]
  BY <1>0, InFront
<1>2. DOMAIN M = 1 .. Len(R) + 1 /\ DOMAIN R = 1 .. Len(R) /\ Len(R) \in Nat
  BY <1>1, <1>0
<1>3. \A x \in DOMAIN R : x + 1 \in DOMAIN M /\ M[x + 1] = R[x]
  BY <1>1, <1>2
<1>4. ASSUME NEW y \in DOMAIN M, y # 1
      PROVE  y - 1 \in DOMAIN R /\ M[y] = R[y - 1]
  <2>1. y - 1 \in DOMAIN R /\ (y - 1) + 1 = y
    BY <1>2, <1>4
  <2> QED BY <1>3, <2>1
<1>5. ASSUME NEW x \in DOMAIN M, NEW y \in DOMAIN M, x # y
      PROVE  M[x].mask \cap M[y].mask = {}
  <2>1. CASE x = 1
    <3>1. y - 1 \in DOMAIN R /\ M[y] = R[y - 1]
      BY <1>4, <1>5, <2>1
    <3> QED BY <3>1, <2>1, <1>1, <1>0
  <2>2. CASE y = 1
    <3>1. x - 1 \in DOMAIN R /\ M[x] = R[x - 1]
      BY <1>4, <1>5, <2>2
    <3> QED BY <3>1, <2>2, <1>1, <1>0
  <2>3. CASE x # 1 /\ y # 1
    <3>1. y - 1 \in DOMAIN R /\ M[y] = R[y - 1] /\ x - 1 \in DOMAIN R /\ M[x] = R[x - 1]
      BY <1>4, <2>3
    <3>2. x - 1 # y - 1
      BY <1>2, <1>5
    <3> QED BY <3>1, <3>2, <1>0 DEF Disjoint
  <2> QED BY <2>1, <2>2, <2>3
<1>6. Disjoint(M)
  BY <1>5 DEF Disjoint
<1>7. 1 \in DOMAIN M
  BY <1>2
<1> QED
  BY <1>1, <1>2, <1>3, <1>4, <1>6, <1>7

\* updatePresentWTrace does so to disjoint nodes whose bytes are in the global mask.
LEMMA WritesAfterExact ==
  ASSUME NEW Q, NEW pc \in Q, NEW t \in TableOver(Q), TableOK(t),
         NEW mask \in SUBSET (0 .. 7), mask # {}, Disjoint(t.WTrace),
         \A k \in DOMAIN t.WTrace : t.WTrace[k].mask \subseteq t.GlobalWriteMask
  PROVE  WrittenOver(t.WTrace, WritesAfter(pc, mask, t), pc, mask)
<1> DEFINE L == t.WTrace
           M == WritesAfter(pc, mask, t)
           w == Walked(pc, mask, L)
<1>1. /\ L \in Seq(NodesOf(Q)) /\ DOMAIN L = 1 .. Len(L) /\ Len(L) \in Nat
      /\ Disjoint(L) /\ \A k \in DOMAIN L : L[k].mask \subseteq t.GlobalWriteMask
  BY TableFields
<1>2. WalkOK(w, mask, Q) /\ WalkedTo(w, pc, mask, L, Len(L))
  BY <1>1, WalkedType, WalkedWalks
<1>3. Node(pc, mask) \in NodesOf(Q) /\ Node(pc, mask).pc = pc /\ Node(pc, mask).mask = mask
  BY NodeType
<1> DEFINE Goal ==
         /\ Disjoint(M)
         /\ \A x \in DOMAIN M :
              \/ M[x].pc = pc /\ M[x].mask \subseteq mask
              \/ \E j \in DOMAIN L : M[x].pc = L[j].pc /\ M[x].mask \subseteq L[j].mask \ mask
         /\ \A j \in DOMAIN L : \A b \in L[j].mask \ mask :
              \E x \in DOMAIN M : M[x].pc = L[j].pc /\ b \in M[x].mask
         /\ (\A j \in DOMAIN L : L[j].mask \subseteq mask)
              => \E x \in DOMAIN M : M[x].pc = pc /\ M[x].mask = mask
<1>5. ASSUME mask \cap t.GlobalWriteMask = {} PROVE Goal
  <2>1. M = <<Node(pc, mask)>> \o L
    BY <1>5 DEF WritesAfter
  <2>2. \A x \in DOMAIN L : L[x].mask \cap mask = {}
    BY <1>1, <1>5
  <2>3. /\ 1 \in DOMAIN M /\ M[1] = Node(pc, mask)
        /\ \A x \in DOMAIN L : x + 1 \in DOMAIN M /\ M[x + 1] = L[x]
        /\ \A y \in DOMAIN M : y = 1 \/ (y - 1 \in DOMAIN L /\ M[y] = L[y - 1])
        /\ Disjoint(M)
    <3> DEFINE n == Node(pc, mask)
    <3>1. PutInFront(Q, n, L, M)
      BY <2>1, <2>2, <1>1, <1>3 DEF PutInFront
    <3> HIDE DEF n, L, M
    <3> QED BY <3>1, PutInFrontIs DEF n
  <2> HIDE DEF L, M
  <2>4. \A x \in DOMAIN L : L[x].mask \ mask = L[x].mask
    BY <2>2
  <2>5. \A x \in DOMAIN M :
              \/ M[x].pc = pc /\ M[x].mask \subseteq mask
              \/ \E j \in DOMAIN L : M[x].pc = L[j].pc /\ M[x].mask \subseteq L[j].mask \ mask
    BY <2>3, <2>4, <1>3
  <2>6. \A j \in DOMAIN L : \A b \in L[j].mask \ mask :
              \E x \in DOMAIN M : M[x].pc = L[j].pc /\ b \in M[x].mask
    BY <2>3
  <2>7. \E x \in DOMAIN M : M[x].pc = pc /\ M[x].mask = mask
    BY <2>3, <1>3
  <2> QED
    BY <2>3, <2>5, <2>6, <2>7 DEF L, M
<1>6. ASSUME mask \cap t.GlobalWriteMask # {}, Head(L).mask = mask PROVE Goal
  <2> DEFINE R == Tail(L)
  <2>1. L # <<>>
    BY <1>6 DEF TableOK
  <2>2. /\ R \in Seq(NodesOf(Q)) /\ Len(L) \in Nat \ {0} /\ L[1].mask = mask
        /\ Len(R) = Len(L) - 1 /\ \A k \in 1 .. Len(R) : R[k] = L[k + 1]
    BY <2>1, <1>1, <1>6, Rest
  <2>3. DOMAIN R = 1 .. Len(L) - 1 /\ 1 \in DOMAIN L
        /\ \A k \in DOMAIN R : k + 1 \in DOMAIN L /\ k + 1 # 1 /\ R[k] = L[k + 1]
    BY <2>2, <1>1
  <2>4. M = <<Node(pc, mask)>> \o R
    BY <1>6 DEF WritesAfter
  <2> HIDE DEF R
  <2>5. \A x \in DOMAIN R : R[x].mask \cap mask = {}
    BY <2>2, <2>3, <1>1 DEF Disjoint
  <2>6. Disjoint(R)
    <3> SUFFICES ASSUME NEW x \in DOMAIN R, NEW y \in DOMAIN R, x # y
                 PROVE  R[x].mask \cap R[y].mask = {}
      BY DEF Disjoint
    <3>1. x + 1 # y + 1
      BY <2>3, <1>1
    <3> QED BY <3>1, <2>3, <1>1 DEF Disjoint
  <2>7. /\ 1 \in DOMAIN M /\ M[1] = Node(pc, mask)
        /\ \A x \in DOMAIN R : x + 1 \in DOMAIN M /\ M[x + 1] = R[x]
        /\ \A y \in DOMAIN M : y = 1 \/ (y - 1 \in DOMAIN R /\ M[y] = R[y - 1])
        /\ Disjoint(M)
    <3> DEFINE n == Node(pc, mask)
    <3>1. n \in NodesOf(Q) /\ \A x \in DOMAIN R : R[x].mask \cap n.mask = {}
      BY <2>5, <1>3
    <3>2. R \in Seq(NodesOf(Q)) /\ M = <<n>> \o R
      BY <2>2, <2>4
    <3> HIDE DEF n, L, M
    <3>3. /\ 1 \in DOMAIN M /\ M[1] = n
          /\ \A x \in DOMAIN R : x + 1 \in DOMAIN M /\ M[x + 1] = R[x]
          /\ \A y \in DOMAIN M : y = 1 \/ (y - 1 \in DOMAIN R /\ M[y] = R[y - 1])
          /\ Disjoint(M)
      <4>1. PutInFront(Q, n, R, M)
        BY <3>1, <3>2, <2>6 DEF PutInFront
      <4> QED BY <4>1, PutInFrontIs
    <3> QED BY <3>3 DEF n
  <2> HIDE DEF L, M
  <2>8. \A x \in DOMAIN R : R[x].mask \ mask = R[x].mask
    BY <2>5
  <2>9. ASSUME NEW y \in DOMAIN M
        PROVE  \/ M[y].pc = pc /\ M[y].mask \subseteq mask
               \/ \E j \in DOMAIN L : M[y].pc = L[j].pc /\ M[y].mask \subseteq L[j].mask \ mask
    <3>1. CASE y = 1
      BY <3>1, <2>7, <1>3
    <3>2. CASE y - 1 \in DOMAIN R /\ M[y] = R[y - 1]
      <4>1. (y - 1) + 1 \in DOMAIN L /\ M[y] = L[(y - 1) + 1]
        BY <3>2, <2>3
      <4>2. M[y].mask = L[(y - 1) + 1].mask \ mask
        BY <4>1, <3>2, <2>8
      <4> QED BY <4>1, <4>2
    <3> QED BY <3>1, <3>2, <2>7
  <2>10. ASSUME NEW j \in DOMAIN L, NEW b \in L[j].mask \ mask
         PROVE  \E x \in DOMAIN M : M[x].pc = L[j].pc /\ b \in M[x].mask
    <3>1. j # 1
      BY <2>2, <2>10
    <3>2. j - 1 \in DOMAIN R /\ (j - 1) + 1 = j
      BY <3>1, <2>3, <1>1 DEF L
    <3>3. (j - 1) + 1 \in DOMAIN M /\ M[(j - 1) + 1] = L[j]
      BY <3>2, <2>3, <2>7
    <3> QED BY <3>3, <2>10
  <2>11. \E x \in DOMAIN M : M[x].pc = pc /\ M[x].mask = mask
    BY <2>7, <1>3
  <2> QED
    BY <2>7, <2>9, <2>10, <2>11 DEF L, M
<1>7. ASSUME mask \cap t.GlobalWriteMask # {}, Head(L).mask # mask PROVE Goal
  <2>1. L # <<>> /\ Len(L) > 0
    <3>1. L # <<>>
      BY <1>7 DEF TableOK
    <3> QED BY <3>1, <1>1
  <2>2. M = IF w.new /\ w.left # {} THEN <<Node(pc, w.left)>> \o w.list ELSE w.list
    BY <1>7 DEF WritesAfter
  <2>3. /\ w.left \in SUBSET (0 .. 7) /\ w.list \in Seq(NodesOf(Q))
        /\ w.left \subseteq mask
    BY <1>2 DEF WalkOK, Walk, WalkedTo
  <2>4. /\ Disjoint(w.list)
        /\ \A x \in DOMAIN w.list : \/ LeftOver(w.list[x], mask, L, Len(L))
                                    \/ ~ w.new /\ w.list[x].pc = pc /\ w.list[x].mask \subseteq mask
        /\ \A j \in DOMAIN L : \A b \in L[j].mask \ mask :
             \E x \in DOMAIN w.list : w.list[x].pc = L[j].pc /\ b \in w.list[x].mask
        /\ (\A j \in DOMAIN L : L[j].mask \subseteq mask)
             => ~ w.new /\ \E x \in DOMAIN w.list : w.list[x].pc = pc /\ w.list[x].mask = mask
    BY <1>1, <1>2, <2>1 DEF WalkedTo
  <2>5. \A x \in DOMAIN w.list :
          \/ w.list[x].pc = pc /\ w.list[x].mask \subseteq mask
          \/ \E j \in DOMAIN L : w.list[x].pc = L[j].pc /\ w.list[x].mask \subseteq L[j].mask \ mask
    BY <2>4, <1>1 DEF LeftOver
  <2>6. CASE w.new /\ w.left # {}
    <3> DEFINE n == Node(pc, w.left)
    <3>1. n \in NodesOf(Q) /\ n.pc = pc /\ n.mask = w.left
      BY <2>3, <2>6, NodeType
    <3>2. M = <<n>> \o w.list
      BY <2>2, <2>6
    <3> HIDE DEF n
    <3>3. \A x \in DOMAIN w.list : w.list[x].mask \cap n.mask = {}
      BY <3>1, <2>3, <2>4, <2>6 DEF LeftOver
    <3>4. /\ 1 \in DOMAIN M /\ M[1] = n
          /\ \A x \in DOMAIN w.list : x + 1 \in DOMAIN M /\ M[x + 1] = w.list[x]
          /\ \A y \in DOMAIN M : y = 1 \/ (y - 1 \in DOMAIN w.list /\ M[y] = w.list[y - 1])
          /\ Disjoint(M)
      <4> DEFINE R == w.list
      <4>1. R \in Seq(NodesOf(Q)) /\ Disjoint(R) /\ \A x \in DOMAIN R : R[x].mask \cap n.mask = {}
        BY <3>3, <2>3, <2>4
      <4>2. M = <<n>> \o R
        BY <3>2
      <4> HIDE DEF R, M
      <4>3. /\ 1 \in DOMAIN M /\ M[1] = n
            /\ \A x \in DOMAIN R : x + 1 \in DOMAIN M /\ M[x + 1] = R[x]
            /\ \A y \in DOMAIN M : y = 1 \/ (y - 1 \in DOMAIN R /\ M[y] = R[y - 1])
            /\ Disjoint(M)
        <5>1. PutInFront(Q, n, R, M)
          BY <4>1, <4>2, <3>1 DEF PutInFront
        <5> QED BY <5>1, PutInFrontIs
      <4> QED BY <4>3 DEF R
    <3> HIDE DEF L, M, w
    <3>5. \A y \in DOMAIN M :
              \/ M[y].pc = pc /\ M[y].mask \subseteq mask
              \/ \E j \in DOMAIN L : M[y].pc = L[j].pc /\ M[y].mask \subseteq L[j].mask \ mask
      BY <3>1, <3>4, <2>3, <2>5
    <3>6. \A j \in DOMAIN L : \A b \in L[j].mask \ mask :
              \E x \in DOMAIN M : M[x].pc = L[j].pc /\ b \in M[x].mask
      <4> SUFFICES ASSUME NEW j \in DOMAIN L, NEW b \in L[j].mask \ mask
                   PROVE  \E x \in DOMAIN M : M[x].pc = L[j].pc /\ b \in M[x].mask
        OBVIOUS
      <4>1. PICK x \in DOMAIN w.list : w.list[x].pc = L[j].pc /\ b \in w.list[x].mask
        BY <2>4
      <4> QED BY <4>1, <3>4
    <3>7. ~ \A j \in DOMAIN L : L[j].mask \subseteq mask
      BY <2>4, <2>6
    <3> QED
      BY <3>4, <3>5, <3>6, <3>7 DEF L, M, w
  <2>7. CASE ~ (w.new /\ w.left # {})
    <3>1. M = w.list
      BY <2>2, <2>7
    <3> HIDE DEF L, M, w
    <3>2. Goal
      BY <3>1, <2>4, <2>5
    <3> QED
      BY <3>2 DEF L, M, w
  <2> QED
    BY <2>6, <2>7
<1>8. Goal
  BY <1>5, <1>6, <1>7
<1> QED
  BY <1>8 DEF WrittenOver

\* Entering an iteration keeps the lists of a table, and its masks if they are empty.
LEMMA EnterType ==
  ASSUME NEW Q, NEW t \in TableOver(Q), TableOK(t), NEW pc, NEW iter \in Iter
  PROVE  LET u == EnterIteration(t, pc, iter) IN
         /\ u \in TableOver(Q) /\ TableOK(u) /\ u.RWIter = iter
         /\ u.RTrace = t.RTrace /\ u.WTrace = t.WTrace
         /\ t.RWIter = iter \/ (t.GlobalReadMask = {} /\ t.GlobalWriteMask = {})
              => u.GlobalReadMask = t.GlobalReadMask /\ u.GlobalWriteMask = t.GlobalWriteMask
<1> DEFINE u == EnterIteration(t, pc, iter)
<1>1. iter \in 0 .. NumIters /\ {} \in SUBSET (0 .. 7)
  BY DEF Iter
<1>2. /\ t = TableWith(t.RTrace, t.WTrace, t.RWIter, t.GlobalReadMask, t.GlobalWriteMask)
      /\ t.RTrace \in Seq(NodesOf(Q)) /\ t.WTrace \in Seq(NodesOf(Q))
      /\ t.GlobalReadMask \in SUBSET (0 .. 7) /\ t.GlobalWriteMask \in SUBSET (0 .. 7)
  BY TableFields
<1>3. CASE t.RWIter = iter
  <2>1. u = t
    BY <1>3 DEF EnterIteration
  <2> QED
    BY <2>1, <1>3
<1>4. CASE t.RWIter # iter /\ pc.write
  <2>1. u = TableWith(t.RTrace, t.WTrace, iter, {}, {})
    BY <1>2, <1>4 DEF EnterIteration, TableWith
  <2>2. /\ u.RTrace = t.RTrace /\ u.WTrace = t.WTrace /\ u.RWIter = iter
        /\ u.GlobalReadMask = {} /\ u.GlobalWriteMask = {}
    BY <2>1 DEF TableWith
  <2>3. u \in TableOver(Q)
    BY <2>1, <1>1, <1>2 DEF TableWith, TableOver
  <2> QED
    BY <2>2, <2>3, <1>1, <1>4 DEF TableOK
<1>5. CASE t.RWIter # iter /\ ~ pc.write
  <2>1. u = TableWith(t.RTrace, t.WTrace, iter, t.GlobalReadMask, t.GlobalWriteMask)
    BY <1>2, <1>5 DEF EnterIteration, TableWith
  <2>2. /\ u.RTrace = t.RTrace /\ u.WTrace = t.WTrace /\ u.RWIter = iter
        /\ u.GlobalReadMask = t.GlobalReadMask /\ u.GlobalWriteMask = t.GlobalWriteMask
    BY <2>1 DEF TableWith
  <2>3. u \in TableOver(Q)
    BY <2>1, <1>1, <1>2 DEF TableWith, TableOver
  <2> QED
    BY <2>2, <2>3, <1>1, <1>5 DEF TableOK
<1> QED
  BY <1>3, <1>4, <1>5

\* The elements of a list
LEMMA InRange ==
  ASSUME NEW S, NEW L \in Seq(S)
  PROVE  /\ Range(L) \subseteq S
         /\ \A n : n \in Range(L) <=> \E x \in DOMAIN L : n = L[x]
         /\ DOMAIN L = 1 .. Len(L) /\ Len(L) \in Nat
         /\ \A x \in DOMAIN L : L[x] \in S
  BY DEF Range

\* Nodes of some of the instructions are nodes.
LEMMA NodesMono ==
  ASSUME NEW Q \in SUBSET PC
  PROVE  NodesOf(Q) \subseteq Nodes
  BY DEF NodesOf, Nodes

\* Either update keeps a table a table.
LEMMA UpdateType ==
  ASSUME NEW Q \in SUBSET PC, NEW t \in TableOver(Q), TableOK(t), NEW pc \in Q
  PROVE  LET u == Update(t, pc) IN
         u \in TableOver(Q) /\ TableOK(u) /\ u.RWIter = t.RWIter
<1> DEFINE mask == RWMask(pc.len)
           u == Update(t, pc)
           first == mask \ (t.GlobalReadMask \cup t.GlobalWriteMask)
<1>1. pc \in PC /\ mask \in SUBSET (0 .. 7) /\ mask # {} /\ pc.write \in BOOLEAN
  BY Mask
<1>2. /\ t.RTrace \in Seq(NodesOf(Q)) /\ t.WTrace \in Seq(NodesOf(Q)) /\ t.RWIter \in 0 .. NumIters
      /\ t.GlobalReadMask # {} => t.RTrace # <<>>
      /\ t.GlobalWriteMask # {} => t.WTrace # <<>>
  BY TableFields DEF TableOK
<1>3. u \in TableOver(Q) /\ u.RWIter = t.RWIter
      /\ (u.GlobalReadMask # {} => u.RTrace # <<>>) /\ (u.GlobalWriteMask # {} => u.WTrace # <<>>)
  <2>1. CASE pc.write
    <3>1. u = UpdatePresentWTrace(t, pc, mask)
      BY <2>1 DEF Update
    <3> HIDE DEF mask, u
    <3> QED
      BY <3>1, <1>1, <1>2, WriteUpdated
  <2>2. CASE ~ pc.write
    <3>1. u = UpdatePresentRTrace(t, pc, mask)
      BY <2>2 DEF Update
    <3> HIDE DEF mask, u
    <3>2. /\ u \in TableOver(Q)
          /\ u.WTrace = t.WTrace /\ u.GlobalWriteMask = t.GlobalWriteMask /\ u.RWIter = t.RWIter
          /\ u.GlobalReadMask = t.GlobalReadMask \cup first
          /\ first = {} => u.RTrace = t.RTrace
          /\ first # {} => u.RTrace = <<Node(pc, first)>> \o t.RTrace
      BY <3>1, <1>1, ReadUpdated
    <3>3. first # {} => <<Node(pc, first)>> \o t.RTrace # <<>>
      BY <1>2
    <3> QED
      BY <3>2, <3>3, <1>2
  <2> QED
    BY <2>1, <2>2
<1> HIDE DEF u
<1>4. u.RTrace \in Seq(NodesOf(Q)) /\ u.WTrace \in Seq(NodesOf(Q)) /\ u.RWIter \in 0 .. NumIters
  BY <1>3, TableFields
<1>5. Range(u.RTrace) \subseteq Nodes /\ Range(u.WTrace) \subseteq Nodes
  BY <1>4, InRange, NodesMono
<1>6. TableOK(u)
  BY <1>3, <1>4, <1>5 DEF TableOK
<1> QED
  BY <1>3, <1>6 DEF u

-----------------------------------------------------------------------------
(***************************************************************************)
(* What the table of an iteration says of the accesses of the iteration,   *)
(* when it was empty before the first of them.                             *)
(***************************************************************************)
Access == [pc : PC, found : BOOLEAN]

WritesByte(s, k, b) == s[k].pc.write /\ Covers(s[k], b)

\* Access k is the last to have written byte b.
LastOn(s, k, b) ==
  k \in DOMAIN s /\ WritesByte(s, k, b) /\ \A j \in k + 1 .. Len(s) : ~ WritesByte(s, j, b)

Shorter(s, k) == \E j \in 1 .. k - 1 : s[j].pc.write /\ s[j].pc.len > s[k].pc.len

Matches(t, i, s) ==
  /\ s = <<>> => /\ t.RTrace = <<>> /\ t.WTrace = <<>>
                 /\ t.GlobalReadMask = {} /\ t.GlobalWriteMask = {} /\ t.RWIter # i
  /\ s # <<>> => t.RWIter = i
  /\ \A b : b \in t.GlobalWriteMask <=> \E k \in DOMAIN s : WritesByte(s, k, b)
  /\ Disjoint(t.WTrace)
  /\ \A x \in DOMAIN t.WTrace : \A b \in t.WTrace[x].mask :
       \E k \in DOMAIN s : s[k].pc = t.WTrace[x].pc /\ LastOn(s, k, b)
  /\ \A k \in DOMAIN s : \A b : LastOn(s, k, b) /\ ~ Shorter(s, k)
       => \E x \in DOMAIN t.WTrace : t.WTrace[x].pc = s[k].pc /\ b \in t.WTrace[x].mask
  /\ s # <<>> /\ ~ s[1].pc.write
       => /\ 0 \in t.GlobalReadMask
          /\ \E x \in DOMAIN t.RTrace : t.RTrace[x].pc = s[1].pc /\ 0 \in t.RTrace[x].mask

\* The empty table matches an iteration without accesses.
LEMMA MatchesEmpty ==
  ASSUME NEW i \in Iter
  PROVE  Matches(EmptyTable, i, <<>>)
<1>1. /\ EmptyTable.RTrace = <<>> /\ EmptyTable.WTrace = <<>> /\ EmptyTable.RWIter = 0
      /\ EmptyTable.GlobalReadMask = {} /\ EmptyTable.GlobalWriteMask = {}
  BY DEF EmptyTable
<1>2. i # 0
  BY DEF Iter
<1>3. DOMAIN EmptyTable.WTrace = {}
  BY <1>1
<1>4. DOMAIN <<>> = {}
  OBVIOUS
<1> QED
  BY <1>1, <1>2, <1>3, <1>4 DEF Matches, Disjoint

\* One more access
LEMMA Appended ==
  ASSUME NEW s \in Seq(Access), NEW pc \in PC, NEW f \in BOOLEAN
  PROVE  LET a == [pc |-> pc, found |-> f]
             r == Append(s, a) IN
         /\ r \in Seq(Access) /\ r # <<>> /\ Len(s) \in Nat
         /\ DOMAIN s = 1 .. Len(s) /\ DOMAIN r = 1 .. Len(s) + 1 /\ Len(r) = Len(s) + 1
         /\ r[Len(s) + 1].pc = pc
         /\ \A k \in 1 .. Len(s) : r[k] = s[k] /\ s[k].pc \in PC
         /\ s # <<>> => Len(s) >= 1 /\ 1 \in 1 .. Len(s)
         /\ s = <<>> => Len(s) = 0
<1> DEFINE a == [pc |-> pc, found |-> f]
           r == Append(s, a)
<1>1. a \in Access /\ a.pc = pc
  BY DEF Access
<1> HIDE DEF a
<1>2. /\ r \in Seq(Access) /\ r # <<>> /\ Len(s) \in Nat /\ Len(r) = Len(s) + 1
      /\ r[Len(s) + 1] = a /\ \A k \in 1 .. Len(s) : r[k] = s[k]
  BY <1>1, AtEnd
<1>3. \A k \in 1 .. Len(s) : s[k].pc \in PC
  <2>1. \A k \in 1 .. Len(s) : s[k] \in Access
    OBVIOUS
  <2> QED BY <2>1 DEF Access
<1>4. DOMAIN s = 1 .. Len(s) /\ DOMAIN r = 1 .. Len(s) + 1
  BY <1>2
<1>5. (s # <<>> => Len(s) >= 1 /\ 1 \in 1 .. Len(s)) /\ (s = <<>> => Len(s) = 0)
  OBVIOUS
<1> HIDE DEF r
<1>6. r[Len(s) + 1].pc = pc
  BY <1>1, <1>2
<1> QED
  BY <1>2, <1>3, <1>4, <1>5, <1>6 DEF r, a

\* What a new access changes in the history: it is the last to have written its
\* bytes, and no other access is any more.
LEMMA LastOnAppended ==
  ASSUME NEW s \in Seq(Access), NEW pc \in PC, NEW f \in BOOLEAN, NEW b
  PROVE  LET r == Append(s, [pc |-> pc, found |-> f])
             written == pc.write /\ b \in RWMask(pc.len) IN
         /\ \A k \in 1 .. Len(s) : /\ WritesByte(r, k, b) <=> WritesByte(s, k, b)
                                   /\ LastOn(r, k, b) <=> LastOn(s, k, b) /\ ~ written
                                   /\ Shorter(r, k) <=> Shorter(s, k)
         /\ WritesByte(r, Len(s) + 1, b) <=> written
         /\ LastOn(r, Len(s) + 1, b) <=> written
         /\ Shorter(r, Len(s) + 1)
              <=> \E j \in 1 .. Len(s) : s[j].pc.write /\ s[j].pc.len > pc.len
<1> DEFINE r == Append(s, [pc |-> pc, found |-> f])
           n == Len(s)
           written == pc.write /\ b \in RWMask(pc.len)
<1>1. /\ n \in Nat /\ DOMAIN s = 1 .. n /\ DOMAIN r = 1 .. n + 1 /\ Len(r) = n + 1
      /\ r[n + 1].pc = pc /\ \A k \in 1 .. n : r[k] = s[k]
  BY Appended
<1> HIDE DEF r, n
<1>2. WritesByte(r, n + 1, b) <=> written
  BY <1>1 DEF WritesByte, Covers
<1>3. \A k \in 1 .. n : WritesByte(r, k, b) <=> WritesByte(s, k, b)
  BY <1>1 DEF WritesByte, Covers
<1>4. LastOn(r, n + 1, b) <=> written
  <2>1. (n + 1) + 1 .. Len(r) = {} /\ n + 1 \in DOMAIN r
    BY <1>1
  <2> QED BY <2>1, <1>2 DEF LastOn
<1>5. ASSUME NEW k \in 1 .. n
      PROVE  LastOn(r, k, b) <=> LastOn(s, k, b) /\ ~ written
  <2>1. /\ k \in DOMAIN s /\ k \in DOMAIN r /\ n + 1 \in k + 1 .. Len(r)
        /\ \A j : j \in k + 1 .. Len(r) <=> j \in k + 1 .. n \/ j = n + 1
        /\ \A j \in k + 1 .. n : j \in 1 .. n
    BY <1>1
  <2>2. (\A j \in k + 1 .. Len(r) : ~ WritesByte(r, j, b))
          <=> (\A j \in k + 1 .. n : ~ WritesByte(s, j, b)) /\ ~ written
    BY <2>1, <1>2, <1>3
  <2> QED
    BY <2>1, <2>2, <1>3 DEF LastOn, n
<1>6. ASSUME NEW k \in 1 .. n PROVE Shorter(r, k) <=> Shorter(s, k)
  <2>1. \A j \in 1 .. k - 1 : j \in 1 .. n
    BY <1>1
  <2>2. \A j \in 1 .. k - 1 : r[j] = s[j]
    BY <2>1, <1>1
  <2> QED BY <2>2, <1>1 DEF Shorter
<1>7. Shorter(r, n + 1) <=> \E j \in 1 .. n : s[j].pc.write /\ s[j].pc.len > pc.len
  <2>1. (n + 1) - 1 = n
    BY <1>1
  <2> QED BY <2>1, <1>1 DEF Shorter
<1> QED
  BY <1>2, <1>3, <1>4, <1>5, <1>6, <1>7 DEF r, n

\* A table that matches the accesses of an iteration matches them after one more
\* access has been checked and noted in it.
LEMMA MatchesNext ==
  ASSUME NEW Q \in SUBSET PC, NEW t \in TableOver(Q), TableOK(t), NEW i \in Iter,
         NEW s \in Seq(Access), Matches(t, i, s), NEW pc \in Q, NEW f \in BOOLEAN
  PROVE  Matches(Update(EnterIteration(t, pc, i), pc), i, Append(s, [pc |-> pc, found |-> f]))
<1> DEFINE a == [pc |-> pc, found |-> f]
           r == Append(s, a)
           n == Len(s)
           e == EnterIteration(t, pc, i)
           u == Update(e, pc)
           mask == RWMask(pc.len)
\* The iteration has been entered, or its table is empty.
<1>1. /\ s = <<>> => /\ t.RTrace = <<>> /\ t.GlobalReadMask = {} /\ t.GlobalWriteMask = {}
      /\ s # <<>> => t.RWIter = i
      /\ \A b : b \in t.GlobalWriteMask <=> \E k \in DOMAIN s : WritesByte(s, k, b)
      /\ Disjoint(t.WTrace)
      /\ \A x \in DOMAIN t.WTrace : \A b \in t.WTrace[x].mask :
           \E k \in DOMAIN s : s[k].pc = t.WTrace[x].pc /\ LastOn(s, k, b)
      /\ \A k \in DOMAIN s : \A b : LastOn(s, k, b) /\ ~ Shorter(s, k)
           => \E x \in DOMAIN t.WTrace : t.WTrace[x].pc = s[k].pc /\ b \in t.WTrace[x].mask
      /\ s # <<>> /\ ~ s[1].pc.write
           => /\ 0 \in t.GlobalReadMask
              /\ \E x \in DOMAIN t.RTrace : t.RTrace[x].pc = s[1].pc /\ 0 \in t.RTrace[x].mask
  BY DEF Matches
<1>2. /\ e \in TableOver(Q) /\ TableOK(e) /\ e.RWIter = i
      /\ e.RTrace = t.RTrace /\ e.WTrace = t.WTrace
      /\ e.GlobalReadMask = t.GlobalReadMask /\ e.GlobalWriteMask = t.GlobalWriteMask
  BY <1>1, EnterType
<1>3. /\ pc \in PC /\ mask \in SUBSET (0 .. 7) /\ 0 \in mask /\ mask # {} /\ pc.write \in BOOLEAN
      /\ pc.len \in 1 .. 8 /\ \A b : b \in mask <=> b \in 0 .. 7 /\ b < pc.len
  BY Mask
<1>4. /\ r # <<>> /\ n \in Nat /\ DOMAIN s = 1 .. n /\ DOMAIN r = 1 .. n + 1
      /\ r[n + 1].pc = pc /\ \A k \in 1 .. n : r[k] = s[k] /\ s[k].pc \in PC
      /\ s # <<>> => n >= 1 /\ 1 \in 1 .. n
      /\ s = <<>> => n = 0
  BY <1>3, Appended
<1> DEFINE written(b) == pc.write /\ b \in mask
<1>5. \A b :
        /\ \A k \in 1 .. n : /\ WritesByte(r, k, b) <=> WritesByte(s, k, b)
                             /\ LastOn(r, k, b) <=> LastOn(s, k, b) /\ ~ written(b)
                             /\ Shorter(r, k) <=> Shorter(s, k)
        /\ WritesByte(r, n + 1, b) <=> written(b)
        /\ LastOn(r, n + 1, b) <=> written(b)
        /\ Shorter(r, n + 1) <=> \E j \in 1 .. n : s[j].pc.write /\ s[j].pc.len > pc.len
  BY <1>3, LastOnAppended
<1>6. \A k : k \in 1 .. n + 1 <=> k \in 1 .. n \/ k = n + 1
  BY <1>4
<1>7. \A k \in 1 .. n : k \in 1 .. n + 1
  BY <1>4
<1>8. u.RWIter = i
  BY <1>2, UpdateType
<1> HIDE DEF r, n, e, mask
<1>9. \A x \in DOMAIN t.WTrace : t.WTrace[x].mask \subseteq t.GlobalWriteMask
  BY <1>1 DEF LastOn
<1>10. CASE ~ pc.write
  <2> DEFINE first == mask \ (e.GlobalReadMask \cup e.GlobalWriteMask)
  <2>1. u = UpdatePresentRTrace(e, pc, mask)
    BY <1>10 DEF Update, mask
  <2>2. /\ u.WTrace = e.WTrace /\ u.GlobalWriteMask = e.GlobalWriteMask
        /\ u.GlobalReadMask = e.GlobalReadMask \cup first
        /\ first = {} => u.RTrace = e.RTrace
        /\ first # {} => u.RTrace = <<Node(pc, first)>> \o e.RTrace
    <3> HIDE DEF u
    <3>1. e \in TableOver(Q) /\ TableOK(e) /\ pc \in Q /\ mask \in SUBSET (0 .. 7)
      BY <1>2, <1>3
    <3>2. LET v == UpdatePresentRTrace(e, pc, mask) IN
          /\ v.WTrace = e.WTrace /\ v.GlobalWriteMask = e.GlobalWriteMask
          /\ v.GlobalReadMask = e.GlobalReadMask \cup first
          /\ first = {} => v.RTrace = e.RTrace
          /\ first # {} => v.RTrace = <<Node(pc, first)>> \o e.RTrace
      BY <3>1, ReadUpdated
    <3> HIDE DEF first
    <3> QED
      BY <2>1, <3>2
  <2> HIDE DEF u
  <2>3. \A b : ~ written(b)
    BY <1>10
  <2> HIDE DEF written
  <2>4. \A b : b \in u.GlobalWriteMask <=> \E k \in DOMAIN r : WritesByte(r, k, b)
    BY <2>2, <2>3, <1>1, <1>2, <1>4, <1>5, <1>6
  <2>5. ASSUME NEW x \in DOMAIN u.WTrace, NEW b \in u.WTrace[x].mask
        PROVE  \E k \in DOMAIN r : r[k].pc = u.WTrace[x].pc /\ LastOn(r, k, b)
    <3>1. PICK k \in DOMAIN s : s[k].pc = t.WTrace[x].pc /\ LastOn(s, k, b)
      BY <2>2, <2>5, <1>1, <1>2
    <3> QED
      BY <3>1, <2>2, <2>3, <1>2, <1>4, <1>5, <1>7
  <2>6. ASSUME NEW k \in DOMAIN r, NEW b, LastOn(r, k, b), ~ Shorter(r, k)
        PROVE  \E x \in DOMAIN u.WTrace : u.WTrace[x].pc = r[k].pc /\ b \in u.WTrace[x].mask
    <3>1. k \in 1 .. n
      BY <2>3, <2>6, <1>4, <1>5, <1>6
    <3>2. LastOn(s, k, b) /\ ~ Shorter(s, k) /\ k \in DOMAIN s /\ r[k] = s[k]
      BY <3>1, <2>6, <1>4, <1>5
    <3> QED
      BY <3>2, <2>2, <1>1, <1>2
  <2>7. ASSUME ~ r[1].pc.write
        PROVE  /\ 0 \in u.GlobalReadMask
               /\ \E x \in DOMAIN u.RTrace : u.RTrace[x].pc = r[1].pc /\ 0 \in u.RTrace[x].mask
    <3>1. ASSUME first # {}
          PROVE  /\ 1 \in DOMAIN u.RTrace
                 /\ u.RTrace[1].pc = pc /\ u.RTrace[1].mask = first
                 /\ \A x \in DOMAIN e.RTrace : x + 1 \in DOMAIN u.RTrace /\ u.RTrace[x + 1] = e.RTrace[x]
      <4> DEFINE m == Node(pc, first)
                 L == e.RTrace
      <4>1. m \in NodesOf(Q) /\ m.pc = pc /\ m.mask = first
        BY <3>1, <1>3, NodeType
      <4>2. L \in Seq(NodesOf(Q)) /\ u.RTrace = <<m>> \o L
        <5>1. L \in Seq(NodesOf(Q))
          BY <1>2, TableFields
        <5>2. u.RTrace = <<m>> \o L
          BY <3>1, <2>2
        <5> QED BY <5>1, <5>2
      <4> HIDE DEF m, L, first
      <4>3. /\ u.RTrace \in Seq(NodesOf(Q)) /\ Len(u.RTrace) = Len(L) + 1 /\ Len(L) \in Nat
            /\ u.RTrace[1] = m /\ \A k \in 1 .. Len(L) : u.RTrace[k + 1] = L[k]
            /\ DOMAIN L = 1 .. Len(L)
        BY <4>1, <4>2, InFront
      <4>4. DOMAIN u.RTrace = 1 .. Len(L) + 1
        BY <4>3
      <4>5. \A x \in DOMAIN L : x + 1 \in DOMAIN u.RTrace /\ u.RTrace[x + 1] = L[x]
        BY <4>3, <4>4
      <4> QED
        BY <4>1, <4>3, <4>4, <4>5 DEF L
    <3>2. CASE s = <<>>
      <4>1. n = 0 /\ r[1].pc = pc
        BY <3>2, <1>4
      <4>2. first = mask
        BY <3>2, <1>1, <1>2
      <4> QED
        BY <4>1, <4>2, <3>1, <2>2, <1>3
    <3>3. CASE s # <<>>
      <4>1. r[1] = s[1] /\ ~ s[1].pc.write
        BY <3>3, <2>7, <1>4
      <4>2. 0 \in e.GlobalReadMask
        BY <4>1, <3>3, <1>1, <1>2
      <4>3. PICK x \in DOMAIN e.RTrace : e.RTrace[x].pc = s[1].pc /\ 0 \in e.RTrace[x].mask
        BY <4>1, <3>3, <1>1, <1>2
      <4>4. CASE first = {}
        BY <4>1, <4>2, <4>3, <4>4, <2>2
      <4>5. CASE first # {}
        <5>1. x + 1 \in DOMAIN u.RTrace /\ u.RTrace[x + 1] = e.RTrace[x]
          BY <4>5, <3>1
        <5> QED
          BY <5>1, <4>1, <4>2, <4>3, <2>2
      <4> QED BY <4>4, <4>5
    <3> QED BY <3>2, <3>3
  <2>8. Disjoint(u.WTrace)
    BY <2>2, <1>1, <1>2
  <2> QED
    BY <2>4, <2>5, <2>6, <2>7, <2>8, <1>4, <1>8 DEF Matches, r, u, e
<1>11. CASE pc.write
  <2> DEFINE L == e.WTrace
             M == WritesAfter(pc, mask, e)
  <2>1. u = UpdatePresentWTrace(e, pc, mask)
    BY <1>11 DEF Update, mask
  <2>2. /\ u.RTrace = e.RTrace /\ u.GlobalReadMask = e.GlobalReadMask
        /\ u.GlobalWriteMask = e.GlobalWriteMask \cup mask /\ u.WTrace = M
    BY <2>1, <1>2, <1>3, WriteUpdated
  <2>3. /\ Disjoint(M)
        /\ \A x \in DOMAIN M :
              \/ M[x].pc = pc /\ M[x].mask \subseteq mask
              \/ \E j \in DOMAIN L : M[x].pc = L[j].pc /\ M[x].mask \subseteq L[j].mask \ mask
        /\ \A j \in DOMAIN L : \A b \in L[j].mask \ mask :
              \E x \in DOMAIN M : M[x].pc = L[j].pc /\ b \in M[x].mask
        /\ (\A j \in DOMAIN L : L[j].mask \subseteq mask)
              => \E x \in DOMAIN M : M[x].pc = pc /\ M[x].mask = mask
    <3>1. Disjoint(L) /\ \A k \in DOMAIN L : L[k].mask \subseteq e.GlobalWriteMask
      BY <1>1, <1>2, <1>9
    <3>2. e \in TableOver(Q) /\ TableOK(e) /\ pc \in Q /\ mask \in SUBSET (0 .. 7) /\ mask # {}
      BY <1>2, <1>3
    <3>3. WrittenOver(L, M, pc, mask)
      BY <3>1, <3>2, WritesAfterExact
    <3> HIDE DEF L, M
    <3> QED
      BY <3>3 DEF WrittenOver
  <2>4. L = t.WTrace
    BY <1>2
  <2> HIDE DEF u, L, M
  <2>5. \A b : written(b) <=> b \in mask
    BY <1>11
  <2> HIDE DEF written
  <2>6. \A b : b \in u.GlobalWriteMask <=> \E k \in DOMAIN r : WritesByte(r, k, b)
    BY <2>2, <2>5, <1>1, <1>2, <1>4, <1>5, <1>6
  <2>7. ASSUME NEW x \in DOMAIN M, NEW b \in M[x].mask
        PROVE  \E k \in DOMAIN r : r[k].pc = M[x].pc /\ LastOn(r, k, b)
    <3>1. CASE M[x].pc = pc /\ M[x].mask \subseteq mask
      <4>1. n + 1 \in DOMAIN r /\ r[n + 1].pc = M[x].pc /\ LastOn(r, n + 1, b)
        BY <3>1, <2>5, <2>7, <1>4, <1>5, <1>6
      <4> QED BY <4>1
    <3>2. CASE \E j \in DOMAIN L : M[x].pc = L[j].pc /\ M[x].mask \subseteq L[j].mask \ mask
      <4>1. PICK j \in DOMAIN L : M[x].pc = L[j].pc /\ M[x].mask \subseteq L[j].mask \ mask
        BY <3>2
      <4>2. b \in L[j].mask /\ b \notin mask
        BY <4>1, <2>7
      <4>3. PICK k \in DOMAIN s : s[k].pc = L[j].pc /\ LastOn(s, k, b)
        BY <4>2, <2>4, <1>1
      <4>4. LastOn(r, k, b) /\ r[k] = s[k] /\ k \in DOMAIN r
        BY <4>2, <4>3, <2>5, <1>4, <1>5, <1>7
      <4> QED BY <4>1, <4>3, <4>4
    <3> QED BY <3>1, <3>2, <2>3
  <2>8. ASSUME NEW k \in DOMAIN r, NEW b, LastOn(r, k, b), ~ Shorter(r, k)
        PROVE  \E x \in DOMAIN M : M[x].pc = r[k].pc /\ b \in M[x].mask
    <3>1. CASE k \in 1 .. n
      <4>1. LastOn(s, k, b) /\ b \notin mask /\ ~ Shorter(s, k) /\ k \in DOMAIN s /\ r[k] = s[k]
        BY <3>1, <2>5, <2>8, <1>4, <1>5
      <4>2. PICK j \in DOMAIN L : L[j].pc = s[k].pc /\ b \in L[j].mask
        BY <4>1, <2>4, <1>1
      <4>3. b \in L[j].mask \ mask
        BY <4>1, <4>2
      <4>4. PICK x \in DOMAIN M : M[x].pc = L[j].pc /\ b \in M[x].mask
        BY <4>3, <2>3
      <4> QED
        BY <4>1, <4>2, <4>4
    <3>2. CASE k = n + 1
      <4>1. b \in mask /\ r[k].pc = pc /\ ~ \E j \in 1 .. n : s[j].pc.write /\ s[j].pc.len > pc.len
        BY <3>2, <2>5, <2>8, <1>4, <1>5
      <4>2. ASSUME NEW j \in DOMAIN L, NEW c \in L[j].mask PROVE c \in mask
        <5>1. PICK l \in DOMAIN s : LastOn(s, l, c)
          BY <4>2, <2>4, <1>1
        <5>2. s[l].pc.write /\ c \in RWMask(s[l].pc.len) /\ l \in 1 .. n /\ s[l].pc \in PC
          BY <5>1, <1>4 DEF LastOn, WritesByte, Covers
        <5>3. c \in 0 .. 7 /\ c < s[l].pc.len /\ s[l].pc.len \in 1 .. 8
          BY <5>2, Mask
        <5>4. ~ (s[l].pc.len > pc.len)
          BY <4>1, <5>2
        <5>5. c < pc.len
          BY <5>3, <5>4, <1>3
        <5> QED BY <5>3, <5>5, <1>3
      <4>3. PICK x \in DOMAIN M : M[x].pc = pc /\ M[x].mask = mask
        BY <4>2, <2>3
      <4> QED BY <4>1, <4>3
    <3> QED BY <3>1, <3>2, <1>4, <1>6
  <2>9. ASSUME ~ r[1].pc.write
        PROVE  /\ 0 \in u.GlobalReadMask
               /\ \E x \in DOMAIN u.RTrace : u.RTrace[x].pc = r[1].pc /\ 0 \in u.RTrace[x].mask
    <3>1. s # <<>>
      <4> SUFFICES ASSUME s = <<>> PROVE FALSE
        OBVIOUS
      <4>1. r[1].pc = pc
        BY <1>4
      <4> QED BY <4>1, <2>9, <1>11
    <3>2. r[1] = s[1]
      BY <3>1, <1>4
    <3> QED
      BY <3>1, <3>2, <2>2, <2>9, <1>1, <1>2
  <2> QED
    BY <2>2, <2>3, <2>6, <2>7, <2>8, <2>9, <1>4, <1>8 DEF Matches, r, u, e, n
<1> QED
  BY <1>3, <1>10, <1>11

\* What the access finds in the table is of the program, and an access that wrote
\* last, and was not shorter than one before it, is found by the reads.
LEMMA MatchesFinds ==
  ASSUME NEW Q \in SUBSET PC, NEW t \in TableOver(Q), TableOK(t), NEW i \in Iter,
         NEW s \in Seq(Access), Matches(t, i, s), NEW pc \in Q
  PROVE  LET found == FoundLID(EnterIteration(t, pc, i), pc) IN
         /\ \A d \in found : /\ d.sink = pc
                             /\ d.kind = "True" => ~ pc.write
                             /\ d.kind = "Out" => pc.write
                             /\ d.kind \in {"True", "Out"} =>
                                  \E k \in DOMAIN s : s[k].pc = d.src
                                    /\ \E b \in RWMask(pc.len) : LastOn(s, k, b)
         /\ ~ pc.write =>
              \A k \in DOMAIN s : \A b \in RWMask(pc.len) : LastOn(s, k, b) /\ ~ Shorter(s, k)
                => [kind |-> "True", src |-> s[k].pc, sink |-> pc] \in found
<1> DEFINE e == EnterIteration(t, pc, i)
           mask == RWMask(pc.len)
           found == FoundLID(e, pc)
<1>1. /\ s = <<>> => t.GlobalReadMask = {} /\ t.GlobalWriteMask = {}
      /\ s # <<>> => t.RWIter = i
      /\ \A b : b \in t.GlobalWriteMask <=> \E k \in DOMAIN s : WritesByte(s, k, b)
      /\ \A x \in DOMAIN t.WTrace : \A b \in t.WTrace[x].mask :
           \E k \in DOMAIN s : s[k].pc = t.WTrace[x].pc /\ LastOn(s, k, b)
      /\ \A k \in DOMAIN s : \A b : LastOn(s, k, b) /\ ~ Shorter(s, k)
           => \E x \in DOMAIN t.WTrace : t.WTrace[x].pc = s[k].pc /\ b \in t.WTrace[x].mask
  BY DEF Matches
<1>2. /\ e \in TableOver(Q) /\ e.WTrace = t.WTrace /\ e.GlobalWriteMask = t.GlobalWriteMask
  BY <1>1, EnterType
<1>3. pc.write \in BOOLEAN
  BY Mask
<1>4. \A m : m \in Range(t.WTrace) <=> \E x \in DOMAIN t.WTrace : m = t.WTrace[x]
  BY DEF Range
<1> HIDE DEF e, mask
<1>5. CASE ~ pc.write
  <2>1. found = {[kind |-> "True", src |-> m.pc, sink |-> pc] :
                   m \in {n \in Range(t.WTrace) : n.mask \cap mask \cap t.GlobalWriteMask # {}}}
    BY <1>2, <1>5 DEF FoundLID, ReadLID, mask
  <2> HIDE DEF found
  <2>2. ASSUME NEW d \in found
        PROVE  /\ d.sink = pc /\ d.kind = "True"
               /\ \E k \in DOMAIN s : s[k].pc = d.src /\ \E b \in mask : LastOn(s, k, b)
    <3>1. PICK m \in Range(t.WTrace) : /\ m.mask \cap mask \cap t.GlobalWriteMask # {}
                                       /\ d = [kind |-> "True", src |-> m.pc, sink |-> pc]
      BY <2>1, <2>2
    <3>2. PICK x \in DOMAIN t.WTrace : m = t.WTrace[x]
      BY <1>4
    <3>3. PICK b : b \in m.mask /\ b \in mask
      BY <3>1
    <3>4. PICK k \in DOMAIN s : s[k].pc = m.pc /\ LastOn(s, k, b)
      BY <3>2, <3>3, <1>1
    <3>5. d.sink = pc /\ d.kind = "True" /\ d.src = m.pc
      BY <3>1
    <3> QED
      BY <3>3, <3>4, <3>5
  <2>3. ASSUME NEW k \in DOMAIN s, NEW b \in mask, LastOn(s, k, b), ~ Shorter(s, k)
        PROVE  [kind |-> "True", src |-> s[k].pc, sink |-> pc] \in found
    <3>1. PICK x \in DOMAIN t.WTrace : t.WTrace[x].pc = s[k].pc /\ b \in t.WTrace[x].mask
      BY <2>3, <1>1
    <3>2. b \in t.GlobalWriteMask
      BY <2>3, <1>1 DEF LastOn
    <3>3. t.WTrace[x] \in Range(t.WTrace)
      BY <1>4
    <3> QED
      BY <3>1, <3>2, <3>3, <2>1, <2>3
  <2>4. \A d \in found : d.kind # "Out"
    BY <2>2
  <2> QED
    BY <2>2, <2>3, <2>4, <1>5 DEF mask, found, e
<1>6. CASE pc.write
  <2> DEFINE out == FirstCovering(t.WTrace, mask \cap t.GlobalWriteMask)
             anti == FirstCovering(e.RTrace, mask \cap e.GlobalReadMask)
  <2>1. found \subseteq {[kind |-> "Out", src |-> n.pc, sink |-> pc] : n \in out}
                        \cup {[kind |-> "Anti", src |-> n.pc, sink |-> pc] : n \in anti}
    BY <1>2, <1>6 DEF FoundLID, WriteLID, mask
  <2>2. ASSUME NEW m \in out
        PROVE  \E x \in DOMAIN t.WTrace : m = t.WTrace[x] /\ m.mask \cap mask # {}
    BY <2>2 DEF FirstCovering
  <2> HIDE DEF found, out, anti
  <2>3. ASSUME NEW d \in found
        PROVE  /\ d.sink = pc /\ d.kind # "True"
               /\ d.kind = "Out" =>
                    \E k \in DOMAIN s : s[k].pc = d.src /\ \E b \in mask : LastOn(s, k, b)
    <3>1. CASE d \in {[kind |-> "Out", src |-> n.pc, sink |-> pc] : n \in out}
      <4>1. PICK m \in out : d = [kind |-> "Out", src |-> m.pc, sink |-> pc]
        BY <3>1
      <4>2. PICK x \in DOMAIN t.WTrace : m = t.WTrace[x] /\ m.mask \cap mask # {}
        BY <2>2
      <4>3. PICK b : b \in m.mask /\ b \in mask
        BY <4>2
      <4>4. PICK k \in DOMAIN s : s[k].pc = m.pc /\ LastOn(s, k, b)
        BY <4>2, <4>3, <1>1
      <4>5. d.sink = pc /\ d.kind = "Out" /\ d.src = m.pc
        BY <4>1
      <4> QED
        BY <4>3, <4>4, <4>5
    <3>2. CASE d \in {[kind |-> "Anti", src |-> n.pc, sink |-> pc] : n \in anti}
      BY <3>2
    <3> QED
      BY <3>1, <3>2, <2>1, <2>3
  <2> QED
    BY <2>3, <1>6 DEF mask, found, e
<1> QED
  BY <1>3, <1>5, <1>6

-----------------------------------------------------------------------------
(***************************************************************************)
(* The precede tables and the loop-carried dependences.                    *)
(***************************************************************************)
LEMMA AddToPrecedeIs ==
  ASSUME NEW precede, NEW present, NEW iter
  PROVE  LET after == Word!AddToPrecede(precede, present, iter) IN
         /\ \A q \in after : q \in precede \/
              \E n \in present : q = [pc |-> n.pc, mask |-> n.mask, iter |-> iter]
         /\ \A n \in present : [pc |-> n.pc, mask |-> n.mask, iter |-> iter] \in after
         /\ \A q \in precede : q \in after \/
              [pc |-> q.pc, mask |-> q.mask, iter |-> iter] \in after
<1> DEFINE new == {[pc |-> n.pc, mask |-> n.mask, iter |-> iter] : n \in present}
           old == {q \in precede : \A n \in present : <<n.pc, n.mask>> # <<q.pc, q.mask>>}
           after == Word!AddToPrecede(precede, present, iter)
<1>1. after = old \cup new
  BY DEF Word!AddToPrecede
<1> HIDE DEF after
<1>2. \A n \in present : [pc |-> n.pc, mask |-> n.mask, iter |-> iter] \in new
  OBVIOUS
<1>3. ASSUME NEW q \in precede, q \notin old
      PROVE  [pc |-> q.pc, mask |-> q.mask, iter |-> iter] \in new
  <2>1. PICK n \in present : <<n.pc, n.mask>> = <<q.pc, q.mask>>
    BY <1>3
  <2>2. n.pc = q.pc /\ n.mask = q.mask
    BY <2>1
  <2> QED
    BY <2>2, <1>2
<1>4. \A q \in new : \E n \in present : q = [pc |-> n.pc, mask |-> n.mask, iter |-> iter]
  OBVIOUS
<1>5. \A q \in old : q \in precede
  OBVIOUS
<1> HIDE DEF old, new
<1> QED
  BY <1>1, <1>2, <1>3, <1>4, <1>5 DEF after

\* The loop-carried dependences are those of the pairs of nodes that share a byte
\* of the mask.
LEMMA CarriedIs ==
  ASSUME NEW kind, NEW sinks, NEW sinkMask, NEW sources, NEW iter
  PROVE  LET found == Word!Carried(kind, sinks, sinkMask, sources, iter) IN
         /\ \A d \in found : \E n \in sinks, q \in sources :
              d = <<kind, q.pc, n.pc, iter - q.iter>>
         /\ \A n \in sinks, q \in sources :
              (\E b : b \in sinkMask /\ b \in n.mask /\ b \in q.mask)
                => <<kind, q.pc, n.pc, iter - q.iter>> \in found
<1> DEFINE pairs == {pq \in sinks \X sources : pq[1].mask \cap pq[2].mask # {}}
           found == Word!Carried(kind, sinks, sinkMask, sources, iter)
<1>1. found = IF sinkMask \cap UNION {n.mask : n \in sources} = {} THEN {}
              ELSE {<<kind, pair[2].pc, pair[1].pc, iter - pair[2].iter>> : pair \in pairs}
  BY DEF Word!Carried, Word!GlobalMask
<1> HIDE DEF found
<1>2. ASSUME NEW d \in found
      PROVE  \E n \in sinks, q \in sources : d = <<kind, q.pc, n.pc, iter - q.iter>>
  <2>1. PICK pair \in pairs : d = <<kind, pair[2].pc, pair[1].pc, iter - pair[2].iter>>
    BY <1>1, <1>2
  <2>2. pair[1] \in sinks /\ pair[2] \in sources
    OBVIOUS
  <2> QED
    BY <2>1, <2>2
<1>3. ASSUME NEW n \in sinks, NEW q \in sources,
             NEW b, b \in sinkMask, b \in n.mask, b \in q.mask
      PROVE  <<kind, q.pc, n.pc, iter - q.iter>> \in found
  <2>1. b \in UNION {m.mask : m \in sources}
    BY <1>3
  <2>2. sinkMask \cap UNION {m.mask : m \in sources} # {}
    BY <2>1, <1>3
  <2>3. <<n, q>> \in pairs /\ <<n, q>>[1] = n /\ <<n, q>>[2] = q
    BY <1>3
  <2>4. found = {<<kind, pair[2].pc, pair[1].pc, iter - pair[2].iter>> : pair \in pairs}
    BY <2>2, <1>1
  <2> HIDE DEF pairs
  <2> QED
    BY <2>3, <2>4
<1> QED
  BY <1>2, <1>3 DEF found

-----------------------------------------------------------------------------
(***************************************************************************)
(* The inductive invariant, in parts.  First what the variables hold ...   *)
(***************************************************************************)
Input == [kind : {"start"}, iter : Iter, table : Table, word : BOOLEAN]

ReadyTrace ==
  [state : {"ready"}, from : Proc, Present : [Table -> TableOver(PC)],
   PrecedeR : SUBSET PrecedeNodes, PrecedeW : SUBSET PrecedeNodes]

Shape ==
  /\ owner \in [Iter -> Proc]
  /\ trace \in {NoTrace} \cup {RawTrace(p) : p \in Proc} \cup ReadyTrace
  /\ trace.state = "ready" => \A t \in Table : TableOK(trace.Present[t])
  /\ at \in [Proc -> 1 .. NoIter]
  /\ task \in [Proc -> {"idle", "reading", "allocating", "filling", "spinning", "done",
                        "crashed"}]
  /\ item \in [Proc -> PC \cup {NoItem}]
  /\ ProcWPresNum \in [Proc -> 0 .. PRESNUM - 1]
  /\ PresIsFull \in [Table -> BOOLEAN]
  /\ inInterval \in [Proc -> BOOLEAN]
  /\ ProcNextLidep \in [Proc -> Input \cup {NoInput}]
  /\ inputs \in Seq(Input)
  /\ chained \in BOOLEAN
  /\ LoopIterPresNum \in [Iter -> Table \cup {NoTable}]
  /\ FinishedLoopIter \in 0 .. NumIters
  /\ accesses \in [Iter -> Seq(Access)]
  /\ torn \subseteq Iter
  /\ by \in [Iter -> 0 .. NumIters]

(***************************************************************************)
(* ... then how the iterations share the present tables: the table of an   *)
(* iteration that has ended stays full until it is analysed, and so is not *)
(* the table of any other iteration meanwhile ...                          *)
(***************************************************************************)
Index(p, i) == Cardinality({k \in Iter : k < i /\ owner[k] = p}) % PRESNUM

Ended(i) == i < at[owner[i]]

Making(p) == task[p] \in {"allocating", "filling"}

\* A process reads the accesses of its own iterations, into the table of each.
Owning ==
  \A p \in Proc, i \in 1 .. NoIter : at[p] = i =>
    /\ i \in Iter => owner[i] = p
    /\ ProcWPresNum[p] = Index(p, i)
    /\ task[p] \in {"reading", "allocating", "filling"} => i \in Iter

\* A task that goes to allocate, or fills in, has one access, for which there was
\* no Trace.
Items ==
  \A p \in Proc : Making(p) =>
    /\ item[p] \in PC
    /\ accesses[at[p]] = <<[pc |-> item[p], found |-> FALSE]>>

\* What a task hands over is an iteration that has ended.
Results ==
  \A p \in Proc :
    /\ task[p] = "spinning" => ProcNextLidep[p].kind = "start"
    /\ ProcNextLidep[p].kind = "start" => task[p] \in {"spinning", "done"}
    /\ \A i \in Iter : ProcNextLidep[p].kind = "start" /\ ProcNextLidep[p].iter = i =>
         owner[i] = p /\ Ended(i) /\ ProcNextLidep[p].table = TableOf(i)

Handed ==
  /\ \A k \in DOMAIN inputs : \A i \in Iter : inputs[k].iter = i =>
       Ended(i) /\ inputs[k].table = TableOf(i)
  /\ \A i \in Iter : LoopIterPresNum[i] # NoTable =>
       Ended(i) /\ LoopIterPresNum[i] = TableOf(i)

\* Only the iterations up to the present one of their process have accesses.
Running ==
  \A i \in Iter : accesses[i] # <<>> =>
    Ended(i) \/ (i = at[owner[i]] /\ task[owner[i]] # "spinning")

\* The iterations are analysed in order, with inputs that are not later.
Analyses ==
  /\ \A i \in Iter : i =< FinishedLoopIter => LoopIterPresNum[i] # NoTable /\ by[i] # 0
  /\ \A i \in Iter : i > FinishedLoopIter => by[i] = 0
  /\ \A i, m \in Iter : by[i] = m => m =< i /\ Ended(m)
  /\ chained =>
       /\ inputs # <<>>
       /\ FinishedLoopIter < NumIters
       /\ LoopIterPresNum[FinishedLoopIter + 1] # NoTable
       /\ inputs[1].iter =< FinishedLoopIter + 1
       /\ \A i \in Iter : by[i] =< inputs[1].iter

Tables ==
  /\ \A i \in Iter : i > FinishedLoopIter /\ Ended(i) => PresIsFull[TableOf(i)]
  /\ \A p \in Proc : task[p] # "spinning" => ~ PresIsFull[<<p, ProcWPresNum[p]>>]
  /\ \A i, j \in Iter : FinishedLoopIter < i /\ i < j /\ Ended(j) => TableOf(i) # TableOf(j)

(***************************************************************************)
(* ... when there is a Trace, and when it may still be replaced: not any   *)
(* more when the analysis has been told of the word ...                    *)
(***************************************************************************)
Settled == trace.state = "ready" /\ \A p \in Proc : ~ Making(p)

Received(i) == LoopIterPresNum[i] # NoTable \/ \E k \in DOMAIN inputs : inputs[k].iter = i

Made ==
  /\ trace.state = "null" =>
       /\ \A p \in Proc : task[p] # "filling" /\ ~ inInterval[p]
       /\ \A p \in Proc : ProcNextLidep[p].kind = "start" => ~ ProcNextLidep[p].word
       /\ \A i \in Iter : accesses[i] # <<>> => i = at[owner[i]] /\ task[owner[i]] = "allocating"
  /\ trace.state = "raw" =>
       /\ task[trace.from] = "filling"
       /\ \A i \in Iter : accesses[i] # <<>> /\ i \notin torn =>
            i = at[owner[i]] /\ task[owner[i]] \in {"allocating", "filling"}
  /\ \A p \in Proc : task[p] = "filling" /\ at[p] \notin torn => trace = RawTrace(p)
  /\ \A i \in torn : accesses[i] # <<>>

Told ==
  /\ (\E k \in DOMAIN inputs : inputs[k].word) => Settled
  /\ (\E i \in Iter : Received(i) /\ Known(i)) => Settled

Makes == Made /\ Told

\* The analysis is told of the word if the first access found a Trace and read.
Tells ==
  /\ trace.state = "ready" =>
       \A t \in Table : \A i \in Iter : trace.Present[t].RWIter = i => accesses[i] # <<>>
  /\ \A p \in Proc : \A i \in Iter :
       /\ at[p] = i /\ Known(i) => inInterval[p]
       /\ ProcNextLidep[p].kind = "start" /\ ProcNextLidep[p].iter = i /\ Known(i) =>
            IF task[p] = "spinning" THEN inInterval[p] ELSE ProcNextLidep[p].word
  /\ \A k \in DOMAIN inputs : \A i \in Iter : inputs[k].iter = i /\ Known(i) => inputs[k].word

(***************************************************************************)
(* ... and what is in the tables.                                          *)
(***************************************************************************)
\* The instructions of the iterations that table t has been the table of
UsedBy(t) ==
  {pc \in PC : \E k \in Iter : TableOf(k) = t /\ \E x \in DOMAIN accesses[k] : accesses[k][x].pc = pc}

TookPart(pc, i) ==
  \E k \in Iter : /\ k =< i /\ TableOf(k) = TableOf(i)
                  /\ \E x \in DOMAIN accesses[k] : accesses[k][x].pc = pc

Holds ==
  trace.state = "ready" =>
    /\ \A t \in Table : \A Q \in SUBSET PC : UsedBy(t) \subseteq Q => trace.Present[t] \in TableOver(Q)
    /\ \A q \in trace.PrecedeR \cup trace.PrecedeW :
         \E pc \in {q.pc}, i \in Iter : i =< FinishedLoopIter /\ by[i] = q.iter /\ TookPart(pc, i)

\* LCDSound, of one dependence
Carries ==
  \A d \in LCD : \E src \in {d.src}, sink \in {d.sink}, i, j \in Iter :
    /\ d.iter = j /\ j =< FinishedLoopIter /\ TookPart(sink, j)
    /\ i < j /\ TookPart(src, i) /\ d.dist = by[j] - by[i]

\* The table of an iteration that found it empty, until it is analysed
Faithful ==
  trace.state = "ready" =>
    \A i \in Iter :
      /\ i > FinishedLoopIter /\ Clean(i)
      /\ \A p \in Proc : owner[i] = p /\ at[p] = i => ~ Making(p)
      => \A t \in {trace.Present[TableOf(i)]}, s \in {accesses[i]} : Matches(t, i, s)

Finds == \A d \in LID : d.iter \in Iter /\ accesses[d.iter] # <<>>

\* Access l reaches back to the write k, with no other in between.
Reaches(s, k, l) ==
  /\ k \in DOMAIN s /\ l \in DOMAIN s /\ k < l /\ s[k].pc.write
  /\ \E b \in 0 .. 7 : /\ Covers(s[k], b) /\ Covers(s[l], b)
                       /\ \A j \in k + 1 .. l - 1 : ~ WritesByte(s, j, b)

\* LIDExact, of one iteration with the accesses s
Exact(D, i, s) ==
  /\ \A k, l \in DOMAIN s : Reaches(s, k, l) /\ ~ s[l].pc.write /\ ~ Shorter(s, k) =>
       [dep |-> [kind |-> "True", src |-> s[k].pc, sink |-> s[l].pc], iter |-> i] \in D
  /\ \A d \in D : d.iter = i /\ d.dep.kind \in {"True", "Out"} =>
       \E k, l \in DOMAIN s : /\ Reaches(s, k, l) /\ (s[l].pc.write <=> d.dep.kind = "Out")
                              /\ d.dep.src = s[k].pc /\ d.dep.sink = s[l].pc

Exacts ==
  \A i \in Iter : Clean(i) => \A s \in {accesses[i]}, D \in {LID} : Exact(D, i, s)

\* The first read and the last write of an iteration with the accesses s
Reads(s, pc) == s # <<>> /\ ~ s[1].pc.write /\ s[1].pc = pc
LastWrites(s, pc) ==
  \E k \in DOMAIN s : /\ s[k].pc.write /\ s[k].pc = pc /\ ~ Shorter(s, k)
                      /\ \A l \in DOMAIN s : s[l].pc.write => l =< k

\* What the analysis knows of iteration i, by itself
Own(i) == Clean(i) /\ Known(i) /\ by[i] = i

Listed(precede, pc, i) == \E q \in precede : q.pc = pc /\ 0 \in q.mask /\ q.iter >= i

Precedes ==
  \A i \in Iter : Own(i) => \A s \in {accesses[i]}, pc \in PC :
    /\ \A R \in {trace.PrecedeR} : Reads(s, pc) => Listed(R, pc, i)
    /\ \A W \in {trace.PrecedeW} : LastWrites(s, pc) => Listed(W, pc, i)

IsFound(D, kind, src, sink, i, j) ==
  \E d \in D : /\ d.kind = kind /\ d.src = src /\ d.sink = sink
               /\ d.iter = j /\ d.dist \in 1 .. j - i

Completes ==
  \A i, j \in Iter : i < j /\ Own(i) /\ Own(j) =>
    \A s \in {accesses[i]}, r \in {accesses[j]}, D \in {LCD}, src, sink \in PC :
      /\ LastWrites(s, src) /\ Reads(r, sink) => IsFound(D, "True", src, sink, i, j)
      /\ Reads(s, src) /\ LastWrites(r, sink) => IsFound(D, "Anti", src, sink, i, j)
      /\ LastWrites(s, src) /\ LastWrites(r, sink) => IsFound(D, "Out", src, sink, i, j)

Inv ==
  /\ Shape /\ Owning /\ Items /\ Results /\ Handed /\ Running /\ Analyses /\ Tables
  /\ Makes /\ Tells /\ Holds /\ Carries /\ Faithful /\ Finds /\ Exacts /\ Precedes /\ Completes

-----------------------------------------------------------------------------
(***************************************************************************)
(* Which iterations a process runs, and in which tables.                   *)
(***************************************************************************)
LEMMA DivMod ==
  ASSUME NEW a \in Nat, NEW d \in Nat \ {0}
  PROVE  a \div d \in Nat /\ a % d \in 0 .. d - 1 /\ a = d * (a \div d) + (a % d)
  BY SMT

\* p and q are quotients by d, r and s remainders, of one number.
Divided(d, p, r, q, s) ==
  /\ d \in Nat \ {0} /\ p \in Nat /\ q \in Nat /\ r \in 0 .. d - 1 /\ s \in 0 .. d - 1
  /\ d * p + r = d * q + s

\* Quotient and remainder are unique.
LEMMA DivUnique ==
  ASSUME NEW d, NEW p, NEW r, NEW q, NEW s, Divided(d, p, r, q, s)
  PROVE  p = q /\ r = s
  BY SMT DEF Divided

\* The remainder of a number that is a multiple and a rest is the rest.
LEMMA ModIs ==
  ASSUME NEW d \in Nat \ {0}, NEW q \in Nat, NEW r \in 0 .. d - 1, NEW a \in Nat,
         a = d * q + r
  PROVE  a % d = r
<1> DEFINE q2 == a \div d
           r2 == a % d
<1>1. q2 \in Nat /\ r2 \in 0 .. d - 1 /\ a = d * q2 + r2
  BY DivMod
<1> HIDE DEF q2, r2
<1>2. Divided(d, q2, r2, q, r)
  BY <1>1 DEF Divided
<1>3. r2 = r
  BY <1>2, DivUnique
<1> QED
  BY <1>3 DEF r2

\* Counting modulo a number: the remainder of the next number.
LEMMA ModNext ==
  ASSUME NEW n \in Nat, NEW d \in Nat \ {0}
  PROVE  /\ n % d \in 0 .. d - 1
         /\ (n + 1) % d = ((n % d) + 1) % d
<1> DEFINE q == n \div d
           r == n % d
<1>1. q \in Nat /\ r \in 0 .. d - 1 /\ n = d * q + r
  BY DivMod
<1> HIDE DEF q, r
<1>2. CASE r + 1 < d
  <2>1. r + 1 \in 0 .. d - 1 /\ n + 1 \in Nat /\ n + 1 = d * q + (r + 1)
    BY <1>1, <1>2
  <2>2. (n + 1) % d = r + 1
    BY <2>1, <1>1, ModIs
  <2>3. r + 1 \in Nat /\ 0 \in Nat /\ r + 1 = d * 0 + (r + 1)
    BY <1>1
  <2>4. (r + 1) % d = r + 1
    BY <2>1, <2>3, ModIs
  <2> QED BY <2>2, <2>4, <1>1 DEF r
<1>3. CASE ~ (r + 1 < d)
  <2>1. r + 1 = d
    BY <1>1, <1>3
  <2>2. q + 1 \in Nat /\ 0 \in 0 .. d - 1 /\ n + 1 \in Nat /\ d * (q + 1) = d * q + d
    BY <1>1
  <2>3. n + 1 = d * (q + 1) + 0
    BY <2>1, <2>2, <1>1
  <2>4. (n + 1) % d = 0
    <3> DEFINE q1 == q + 1
               n1 == n + 1
    <3>1. q1 \in Nat /\ n1 \in Nat /\ 0 \in 0 .. d - 1 /\ n1 = d * q1 + 0
      BY <2>2, <2>3
    <3> HIDE DEF q1, n1
    <3>2. n1 % d = 0
      BY <3>1, ModIs
    <3> QED BY <3>2 DEF n1
  <2>5. d \in Nat /\ 1 \in Nat /\ d = d * 1 + 0
    OBVIOUS
  <2>6. d % d = 0
    BY <2>2, <2>5, ModIs
  <2> QED BY <2>1, <2>4, <2>6, <1>1 DEF r
<1> QED
  BY <1>2, <1>3

\* The next iteration of a process is its own, and none in between is.
LEMMA NextOwnedIs ==
  ASSUME owner \in [Iter -> Proc], NEW p \in Proc, NEW i \in 0 .. NumIters
  PROVE  LET k == NextOwned(p, i) IN
         /\ k \in i + 1 .. NoIter
         /\ k \in Iter => owner[k] = p
         /\ \A l \in Iter : i < l /\ l < k => owner[l] # p
         /\ k \in 1 .. NoIter /\ i < k
<1> DEFINE T == {k \in i + 1 .. NoIter : k = NoIter \/ owner[k] = p}
           Is(k) == /\ k = NoIter \/ owner[k] = p
                    /\ \A l \in i + 1 .. k - 1 : owner[l] # p
           k == NextOwned(p, i)
<1>1. NumIters \in Nat /\ NoIter = NumIters + 1 /\ Iter = 1 .. NumIters
  BY ParallelTraceAssumption DEF NoIter, Iter
<1>2. T \subseteq Nat /\ NoIter \in T
  BY <1>1
<1>3. PICK m \in T : \A l \in T : m =< l
  <2> HIDE DEF T
  <2> QED BY <1>2, LeastNumber
<1>4. m \in i + 1 .. NoIter /\ (m = NoIter \/ owner[m] = p)
  BY <1>3
<1>5. ASSUME NEW l \in i + 1 .. m - 1 PROVE owner[l] # p
  <2>1. l \in i + 1 .. NoIter /\ ~ (m =< l)
    BY <1>1, <1>4
  <2>2. l \notin T
    BY <2>1, <1>3
  <2> QED BY <2>1, <2>2
<1>6. \E n \in i + 1 .. NoIter : Is(n)
  BY <1>4, <1>5
<1>7. k = CHOOSE n \in i + 1 .. NoIter : Is(n)
  BY DEF NextOwned
<1> HIDE DEF Is, k
<1>8. k \in i + 1 .. NoIter /\ Is(k)
  BY <1>6, <1>7, Zenon
<1>9. k = NoIter \/ owner[k] = p
  BY <1>8 DEF Is
<1>10. \A l \in i + 1 .. k - 1 : owner[l] # p
  BY <1>8 DEF Is
<1>11. \A l \in Iter : i < l /\ l < k => l \in i + 1 .. k - 1
  BY <1>1, <1>8
<1> QED
  BY <1>1, <1>8, <1>9, <1>10, <1>11 DEF k

\* The first iteration of a process uses its table 0.
LEMMA IndexFirst ==
  ASSUME owner \in [Iter -> Proc], NEW p \in Proc
  PROVE  Index(p, NextOwned(p, 0)) = 0
<1>1. NumIters \in Nat /\ PRESNUM \in Nat \ {0}
  BY ParallelTraceAssumption
<1>2. 0 \in 0 .. NumIters
  BY <1>1
<1> DEFINE k == NextOwned(p, 0)
<1>3. \A l \in Iter : 0 < l /\ l < k => owner[l] # p
  BY <1>2, NextOwnedIs
<1>4. \A l \in Iter : 0 < l
  BY DEF Iter
<1> HIDE DEF k
<1>5. {l \in Iter : l < k /\ owner[l] = p} = {}
  BY <1>3, <1>4
<1>6. Index(p, k) = 0 % PRESNUM
  BY <1>5, FS_EmptySet DEF Index
<1>7. 0 % PRESNUM = 0
  BY <1>1
<1> QED
  BY <1>6, <1>7 DEF k

\* The iterations of a process before another one can be counted.
LEMMA CountOwned ==
  ASSUME NEW p, NEW i
  PROVE  /\ IsFiniteSet({k \in Iter : k < i /\ owner[k] = p})
         /\ Cardinality({k \in Iter : k < i /\ owner[k] = p}) \in Nat
<1> DEFINE S == {k \in Iter : k < i /\ owner[k] = p}
<1>1. IsFiniteSet(Iter)
  BY ParallelTraceAssumption, FS_Interval DEF Iter
<1>2. IsFiniteSet(S)
  BY <1>1, FS_Subset
<1> HIDE DEF S
<1>3. Cardinality(S) \in Nat
  BY <1>2, FS_CardinalityType
<1> QED
  BY <1>2, <1>3 DEF S

\* The next iteration of a process uses its next table.
LEMMA IndexNext ==
  ASSUME owner \in [Iter -> Proc], NEW p \in Proc, NEW i \in Iter, owner[i] = p
  PROVE  /\ Index(p, i) \in 0 .. PRESNUM - 1
         /\ Index(p, NextOwned(p, i)) = (Index(p, i) + 1) % PRESNUM
<1> DEFINE k == NextOwned(p, i)
           S == {l \in Iter : l < i /\ owner[l] = p}
           R == {l \in Iter : l < k /\ owner[l] = p}
<1>1. NumIters \in Nat /\ PRESNUM \in Nat \ {0} /\ Iter = 1 .. NumIters
  BY ParallelTraceAssumption DEF Iter
<1>2. i \in 0 .. NumIters
  BY <1>1
<1>3. k \in 1 .. NoIter /\ i < k /\ \A l \in Iter : i < l /\ l < k => owner[l] # p
  BY <1>2, NextOwnedIs
<1>4. k \in Nat
  BY <1>1, <1>3 DEF NoIter
<1> HIDE DEF k
<1>5. R = S \cup {i} /\ i \notin S
  <2>1. \A l \in Iter : l < k /\ owner[l] = p <=> (l < i /\ owner[l] = p) \/ l = i
    BY <1>1, <1>3, <1>4
  <2>2. ~ (i < i)
    BY <1>1
  <2> QED BY <2>1, <2>2
<1>6. IsFiniteSet(S) /\ Cardinality(S) \in Nat
  BY CountOwned
<1> HIDE DEF R, S
<1>7. Cardinality(R) = Cardinality(S) + 1
  BY <1>5, <1>6, FS_AddElement
<1>8. Index(p, i) = Cardinality(S) % PRESNUM /\ Index(p, k) = Cardinality(R) % PRESNUM
  BY DEF Index, R, S
<1> QED
  BY <1>1, <1>6, <1>7, <1>8, ModNext DEF k

\* The table of an iteration is one of its process.
LEMMA TableOfIs ==
  ASSUME owner \in [Iter -> Proc], NEW i \in Iter
  PROVE  TableOf(i) = <<owner[i], Index(owner[i], i)>> /\ TableOf(i) \in Table
<1>1. Index(owner[i], i) \in 0 .. PRESNUM - 1
  BY IndexNext
<1> QED
  BY <1>1 DEF TableOf, Index, Table

-----------------------------------------------------------------------------
(***************************************************************************)
(* The Trace and its tables.                                               *)
(***************************************************************************)
LEMMA TraceStates ==
  ASSUME Shape
  PROVE  /\ trace.state \in {"null", "raw", "ready"}
         /\ trace.state = "null" => trace = NoTrace
         /\ trace.state = "raw" => trace.from \in Proc /\ trace = RawTrace(trace.from)
         /\ trace.state = "ready" => trace \in ReadyTrace
<1>1. CASE trace = NoTrace
  BY <1>1 DEF NoTrace
<1>2. CASE trace \in {RawTrace(p) : p \in Proc}
  <2>1. PICK p \in Proc : trace = RawTrace(p)
    BY <1>2
  <2>2. trace.state = "raw" /\ trace.from = p
    BY <2>1 DEF RawTrace
  <2> QED BY <2>1, <2>2
<1>3. CASE trace \in ReadyTrace
  BY <1>3 DEF ReadyTrace
<1> QED
  BY <1>1, <1>2, <1>3 DEF Shape

\* The fields of a Trace that is filled in, which they determine.
LEMMA ReadyFields ==
  ASSUME NEW tr \in ReadyTrace
  PROVE  /\ tr.state = "ready" /\ tr.from \in Proc /\ tr.Present \in [Table -> TableOver(PC)]
         /\ tr.PrecedeR \in SUBSET PrecedeNodes /\ tr.PrecedeW \in SUBSET PrecedeNodes
         /\ tr = [state |-> "ready", from |-> tr.from, Present |-> tr.Present,
                  PrecedeR |-> tr.PrecedeR, PrecedeW |-> tr.PrecedeW]
  BY DEF ReadyTrace

\* A new Trace has empty tables.
LEMMA EmptyTraceIs ==
  ASSUME NEW p \in Proc
  PROVE  /\ EmptyTrace(p) \in ReadyTrace
         /\ \A t \in Table : EmptyTrace(p).Present[t] = EmptyTable
         /\ EmptyTrace(p).PrecedeR = {} /\ EmptyTrace(p).PrecedeW = {}
<1>1. EmptyTable \in TableOver(PC)
  BY EmptyTableType
<1> QED
  BY <1>1 DEF EmptyTrace, ReadyTrace

\* One table of a Trace replaced
LEMMA WithTable ==
  ASSUME NEW tr \in ReadyTrace, NEW c \in Table, NEW u \in TableOver(PC)
  PROVE  LET new == [tr EXCEPT !.Present[c] = u] IN
         /\ new \in ReadyTrace /\ new.state = "ready"
         /\ new.Present[c] = u /\ \A t \in Table : t # c => new.Present[t] = tr.Present[t]
         /\ new.PrecedeR = tr.PrecedeR /\ new.PrecedeW = tr.PrecedeW
<1>1. tr.Present \in [Table -> TableOver(PC)]
  BY ReadyFields
<1> DEFINE P == [tr.Present EXCEPT ![c] = u]
<1>2. /\ P \in [Table -> TableOver(PC)] /\ P[c] = u
      /\ \A t \in Table : t # c => P[t] = tr.Present[t]
  BY <1>1
<1>3. [tr EXCEPT !.Present[c] = u] = [tr EXCEPT !.Present = P]
  BY DEF ReadyTrace
<1> HIDE DEF P
<1> QED
  BY <1>2, <1>3 DEF ReadyTrace

\* The precede tables of Trace tr are replaced, and present table c is emptied.
AfterDoLCDA(tr, c, R, W) ==
  [tr EXCEPT !.PrecedeR = R, !.PrecedeW = W, !.Present[c] = EmptyTable]

CanDoLCDA(tr, c, R, W) ==
  tr \in ReadyTrace /\ c \in Table /\ R \in SUBSET PrecedeNodes /\ W \in SUBSET PrecedeNodes

\* What becomes of Trace tr
IsAfterLCDA(new, tr, c, R, W) ==
  /\ new \in ReadyTrace /\ new.state = "ready"
  /\ new.Present[c] = EmptyTable
  /\ \A t \in Table : t # c => new.Present[t] = tr.Present[t]
  /\ new.PrecedeR = R /\ new.PrecedeW = W

\* The analysis empties the one present table and touches no other.
LEMMA AfterLCDA ==
  ASSUME NEW tr, NEW c, NEW R, NEW W, CanDoLCDA(tr, c, R, W)
  PROVE  IsAfterLCDA(AfterDoLCDA(tr, c, R, W), tr, c, R, W)
<1>0. tr \in ReadyTrace /\ c \in Table /\ R \in SUBSET PrecedeNodes /\ W \in SUBSET PrecedeNodes
  BY DEF CanDoLCDA
<1>1. tr.Present \in [Table -> TableOver(PC)] /\ EmptyTable \in TableOver(PC)
  BY <1>0, ReadyFields, EmptyTableType
<1> DEFINE P == [tr.Present EXCEPT ![c] = EmptyTable]
           new == AfterDoLCDA(tr, c, R, W)
<1>2. /\ P \in [Table -> TableOver(PC)] /\ P[c] = EmptyTable
      /\ \A t \in Table : t # c => P[t] = tr.Present[t]
  BY <1>0, <1>1
<1>3. new = [tr EXCEPT !.PrecedeR = R, !.PrecedeW = W, !.Present = P]
  BY <1>0 DEF ReadyTrace, AfterDoLCDA
<1> HIDE DEF P, new
<1>4. new.Present = P /\ new.PrecedeR = R /\ new.PrecedeW = W /\ new \in ReadyTrace
      /\ new.state = "ready"
  BY <1>0, <1>2, <1>3 DEF ReadyTrace
<1> QED
  BY <1>2, <1>4 DEF new, IsAfterLCDA

\* Adding the nodes of a present table to a precede table gives a precede table.
LEMMA PrecedeType ==
  ASSUME NEW precede \in SUBSET PrecedeNodes, NEW L \in Seq(NodesOf(PC)), NEW iter \in Iter
  PROVE  Word!AddToPrecede(precede, Range(L), iter) \in SUBSET PrecedeNodes
<1> DEFINE after == Word!AddToPrecede(precede, Range(L), iter)
<1>1. \A q \in after : q \in precede \/
        \E n \in Range(L) : q = [pc |-> n.pc, mask |-> n.mask, iter |-> iter]
  BY AddToPrecedeIs
<1> HIDE DEF after
<1>2. ASSUME NEW n \in Range(L)
      PROVE  [pc |-> n.pc, mask |-> n.mask, iter |-> iter] \in PrecedeNodes
  <2>1. n \in NodesOf(PC)
    BY InRange
  <2> QED BY <2>1 DEF NodesOf, PrecedeNodes
<1> QED
  BY <1>1, <1>2 DEF after

\* The table of process p
LEMMA PresentOfIs ==
  ASSUME Shape, NEW p \in Proc, trace.state = "ready"
  PROVE  /\ <<p, ProcWPresNum[p]>> \in Table
         /\ PresentOf(p) = trace.Present[<<p, ProcWPresNum[p]>>]
         /\ PresentOf(p) \in TableOver(PC) /\ TableOK(PresentOf(p))
<1>1. <<p, ProcWPresNum[p]>> \in Table
  BY DEF Shape, Table
<1>2. trace.Present \in [Table -> TableOver(PC)]
  BY TraceStates, ReadyFields
<1>3. TableOK(trace.Present[<<p, ProcWPresNum[p]>>])
  BY <1>1 DEF Shape
<1> QED
  BY <1>1, <1>2, <1>3 DEF PresentOf

\* What Check and Fill make of a table
LEMMA CheckedType ==
  ASSUME NEW Q \in SUBSET PC, NEW t \in TableOver(Q), TableOK(t), NEW pc \in Q, NEW i \in Iter
  PROVE  LET u == Update(EnterIteration(t, pc, i), pc) IN
         u \in TableOver(Q) /\ TableOK(u) /\ u.RWIter = i
<1>1. /\ EnterIteration(t, pc, i) \in TableOver(Q) /\ TableOK(EnterIteration(t, pc, i))
      /\ EnterIteration(t, pc, i).RWIter = i
  BY EnterType
<1> QED
  BY <1>1, UpdateType

\* A fresh table is entered alike by a read and a write.
LEMMA FilledIs ==
  ASSUME NEW pc \in PC, NEW i \in Iter
  PROVE  Update([EmptyTable EXCEPT !.RWIter = i], pc) = Update(EnterIteration(EmptyTable, pc, i), pc)
<1>1. i # 0
  BY DEF Iter
<1>2. EnterIteration(EmptyTable, pc, i) = [EmptyTable EXCEPT !.RWIter = i]
  <2>1. EmptyTable.RWIter # i
    BY <1>1 DEF EmptyTable
  <2>2. CASE pc.write
    <3>1. EnterIteration(EmptyTable, pc, i)
            = [EmptyTable EXCEPT !.RWIter = i, !.GlobalReadMask = {}, !.GlobalWriteMask = {}]
      BY <2>1, <2>2 DEF EnterIteration
    <3>2. ASSUME NEW t \in TableOver(PC), t.GlobalReadMask = {}, t.GlobalWriteMask = {}
          PROVE  [t EXCEPT !.RWIter = i, !.GlobalReadMask = {}, !.GlobalWriteMask = {}]
                   = [t EXCEPT !.RWIter = i]
      BY <3>2 DEF TableOver
    <3>3. EmptyTable \in TableOver(PC)
      BY EmptyTableType
    <3>4. EmptyTable.GlobalReadMask = {} /\ EmptyTable.GlobalWriteMask = {}
      BY DEF EmptyTable
    <3> QED BY <3>1, <3>2, <3>3, <3>4
  <2>3. CASE ~ pc.write
    BY <2>1, <2>3 DEF EnterIteration
  <2> QED BY <2>2, <2>3
<1> QED
  BY <1>2

\* The Trace after a task has filled in its own
LEMMA FilledTrace ==
  ASSUME Shape, NEW p \in Proc, NEW pc \in PC, NEW i \in Iter
  PROVE  LET c == <<p, ProcWPresNum[p]>>
             new == [EmptyTrace(p) EXCEPT !.Present[c] = Update([@ EXCEPT !.RWIter = i], pc)] IN
         /\ new \in ReadyTrace /\ new.state = "ready"
         /\ new.Present[c] = Update(EnterIteration(EmptyTable, pc, i), pc)
         /\ \A t \in Table : t # c => new.Present[t] = EmptyTable
         /\ new.PrecedeR = {} /\ new.PrecedeW = {}
<1> DEFINE c == <<p, ProcWPresNum[p]>>
           u == Update([EmptyTable EXCEPT !.RWIter = i], pc)
           tr == EmptyTrace(p)
           new == [tr EXCEPT !.Present[c] = Update([@ EXCEPT !.RWIter = i], pc)]
<1>1. c \in Table
  BY DEF Shape, Table
<1>2. /\ tr \in ReadyTrace /\ \A t \in Table : tr.Present[t] = EmptyTable
      /\ tr.PrecedeR = {} /\ tr.PrecedeW = {}
  BY EmptyTraceIs
<1>3. u = Update(EnterIteration(EmptyTable, pc, i), pc)
  BY FilledIs
<1>4. u \in TableOver(PC)
  <2>1. EmptyTable \in TableOver(PC) /\ TableOK(EmptyTable)
    BY EmptyTableType
  <2> QED BY <2>1, <1>3, CheckedType
<1> HIDE DEF tr, c
<1>5. new = [tr EXCEPT !.Present[c] = u]
  <2>1. tr.Present[c] = EmptyTable
    BY <1>1, <1>2
  <2>2. new = [tr EXCEPT !.Present[c] = Update([tr.Present[c] EXCEPT !.RWIter = i], pc)]
    OBVIOUS
  <2> HIDE DEF new
  <2> QED BY <2>1, <2>2
<1> HIDE DEF u, new
<1>6. /\ new \in ReadyTrace /\ new.state = "ready"
      /\ new.Present[c] = u /\ \A t \in Table : t # c => new.Present[t] = tr.Present[t]
      /\ new.PrecedeR = tr.PrecedeR /\ new.PrecedeW = tr.PrecedeW
  BY <1>1, <1>2, <1>4, <1>5, WithTable
<1> QED
  BY <1>2, <1>3, <1>6 DEF new, tr, c


-----------------------------------------------------------------------------
(***************************************************************************)
(* The variables hold what they should.                                    *)
(***************************************************************************)
LEMMA Constants ==
  /\ NumIters \in Nat /\ Iter = 1 .. NumIters /\ NoIter = NumIters + 1
  /\ PROCNUM \in Nat \ {0} /\ PRESNUM \in Nat \ {0} /\ Proc = 0 .. PROCNUM - 1
  /\ Owners \subseteq [Iter -> Proc]
  BY ParallelTraceAssumption DEF Iter, NoIter, Proc

\* Where the numbers of iterations lie.
LEMMA IterIs ==
  \A i \in Iter : i \in 0 .. NumIters /\ i \in 1 .. NoIter /\ i \in Nat
  BY Constants

\* A table differs from the mark of an iteration without one.
LEMMA NoTableIs ==
  \A t \in Table : t # NoTable
<1> SUFFICES ASSUME NEW t \in Table PROVE t # <<>>
  BY DEF NoTable
<1>1. PICK p \in Proc, k \in 0 .. PRESNUM - 1 : t = <<p, k>>
  BY DEF Table
<1> QED BY <1>1

\* The variables have their types initially.
LEMMA InitShape ==
  ASSUME Init PROVE Shape
<1>1. owner \in [Iter -> Proc]
  BY Constants DEF Init
<1>2. trace = NoTrace /\ trace.state # "ready"
  BY DEF Init, NoTrace
<1>3. at \in [Proc -> 1 .. NoIter]
  <2>1. 0 \in 0 .. NumIters
    BY Constants
  <2>2. \A p \in Proc : NextOwned(p, 0) \in 1 .. NoIter
    BY <1>1, <2>1, NextOwnedIs
  <2> QED BY <2>2 DEF Init
<1>4. /\ task \in [Proc -> {"idle"}] /\ item \in [Proc -> {NoItem}]
      /\ ProcWPresNum \in [Proc -> {0}] /\ PresIsFull \in [Table -> {FALSE}]
      /\ inInterval \in [Proc -> {FALSE}] /\ ProcNextLidep \in [Proc -> {NoInput}]
      /\ inputs = <<>> /\ chained = FALSE /\ LoopIterPresNum \in [Iter -> {NoTable}]
      /\ FinishedLoopIter = 0 /\ torn = {}
  BY DEF Init
<1>5. 0 \in 0 .. PRESNUM - 1 /\ 0 \in 0 .. NumIters
  BY Constants
<1>6. accesses \in [Iter -> Seq(Access)]
  BY DEF Init
<1>7. by \in [Iter -> 0 .. NumIters]
  BY <1>5 DEF Init
<1>8. /\ task \in [Proc -> {"idle", "reading", "allocating", "filling", "spinning", "done",
                           "crashed"}]
      /\ item \in [Proc -> PC \cup {NoItem}] /\ PresIsFull \in [Table -> BOOLEAN]
      /\ inInterval \in [Proc -> BOOLEAN] /\ ProcNextLidep \in [Proc -> Input \cup {NoInput}]
      /\ LoopIterPresNum \in [Iter -> Table \cup {NoTable}]
  BY <1>4
<1>9. ProcWPresNum \in [Proc -> 0 .. PRESNUM - 1]
  BY <1>4, <1>5
<1>10. inputs \in Seq(Input) /\ chained \in BOOLEAN /\ FinishedLoopIter \in 0 .. NumIters
       /\ torn \subseteq Iter
  <2>1. <<>> \in Seq(Input)
    OBVIOUS
  <2>2. inputs \in Seq(Input)
    BY <1>4, <2>1
  <2>3. chained \in BOOLEAN /\ FinishedLoopIter \in 0 .. NumIters
    BY <1>4, <1>5
  <2>4. torn \subseteq Iter
    BY <1>4
  <2> QED BY <2>2, <2>3, <2>4
<1> QED
  BY <1>1, <1>2, <1>3, <1>6, <1>7, <1>8, <1>9, <1>10 DEF Shape

\* The iteration and the table that a reading task is at
LEMMA Here ==
  ASSUME Shape, Owning, NEW p \in Proc, task[p] \in {"reading", "allocating", "filling"}
  PROVE  /\ at[p] \in Iter /\ owner[at[p]] = p
         /\ <<p, ProcWPresNum[p]>> \in Table /\ TableOf(at[p]) = <<p, ProcWPresNum[p]>>
<1>1. at[p] \in 1 .. NoIter
  BY DEF Shape
<1>2. /\ at[p] \in Iter /\ owner[at[p]] = p /\ ProcWPresNum[p] = Index(p, at[p])
  BY <1>1 DEF Owning
<1>3. owner \in [Iter -> Proc]
  BY DEF Shape
<1> DEFINE i == at[p]
<1> HIDE DEF i
<1>4. i \in Iter /\ owner[i] = p /\ ProcWPresNum[p] = Index(p, i)
  BY <1>2 DEF i
<1>5. TableOf(i) = <<p, ProcWPresNum[p]>> /\ TableOf(i) \in Table
  BY <1>3, <1>4, TableOfIs
<1> QED
  BY <1>4, <1>5 DEF i

\* An access appended to those of an iteration
LEMMA HappensType ==
  ASSUME Shape, NEW p \in Proc, at[p] \in Iter, NEW pc \in PC, Happens(p, pc)
  PROVE  /\ accesses' \in [Iter -> Seq(Access)]
         /\ accesses'[at[p]] = Append(accesses[at[p]], [pc |-> pc, found |-> trace.state = "ready"])
         /\ \A i \in Iter : i # at[p] => accesses'[i] = accesses[i]
<1> DEFINE f == trace.state = "ready"
           a == [pc |-> pc, found |-> f]
<1>1. f \in BOOLEAN
  OBVIOUS
<1> HIDE DEF f
<1>2. a \in Access
  BY <1>1 DEF Access
<1>3. accesses' = [accesses EXCEPT ![at[p]] = Append(@, a)]
  BY DEF Happens, f
<1> HIDE DEF a
<1>4. accesses \in [Iter -> Seq(Access)]
  BY DEF Shape
<1>5. accesses[at[p]] \in Seq(Access)
  BY <1>4
<1>6. Append(accesses[at[p]], a) \in Seq(Access)
  BY <1>2, <1>5
<1> QED
  BY <1>3, <1>4, <1>6 DEF a, f

\* What Check does to the Trace
LEMMA CheckTrace ==
  ASSUME Shape, Owning, NEW p \in Proc, Takes(p), trace.state = "ready", NEW pc \in PC,
         trace' = [trace EXCEPT !.Present[<<p, ProcWPresNum[p]>>]
                     = Update(EnterIteration(PresentOf(p), pc, at[p]), pc)]
  PROVE  LET c == <<p, ProcWPresNum[p]>>
             u == Update(EnterIteration(PresentOf(p), pc, at[p]), pc) IN
         /\ trace' \in ReadyTrace /\ trace'.state = "ready"
         /\ u \in TableOver(PC) /\ TableOK(u) /\ u.RWIter = at[p]
         /\ trace'.Present[c] = u
         /\ \A t \in Table : t # c => trace'.Present[t] = trace.Present[t]
         /\ trace'.PrecedeR = trace.PrecedeR /\ trace'.PrecedeW = trace.PrecedeW
<1> DEFINE c == <<p, ProcWPresNum[p]>>
           u == Update(EnterIteration(PresentOf(p), pc, at[p]), pc)
<1>1. at[p] \in Iter /\ c \in Table
  BY Here DEF Takes
<1>2. PresentOf(p) \in TableOver(PC) /\ TableOK(PresentOf(p))
  BY PresentOfIs
<1>3. u \in TableOver(PC) /\ TableOK(u) /\ u.RWIter = at[p]
  BY <1>1, <1>2, CheckedType
<1>4. trace \in ReadyTrace
  BY TraceStates
<1>5. trace' = [trace EXCEPT !.Present[c] = u]
  OBVIOUS
<1> HIDE DEF c, u
<1>6. LET new == [trace EXCEPT !.Present[c] = u] IN
         /\ new \in ReadyTrace /\ new.state = "ready"
         /\ new.Present[c] = u /\ \A t \in Table : t # c => new.Present[t] = trace.Present[t]
         /\ new.PrecedeR = trace.PrecedeR /\ new.PrecedeW = trace.PrecedeW
  BY <1>1, <1>3, <1>4, WithTable
<1> QED
  BY <1>3, <1>5, <1>6 DEF c, u


\* What Fill does to the Trace
LEMMA FillTrace ==
  ASSUME Shape, Owning, Items, NEW p \in Proc, Fill(p)
  PROVE  LET c == <<p, ProcWPresNum[p]>> IN
         /\ at[p] \in Iter /\ item[p] \in PC
         /\ trace # RawTrace(p) => trace' = trace
         /\ trace = RawTrace(p) =>
              /\ trace' \in ReadyTrace /\ trace'.state = "ready"
              /\ trace'.Present[c] = Update(EnterIteration(EmptyTable, item[p], at[p]), item[p])
              /\ \A t \in Table : t # c => trace'.Present[t] = EmptyTable
              /\ trace'.PrecedeR = {} /\ trace'.PrecedeW = {}
<1> DEFINE i == at[p]
           pc == item[p]
           c == <<p, ProcWPresNum[p]>>
<1>1. task[p] = "filling"
  BY DEF Fill
<1>2. pc \in PC
  BY <1>1 DEF Items, Making
<1>3. i \in Iter
  BY <1>1, Here
<1>4. trace' = IF trace # RawTrace(p) THEN trace
               ELSE [EmptyTrace(p) EXCEPT !.Present[c] = Update([@ EXCEPT !.RWIter = i], pc)]
  BY DEF Fill
<1> HIDE DEF i, pc
<1>5. LET new == [EmptyTrace(p) EXCEPT !.Present[c] = Update([@ EXCEPT !.RWIter = i], pc)] IN
         /\ new \in ReadyTrace /\ new.state = "ready"
         /\ new.Present[c] = Update(EnterIteration(EmptyTable, pc, i), pc)
         /\ \A t \in Table : t # c => new.Present[t] = EmptyTable
         /\ new.PrecedeR = {} /\ new.PrecedeW = {}
  BY <1>2, <1>3, FilledTrace
<1> HIDE DEF c
<1>6. trace # RawTrace(p) => trace' = trace
  BY <1>4
<1>7. trace = RawTrace(p) =>
        trace' = [EmptyTrace(p) EXCEPT !.Present[c] = Update([@ EXCEPT !.RWIter = i], pc)]
  BY <1>4
<1> QED
  BY <1>2, <1>3, <1>5, <1>6, <1>7 DEF i, pc, c

\* A table filled in by its first access
LEMMA FilledType ==
  ASSUME NEW pc \in PC, NEW i \in Iter
  PROVE  LET u == Update(EnterIteration(EmptyTable, pc, i), pc) IN
         u \in TableOver({pc}) /\ u \in TableOver(PC) /\ TableOK(u) /\ u.RWIter = i
<1>1. EmptyTable \in TableOver({pc}) /\ EmptyTable \in TableOver(PC) /\ TableOK(EmptyTable)
  BY EmptyTableType
<1>2. {pc} \in SUBSET PC /\ pc \in {pc} /\ PC \in SUBSET PC
  OBVIOUS
<1> QED
  BY <1>1, <1>2, CheckedType

\* The iteration that is analysed, its table and the input it is analysed with
LEMMA Analysed ==
  ASSUME Shape, Analyses, Handed, AnalyseNext
  PROVE  /\ FinishedLoopIter + 1 \in Iter
         /\ LoopIterPresNum[FinishedLoopIter + 1] \in Table
         /\ LoopIterPresNum[FinishedLoopIter + 1] = TableOf(FinishedLoopIter + 1)
         /\ Ended(FinishedLoopIter + 1)
         /\ inputs # <<>> /\ Head(inputs) = inputs[1] /\ 1 \in DOMAIN inputs
         /\ inputs[1] \in Input /\ inputs[1].iter \in Iter /\ inputs[1].word \in BOOLEAN
         /\ inputs[1].iter =< FinishedLoopIter + 1
<1> DEFINE i == FinishedLoopIter + 1
<1>1. /\ chained /\ inputs # <<>> /\ FinishedLoopIter < NumIters /\ LoopIterPresNum[i] # NoTable
      /\ inputs[1].iter =< i
  BY DEF AnalyseNext, Analyses
<1>2. /\ FinishedLoopIter \in 0 .. NumIters /\ LoopIterPresNum \in [Iter -> Table \cup {NoTable}]
      /\ inputs \in Seq(Input)
  BY DEF Shape
<1>3. i \in Iter
  BY <1>1, <1>2, Constants
<1> HIDE DEF i
<1>4. LoopIterPresNum[i] \in Table /\ LoopIterPresNum[i] = TableOf(i) /\ Ended(i)
  BY <1>1, <1>2, <1>3 DEF Handed
<1>5. Head(inputs) = inputs[1] /\ 1 \in DOMAIN inputs /\ inputs[1] \in Input
  BY <1>1, <1>2
<1>6. inputs[1].iter \in Iter /\ inputs[1].word \in BOOLEAN
  BY <1>5 DEF Input
<1> QED
  BY <1>1, <1>3, <1>4, <1>5, <1>6 DEF i

\* What AnalyseNext does to the Trace and the dependences
LEMMA AnalyseTrace ==
  ASSUME Shape, Analyses, Handed, Makes, AnalyseNext
  PROVE  LET c == TableOf(FinishedLoopIter + 1)
             t == trace.Present[c]
             iter == inputs[1].iter IN
         /\ ~ inputs[1].word => trace' = trace /\ LCD' = LCD
         /\ inputs[1].word =>
              /\ Settled /\ trace \in ReadyTrace /\ t \in TableOver(PC) /\ TableOK(t)
              /\ trace' \in ReadyTrace /\ trace'.state = "ready"
              /\ trace'.Present[c] = EmptyTable
              /\ \A u \in Table : u # c => trace'.Present[u] = trace.Present[u]
              /\ trace'.PrecedeR = Word!AddToPrecede(trace.PrecedeR, Range(t.RTrace), iter)
              /\ trace'.PrecedeW = Word!AddToPrecede(trace.PrecedeW, Range(t.WTrace), iter)
              /\ LCD' = LCD \cup {[kind |-> d[1], src |-> d[2], sink |-> d[3], dist |-> d[4],
                                   iter |-> FinishedLoopIter + 1] : d \in FoundLCD(t, iter)}
<1> DEFINE c == TableOf(FinishedLoopIter + 1)
           t == trace.Present[c]
           h == inputs[1]
           R == Word!AddToPrecede(trace.PrecedeR, Range(t.RTrace), h.iter)
           W == Word!AddToPrecede(trace.PrecedeW, Range(t.WTrace), h.iter)
<1>1. /\ c \in Table /\ c = LoopIterPresNum[FinishedLoopIter + 1]
      /\ Head(inputs) = h /\ 1 \in DOMAIN inputs /\ h.iter \in Iter
  BY Analysed
<1>2. DoLCDA(c, h, FinishedLoopIter + 1)
  BY <1>1 DEF AnalyseNext
<1>3. CASE ~ h.word
  <2>1. ~ inputs[1].word /\ trace' = trace /\ LCD' = LCD
    BY <1>2, <1>3 DEF DoLCDA
  <2> HIDE DEF h
  <2> QED BY <2>1, Zenon
<1>4. CASE h.word
  <2>1. Settled
    BY <1>1, <1>4 DEF Makes, Told
  <2>2. trace \in ReadyTrace
    BY <2>1, TraceStates DEF Settled
  <2>3. t \in TableOver(PC) /\ TableOK(t)
    BY <1>1, <2>1, <2>2, ReadyFields DEF Settled, Shape
  <2>4. t.RTrace \in Seq(NodesOf(PC)) /\ t.WTrace \in Seq(NodesOf(PC))
    BY <2>3, TableFields
  <2>5. trace.PrecedeR \in SUBSET PrecedeNodes /\ trace.PrecedeW \in SUBSET PrecedeNodes
    BY <2>2, ReadyFields
  <2> HIDE DEF t
  <2>6. R \in SUBSET PrecedeNodes /\ W \in SUBSET PrecedeNodes
    <3> DEFINE iter == h.iter
    <3>1. iter \in Iter
      BY <1>1
    <3> HIDE DEF iter
    <3>2. /\ Word!AddToPrecede(trace.PrecedeR, Range(t.RTrace), iter) \in SUBSET PrecedeNodes
          /\ Word!AddToPrecede(trace.PrecedeW, Range(t.WTrace), iter) \in SUBSET PrecedeNodes
      BY <3>1, <2>4, <2>5, PrecedeType
    <3> QED BY <3>2 DEF iter
  <2>7. /\ trace' = [trace EXCEPT
                      !.PrecedeR = Word!AddToPrecede(@, Range(t.RTrace), h.iter),
                      !.PrecedeW = Word!AddToPrecede(@, Range(t.WTrace), h.iter),
                      !.Present[c] = EmptyTable]
        /\ LCD' = LCD \cup {[kind |-> d[1], src |-> d[2], sink |-> d[3], dist |-> d[4],
                             iter |-> FinishedLoopIter + 1] : d \in FoundLCD(t, h.iter)}
    BY <1>2, <1>4 DEF DoLCDA, t
  <2>8. trace' = AfterDoLCDA(trace, c, R, W)
    BY <2>7 DEF AfterDoLCDA
  <2> HIDE DEF R, W, c
  <2>9. CanDoLCDA(trace, c, R, W)
    BY <1>1, <2>2, <2>6 DEF CanDoLCDA
  <2>10. IsAfterLCDA(AfterDoLCDA(trace, c, R, W), trace, c, R, W)
    BY <2>9, AfterLCDA
  <2>11. IsAfterLCDA(trace', trace, c, R, W)
    BY <2>8, <2>10
  <2> QED
    BY <1>4, <2>1, <2>2, <2>3, <2>7, <2>11 DEF R, W, t, c, IsAfterLCDA
<1> QED
  BY <1>3, <1>4


-----------------------------------------------------------------------------
(***************************************************************************)
(* The inputs of a batch are those that its tasks hand over.               *)
(***************************************************************************)
\* A function by recursion on 0 .. n, with the step h
Recursive(f, V, b, n, h) ==
  f \in [0 .. n -> V] /\ f[0] = b /\ \A k \in 1 .. n : f[k] = h[<<k, f[k - 1]>>]

IsStep(V, b, n, h) == b \in V /\ n \in Nat /\ h \in [(1 .. n) \X V -> V]

\* A recursive definition whose steps stay within a set has a solution.
LEMMA Recursion ==
  ASSUME NEW V, NEW b, NEW n, NEW h, IsStep(V, b, n, h)
  PROVE  \E f : Recursive(f, V, b, n, h)
<1>0. b \in V /\ n \in Nat /\ h \in [(1 .. n) \X V -> V]
  BY DEF IsStep
<1> DEFINE Is(f, m) == f[0] = b /\ \A k \in 1 .. m : f[k] = h[<<k, f[k - 1]>>]
           S == {m \in 0 .. n : \E f \in [0 .. m -> V] : Is(f, m)}
<1>1. 0 \in S
  <2> DEFINE f == [k \in 0 .. 0 |-> b]
  <2>1. f \in [0 .. 0 -> V] /\ f[0] = b
    BY <1>0
  <2> HIDE DEF f
  <2>2. Is(f, 0) /\ 0 \in 0 .. n
    BY <1>0, <2>1
  <2> HIDE DEF Is
  <2> QED BY <2>1, <2>2
<1>2. ASSUME NEW m \in 0 .. n - 1, m \in S PROVE m + 1 \in S
  <2>1. PICK f \in [0 .. m -> V] : Is(f, m)
    BY <1>2
  <2> DEFINE next == h[<<m + 1, f[m]>>]
             g == [k \in 0 .. m + 1 |-> IF k = m + 1 THEN next ELSE f[k]]
  <2>2. next \in V
    <3>1. <<m + 1, f[m]>> \in (1 .. n) \X V
      BY <1>0
    <3> QED BY <1>0, <3>1
  <2> HIDE DEF next
  <2>3. g \in [0 .. m + 1 -> V]
    BY <2>2
  <2>4. /\ \A k \in 0 .. m : g[k] = f[k]
        /\ g[m + 1] = next
    BY <1>0
  <2>5. \A k \in 1 .. m : k \in 0 .. m /\ k - 1 \in 0 .. m
    BY <1>0
  <2>6. \A k \in 1 .. m + 1 : k \in 1 .. m \/ k = m + 1
    BY <1>0
  <2>7. (m + 1) - 1 = m /\ m \in 0 .. m /\ 0 \in 0 .. m
    BY <1>0
  <2> HIDE DEF g
  <2>8. \A k \in 1 .. m : g[k] = h[<<k, g[k - 1]>>]
    BY <2>1, <2>4, <2>5
  <2>9. g[m + 1] = h[<<m + 1, g[(m + 1) - 1]>>]
    BY <2>4, <2>7 DEF next
  <2>10. Is(g, m + 1)
    BY <2>1, <2>4, <2>6, <2>7, <2>8, <2>9
  <2>11. m + 1 \in 0 .. n
    BY <1>0
  <2> HIDE DEF Is
  <2> QED BY <2>3, <2>10, <2>11
<1> HIDE DEF S
<1>3. \A k \in 0 .. n : k \in S
  BY <1>0, <1>1, <1>2, Induction
<1>4. n \in S
  BY <1>0, <1>3
<1> QED
  BY <1>4 DEF S, Recursive

Joins(joined, results) ==
  joined = [n \in 0 .. PROCNUM |->
              IF n = 0 THEN <<>>
              ELSE IF results[n - 1].kind = "start" THEN Append(joined[n - 1], results[n - 1])
              ELSE joined[n - 1]]

\* What a batch hands on are results of its tasks, each of one that has one.
LEMMA JoinedIs ==
  ASSUME NEW results \in [Proc -> Input \cup {NoInput}]
  PROVE  /\ Joined(results) \in Seq(Input)
         /\ \A x \in DOMAIN Joined(results) : \E p \in Proc :
              results[p].kind = "start" /\ Joined(results)[x] = results[p]
<1> DEFINE V == {L \in Seq(Input) : \A x \in DOMAIN L : \E p \in Proc :
                   results[p].kind = "start" /\ L[x] = results[p]}
           next(n, L) == IF results[n - 1].kind = "start" THEN Append(L, results[n - 1]) ELSE L
           h == [nL \in (1 .. PROCNUM) \X V |-> next(nL[1], nL[2])]
<1>1. <<>> \in V
  OBVIOUS
<1>2. ASSUME NEW n \in 1 .. PROCNUM, NEW L \in V PROVE next(n, L) \in V
  <2>1. n - 1 \in Proc
    BY Constants
  <2>2. CASE results[n - 1].kind = "start"
    <3>1. results[n - 1] \in Input
      BY <2>1, <2>2 DEF NoInput
    <3> DEFINE r == results[n - 1]
    <3>2. /\ Append(L, r) \in Seq(Input) /\ Append(L, r)[Len(L) + 1] = r
          /\ DOMAIN Append(L, r) = 1 .. Len(L) + 1 /\ Len(L) \in Nat
          /\ \A x \in 1 .. Len(L) : Append(L, r)[x] = L[x]
      <4> HIDE DEF r
      <4> QED BY <3>1 DEF r
    <3>3. \A x \in 1 .. Len(L) + 1 : x \in 1 .. Len(L) \/ x = Len(L) + 1
      BY <3>2
    <3>4. DOMAIN L = 1 .. Len(L)
      OBVIOUS
    <3>5. \A x \in DOMAIN Append(L, r) : \E p \in Proc :
            results[p].kind = "start" /\ Append(L, r)[x] = results[p]
      BY <2>1, <2>2, <3>2, <3>3, <3>4
    <3> QED
      BY <2>2, <3>2, <3>5
  <2> QED
    BY <2>2
<1> HIDE DEF next
<1>3. h \in [(1 .. PROCNUM) \X V -> V]
  BY <1>2
<1>4. \A n \in 1 .. PROCNUM, L \in V : h[<<n, L>>] = next(n, L)
  OBVIOUS
<1> HIDE DEF h, V
<1>5. PROCNUM \in Nat
  BY Constants
<1>6. PICK f \in [0 .. PROCNUM -> V] :
        f[0] = <<>> /\ \A n \in 1 .. PROCNUM : f[n] = h[<<n, f[n - 1]>>]
  <2>1. IsStep(V, <<>>, PROCNUM, h)
    BY <1>1, <1>3, <1>5 DEF IsStep
  <2>2. \E f : Recursive(f, V, <<>>, PROCNUM, h)
    BY <2>1, Recursion
  <2> QED BY <2>2 DEF Recursive
<1>7. \A n \in 1 .. PROCNUM : f[n] = next(n, f[n - 1])
  <2>1. \A n \in 1 .. PROCNUM : n - 1 \in 0 .. PROCNUM
    BY <1>5
  <2> QED BY <2>1, <1>4, <1>6
<1>8. Joins(f, results)
  <2>1. \A n \in 0 .. PROCNUM : n # 0 => n \in 1 .. PROCNUM
    BY <1>5
  <2> QED BY <2>1, <1>6, <1>7 DEF Joins, next
<1> DEFINE joined == CHOOSE g : Joins(g, results)
<1>9. Joins(joined, results)
  BY <1>8, Zenon
<1>10. Joined(results) = joined[PROCNUM]
  BY Zenon DEF Joined, Joins
<1> HIDE DEF joined
<1> DEFINE S == {n \in 0 .. PROCNUM : joined[n] \in V}
<1>11. \A n \in 0 .. PROCNUM : joined[n] = IF n = 0 THEN <<>> ELSE next(n, joined[n - 1])
  BY <1>9 DEF Joins, next
<1>12. 0 \in S
  BY <1>1, <1>5, <1>11
<1>13. \A n \in 0 .. PROCNUM - 1 : n \in S => n + 1 \in S
  <2> SUFFICES ASSUME NEW n \in 0 .. PROCNUM - 1, n \in S PROVE n + 1 \in S
    OBVIOUS
  <2>1. n + 1 \in 1 .. PROCNUM /\ n + 1 \in 0 .. PROCNUM /\ n + 1 # 0 /\ (n + 1) - 1 = n
    BY <1>5
  <2>2. joined[n + 1] = next(n + 1, joined[n]) /\ joined[n] \in V
    BY <2>1, <1>11
  <2> QED BY <2>1, <2>2, <1>2
<1> HIDE DEF S
<1>14. \A n \in 0 .. PROCNUM : n \in S
  BY <1>5, <1>12, <1>13, Induction
<1>15. PROCNUM \in S
  BY <1>5, <1>14
<1> QED
  BY <1>10, <1>15 DEF S, V

\* The inputs after a batch
LEMMA BatchInputs ==
  ASSUME Shape, EndBatch
  PROVE  /\ inputs' \in Seq(Input) /\ (inputs # <<>> => inputs' # <<>> /\ inputs'[1] = inputs[1])
         /\ \A x \in DOMAIN inputs' :
              \/ x \in DOMAIN inputs /\ inputs'[x] = inputs[x]
              \/ \E p \in Proc : ProcNextLidep[p].kind = "start" /\ inputs'[x] = ProcNextLidep[p]
<1> DEFINE J == Joined(ProcNextLidep)
<1>1. /\ J \in Seq(Input)
      /\ \A x \in DOMAIN J : \E p \in Proc :
           ProcNextLidep[p].kind = "start" /\ J[x] = ProcNextLidep[p]
  BY JoinedIs DEF Shape
<1>2. inputs' = inputs \o J /\ inputs \in Seq(Input)
  BY DEF EndBatch, Shape
<1> HIDE DEF J
<1>3. /\ inputs' \in Seq(Input) /\ DOMAIN inputs' = 1 .. Len(inputs) + Len(J)
      /\ Len(inputs) \in Nat /\ Len(J) \in Nat
      /\ DOMAIN inputs = 1 .. Len(inputs) /\ DOMAIN J = 1 .. Len(J)
      /\ \A x \in 1 .. Len(inputs) : inputs'[x] = inputs[x]
      /\ \A x \in 1 .. Len(inputs) + Len(J) :
           x > Len(inputs) => inputs'[x] = J[x - Len(inputs)]
  BY <1>1, <1>2
<1>4. \A x \in 1 .. Len(inputs) + Len(J) :
        x \in 1 .. Len(inputs) \/ (x > Len(inputs) /\ x - Len(inputs) \in 1 .. Len(J))
  BY <1>3
<1>5. inputs # <<>> => 1 \in 1 .. Len(inputs) /\ inputs' # <<>>
  BY <1>1, <1>2, <1>3
<1>6. ASSUME NEW x \in DOMAIN inputs'
      PROVE  \/ x \in DOMAIN inputs /\ inputs'[x] = inputs[x]
             \/ \E p \in Proc : ProcNextLidep[p].kind = "start" /\ inputs'[x] = ProcNextLidep[p]
  <2>1. x \in 1 .. Len(inputs) + Len(J)
    BY <1>3
  <2>2. CASE x \in 1 .. Len(inputs)
    BY <1>3, <2>2
  <2>3. CASE x > Len(inputs) /\ x - Len(inputs) \in 1 .. Len(J)
    <3> DEFINE y == x - Len(inputs)
    <3>1. y \in DOMAIN J /\ inputs'[x] = J[y]
      BY <1>3, <2>1, <2>3
    <3> HIDE DEF y
    <3> QED BY <1>1, <3>1
  <2> QED BY <1>4, <2>1, <2>2, <2>3
<1> QED
  BY <1>3, <1>5, <1>6


\* Every step keeps the types.
LEMMA ShapeNext ==
  ASSUME Shape, Owning, Items, Analyses, Handed, Makes, Next
  PROVE  Shape'
<1> USE DEF reading, later
<1>1. CASE StartBatch
  BY <1>1 DEF StartBatch, Shape
<1>2. ASSUME NEW p \in Proc, Check(p) PROVE Shape'
  <2>1. PICK pc \in PC :
          /\ Happens(p, pc)
          /\ inInterval' = [inInterval EXCEPT ![p] = @ \/ Notes(PresentOf(p), pc, at[p])]
          /\ trace' = [trace EXCEPT !.Present[<<p, ProcWPresNum[p]>>]
                         = Update(EnterIteration(PresentOf(p), pc, at[p]), pc)]
    BY <1>2 DEF Check
  <2>2. Takes(p) /\ trace.state = "ready" /\ task[p] = "reading"
    BY <1>2 DEF Check, Takes
  <2>3. at[p] \in Iter /\ <<p, ProcWPresNum[p]>> \in Table
    BY <2>2, Here
  <2>4. accesses' \in [Iter -> Seq(Access)]
    BY <2>1, <2>3, HappensType
  <2>5. inInterval' \in [Proc -> BOOLEAN]
    <3>1. (inInterval[p] \/ Notes(PresentOf(p), pc, at[p])) \in BOOLEAN
      BY DEF Shape, Notes
    <3> QED BY <2>1, <3>1 DEF Shape
  <2> DEFINE c == <<p, ProcWPresNum[p]>>
             u == Update(EnterIteration(PresentOf(p), pc, at[p]), pc)
  <2>6. /\ trace' \in ReadyTrace /\ trace'.state = "ready" /\ TableOK(u)
        /\ trace'.Present[c] = u
        /\ \A t \in Table : t # c => trace'.Present[t] = trace.Present[t]
    BY <2>1, <2>2, CheckTrace
  <2> HIDE DEF u, c
  <2>7. \A t \in Table : TableOK(trace'.Present[t])
    <3> SUFFICES ASSUME NEW t \in Table PROVE TableOK(trace'.Present[t])
      OBVIOUS
    <3>1. TableOK(trace.Present[t])
      BY <2>2 DEF Shape
    <3> QED BY <2>6, <3>1
  <2>8. UNCHANGED <<owner, at, task, item, ProcWPresNum, ProcNextLidep, PresIsFull, later, torn>>
    BY <1>2 DEF Check
  <2> QED
    BY <2>4, <2>5, <2>6, <2>7, <2>8 DEF Shape
<1>3. ASSUME NEW p \in Proc, SeeNull(p) PROVE Shape'
  <2>1. PICK pc \in PC : Happens(p, pc) /\ item' = [item EXCEPT ![p] = pc]
    BY <1>3 DEF SeeNull
  <2>2. at[p] \in Iter
    BY <1>3, Here DEF SeeNull, Takes
  <2>3. accesses' \in [Iter -> Seq(Access)]
    BY <2>1, <2>2, HappensType
  <2>4. item' \in [Proc -> PC \cup {NoItem}]
    BY <2>1 DEF Shape
  <2> QED
    BY <1>3, <2>3, <2>4 DEF SeeNull, Shape
<1>4. ASSUME NEW p \in Proc, Publish(p) PROVE Shape'
  <2>1. trace' \in {RawTrace(q) : q \in Proc} /\ trace'.state = "raw"
    BY <1>4 DEF Publish, RawTrace
  <2>2. torn' \subseteq Iter
    BY <1>4 DEF Publish, Shape
  <2> QED
    BY <1>4, <2>1, <2>2 DEF Publish, Shape
<1>5. ASSUME NEW p \in Proc, Fill(p) PROVE Shape'
  <2> DEFINE i == at[p]
             pc == item[p]
             c == <<p, ProcWPresNum[p]>>
             u == Update(EnterIteration(EmptyTable, pc, i), pc)
  <2>1. /\ i \in Iter /\ pc \in PC
        /\ trace # RawTrace(p) => trace' = trace
        /\ trace = RawTrace(p) =>
              /\ trace' \in ReadyTrace /\ trace'.Present[c] = u
              /\ \A t \in Table : t # c => trace'.Present[t] = EmptyTable
    BY <1>5, FillTrace
  <2> HIDE DEF i, pc
  <2>2. TableOK(u) /\ TableOK(EmptyTable)
    BY <2>1, FilledType, EmptyTableType
  <2> HIDE DEF c, u
  <2>3. /\ trace' \in {NoTrace} \cup {RawTrace(q) : q \in Proc} \cup ReadyTrace
        /\ trace'.state = "ready" => \A t \in Table : TableOK(trace'.Present[t])
    <3>1. CASE trace = RawTrace(p)
      BY <2>1, <2>2, <3>1
    <3>2. CASE trace # RawTrace(p)
      BY <2>1, <3>2 DEF Shape
    <3> QED BY <3>1, <3>2
  <2> QED
    BY <1>5, <2>3 DEF Fill, Shape
<1>6. ASSUME NEW p \in Proc, Crash(p) PROVE Shape'
  BY <1>6 DEF Crash, Shape
<1>7. ASSUME NEW p \in Proc, EndBuffer(p) PROVE Shape'
  BY <1>7 DEF EndBuffer, Shape
<1>8. ASSUME NEW p \in Proc, EndIteration(p) PROVE Shape'
  <2>1. at[p] \in Iter /\ <<p, ProcWPresNum[p]>> \in Table
    BY <1>8, Here DEF EndIteration
  <2>2. ProcNextLidep' \in [Proc -> Input \cup {NoInput}]
    <3>1. StartLCDA(at[p], <<p, ProcWPresNum[p]>>, FALSE) \in Input
      BY <2>1 DEF StartLCDA, Input
    <3> QED BY <1>8, <3>1 DEF EndIteration, Shape
  <2>3. ProcWPresNum' \in [Proc -> 0 .. PRESNUM - 1]
    <3>1. \A n \in 0 .. PRESNUM - 1 : (n + 1) % PRESNUM \in 0 .. PRESNUM - 1
      BY Constants
    <3> QED BY <1>8, <3>1 DEF EndIteration, Shape
  <2>4. at' \in [Proc -> 1 .. NoIter]
    <3>1. at[p] \in 0 .. NumIters /\ owner \in [Iter -> Proc]
      BY <2>1, IterIs DEF Shape
    <3> DEFINE i == at[p]
    <3>2. i \in 0 .. NumIters
      BY <3>1
    <3> HIDE DEF i
    <3>3. NextOwned(p, i) \in 1 .. NoIter
      BY <3>1, <3>2, NextOwnedIs
    <3> QED BY <1>8, <3>3 DEF EndIteration, Shape, i
  <2>5. PresIsFull' \in [Table -> BOOLEAN] /\ task' \in [Proc -> {"idle", "reading",
           "allocating", "filling", "spinning", "done", "crashed"}]
    BY <1>8 DEF EndIteration, Shape
  <2>6. UNCHANGED <<owner, trace, item, inInterval, later, LID, accesses, torn>>
    BY <1>8 DEF EndIteration
  <2> QED
    BY <2>2, <2>3, <2>4, <2>5, <2>6 DEF Shape
<1>9. ASSUME NEW p \in Proc, TableFree(p) PROVE Shape'
  <2>1. ProcNextLidep' \in [Proc -> Input \cup {NoInput}]
    <3>1. ProcNextLidep' = [ProcNextLidep EXCEPT ![p] = [ProcNextLidep[p] EXCEPT !.word = inInterval[p]]]
      BY <1>9 DEF TableFree
    <3>2. ProcNextLidep \in [Proc -> Input \cup {NoInput}] /\ inInterval[p] \in BOOLEAN
      BY DEF Shape
    <3>3. ASSUME NEW r \in Input PROVE [r EXCEPT !.word = inInterval[p]] \in Input
      BY <3>2 DEF Input
    <3>4. [NoInput EXCEPT !.word = inInterval[p]] = NoInput
      BY DEF NoInput
    <3>5. [ProcNextLidep[p] EXCEPT !.word = inInterval[p]] \in Input \cup {NoInput}
      BY <3>2, <3>3, <3>4
    <3> QED BY <3>1, <3>2, <3>5
  <2>2. inInterval' \in [Proc -> BOOLEAN] /\ task' \in [Proc -> {"idle", "reading",
           "allocating", "filling", "spinning", "done", "crashed"}]
    BY <1>9 DEF TableFree, Shape
  <2>3. UNCHANGED <<owner, trace, at, item, ProcWPresNum, PresIsFull, later, LID, accesses, torn>>
    BY <1>9 DEF TableFree
  <2> QED
    BY <2>1, <2>2, <2>3 DEF Shape
<1>10. CASE EndBatch
  <2>1. inputs' \in Seq(Input)
    BY <1>10, BatchInputs
  <2>2. /\ ProcNextLidep' \in [Proc -> Input \cup {NoInput}]
        /\ task' \in [Proc -> {"idle", "reading", "allocating", "filling", "spinning", "done",
                               "crashed"}]
        /\ UNCHANGED <<owner, trace, at, item, ProcWPresNum, inInterval, PresIsFull, chained,
                       LoopIterPresNum, FinishedLoopIter, LCD, by, LID, accesses, torn>>
    BY <1>10 DEF EndBatch
  <2> QED
    BY <2>1, <2>2 DEF Shape
<1>11. CASE TakeInput
  <2>1. inputs # <<>> /\ inputs \in Seq(Input)
    BY <1>11 DEF TakeInput, Shape
  <2>2. inputs[1] \in Input /\ Head(inputs) = inputs[1] /\ Tail(inputs) \in Seq(Input)
    BY <2>1
  <2>3. inputs[1].table \in Table /\ inputs[1].iter \in Iter
    BY <2>2 DEF Input
  <2>4. LoopIterPresNum' \in [Iter -> Table \cup {NoTable}]
    BY <1>11, <2>2, <2>3 DEF TakeInput, Shape
  <2>5. inputs' \in Seq(Input) /\ chained' \in BOOLEAN
    BY <1>11, <2>1, <2>2 DEF TakeInput, Shape
  <2>6. UNCHANGED <<owner, trace, reading, PresIsFull, FinishedLoopIter, LCD, by, LID, accesses,
                    torn>>
    BY <1>11 DEF TakeInput
  <2> QED
    BY <2>4, <2>5, <2>6 DEF Shape
<1>12. CASE AnalyseNext
  <2>1. /\ FinishedLoopIter + 1 \in Iter
        /\ LoopIterPresNum[FinishedLoopIter + 1] \in Table
        /\ LoopIterPresNum[FinishedLoopIter + 1] = TableOf(FinishedLoopIter + 1)
        /\ inputs # <<>> /\ Head(inputs) = inputs[1]
        /\ inputs[1].iter \in Iter
        /\ inputs[1].word \in BOOLEAN
    BY <1>12, Analysed
  <2>2. /\ trace' \in {NoTrace} \cup {RawTrace(p) : p \in Proc} \cup ReadyTrace
        /\ trace'.state = "ready" => \A t \in Table : TableOK(trace'.Present[t])
    <3> DEFINE c == TableOf(FinishedLoopIter + 1)
    <3>1. /\ ~ inputs[1].word => trace' = trace
          /\ inputs[1].word =>
              /\ Settled /\ trace' \in ReadyTrace
              /\ trace'.Present[c] = EmptyTable
              /\ \A u \in Table : u # c => trace'.Present[u] = trace.Present[u]
      BY <1>12, AnalyseTrace
    <3> HIDE DEF c
    <3>2. TableOK(EmptyTable)
      BY EmptyTableType
    <3>3. CASE inputs[1].word
      <4>1. \A t \in Table : TableOK(trace.Present[t])
        BY <3>1, <3>3 DEF Settled, Shape
      <4>2. ASSUME NEW t \in Table PROVE TableOK(trace'.Present[t])
        BY <4>1, <3>1, <3>2, <3>3
      <4> QED BY <4>2, <3>1, <3>3
    <3>4. CASE ~ inputs[1].word
      BY <3>1, <3>4 DEF Shape
    <3> QED BY <3>3, <3>4
  <2>3. inputs' \in Seq(Input) /\ chained' \in BOOLEAN
    <3>1. Tail(inputs) \in Seq(Input)
      BY <2>1 DEF Shape
    <3> QED BY <1>12, <3>1 DEF AnalyseNext, Shape
  <2>4. FinishedLoopIter' \in 0 .. NumIters
    BY <1>12, <2>1, Constants DEF AnalyseNext
  <2>5. PresIsFull' \in [Table -> BOOLEAN] /\ by' \in [Iter -> 0 .. NumIters]
    <3>1. inputs[1].iter \in 0 .. NumIters
      BY <2>1, Constants
    <3> QED BY <1>12, <2>1, <3>1 DEF AnalyseNext, Shape
  <2>6. UNCHANGED <<owner, reading, LoopIterPresNum, LID, accesses, torn>>
    BY <1>12 DEF AnalyseNext
  <2> QED
    BY <2>2, <2>3, <2>4, <2>5, <2>6 DEF Shape
<1> QED
  BY <1>1, <1>2, <1>3, <1>4, <1>5, <1>6, <1>7, <1>8, <1>9, <1>10, <1>11, <1>12
     DEF Next, ReadTask


-----------------------------------------------------------------------------
(***************************************************************************)
(* What no step changes: the owners, the accesses that have been made, and *)
(* those of the iterations that have ended.                                *)
(***************************************************************************)
LEMMA SameOwner ==
  ASSUME owner' = owner
  PROVE  /\ \A p, i : Index(p, i)' = Index(p, i)
         /\ \A i \in Iter : TableOf(i)' = TableOf(i)
  BY DEF Index, TableOf

\* Longer is what the accesses of an iteration become.
Longer(s, r) == \A x \in DOMAIN s : x \in DOMAIN r /\ r[x] = s[x]

Moves ==
  /\ owner' = owner
  /\ \A p \in Proc : at[p] =< at'[p]
  /\ \A i \in Iter : Ended(i) => i < at'[owner'[i]] /\ accesses'[i] = accesses[i]
  /\ \A i \in Iter : \A s \in {accesses[i]}, r \in {accesses'[i]} : Longer(s, r)
  /\ torn \subseteq torn'

\* A step that leaves the accesses and the positions alone moves nothing.
LEMMA SameMoves ==
  ASSUME Shape, UNCHANGED <<owner, at, accesses, torn>> PROVE Moves
<1>1. \A p \in Proc : at[p] =< at[p]
  BY Constants DEF Shape
<1>2. \A s : Longer(s, s)
  BY DEF Longer
<1> QED
  BY <1>1, <1>2 DEF Moves, Ended

\* An access is added to the iteration its process is at, and to no other.
LEMMA HappensMoves ==
  ASSUME Shape, Owning, NEW p \in Proc, Takes(p), NEW pc \in PC, Happens(p, pc),
         UNCHANGED <<owner, at, torn>>
  PROVE  Moves
<1>1. at[p] \in Iter /\ owner[at[p]] = p
  BY Here DEF Takes
<1>2. \A q \in Proc : at[q] =< at[q] /\ ~ (at[q] < at[q])
  BY Constants DEF Shape
<1>3. /\ accesses'[at[p]] = Append(accesses[at[p]], [pc |-> pc, found |-> trace.state = "ready"])
      /\ \A i \in Iter : i # at[p] => accesses'[i] = accesses[i]
  BY <1>1, HappensType
<1>4. accesses[at[p]] \in Seq(Access)
  BY <1>1 DEF Shape
<1>5. \A s : Longer(s, s)
  BY DEF Longer
<1>6. \A s \in Seq(Access) : \A a : Longer(s, Append(s, a))
  BY DEF Longer
<1>7. \A i \in Iter : Ended(i) => i # at[p]
  BY <1>1, <1>2 DEF Ended
<1>8. \A i \in Iter : \A s \in {accesses[i]}, r \in {accesses'[i]} : Longer(s, r)
  <2> SUFFICES ASSUME NEW i \in Iter PROVE Longer(accesses[i], accesses'[i])
    OBVIOUS
  <2>1. CASE i = at[p]
    BY <2>1, <1>3, <1>4, <1>6
  <2>2. CASE i # at[p]
    BY <2>2, <1>3, <1>5
  <2> QED BY <2>1, <2>2
<1> QED
  BY <1>2, <1>3, <1>7, <1>8 DEF Moves, Ended

\* In every step iterations only get longer, and not any more once they have ended.
LEMMA StepMoves ==
  ASSUME Shape, Owning, Makes, Next PROVE Moves
<1> USE DEF reading, later
<1>1. CASE StartBatch
  BY <1>1, SameMoves DEF StartBatch
<1>2. ASSUME NEW p \in Proc, Check(p) PROVE Moves
  <2>1. PICK pc \in PC : Happens(p, pc)
    BY <1>2 DEF Check
  <2>2. Takes(p) /\ UNCHANGED <<owner, at, torn>>
    BY <1>2 DEF Check
  <2> QED BY <2>1, <2>2, HappensMoves
<1>3. ASSUME NEW p \in Proc, SeeNull(p) PROVE Moves
  <2>1. PICK pc \in PC : Happens(p, pc)
    BY <1>3 DEF SeeNull
  <2>2. Takes(p) /\ UNCHANGED <<owner, at, torn>>
    BY <1>3 DEF SeeNull
  <2> QED BY <2>1, <2>2, HappensMoves
<1>4. ASSUME NEW p \in Proc, Publish(p) PROVE Moves
  <2>1. torn \subseteq torn'
    BY <1>4 DEF Publish, Makes, Made, Shape
  <2>2. UNCHANGED <<owner, at, accesses>>
    BY <1>4 DEF Publish
  <2>3. \A q \in Proc : at[q] =< at[q]
    BY Constants DEF Shape
  <2>4. \A s : Longer(s, s)
    BY DEF Longer
  <2> QED BY <2>1, <2>2, <2>3, <2>4 DEF Moves, Ended
<1>5. ASSUME NEW p \in Proc, Fill(p) \/ Crash(p) \/ EndBuffer(p) \/ TableFree(p) PROVE Moves
  BY <1>5, SameMoves DEF Fill, Crash, EndBuffer, TableFree
<1>6. ASSUME NEW p \in Proc, EndIteration(p) PROVE Moves
  <2>1. at[p] \in Iter
    BY <1>6, Here DEF EndIteration
  <2>2. at'[p] = NextOwned(p, at[p]) /\ \A q \in Proc : q # p => at'[q] = at[q]
    BY <1>6 DEF EndIteration, Shape
  <2>3. at[p] < at'[p] /\ at'[p] \in 1 .. NoIter
    <3> DEFINE i == at[p]
    <3>1. i \in 0 .. NumIters /\ owner \in [Iter -> Proc]
      BY <2>1, IterIs DEF Shape
    <3> HIDE DEF i
    <3>2. i < NextOwned(p, i) /\ NextOwned(p, i) \in 1 .. NoIter
      BY <3>1, NextOwnedIs
    <3> QED BY <2>2, <3>2 DEF i
  <2>4. \A q \in Proc : at[q] =< at'[q] /\ at[q] \in 1 .. NoIter /\ at'[q] \in 1 .. NoIter
    <3>1. NoIter \in Nat /\ \A q \in Proc : at[q] \in 1 .. NoIter
      BY Constants DEF Shape
    <3> QED BY <2>2, <2>3, <3>1
  <2>5. UNCHANGED <<owner, accesses, torn>>
    BY <1>6 DEF EndIteration
  <2>6. ASSUME NEW i \in Iter, Ended(i) PROVE i < at'[owner[i]]
    <3>1. owner[i] \in Proc /\ i < at[owner[i]]
      BY <2>6 DEF Ended, Shape
    <3> QED BY <3>1, <2>4, Constants
  <2>7. \A s : Longer(s, s)
    BY DEF Longer
  <2> QED BY <2>4, <2>5, <2>6, <2>7 DEF Moves
<1>7. CASE EndBatch
  BY <1>7, SameMoves DEF EndBatch
<1>8. CASE TakeInput
  BY <1>8, SameMoves DEF TakeInput
<1>9. CASE AnalyseNext
  BY <1>9, SameMoves DEF AnalyseNext
<1> QED
  BY <1>1, <1>2, <1>3, <1>4, <1>5, <1>6, <1>7, <1>8, <1>9 DEF Next, ReadTask

\* The first access decides whether an iteration is known.
LEMMA KnownIs ==
  ASSUME Shape, NEW i \in Iter
  PROVE  /\ Known(i) <=> accesses[i] # <<>> /\ ~ accesses[i][1].pc.write /\ accesses[i][1].found
         /\ accesses[i] \in Seq(Access) /\ (accesses[i] # <<>> => 1 \in DOMAIN accesses[i])
<1>1. accesses[i] \in Seq(Access)
  BY DEF Shape
<1>2. accesses[i] # <<>> => Head(accesses[i]) = accesses[i][1] /\ 1 \in DOMAIN accesses[i]
  BY <1>1
<1> QED
  BY <1>1, <1>2 DEF Known, Of

\* What such a step does to one iteration: ended it stays as it is, and whether it
\* is known is decided by its first access.
LEMMA Moved ==
  ASSUME Shape, Shape', Moves, NEW i \in Iter
  PROVE  /\ Ended(i) => Ended(i)' /\ (Known(i)' <=> Known(i)) /\ accesses'[i] = accesses[i]
         /\ accesses[i] # <<>> => accesses'[i] # <<>> /\ (Known(i)' <=> Known(i))
         /\ Known(i) => Known(i)'
         /\ TableOf(i)' = TableOf(i)
<1>1. /\ owner' = owner
      /\ Ended(i) => i < at'[owner'[i]] /\ accesses'[i] = accesses[i]
      /\ Longer(accesses[i], accesses'[i])
  BY DEF Moves
<1>2. /\ Known(i) <=> accesses[i] # <<>> /\ ~ accesses[i][1].pc.write /\ accesses[i][1].found
      /\ accesses[i] # <<>> => 1 \in DOMAIN accesses[i]
  BY KnownIs
<1>3. Known(i)' <=> accesses'[i] # <<>> /\ ~ accesses'[i][1].pc.write /\ accesses'[i][1].found
  <2>1. accesses'[i] # <<>> => Head(accesses'[i]) = accesses'[i][1]
    <3>1. accesses'[i] \in Seq(Access)
      BY DEF Shape
    <3> QED BY <3>1
  <2> QED BY <2>1 DEF Known, Of
<1>4. accesses[i] # <<>> => accesses'[i] # <<>> /\ accesses'[i][1] = accesses[i][1]
  <2>1. accesses[i] # <<>> => 1 \in DOMAIN accesses'[i] /\ accesses'[i][1] = accesses[i][1]
    BY <1>1, <1>2 DEF Longer
  <2>2. DOMAIN <<>> = {}
    OBVIOUS
  <2> QED BY <2>1, <2>2
<1>5. TableOf(i)' = TableOf(i)
  BY <1>1, SameOwner
<1> QED
  BY <1>1, <1>2, <1>3, <1>4, <1>5 DEF Ended


-----------------------------------------------------------------------------
(***************************************************************************)
(* How the iterations share the tables.                                    *)
(***************************************************************************)
At(p) == task[p] \in {"reading", "allocating", "filling"}

\* Every step keeps the processes in their own iterations and tables.
LEMMA OwningNext ==
  ASSUME Shape, Owning, Makes, Next PROVE Owning'
<1> USE DEF reading, later
<1>1. /\ owner' = owner
      /\ \A p, i : Index(p, i)' = Index(p, i)
  BY StepMoves, SameOwner DEF Moves
<1>2. ASSUME UNCHANGED <<at, ProcWPresNum>>, \A p \in Proc : At(p)' => At(p) \/ at[p] \in Iter
      PROVE  Owning'
  BY <1>1, <1>2 DEF Owning, At
<1>3. CASE StartBatch
  <2>1. UNCHANGED <<at, ProcWPresNum>>
    BY <1>3 DEF StartBatch
  <2>2. PICK S \in SUBSET {p \in Proc : at[p] # NoIter} \ {{}} :
          task' = [p \in Proc |-> IF p \in S THEN "reading" ELSE "done"]
    BY <1>3 DEF StartBatch
  <2>3. ASSUME NEW p \in Proc, At(p)' PROVE at[p] \in Iter
    <3>1. p \in S
      BY <2>2, <2>3 DEF At
    <3>2. at[p] # NoIter /\ at[p] \in 1 .. NoIter
      BY <3>1 DEF Shape
    <3> QED BY <3>2, Constants
  <2> QED BY <2>1, <2>3, <1>2
<1>4. ASSUME NEW p \in Proc, Check(p) \/ SeeNull(p) \/ Publish(p) \/ Fill(p) \/ Crash(p)
                               \/ EndBuffer(p) \/ TableFree(p)
      PROVE  Owning'
  <2>1. UNCHANGED <<at, ProcWPresNum>>
    BY <1>4 DEF Check, SeeNull, Publish, Fill, Crash, EndBuffer, TableFree
  <2>2. \A q \in Proc : At(q)' => At(q)
    BY <1>4 DEF Check, SeeNull, Publish, Fill, Crash, EndBuffer, TableFree, At, Takes, Shape
  <2> QED BY <2>1, <2>2, <1>2
<1>5. ASSUME NEW p \in Proc, EndIteration(p) PROVE Owning'
  <2>1. /\ at' = [at EXCEPT ![p] = NextOwned(p, at[p])]
        /\ ProcWPresNum' = [ProcWPresNum EXCEPT ![p] = (ProcWPresNum[p] + 1) % PRESNUM]
        /\ task' = [task EXCEPT ![p] = "spinning"] /\ task[p] = "reading"
    BY <1>5 DEF EndIteration
  <2> DEFINE i == at[p]
             k == NextOwned(p, i)
  <2>2. i \in Iter /\ owner[i] = p /\ i \in 0 .. NumIters /\ i \in 1 .. NoIter
        /\ owner \in [Iter -> Proc]
    BY <2>1, Here, IterIs DEF Shape
  <2>3. ProcWPresNum[p] = Index(p, i)
    BY <2>2 DEF Owning
  <2> HIDE DEF i
  <2>4. k \in Iter => owner[k] = p
    BY <2>2, NextOwnedIs
  <2>5. Index(p, k) = (Index(p, i) + 1) % PRESNUM
    BY <2>2, IndexNext
  <2> HIDE DEF k
  <2>6. /\ at'[p] = k /\ ProcWPresNum'[p] = Index(p, k) /\ task'[p] = "spinning"
        /\ \A q \in Proc : q # p => at'[q] = at[q] /\ ProcWPresNum'[q] = ProcWPresNum[q]
                                    /\ task'[q] = task[q]
    BY <2>1, <2>3, <2>5 DEF Shape, i, k
  <2> SUFFICES ASSUME NEW q \in Proc, NEW j \in 1 .. NoIter, at'[q] = j
               PROVE  /\ j \in Iter => owner'[j] = q
                      /\ ProcWPresNum'[q] = Index(q, j)'
                      /\ At(q)' => j \in Iter
    BY DEF Owning, At
  <2>7. Index(q, j)' = Index(q, j)
    BY <1>1
  <2>8. CASE q = p
    BY <2>4, <2>6, <2>7, <2>8, <1>1 DEF At
  <2>9. CASE q # p
    BY <2>6, <2>7, <2>9, <1>1 DEF Owning, At
  <2> QED BY <2>8, <2>9
<1>6. CASE EndBatch \/ TakeInput \/ AnalyseNext
  <2>1. UNCHANGED <<at, ProcWPresNum>>
    BY <1>6 DEF EndBatch, TakeInput, AnalyseNext
  <2>2. \A q \in Proc : At(q)' => At(q)
    BY <1>6 DEF EndBatch, TakeInput, AnalyseNext, At
  <2> QED BY <2>1, <2>2, <1>2
<1> QED
  BY <1>3, <1>4, <1>5, <1>6 DEF Next, ReadTask

\* Every step keeps what the tasks that allocate have in hand.
LEMMA ItemsNext ==
  ASSUME Shape, Owning, Items, Makes, Next PROVE Items'
<1> USE DEF reading, later
<1>2. CASE StartBatch
  BY <1>2 DEF StartBatch, Items, Making
<1>3. ASSUME NEW p \in Proc, Check(p) PROVE Items'
  <2>1. PICK pc \in PC : Happens(p, pc)
    BY <1>3 DEF Check
  <2>2. task[p] = "reading" /\ UNCHANGED <<owner, at, task, item>>
    BY <1>3 DEF Check, Takes
  <2>3. at[p] \in Iter /\ owner[at[p]] = p
    BY <2>2, Here
  <2>4. \A i \in Iter : i # at[p] => accesses'[i] = accesses[i]
    BY <2>1, <2>3, HappensType
  <2>5. ASSUME NEW q \in Proc, Making(q) PROVE accesses'[at[q]] = accesses[at[q]]
    <3>1. at[q] \in Iter /\ owner[at[q]] = q /\ q # p
      BY <2>2, <2>5, Here DEF Making
    <3> QED BY <3>1, <2>3, <2>4
  <2> QED BY <2>2, <2>5 DEF Items, Making
<1>4. ASSUME NEW p \in Proc, SeeNull(p) PROVE Items'
  <2>1. PICK pc \in PC : Happens(p, pc) /\ item' = [item EXCEPT ![p] = pc]
    BY <1>4 DEF SeeNull
  <2>2. /\ task[p] = "reading" /\ trace.state = "null" /\ UNCHANGED <<owner, at>>
        /\ task' = [task EXCEPT ![p] = "allocating"]
    BY <1>4 DEF SeeNull, Takes
  <2>3. at[p] \in Iter /\ owner[at[p]] = p
    BY <2>2, Here
  <2>4. /\ \A i \in Iter : i # at[p] => accesses'[i] = accesses[i]
        /\ accesses'[at[p]] = Append(accesses[at[p]], [pc |-> pc, found |-> trace.state = "ready"])
    BY <2>1, <2>3, HappensType
  <2>5. accesses[at[p]] = <<>>
    BY <2>2, <2>3 DEF Makes, Made
  <2>6. accesses'[at[p]] = <<[pc |-> pc, found |-> FALSE]>>
    <3>1. (trace.state = "ready") = FALSE
      BY <2>2
    <3>2. accesses'[at[p]] = Append(<<>>, [pc |-> pc, found |-> FALSE])
      BY <2>4, <2>5, <3>1
    <3> QED BY <3>2
  <2>7. item'[p] = pc /\ \A q \in Proc : q # p => item'[q] = item[q] /\ task'[q] = task[q]
    BY <2>1, <2>2 DEF Shape
  <2>8. ASSUME NEW q \in Proc, q # p, Making(q) PROVE accesses'[at[q]] = accesses[at[q]]
    <3>1. at[q] \in Iter /\ owner[at[q]] = q
      BY <2>8, Here DEF Making
    <3> QED BY <3>1, <2>3, <2>4, <2>8
  <2> SUFFICES ASSUME NEW q \in Proc, Making(q)'
               PROVE  /\ item'[q] \in PC
                      /\ accesses'[at'[q]] = <<[pc |-> item'[q], found |-> FALSE]>>
    BY DEF Items
  <2>9. CASE q = p
    BY <2>2, <2>6, <2>7, <2>9
  <2>10. CASE q # p
    <3>1. Making(q)
      BY <2>7, <2>10 DEF Making
    <3> QED BY <3>1, <2>2, <2>7, <2>8, <2>10 DEF Items
  <2> QED BY <2>9, <2>10
<1>5. ASSUME NEW p \in Proc, Publish(p) \/ Crash(p) \/ EndBuffer(p) \/ TableFree(p) PROVE Items'
  <2>1. /\ UNCHANGED <<at, accesses, item>>
        /\ \A q \in Proc : Making(q)' => Making(q)
    BY <1>5 DEF Publish, Crash, EndBuffer, TableFree, Making, Takes, Shape
  <2> QED BY <2>1 DEF Items
<1>6. ASSUME NEW p \in Proc, Fill(p) PROVE Items'
  <2>1. /\ UNCHANGED <<at, accesses>>
        /\ \A q \in Proc : Making(q)' => Making(q) /\ item'[q] = item[q]
    BY <1>6 DEF Fill, Making, Shape
  <2> QED BY <2>1 DEF Items
<1>7. ASSUME NEW p \in Proc, EndIteration(p) PROVE Items'
  <2>1. /\ UNCHANGED <<accesses, item>>
        /\ \A q \in Proc : Making(q)' => Making(q) /\ at'[q] = at[q]
    BY <1>7 DEF EndIteration, Making, Shape
  <2> QED BY <2>1 DEF Items
<1>8. CASE EndBatch \/ TakeInput \/ AnalyseNext
  <2>1. UNCHANGED <<at, accesses, item>> /\ \A q \in Proc : Making(q)' => Making(q)
    BY <1>8 DEF EndBatch, TakeInput, AnalyseNext, Making
  <2> QED BY <2>1 DEF Items
<1> QED
  BY <1>2, <1>3, <1>4, <1>5, <1>6, <1>7, <1>8 DEF Next, ReadTask


\* What an iteration that a process ends leads to
LEMMA Ends ==
  ASSUME Shape, Owning, NEW p \in Proc, EndIteration(p)
  PROVE  /\ at[p] \in Iter /\ owner[at[p]] = p
         /\ TableOf(at[p]) = <<p, ProcWPresNum[p]>> /\ TableOf(at[p]) \in Table
         /\ at[p] < at'[p] /\ \A q \in Proc : q # p => at'[q] = at[q]
         /\ ProcNextLidep'[p] = [kind |-> "start", iter |-> at[p], table |-> TableOf(at[p]),
                                 word |-> FALSE]
         /\ \A q \in Proc : q # p => ProcNextLidep'[q] = ProcNextLidep[q] /\ task'[q] = task[q]
         /\ task[p] = "reading" /\ task'[p] = "spinning"
         /\ PresIsFull'[TableOf(at[p])] = TRUE
         /\ \A t \in Table : t # TableOf(at[p]) => PresIsFull'[t] = PresIsFull[t]
<1>1. /\ at[p] \in Iter /\ owner[at[p]] = p
      /\ TableOf(at[p]) = <<p, ProcWPresNum[p]>> /\ TableOf(at[p]) \in Table
  BY Here DEF EndIteration
<1> DEFINE i == at[p]
           c == <<p, ProcWPresNum[p]>>
<1>2. i < NextOwned(p, i)
  <2>1. i \in 0 .. NumIters /\ owner \in [Iter -> Proc]
    BY <1>1, IterIs DEF Shape
  <2> HIDE DEF i
  <2> QED BY <2>1, NextOwnedIs
<1>3. /\ PresIsFull' = [PresIsFull EXCEPT ![c] = TRUE]
      /\ ProcNextLidep' = [ProcNextLidep EXCEPT ![p] = StartLCDA(i, c, FALSE)]
      /\ at' = [at EXCEPT ![p] = NextOwned(p, i)]
      /\ task[p] = "reading" /\ task' = [task EXCEPT ![p] = "spinning"]
  BY DEF EndIteration
<1>4. c \in Table /\ c = TableOf(at[p])
  BY <1>1
<1> HIDE DEF i, c
<1>5. /\ PresIsFull'[c] = TRUE /\ \A t \in Table : t # c => PresIsFull'[t] = PresIsFull[t]
      /\ at'[p] = NextOwned(p, i) /\ \A q \in Proc : q # p => at'[q] = at[q]
      /\ ProcNextLidep'[p] = StartLCDA(i, c, FALSE)
      /\ \A q \in Proc : q # p => ProcNextLidep'[q] = ProcNextLidep[q] /\ task'[q] = task[q]
      /\ task'[p] = "spinning"
  BY <1>3, <1>4 DEF Shape
<1> QED
  BY <1>1, <1>2, <1>3, <1>4, <1>5 DEF i, StartLCDA

\* Every step keeps the results of the tasks to iterations that have ended.
LEMMA ResultsNext ==
  ASSUME Shape, Shape', Owning, Results, Makes, Next PROVE Results'
<1> USE DEF reading, later
<1>1. \A i \in Iter : /\ Ended(i) => Ended(i)'
                      /\ TableOf(i)' = TableOf(i)
  BY StepMoves, Moved
<1>2. owner' = owner
  BY StepMoves DEF Moves
<1>3. ASSUME \A p \in Proc : /\ task'[p] = "spinning" => task[p] = "spinning"
                             /\ ProcNextLidep[p].kind = "start" => task'[p] \in {"spinning", "done"},
             UNCHANGED ProcNextLidep
      PROVE  Results'
  <2> SUFFICES ASSUME NEW p \in Proc
               PROVE  /\ task'[p] = "spinning" => ProcNextLidep[p].kind = "start"
                      /\ ProcNextLidep[p].kind = "start" => task'[p] \in {"spinning", "done"}
                      /\ \A i \in Iter : ProcNextLidep[p].kind = "start" /\ ProcNextLidep[p].iter = i =>
                           owner[i] = p /\ Ended(i)' /\ ProcNextLidep[p].table = TableOf(i)'
    BY <1>2, <1>3 DEF Results
  <2> QED BY <1>1, <1>3 DEF Results
<1>4. ASSUME \A p \in Proc : task'[p] # "spinning", ProcNextLidep' = [p \in Proc |-> NoInput]
      PROVE  Results'
  <2>1. \A p \in Proc : ProcNextLidep'[p].kind = "none"
    BY <1>4 DEF NoInput
  <2> QED BY <1>4, <2>1 DEF Results
<1>5. CASE StartBatch
  <2>1. \A p \in Proc : task'[p] # "spinning"
    BY <1>5 DEF StartBatch
  <2> QED BY <1>4, <1>5, <2>1 DEF StartBatch
<1>6. ASSUME NEW p \in Proc, Check(p) \/ SeeNull(p) \/ Publish(p) \/ Fill(p) \/ Crash(p)
                               \/ EndBuffer(p)
      PROVE  Results'
  <2>1. /\ task[p] \in {"reading", "allocating", "filling"} /\ task'[p] # "spinning"
        /\ \A q \in Proc : q # p => task'[q] = task[q]
        /\ UNCHANGED ProcNextLidep
    BY <1>6 DEF Check, SeeNull, Publish, Fill, Crash, EndBuffer, Takes, Shape
  <2>2. ProcNextLidep[p].kind # "start"
    BY <2>1 DEF Results
  <2> QED BY <1>3, <2>1, <2>2 DEF Results
<1>7. ASSUME NEW p \in Proc, EndIteration(p) PROVE Results'
  <2>1. /\ at[p] \in Iter /\ owner[at[p]] = p /\ at[p] < at'[p]
        /\ ProcNextLidep'[p] = [kind |-> "start", iter |-> at[p], table |-> TableOf(at[p]),
                                word |-> FALSE]
        /\ \A q \in Proc : q # p => ProcNextLidep'[q] = ProcNextLidep[q] /\ task'[q] = task[q]
        /\ task'[p] = "spinning"
    BY <1>7, Ends
  <2> SUFFICES ASSUME NEW q \in Proc
               PROVE  /\ task'[q] = "spinning" => ProcNextLidep'[q].kind = "start"
                      /\ ProcNextLidep'[q].kind = "start" => task'[q] \in {"spinning", "done"}
                      /\ \A i \in Iter : ProcNextLidep'[q].kind = "start" /\ ProcNextLidep'[q].iter = i
                           => owner'[i] = q /\ Ended(i)' /\ ProcNextLidep'[q].table = TableOf(i)'
    BY DEF Results
  <2>2. CASE q = p
    <3>1. PICK i \in Iter : i = at[p] /\ owner[i] = p /\ i < at'[p]
      BY <2>1
    <3>2. ProcNextLidep'[q] = [kind |-> "start", iter |-> i, table |-> TableOf(i), word |-> FALSE]
      BY <2>1, <2>2, <3>1
    <3>3. Ended(i)' /\ TableOf(i)' = TableOf(i)
      BY <1>1, <1>2, <3>1 DEF Ended
    <3> QED BY <2>1, <2>2, <3>1, <3>2, <3>3, <1>2
  <2>3. CASE q # p
    BY <2>1, <2>3, <1>1, <1>2 DEF Results
  <2> QED BY <2>2, <2>3
<1>8. ASSUME NEW p \in Proc, TableFree(p) PROVE Results'
  <2>1. /\ ProcNextLidep'[p] = [ProcNextLidep[p] EXCEPT !.word = inInterval[p]]
        /\ \A q \in Proc : q # p => ProcNextLidep'[q] = ProcNextLidep[q] /\ task'[q] = task[q]
        /\ task'[p] = "done" /\ task[p] = "spinning"
    BY <1>8 DEF TableFree, Shape
  <2>2. ProcNextLidep[p].kind = "start"
    BY <2>1 DEF Results
  <2>3. ProcNextLidep[p] \in Input
    BY <2>2 DEF Shape, NoInput
  <2>4. /\ ProcNextLidep'[p].kind = ProcNextLidep[p].kind
        /\ ProcNextLidep'[p].iter = ProcNextLidep[p].iter
        /\ ProcNextLidep'[p].table = ProcNextLidep[p].table
    BY <2>1, <2>3 DEF Input
  <2> SUFFICES ASSUME NEW q \in Proc
               PROVE  /\ task'[q] = "spinning" => ProcNextLidep'[q].kind = "start"
                      /\ ProcNextLidep'[q].kind = "start" => task'[q] \in {"spinning", "done"}
                      /\ \A i \in Iter : ProcNextLidep'[q].kind = "start" /\ ProcNextLidep'[q].iter = i
                           => owner'[i] = q /\ Ended(i)' /\ ProcNextLidep'[q].table = TableOf(i)'
    BY DEF Results
  <2>5. CASE q = p
    <3>1. \A i \in Iter : ProcNextLidep[p].iter = i =>
            owner[i] = p /\ Ended(i) /\ ProcNextLidep[p].table = TableOf(i)
      BY <2>2 DEF Results
    <3>2. \A i \in Iter : ProcNextLidep'[q].iter = i =>
            owner'[i] = q /\ Ended(i)' /\ ProcNextLidep'[q].table = TableOf(i)'
      BY <2>4, <2>5, <3>1, <1>1, <1>2
    <3>3. task'[q] = "done" /\ ProcNextLidep'[q].kind = "start"
      BY <2>1, <2>2, <2>4, <2>5
    <3> QED BY <3>2, <3>3
  <2>6. CASE q # p
    BY <2>1, <2>6, <1>1, <1>2 DEF Results
  <2> QED BY <2>5, <2>6
<1>9. CASE EndBatch
  <2>1. \A p \in Proc : task'[p] # "spinning"
    BY <1>9 DEF EndBatch
  <2> QED BY <1>4, <1>9, <2>1 DEF EndBatch
<1>10. CASE TakeInput \/ AnalyseNext
  <2>1. UNCHANGED <<task, ProcNextLidep>>
    BY <1>10 DEF TakeInput, AnalyseNext
  <2> QED BY <1>3, <2>1 DEF Results
<1> QED
  BY <1>5, <1>6, <1>7, <1>8, <1>9, <1>10 DEF Next, ReadTask

\* Every step keeps the inputs of LCDAFilter, and its map, to such iterations.
LEMMA HandedNext ==
  ASSUME Shape, Shape', Owning, Results, Handed, Analyses, Makes, Next PROVE Handed'
<1> USE DEF reading, later
<1>1. \A i \in Iter : /\ Ended(i) => Ended(i)'
                      /\ TableOf(i)' = TableOf(i)
  BY StepMoves, Moved
<1>2. ASSUME NEW y, y = inputs',
             \A k \in DOMAIN y : \/ \E x \in DOMAIN inputs : y[k] = inputs[x]
                                 \/ \E p \in Proc : ProcNextLidep[p].kind = "start"
                                                    /\ y[k] = ProcNextLidep[p],
             UNCHANGED LoopIterPresNum
      PROVE  Handed'
  <2>1. ASSUME NEW k \in DOMAIN inputs', NEW i \in Iter, inputs'[k].iter = i
        PROVE  Ended(i) /\ inputs'[k].table = TableOf(i)
    BY <1>2, <2>1 DEF Handed, Results
  <2> QED BY <1>1, <1>2, <2>1 DEF Handed
<1>3. CASE UNCHANGED <<inputs, LoopIterPresNum>>
  BY <1>2, <1>3
<1>4. CASE StartBatch
  BY <1>3, <1>4 DEF StartBatch
<1>5. CASE \E p \in Proc : ReadTask(p)
  BY <1>3, <1>5 DEF ReadTask, Check, SeeNull, Publish, Fill, Crash, EndBuffer, EndIteration,
                    TableFree
<1>6. CASE EndBatch
  <2>1. \A k \in DOMAIN inputs' :
          \/ k \in DOMAIN inputs /\ inputs'[k] = inputs[k]
          \/ \E p \in Proc : ProcNextLidep[p].kind = "start" /\ inputs'[k] = ProcNextLidep[p]
    BY <1>6, BatchInputs
  <2>2. UNCHANGED LoopIterPresNum
    BY <1>6 DEF EndBatch
  <2> QED BY <1>2, <2>1, <2>2
<1>7. CASE TakeInput
  <2>1. inputs # <<>> /\ inputs \in Seq(Input)
    BY <1>7 DEF TakeInput, Shape
  <2>2. /\ inputs[1] \in Input /\ 1 \in DOMAIN inputs /\ Head(inputs) = inputs[1]
        /\ DOMAIN Tail(inputs) = 1 .. Len(inputs) - 1 /\ Len(inputs) \in Nat
        /\ \A k \in 1 .. Len(inputs) - 1 : Tail(inputs)[k] = inputs[k + 1]
                                             /\ k + 1 \in DOMAIN inputs
    BY <2>1
  <2>3. \A k \in DOMAIN inputs' : \E x \in DOMAIN inputs : inputs'[k] = inputs[x]
    BY <1>7, <2>2 DEF TakeInput
  <2>4. ASSUME NEW k \in DOMAIN inputs', NEW i \in Iter, inputs'[k].iter = i
        PROVE  Ended(i) /\ inputs'[k].table = TableOf(i)
    BY <2>3, <2>4 DEF Handed
  <2>5. /\ LoopIterPresNum' = [LoopIterPresNum EXCEPT ![inputs[1].iter] = inputs[1].table]
        /\ inputs[1].iter \in Iter
    BY <1>7, <2>2 DEF TakeInput, Input
  <2>6. ASSUME NEW i \in Iter, LoopIterPresNum'[i] # NoTable
        PROVE  Ended(i) /\ LoopIterPresNum'[i] = TableOf(i)
    <3>1. CASE i = inputs[1].iter
      BY <2>2, <2>5, <3>1 DEF Handed, Shape
    <3>2. CASE i # inputs[1].iter
      <4>1. LoopIterPresNum'[i] = LoopIterPresNum[i]
        BY <2>5, <3>2 DEF Shape
      <4> QED BY <2>6, <4>1 DEF Handed
    <3> QED BY <3>1, <3>2
  <2> QED BY <1>1, <2>4, <2>6 DEF Handed
<1>8. CASE AnalyseNext
  <2>1. inputs # <<>> => \A k \in DOMAIN Tail(inputs) : \E x \in DOMAIN inputs : Tail(inputs)[k] = inputs[x]
    <3> SUFFICES ASSUME inputs # <<>>, NEW k \in DOMAIN Tail(inputs)
                 PROVE  \E x \in DOMAIN inputs : Tail(inputs)[k] = inputs[x]
      OBVIOUS
    <3>1. inputs \in Seq(Input)
      BY DEF Shape
    <3>2. Tail(inputs)[k] = inputs[k + 1] /\ k + 1 \in DOMAIN inputs
      BY <3>1
    <3> QED BY <3>2
  <2>2. /\ UNCHANGED LoopIterPresNum
        /\ inputs' = inputs \/ inputs' = Tail(inputs)
    BY <1>8 DEF AnalyseNext
  <2>3. inputs # <<>>
    BY <1>8, Analysed DEF AnalyseNext, Analyses
  <2> QED BY <1>2, <2>1, <2>2, <2>3
<1> QED
  BY <1>4, <1>5, <1>6, <1>7, <1>8 DEF Next


\* In every step only the present iteration of a process gets accesses.
LEMMA RunningNext ==
  ASSUME Shape, Shape', Owning, Running, Makes, Next PROVE Running'
<1> USE DEF reading, later
<1>1. \A i \in Iter : Ended(i) => Ended(i)'
  BY StepMoves, Moved
<1>2. owner' = owner /\ owner \in [Iter -> Proc]
  BY StepMoves DEF Moves, Shape
<1>3. ASSUME UNCHANGED at,
             \A q \in Proc : task'[q] = "spinning" => task[q] = "spinning",
             \A i \in Iter : accesses'[i] # <<>> => \/ accesses[i] # <<>>
                                                    \/ i = at[owner[i]] /\ task'[owner[i]] # "spinning"
      PROVE  Running'
  <2> SUFFICES ASSUME NEW i \in Iter, accesses'[i] # <<>>
               PROVE  Ended(i)' \/ (i = at[owner[i]] /\ task'[owner[i]] # "spinning")
    BY <1>2, <1>3 DEF Running
  <2>1. owner[i] \in Proc
    BY <1>2
  <2> QED BY <2>1, <1>1, <1>3 DEF Running
<1>4. CASE StartBatch
  <2>1. UNCHANGED <<at, accesses>> /\ \A q \in Proc : task'[q] # "spinning"
    BY <1>4 DEF StartBatch
  <2> QED BY <1>3, <2>1
<1>5. ASSUME NEW p \in Proc, Check(p) \/ SeeNull(p) PROVE Running'
  <2>1. PICK pc \in PC : Happens(p, pc)
    BY <1>5 DEF Check, SeeNull
  <2>2. task[p] = "reading" /\ UNCHANGED at /\ \A q \in Proc : task'[q] = "spinning" => task[q] = "spinning"
    BY <1>5 DEF Check, SeeNull, Takes, Shape
  <2>3. at[p] \in Iter /\ owner[at[p]] = p
    BY <2>2, Here
  <2>4. \A i \in Iter : i # at[p] => accesses'[i] = accesses[i]
    BY <2>1, <2>3, HappensType
  <2>5. task'[p] # "spinning"
    BY <2>2
  <2> QED BY <1>3, <2>2, <2>3, <2>4, <2>5
<1>6. ASSUME NEW p \in Proc, Publish(p) \/ Fill(p) \/ Crash(p) \/ EndBuffer(p) \/ TableFree(p)
      PROVE  Running'
  <2>1. /\ UNCHANGED <<at, accesses>>
        /\ \A q \in Proc : task'[q] = "spinning" => task[q] = "spinning"
    BY <1>6 DEF Publish, Fill, Crash, EndBuffer, TableFree, Shape
  <2> QED BY <1>3, <2>1
<1>7. ASSUME NEW p \in Proc, EndIteration(p) PROVE Running'
  <2>1. /\ at[p] \in Iter /\ owner[at[p]] = p /\ at[p] < at'[p]
        /\ \A q \in Proc : q # p => at'[q] = at[q] /\ task'[q] = task[q]
    <3>1. at[p] \in Iter /\ owner[at[p]] = p /\ at[p] < at'[p]
      BY <1>7, Ends
    <3>2. \A q \in Proc : q # p => at'[q] = at[q]
      BY <1>7, Ends
    <3>3. \A q \in Proc : q # p => task'[q] = task[q]
      BY <1>7 DEF EndIteration, Shape
    <3> QED BY <3>1, <3>2, <3>3
  <2>2. UNCHANGED accesses
    BY <1>7 DEF EndIteration
  <2> SUFFICES ASSUME NEW i \in Iter, accesses[i] # <<>>
               PROVE  Ended(i)' \/ (i = at'[owner[i]] /\ task'[owner[i]] # "spinning")
    BY <1>2, <2>2 DEF Running
  <2>3. CASE Ended(i)
    BY <1>1, <2>3
  <2>4. CASE ~ Ended(i)
    <3>1. i = at[owner[i]] /\ task[owner[i]] # "spinning" /\ owner[i] \in Proc
      BY <2>4, <1>2 DEF Running
    <3>2. CASE owner[i] = p
      BY <2>1, <3>1, <3>2, <1>2 DEF Ended
    <3>3. CASE owner[i] # p
      BY <2>1, <3>1, <3>3
    <3> QED BY <3>2, <3>3
  <2> QED BY <2>3, <2>4
<1>8. CASE EndBatch \/ TakeInput \/ AnalyseNext
  <2>1. /\ UNCHANGED <<at, accesses>>
        /\ \A q \in Proc : task'[q] = "spinning" => task[q] = "spinning"
    BY <1>8 DEF EndBatch, TakeInput, AnalyseNext
  <2> QED BY <1>3, <2>1
<1> QED
  BY <1>4, <1>5, <1>6, <1>7, <1>8 DEF Next, ReadTask

\* Every step keeps the order of the analyses.
LEMMA AnalysesNext ==
  ASSUME Shape, Shape', Owning, Handed, Analyses, Makes, Next PROVE Analyses'
<1> USE DEF reading, later
<1>1. \A i \in Iter : Ended(i) => Ended(i)'
  BY StepMoves, Moved
<1>2. \A i, m \in Iter : by[i] = m => Ended(m)'
  BY <1>1 DEF Analyses
<1>3. ASSUME UNCHANGED <<LoopIterPresNum, FinishedLoopIter, by, chained>>,
             inputs # <<>> => inputs' # <<>> /\ inputs'[1] = inputs[1]
      PROVE  Analyses'
  <2>1. /\ \A i \in Iter : i =< FinishedLoopIter => LoopIterPresNum[i] # NoTable /\ by[i] # 0
        /\ \A i \in Iter : i > FinishedLoopIter => by[i] = 0
        /\ \A i, m \in Iter : by[i] = m => m =< i /\ Ended(m)'
    BY <1>2 DEF Analyses
  <2>2. chained =>
          /\ inputs # <<>> /\ FinishedLoopIter < NumIters
          /\ LoopIterPresNum[FinishedLoopIter + 1] # NoTable
          /\ inputs[1].iter =< FinishedLoopIter + 1
          /\ \A i \in Iter : by[i] =< inputs[1].iter
    BY DEF Analyses
  <2> QED BY <1>3, <2>1, <2>2 DEF Analyses
<1>4. CASE StartBatch
  BY <1>3, <1>4 DEF StartBatch
<1>5. CASE \E p \in Proc : ReadTask(p)
  <2>1. UNCHANGED <<LoopIterPresNum, FinishedLoopIter, by, chained, inputs>>
    BY <1>5 DEF ReadTask, Check, SeeNull, Publish, Fill, Crash, EndBuffer, EndIteration, TableFree
  <2> QED BY <1>3, <2>1
<1>6. CASE EndBatch
  <2>1. inputs # <<>> => inputs' # <<>> /\ inputs'[1] = inputs[1]
    BY <1>6, BatchInputs
  <2> QED BY <1>3, <1>6, <2>1 DEF EndBatch
<1>7. CASE TakeInput
  <2>1. inputs # <<>> /\ inputs \in Seq(Input)
    BY <1>7 DEF TakeInput, Shape
  <2>2. inputs[1] \in Input /\ Head(inputs) = inputs[1]
    BY <2>1
  <2>3. inputs[1].iter \in Iter /\ inputs[1].table \in Table
    BY <2>2 DEF Input
  <2> DEFINE m == inputs[1].iter
  <2>4. /\ LoopIterPresNum' = [LoopIterPresNum EXCEPT ![m] = inputs[1].table]
        /\ IF m = FinishedLoopIter + 1 THEN chained' = TRUE /\ UNCHANGED inputs
           ELSE inputs' = Tail(inputs) /\ UNCHANGED chained
        /\ ~ chained /\ UNCHANGED <<FinishedLoopIter, by>>
    BY <1>7, <2>2 DEF TakeInput
  <2>5. inputs[1].table # NoTable
    BY <2>3, NoTableIs
  <2>6. \A i \in Iter : LoopIterPresNum'[i] = IF i = m THEN inputs[1].table ELSE LoopIterPresNum[i]
    BY <2>3, <2>4 DEF Shape
  <2>7. /\ \A i \in Iter : i =< FinishedLoopIter' => LoopIterPresNum'[i] # NoTable /\ by'[i] # 0
        /\ \A i \in Iter : i > FinishedLoopIter' => by'[i] = 0
        /\ \A i, n \in Iter : by'[i] = n => n =< i /\ Ended(n)'
    BY <1>2, <2>4, <2>5, <2>6 DEF Analyses
  <2>8. ASSUME chained'
        PROVE  /\ inputs' # <<>> /\ FinishedLoopIter' < NumIters
               /\ LoopIterPresNum'[FinishedLoopIter' + 1] # NoTable
               /\ inputs'[1].iter =< FinishedLoopIter' + 1
               /\ \A i \in Iter : by'[i] =< inputs'[1].iter
    <3>1. m = FinishedLoopIter + 1 /\ UNCHANGED inputs
      BY <2>4, <2>8
    <3>2. FinishedLoopIter < NumIters /\ FinishedLoopIter \in Nat
      BY <2>3, <3>1, Constants DEF Shape
    <3>3. LoopIterPresNum'[FinishedLoopIter + 1] # NoTable
      BY <2>3, <2>5, <2>6, <3>1
    <3>4. ASSUME NEW i \in Iter PROVE by[i] =< m
      <4>1. by[i] \in 0 .. NumIters /\ i \in Nat /\ m \in Nat
        BY <2>3, IterIs DEF Shape
      <4>2. CASE by[i] = 0
        BY <4>1, <4>2
      <4>3. CASE by[i] # 0
        <5>1. by[i] \in Iter /\ i =< FinishedLoopIter
          BY <4>1, <4>3, <3>2, Constants DEF Analyses
        <5>2. by[i] =< i
          BY <5>1 DEF Analyses
        <5> QED BY <4>1, <5>1, <5>2, <3>1, <3>2
      <4> QED BY <4>2, <4>3
    <3>5. m \in Nat /\ FinishedLoopIter + 1 =< FinishedLoopIter + 1
      BY <2>3, <3>2, IterIs
    <3> QED BY <2>1, <2>4, <3>1, <3>2, <3>3, <3>4, <3>5
  <2> QED BY <2>7, <2>8 DEF Analyses
<1>8. CASE AnalyseNext
  <2>1. PICK i0, m \in Iter :
          /\ i0 = FinishedLoopIter + 1 /\ m = inputs[1].iter /\ m =< i0
          /\ inputs # <<>> /\ Head(inputs) = inputs[1] /\ 1 \in DOMAIN inputs
    BY <1>8, Analysed
  <2>2. /\ by' = [by EXCEPT ![i0] = m]
        /\ FinishedLoopIter' = i0
        /\ IF i0 < NumIters /\ LoopIterPresNum[i0 + 1] # NoTable
           THEN UNCHANGED <<chained, inputs>>
           ELSE chained' = FALSE /\ inputs' = Tail(inputs)
        /\ UNCHANGED LoopIterPresNum
        /\ chained
    BY <1>8, <2>1 DEF AnalyseNext
  <2>3. FinishedLoopIter \in Nat /\ i0 \in Nat /\ m \in Nat /\ NumIters \in Nat
        /\ \A i \in Iter : i \in Nat /\ by[i] \in Nat
    <3>1. NumIters \in Nat /\ i0 \in Nat /\ m \in Nat /\ \A i \in Iter : i \in Nat
      BY IterIs, Constants
    <3>2. FinishedLoopIter \in Nat /\ \A i \in Iter : by[i] \in Nat
      BY <3>1 DEF Shape
    <3> QED BY <3>1, <3>2
  <2>4. \A i \in Iter : by'[i] = IF i = i0 THEN m ELSE by[i]
    BY <2>1, <2>2 DEF Shape
  <2>5. /\ \A i \in Iter : i =< FinishedLoopIter => LoopIterPresNum[i] # NoTable /\ by[i] # 0
        /\ \A i \in Iter : i > FinishedLoopIter => by[i] = 0
        /\ \A i, n \in Iter : by[i] = n => n =< i /\ Ended(n)'
        /\ LoopIterPresNum[i0] # NoTable
        /\ \A i \in Iter : by[i] =< m
    BY <1>2, <2>1, <2>2 DEF Analyses
  <2>6. Ended(m)'
    <3>1. Ended(m)
      BY <2>1 DEF Handed
    <3> QED BY <1>1, <3>1
  <2>7. \A i \in Iter : i =< i0 => i =< FinishedLoopIter \/ i = i0
    BY <2>1, <2>3
  <2>8. \A i \in Iter : i > i0 => i > FinishedLoopIter /\ i # i0
    BY <2>1, <2>3
  <2>9. m # 0
    BY Constants
  <2>10. /\ \A i \in Iter : i =< i0 => LoopIterPresNum[i] # NoTable /\ by'[i] # 0
         /\ \A i \in Iter : i > i0 => by'[i] = 0
         /\ \A i, n \in Iter : by'[i] = n => n =< i /\ Ended(n)'
    BY <2>1, <2>4, <2>5, <2>6, <2>7, <2>8, <2>9
  <2>11. \A i \in Iter : by'[i] =< m
    BY <2>3, <2>4, <2>5
  <2>12. chained' => /\ inputs' = inputs /\ i0 < NumIters /\ LoopIterPresNum[i0 + 1] # NoTable
    BY <2>2
  <2>13. m =< i0 + 1
    BY <2>1, <2>3
  <2> QED
    BY <2>1, <2>2, <2>10, <2>11, <2>12, <2>13 DEF Analyses
<1> QED
  BY <1>4, <1>5, <1>6, <1>7, <1>8 DEF Next


\* Only the iteration itself ends with its last access.
LEMMA EndsOne ==
  ASSUME Shape, Owning, NEW p \in Proc, EndIteration(p), NEW j \in Iter, Ended(j)'
  PROVE  Ended(j) \/ j = at[p]
<1>1. /\ at[p] \in Iter /\ owner[at[p]] = p
      /\ \A q \in Proc : q # p => at'[q] = at[q]
  BY Ends
<1>2. owner' = owner /\ owner[j] \in Proc /\ at'[p] = NextOwned(p, at[p])
  BY DEF EndIteration, Shape
<1>3. j < at'[owner[j]]
  BY <1>2 DEF Ended
<1>4. CASE owner[j] # p
  BY <1>1, <1>2, <1>3, <1>4 DEF Ended
<1>5. CASE owner[j] = p
  <2> DEFINE i == at[p]
  <2>1. i \in 0 .. NumIters /\ owner \in [Iter -> Proc]
    BY <1>1, IterIs DEF Shape
  <2> HIDE DEF i
  <2>2. \A l \in Iter : i < l /\ l < NextOwned(p, i) => owner[l] # p
    BY <2>1, NextOwnedIs
  <2>3. ~ (i < j)
    BY <1>2, <1>3, <1>5, <2>2 DEF i
  <2>4. j < i \/ j = i
    BY <2>1, <2>3, IterIs
  <2> QED BY <1>5, <2>4 DEF i, Ended
<1> QED BY <1>4, <1>5

\* Every step keeps the tables of iterations that are not analysed apart.
LEMMA TablesNext ==
  ASSUME Shape, Shape', Owning, Handed, Analyses, Tables, Makes, Next PROVE Tables'
<1> USE DEF reading, later
<1>1. owner' = owner /\ \A i \in Iter : TableOf(i)' = TableOf(i) /\ TableOf(i) \in Table
  BY StepMoves, SameOwner, TableOfIs DEF Moves, Shape
<1>2. ASSUME UNCHANGED <<at, FinishedLoopIter, PresIsFull, ProcWPresNum>>,
             \A q \in Proc : task'[q] # "spinning" => \/ task[q] # "spinning"
                                                      \/ ~ PresIsFull[<<q, ProcWPresNum[q]>>]
      PROVE  Tables'
  <2>1. \A i \in Iter : Ended(i)' <=> Ended(i)
    BY <1>1, <1>2 DEF Ended
  <2> QED BY <1>1, <1>2, <2>1 DEF Tables
<1>3. CASE StartBatch
  <2>1. /\ UNCHANGED <<at, FinishedLoopIter, PresIsFull, ProcWPresNum>>
        /\ \A q \in Proc : task[q] # "spinning"
    BY <1>3 DEF StartBatch
  <2> QED BY <1>2, <2>1
<1>4. ASSUME NEW p \in Proc, Check(p) \/ SeeNull(p) \/ Publish(p) \/ Fill(p) \/ Crash(p)
                               \/ EndBuffer(p) \/ TableFree(p)
      PROVE  Tables'
  <2>1. UNCHANGED <<at, FinishedLoopIter, PresIsFull, ProcWPresNum>>
    BY <1>4 DEF Check, SeeNull, Publish, Fill, Crash, EndBuffer, TableFree
  <2>2. \A q \in Proc : task'[q] # "spinning" => \/ task[q] # "spinning"
                                                 \/ ~ PresIsFull[<<q, ProcWPresNum[q]>>]
    BY <1>4 DEF Check, SeeNull, Publish, Fill, Crash, EndBuffer, TableFree, Takes, Shape
  <2> QED BY <1>2, <2>1, <2>2
<1>5. ASSUME NEW p \in Proc, EndIteration(p) PROVE Tables'
  <2>1. PICK i0 \in Iter :
          /\ i0 = at[p] /\ owner[i0] = p /\ TableOf(i0) = <<p, ProcWPresNum[p]>>
          /\ PresIsFull'[TableOf(i0)] = TRUE
          /\ \A t \in Table : t # TableOf(i0) => PresIsFull'[t] = PresIsFull[t]
    <3>1. /\ at[p] \in Iter /\ owner[at[p]] = p /\ TableOf(at[p]) = <<p, ProcWPresNum[p]>>
          /\ PresIsFull'[TableOf(at[p])] = TRUE
          /\ \A t \in Table : t # TableOf(at[p]) => PresIsFull'[t] = PresIsFull[t]
      BY <1>5, Ends
    <3>2. PICK i0 \in Iter : i0 = at[p]
      BY <3>1
    <3> QED BY <3>1, <3>2
  <2>2. /\ task' = [task EXCEPT ![p] = "spinning"] /\ task[p] = "reading"
        /\ ProcWPresNum' = [ProcWPresNum EXCEPT ![p] = (ProcWPresNum[p] + 1) % PRESNUM]
        /\ UNCHANGED FinishedLoopIter
    BY <1>5 DEF EndIteration
  <2>3. \A j \in Iter : Ended(j)' => Ended(j) \/ j = i0
    BY <1>5, <2>1, EndsOne
  <2>4. ASSUME NEW i \in Iter, i > FinishedLoopIter, Ended(i)' PROVE PresIsFull'[TableOf(i)]
    <3>1. CASE TableOf(i) = TableOf(i0)
      BY <2>1, <3>1
    <3>2. CASE TableOf(i) # TableOf(i0)
      <4>1. Ended(i)
        BY <2>3, <2>4, <3>2
      <4>2. PresIsFull[TableOf(i)]
        BY <2>4, <4>1 DEF Tables
      <4> QED BY <4>2, <3>2, <2>1, <1>1
    <3> QED BY <3>1, <3>2
  <2>5. ASSUME NEW q \in Proc, task'[q] # "spinning"
        PROVE  ~ PresIsFull'[<<q, ProcWPresNum'[q]>>]
    <3>1. q # p /\ task[q] # "spinning" /\ ProcWPresNum'[q] = ProcWPresNum[q]
      BY <2>2, <2>5 DEF Shape
    <3>2. <<q, ProcWPresNum[q]>> \in Table /\ <<q, ProcWPresNum[q]>> # TableOf(i0)
      BY <2>1, <3>1 DEF Shape, Table
    <3>3. ~ PresIsFull[<<q, ProcWPresNum[q]>>]
      BY <3>1 DEF Tables
    <3> QED BY <2>1, <3>1, <3>2, <3>3
  <2>6. ASSUME NEW i \in Iter, NEW j \in Iter, FinishedLoopIter < i, i < j, Ended(j)'
        PROVE  TableOf(i) # TableOf(j)
    <3>1. CASE Ended(j)
      BY <2>6, <3>1 DEF Tables
    <3>2. CASE j = i0
      <4> SUFFICES ASSUME TableOf(i) = TableOf(i0) PROVE FALSE
        BY <3>2
      <4>1. owner[i] = p
        <5>1. TableOf(i) = <<owner[i], Index(owner[i], i)>>
          BY TableOfIs DEF Shape
        <5>2. TableOf(i0) = <<p, ProcWPresNum[p]>>
          BY <2>1
        <5>3. <<owner[i], Index(owner[i], i)>> = <<p, ProcWPresNum[p]>>
          BY <5>1, <5>2
        <5> QED BY <5>3
      <4>2. Ended(i)
        BY <2>1, <2>6, <3>2, <4>1 DEF Ended
      <4>3. i > FinishedLoopIter
        BY <2>6, IterIs DEF Shape
      <4>4. PresIsFull[TableOf(i)]
        BY <4>2, <4>3 DEF Tables
      <4>5. ~ PresIsFull[<<p, ProcWPresNum[p]>>]
        BY <2>2 DEF Tables
      <4> QED BY <4>4, <4>5, <2>1
    <3> QED BY <3>1, <3>2, <2>3, <2>6
  <2> QED BY <2>2, <2>4, <2>5, <2>6, <1>1 DEF Tables
<1>6. CASE EndBatch \/ TakeInput
  <2>1. UNCHANGED <<at, FinishedLoopIter, PresIsFull, ProcWPresNum>>
    BY <1>6 DEF EndBatch, TakeInput
  <2>2. \A q \in Proc : task'[q] # "spinning" => task[q] # "spinning"
    BY <1>6 DEF EndBatch, TakeInput
  <2> QED BY <1>2, <2>1, <2>2
<1>7. CASE AnalyseNext
  <2>1. PICK i0 \in Iter : i0 = FinishedLoopIter + 1 /\ LoopIterPresNum[i0] = TableOf(i0)
    BY <1>7, Analysed
  <2>2. /\ PresIsFull' = [PresIsFull EXCEPT ![TableOf(i0)] = FALSE]
        /\ FinishedLoopIter' = i0
        /\ UNCHANGED <<at, task, ProcWPresNum>>
    BY <1>7, <2>1 DEF AnalyseNext
  <2>3. FinishedLoopIter \in Nat /\ \A i \in Iter : i \in Nat
    BY IterIs, Constants DEF Shape
  <2>4. \A t \in Table : PresIsFull'[t] = IF t = TableOf(i0) THEN FALSE ELSE PresIsFull[t]
    BY <1>1, <2>2 DEF Shape
  <2>5. \A i \in Iter : Ended(i)' <=> Ended(i)
    BY <1>1, <2>2 DEF Ended
  <2>6. ASSUME NEW i \in Iter, i > i0, Ended(i) PROVE PresIsFull'[TableOf(i)]
    <3>1. FinishedLoopIter < i0 /\ i0 < i /\ i > FinishedLoopIter
      BY <2>1, <2>3, <2>6
    <3>2. TableOf(i0) # TableOf(i) /\ PresIsFull[TableOf(i)]
      BY <2>6, <3>1 DEF Tables
    <3> QED BY <1>1, <2>4, <3>2
  <2>7. ASSUME NEW q \in Proc, task[q] # "spinning" PROVE ~ PresIsFull'[<<q, ProcWPresNum[q]>>]
    <3>1. <<q, ProcWPresNum[q]>> \in Table
      BY DEF Shape, Table
    <3>2. ~ PresIsFull[<<q, ProcWPresNum[q]>>]
      BY <2>7 DEF Tables
    <3> QED BY <2>4, <3>1, <3>2
  <2>8. ASSUME NEW i \in Iter, NEW j \in Iter, i0 < i, i < j, Ended(j)
        PROVE  TableOf(i) # TableOf(j)
    <3>1. FinishedLoopIter < i
      BY <2>1, <2>3, <2>8
    <3> QED BY <2>8, <3>1 DEF Tables
  <2> QED BY <1>1, <2>2, <2>5, <2>6, <2>7, <2>8 DEF Tables
<1> QED
  BY <1>3, <1>4, <1>5, <1>6, <1>7 DEF Next, ReadTask

\* An iteration that is analysed next is the last that has used its table.
LEMMA LastUser ==
  ASSUME Shape, Owning, Running, Tables, NEW i \in Iter, i = FinishedLoopIter + 1, Ended(i),
         NEW k \in Iter, accesses[k] # <<>>, TableOf(k) = TableOf(i)
  PROVE  k =< i
<1> SUFFICES ASSUME ~ (k =< i) PROVE FALSE
  OBVIOUS
<1>1. FinishedLoopIter < i /\ i < k /\ i > FinishedLoopIter
  BY IterIs, Constants DEF Shape
<1>2. ~ Ended(k)
  BY <1>1 DEF Tables
<1>3. k = at[owner[k]] /\ task[owner[k]] # "spinning"
  BY <1>2 DEF Running
<1>4. owner[k] \in Proc /\ owner \in [Iter -> Proc]
  BY DEF Shape
<1>5. PICK p \in Proc : p = owner[k]
  BY <1>4
<1>6. k \in 1 .. NoIter
  BY IterIs
<1>7. ProcWPresNum[p] = Index(p, k)
  BY <1>3, <1>5, <1>6 DEF Owning
<1>8. TableOf(k) = <<p, ProcWPresNum[p]>>
  BY <1>4, <1>5, <1>7, TableOfIs
<1>9. ~ PresIsFull[<<p, ProcWPresNum[p]>>]
  BY <1>3, <1>5 DEF Tables
<1>10. PresIsFull[TableOf(i)]
  BY <1>1 DEF Tables
<1> QED BY <1>8, <1>9, <1>10


-----------------------------------------------------------------------------
(***************************************************************************)
(* When there is a Trace.                                                  *)
(***************************************************************************)
LEMMA RawIs ==
  ASSUME NEW p \in Proc
  PROVE  /\ RawTrace(p).state = "raw" /\ RawTrace(p).from = p
         /\ \A q \in Proc : RawTrace(q) = RawTrace(p) => q = p
<1>1. \A q : RawTrace(q).from = q /\ RawTrace(q).state = "raw"
  BY DEF RawTrace
<1> QED BY <1>1

\* Every step keeps what is known of the allocation of the Trace.
LEMMA MadeNext ==
  ASSUME Shape, Shape', Owning, Items, Handed, Analyses, Makes, Next PROVE Made'
<1> USE DEF reading, later
<1>1. owner' = owner /\ owner \in [Iter -> Proc]
  BY StepMoves DEF Moves, Shape
<1>2. Made
  BY DEF Makes
<1>3. ASSUME UNCHANGED <<trace, accesses, torn>>,
             \A q \in Proc : Making(q) \/ Making(q)' => task'[q] = task[q] /\ at'[q] = at[q],
             trace.state = "null" => \A q \in Proc :
               ~ inInterval'[q] /\ (ProcNextLidep'[q].kind = "start" => ~ ProcNextLidep'[q].word)
      PROVE  Made'
  <2>1. \A q \in Proc : task[q] \in {"allocating", "filling"} \/ task'[q] \in {"allocating", "filling"}
          => task'[q] = task[q] /\ at'[q] = at[q]
    BY <1>3 DEF Making
  <2>2. trace.state = "null" => \A q \in Proc : task'[q] # "filling"
    BY <1>2, <2>1 DEF Made
  <2>3. trace.state = "null" => \A i \in Iter : accesses[i] # <<>> =>
          i = at'[owner[i]] /\ task'[owner[i]] = "allocating"
    BY <1>1, <1>2, <2>1 DEF Made
  <2>4. trace.state = "raw" => task'[trace.from] = "filling"
    BY <1>2, <2>1, TraceStates DEF Made
  <2>5. trace.state = "raw" => \A i \in Iter : accesses[i] # <<>> /\ i \notin torn =>
            i = at'[owner[i]] /\ task'[owner[i]] \in {"allocating", "filling"}
    BY <1>1, <1>2, <2>1 DEF Made
  <2>6. \A p \in Proc : task'[p] = "filling" /\ at'[p] \notin torn => trace = RawTrace(p)
    BY <1>2, <2>1 DEF Made
  <2> QED
    BY <1>1, <1>2, <1>3, <2>2, <2>3, <2>4, <2>5, <2>6 DEF Made
<1>4. ASSUME trace'.state = "ready",
             \A q \in Proc : task'[q] = "filling" => at'[q] \in torn',
             \A i \in torn' : accesses'[i] # <<>>
      PROVE  Made'
  BY <1>4 DEF Made
<1>5. CASE StartBatch
  <2>1. /\ \A q \in Proc : task[q] = "idle" /\ task'[q] \in {"reading", "done"}
        /\ UNCHANGED <<trace, accesses, torn, inInterval>>
        /\ ProcNextLidep' = [q \in Proc |-> NoInput]
    BY <1>5 DEF StartBatch
  <2>2. \A q \in Proc : ProcNextLidep'[q].kind # "start"
    BY <2>1 DEF NoInput
  <2> QED BY <1>2, <1>3, <2>1, <2>2 DEF Made, Making
<1>6. ASSUME NEW p \in Proc, Check(p) PROVE Made'
  <2>1. PICK pc \in PC :
          /\ Happens(p, pc)
          /\ trace' = [trace EXCEPT !.Present[<<p, ProcWPresNum[p]>>]
                         = Update(EnterIteration(PresentOf(p), pc, at[p]), pc)]
    BY <1>6 DEF Check
  <2>2. Takes(p) /\ trace.state = "ready" /\ UNCHANGED <<at, task, torn>>
    BY <1>6 DEF Check
  <2>3. trace'.state = "ready"
    BY <2>1, <2>2, CheckTrace
  <2>4. ASSUME NEW q \in Proc, task[q] = "filling" PROVE at[q] \in torn
    <3>1. trace # RawTrace(q)
      BY <2>2, RawIs
    <3> QED BY <1>2, <2>4, <3>1 DEF Made
  <2>5. \A i \in torn : accesses'[i] # <<>>
    <3>1. Moves
      BY StepMoves
    <3>2. \A i \in torn : i \in Iter /\ accesses[i] # <<>>
      BY <1>2 DEF Made, Shape
    <3> QED BY <3>1, <3>2, Moved
  <2> QED BY <1>4, <2>2, <2>3, <2>4, <2>5
<1>7. ASSUME NEW p \in Proc, SeeNull(p) PROVE Made'
  <2>1. PICK pc \in PC : Happens(p, pc)
    BY <1>7 DEF SeeNull
  <2>2. /\ task[p] = "reading" /\ trace.state = "null"
        /\ task' = [task EXCEPT ![p] = "allocating"]
        /\ UNCHANGED <<trace, at, torn, inInterval, ProcNextLidep>>
    BY <1>7 DEF SeeNull, Takes
  <2>3. at[p] \in Iter /\ owner[at[p]] = p
    BY <2>2, Here
  <2>4. \A i \in Iter : i # at[p] => accesses'[i] = accesses[i]
    BY <2>1, <2>3, HappensType
  <2>5. task'[p] = "allocating" /\ \A q \in Proc : q # p => task'[q] = task[q]
    BY <2>2 DEF Shape
  <2>6. ASSUME NEW i \in Iter, accesses'[i] # <<>>
        PROVE  i = at[owner[i]] /\ task'[owner[i]] = "allocating"
    <3>1. CASE i = at[p]
      BY <2>3, <2>5, <3>1
    <3>2. CASE i # at[p]
      <4>1. i = at[owner[i]] /\ task[owner[i]] = "allocating"
        BY <2>2, <2>4, <2>6, <3>2, <1>2 DEF Made
      <4> QED BY <4>1, <2>2, <2>5, <1>1
    <3> QED BY <3>1, <3>2
  <2>7. \A q \in Proc : task'[q] # "filling" /\ ~ inInterval[q]
    BY <1>2, <2>2, <2>5 DEF Made
  <2>8. \A i \in torn : accesses'[i] # <<>>
    <3>1. Moves
      BY StepMoves
    <3>2. \A i \in torn : i \in Iter /\ accesses[i] # <<>>
      BY <1>2 DEF Made, Shape
    <3> QED BY <3>1, <3>2, Moved
  <2>9. \A q \in Proc : ProcNextLidep[q].kind = "start" => ~ ProcNextLidep[q].word
    BY <1>2, <2>2 DEF Made
  <2> QED BY <1>1, <2>2, <2>6, <2>7, <2>8, <2>9 DEF Made
<1>8. ASSUME NEW p \in Proc, Publish(p) PROVE Made'
  <2>1. /\ task[p] = "allocating" /\ trace' = RawTrace(p)
        /\ task' = [task EXCEPT ![p] = "filling"]
        /\ torn' = IF trace.state = "null" THEN torn ELSE {i \in Iter : accesses[i] # <<>>}
        /\ UNCHANGED <<at, accesses>>
    BY <1>8 DEF Publish
  <2>2. trace'.state = "raw" /\ trace'.from = p
    BY <2>1, RawIs
  <2>3. task'[p] = "filling" /\ \A q \in Proc : q # p => task'[q] = task[q]
    BY <2>1 DEF Shape
  <2>4. ASSUME NEW i \in Iter, accesses[i] # <<>>, i \notin torn'
        PROVE  i = at[owner[i]] /\ task'[owner[i]] \in {"allocating", "filling"}
    <3>1. trace.state = "null"
      BY <2>1, <2>4
    <3>2. i = at[owner[i]] /\ task[owner[i]] = "allocating"
      BY <1>2, <2>4, <3>1 DEF Made
    <3> QED BY <2>3, <3>2, <1>1
  <2>5. ASSUME NEW q \in Proc, task'[q] = "filling", at[q] \notin torn' PROVE q = p
    <3> SUFFICES ASSUME q # p PROVE FALSE
      OBVIOUS
    <3>1. task[q] = "filling"
      BY <2>3, <2>5
    <3>2. trace.state # "null"
      BY <1>2, <3>1 DEF Made
    <3>3. at[q] \in Iter
      BY <3>1, Here
    <3>4. accesses[at[q]] # <<>>
      <4>1. accesses[at[q]] = <<[pc |-> item[q], found |-> FALSE]>>
        BY <3>1 DEF Items, Making
      <4>2. \A x : <<x>> # <<>>
        OBVIOUS
      <4> QED BY <4>1, <4>2
    <3> QED BY <2>1, <2>5, <3>2, <3>3, <3>4
  <2>6. \A i \in torn' : accesses[i] # <<>>
    BY <1>2, <2>1 DEF Made
  <2>7. trace'.state # "null"
    BY <2>2
  <2> QED BY <1>1, <2>1, <2>2, <2>3, <2>4, <2>5, <2>6, <2>7 DEF Made
<1>9. ASSUME NEW p \in Proc, Fill(p) PROVE Made'
  <2>1. /\ task[p] = "filling" /\ task' = [task EXCEPT ![p] = "reading"]
        /\ UNCHANGED <<at, accesses, torn, inInterval, ProcNextLidep>>
    BY <1>9 DEF Fill
  <2>2. task'[p] = "reading" /\ \A q \in Proc : q # p => task'[q] = task[q]
    BY <2>1 DEF Shape
  <2>3. CASE trace = RawTrace(p)
    <3>1. trace'.state = "ready"
      BY <1>9, <2>3, FillTrace
    <3>2. ASSUME NEW q \in Proc, task'[q] = "filling" PROVE at[q] \in torn
      <4>1. q # p /\ task[q] = "filling"
        BY <2>2, <3>2
      <4>2. trace # RawTrace(q)
        BY <2>3, <4>1, RawIs
      <4> QED BY <1>2, <4>1, <4>2 DEF Made
    <3>3. \A i \in torn : accesses[i] # <<>>
      BY <1>2 DEF Made
    <3> QED BY <1>4, <2>1, <3>1, <3>2, <3>3
  <2>4. CASE trace # RawTrace(p)
    <3>1. trace' = trace
      BY <1>9, <2>4, FillTrace
    <3>2. trace.state # "null"
      BY <1>2, <2>1 DEF Made
    <3>3. at[p] \in torn
      BY <1>2, <2>1, <2>4 DEF Made
    <3>4. trace.state = "raw" => trace.from \in Proc /\ trace.from # p /\ task'[trace.from] = "filling"
      <4>1. trace.state = "raw" => trace.from \in Proc /\ trace = RawTrace(trace.from)
        BY TraceStates
      <4> QED BY <1>2, <2>2, <2>4, <4>1 DEF Made
    <3>5. ASSUME trace.state = "raw", NEW i \in Iter, accesses[i] # <<>>, i \notin torn
          PROVE  i = at[owner[i]] /\ task'[owner[i]] \in {"allocating", "filling"}
      <4>1. i = at[owner[i]] /\ task[owner[i]] \in {"allocating", "filling"}
        BY <1>2, <3>5 DEF Made
      <4>2. owner[i] # p
        BY <3>3, <3>5, <4>1
      <4> QED BY <1>1, <2>2, <4>1, <4>2
    <3>6. \A q \in Proc : task'[q] = "filling" /\ at[q] \notin torn => trace = RawTrace(q)
      BY <1>2, <2>2 DEF Made
    <3>7. \A i \in torn : accesses[i] # <<>>
      BY <1>2 DEF Made
    <3> QED BY <1>1, <2>1, <3>1, <3>2, <3>4, <3>5, <3>6, <3>7 DEF Made
  <2> QED BY <2>3, <2>4
<1>10. ASSUME NEW p \in Proc, Crash(p) \/ EndBuffer(p) PROVE Made'
  <2>1. /\ task[p] = "reading" /\ task'[p] \notin {"allocating", "filling"}
        /\ \A q \in Proc : q # p => task'[q] = task[q]
        /\ UNCHANGED <<trace, at, accesses, torn, inInterval, ProcNextLidep>>
    BY <1>10 DEF Crash, EndBuffer, Takes, Shape
  <2> QED BY <1>2, <1>3, <2>1 DEF Made, Making
<1>11. ASSUME NEW p \in Proc, EndIteration(p) PROVE Made'
  <2>1. /\ task[p] = "reading" /\ task'[p] = "spinning"
        /\ \A q \in Proc : q # p => task'[q] = task[q] /\ at'[q] = at[q]
                                    /\ ProcNextLidep'[q] = ProcNextLidep[q]
        /\ UNCHANGED <<trace, accesses, torn, inInterval>>
    BY <1>11 DEF EndIteration, Shape
  <2>2. ~ ProcNextLidep'[p].word
    <3>1. ProcNextLidep'[p] = [kind |-> "start", iter |-> at[p], table |-> TableOf(at[p]),
                               word |-> FALSE]
      BY <1>11, Ends
    <3> QED BY <3>1
  <2> QED BY <1>2, <1>3, <2>1, <2>2 DEF Made, Making
<1>12. ASSUME NEW p \in Proc, TableFree(p) PROVE Made'
  <2>1. /\ task[p] = "spinning" /\ task'[p] = "done"
        /\ \A q \in Proc : q # p => task'[q] = task[q] /\ ProcNextLidep'[q] = ProcNextLidep[q]
                                    /\ inInterval'[q] = inInterval[q]
        /\ inInterval'[p] = FALSE
        /\ ProcNextLidep'[p] = [ProcNextLidep[p] EXCEPT !.word = inInterval[p]]
        /\ UNCHANGED <<trace, accesses, torn, at>>
    BY <1>12 DEF TableFree, Shape
  <2>2. ProcNextLidep'[p].kind = "start" => ProcNextLidep'[p].word = inInterval[p]
    <3>1. ProcNextLidep[p] \in Input \/ ProcNextLidep[p] = NoInput
      BY DEF Shape
    <3>2. CASE ProcNextLidep[p] \in Input
      <4>1. \A r \in Input : \A b : [r EXCEPT !.word = b].word = b
        BY DEF Input
      <4> QED BY <2>1, <3>2, <4>1
    <3>3. CASE ProcNextLidep[p] = NoInput
      BY <2>1, <3>3 DEF NoInput
    <3> QED BY <3>1, <3>2, <3>3
  <2> QED BY <1>2, <1>3, <2>1, <2>2 DEF Made, Making
<1>13. CASE EndBatch
  <2>1. /\ \A q \in Proc : task[q] = "done" /\ task'[q] = "idle"
        /\ UNCHANGED <<trace, accesses, torn, inInterval>>
        /\ ProcNextLidep' = [q \in Proc |-> NoInput]
    BY <1>13 DEF EndBatch
  <2>2. \A q \in Proc : ProcNextLidep'[q].kind # "start"
    BY <2>1 DEF NoInput
  <2> QED BY <1>2, <1>3, <2>1, <2>2 DEF Made, Making
<1>14. CASE TakeInput
  <2>1. UNCHANGED <<trace, accesses, torn, inInterval, task, at, ProcNextLidep>>
    BY <1>14 DEF TakeInput
  <2> QED BY <1>2, <1>3, <2>1 DEF Made
<1>15. CASE AnalyseNext
  <2>1. UNCHANGED <<accesses, torn, inInterval, task, at, ProcNextLidep>>
    BY <1>15 DEF AnalyseNext
  <2>2. CASE ~ inputs[1].word
    <3>1. trace' = trace
      BY <1>15, <2>2, AnalyseTrace
    <3> QED BY <1>2, <1>3, <2>1, <3>1 DEF Made
  <2>3. CASE inputs[1].word
    <3>1. Settled /\ trace'.state = "ready"
      BY <1>15, <2>3, AnalyseTrace
    <3>2. \A q \in Proc : task[q] # "filling"
      BY <3>1 DEF Settled, Making
    <3> QED BY <1>2, <1>4, <2>1, <3>1, <3>2 DEF Made
  <2> QED BY <2>2, <2>3
<1> QED
  BY <1>5, <1>6, <1>7, <1>8, <1>9, <1>10, <1>11, <1>12, <1>13, <1>14, <1>15 DEF Next, ReadTask


\* Where the inputs come from, and the tables of the iterations
LEMMA InputsNext ==
  ASSUME Shape, Handed, Analyses, Next
  PROVE  /\ \A k \in DOMAIN inputs' :
              \/ \E x \in DOMAIN inputs : inputs'[k] = inputs[x]
              \/ EndBatch /\ \E p \in Proc : ProcNextLidep[p].kind = "start"
                                             /\ inputs'[k] = ProcNextLidep[p]
         /\ \A i \in Iter : LoopIterPresNum'[i] # NoTable => Received(i)
<1> USE DEF reading, later
<1> DEFINE Same == \A k \in DOMAIN inputs' : \E x \in DOMAIN inputs : inputs'[k] = inputs[x]
<1>1. ASSUME UNCHANGED inputs PROVE Same
  BY <1>1
<1>2. ASSUME inputs # <<>>, inputs' = Tail(inputs) PROVE Same
  <2> SUFFICES ASSUME NEW k \in DOMAIN Tail(inputs)
               PROVE  \E x \in DOMAIN inputs : Tail(inputs)[k] = inputs[x]
    BY <1>2
  <2>1. inputs \in Seq(Input)
    BY DEF Shape
  <2>2. Tail(inputs)[k] = inputs[k + 1] /\ k + 1 \in DOMAIN inputs
    BY <1>2, <2>1
  <2> QED BY <2>2
<1>3. CASE StartBatch
  BY <1>1, <1>3 DEF StartBatch, Received
<1>4. CASE \E p \in Proc : ReadTask(p)
  <2>1. UNCHANGED <<inputs, LoopIterPresNum>>
    BY <1>4 DEF ReadTask, Check, SeeNull, Publish, Fill, Crash, EndBuffer, EndIteration, TableFree
  <2> QED BY <1>1, <2>1 DEF Received
<1>5. CASE EndBatch
  <2>1. UNCHANGED LoopIterPresNum
    BY <1>5 DEF EndBatch
  <2>2. \A x \in DOMAIN inputs' :
              \/ x \in DOMAIN inputs /\ inputs'[x] = inputs[x]
              \/ \E p \in Proc : ProcNextLidep[p].kind = "start" /\ inputs'[x] = ProcNextLidep[p]
    BY <1>5, BatchInputs
  <2> QED BY <1>5, <2>1, <2>2 DEF Received
<1>6. CASE TakeInput
  <2>1. inputs # <<>> /\ (inputs' = inputs \/ inputs' = Tail(inputs))
    BY <1>6 DEF TakeInput
  <2>2. Same
    BY <1>1, <1>2, <2>1
  <2>3. Head(inputs) = inputs[1] /\ 1 \in DOMAIN inputs
    <3>1. inputs \in Seq(Input)
      BY DEF Shape
    <3> QED BY <2>1, <3>1
  <2>4. LoopIterPresNum' = [LoopIterPresNum EXCEPT ![inputs[1].iter] = inputs[1].table]
    BY <1>6, <2>3 DEF TakeInput
  <2>5. ASSUME NEW i \in Iter, LoopIterPresNum'[i] # NoTable PROVE Received(i)
    <3>1. CASE i = inputs[1].iter
      BY <2>3, <3>1 DEF Received
    <3>2. CASE i # inputs[1].iter
      <4>1. LoopIterPresNum'[i] = LoopIterPresNum[i]
        BY <2>4, <3>2 DEF Shape
      <4> QED BY <2>5, <4>1 DEF Received
    <3> QED BY <3>1, <3>2
  <2> QED BY <2>2, <2>5
<1>7. CASE AnalyseNext
  <2>1. inputs # <<>> /\ (inputs' = inputs \/ inputs' = Tail(inputs)) /\ UNCHANGED LoopIterPresNum
    BY <1>7 DEF AnalyseNext, Analyses
  <2>2. Same
    BY <1>1, <1>2, <2>1
  <2> QED BY <2>1, <2>2 DEF Received
<1> QED
  BY <1>3, <1>4, <1>5, <1>6, <1>7 DEF Next

\* A Trace that is filled in, and that no task replaces, stays.
LEMMA SettledStays ==
  ASSUME Shape, Owning, Items, Handed, Analyses, Makes, Next, Settled PROVE Settled'
<1> USE DEF reading, later
<1>1. trace.state = "ready" /\ \A q \in Proc : task[q] \notin {"allocating", "filling"}
  BY DEF Settled, Making
<1>2. ASSUME trace'.state = "ready",
             \A q \in Proc : task'[q] \in {"allocating", "filling"} => task'[q] = task[q]
      PROVE  Settled'
  BY <1>1, <1>2 DEF Settled, Making
<1>3. CASE StartBatch
  <2>1. trace' = trace /\ \A q \in Proc : task'[q] \in {"reading", "done"}
    BY <1>3 DEF StartBatch
  <2> QED BY <1>1, <1>2, <2>1
<1>4. ASSUME NEW p \in Proc, Check(p) PROVE Settled'
  <2>1. Takes(p) /\ UNCHANGED task
    BY <1>4 DEF Check
  <2>2. trace'.state = "ready"
    BY <1>1, <1>4, <2>1, CheckTrace DEF Check
  <2> QED BY <1>2, <2>1, <2>2
<1>5. ASSUME NEW p \in Proc,
             SeeNull(p) \/ Publish(p) \/ Fill(p)
      PROVE  Settled'
  BY <1>1, <1>5 DEF SeeNull, Publish, Fill
<1>6. ASSUME NEW p \in Proc, Crash(p) \/ EndBuffer(p) \/ EndIteration(p) \/ TableFree(p)
      PROVE  Settled'
  <2>1. /\ UNCHANGED trace
        /\ \A q \in Proc : task'[q] \in {"allocating", "filling"} => task'[q] = task[q]
    BY <1>6 DEF Crash, EndBuffer, EndIteration, TableFree, Shape
  <2> QED BY <1>1, <1>2, <2>1
<1>7. CASE EndBatch \/ TakeInput
  <2>1. /\ UNCHANGED trace
        /\ \A q \in Proc : task'[q] \in {"allocating", "filling"} => task'[q] = task[q]
    BY <1>7 DEF EndBatch, TakeInput
  <2> QED BY <1>1, <1>2, <2>1
<1>8. CASE AnalyseNext
  <2>1. UNCHANGED task
    BY <1>8 DEF AnalyseNext
  <2>2. inputs[1].word \/ ~ inputs[1].word
    OBVIOUS
  <2>3. trace'.state = "ready"
    BY <1>1, <1>8, <2>2, AnalyseTrace
  <2> QED BY <1>2, <2>1, <2>3
<1> QED
  BY <1>3, <1>4, <1>5, <1>6, <1>7, <1>8 DEF Next, ReadTask

\* When LCDAFilter is told of the word, its Trace is settled, and stays so.
LEMMA ToldNext ==
  ASSUME Shape, Shape', Owning, Items, Handed, Analyses, Makes, Next PROVE Told'
<1>1. CASE Settled
  <2>1. Settled'
    BY <1>1, SettledStays
  <2> QED BY <2>1 DEF Told
<1>2. CASE ~ Settled
  <2>1. /\ \A k \in DOMAIN inputs : ~ inputs[k].word
        /\ \A i \in Iter : Received(i) => ~ Known(i)
    BY <1>2 DEF Makes, Told
  <2>2. /\ \A k \in DOMAIN inputs' :
              \/ \E x \in DOMAIN inputs : inputs'[k] = inputs[x]
              \/ EndBatch /\ \E p \in Proc : ProcNextLidep[p].kind = "start"
                                             /\ inputs'[k] = ProcNextLidep[p]
        /\ \A i \in Iter : LoopIterPresNum'[i] # NoTable => Received(i)
    BY InputsNext
  <2>3. ASSUME \A q \in Proc : task[q] = "done"
        PROVE  /\ \A p \in Proc : ProcNextLidep[p].kind = "start" => ~ ProcNextLidep[p].word
               /\ \A i \in Iter : accesses[i] = <<>>
    <3>1. trace.state # "ready"
      BY <1>2, <2>3 DEF Settled, Making
    <3>2. trace.state = "null"
      <4>1. trace.state = "raw" => trace.from \in Proc /\ task[trace.from] = "filling"
        BY TraceStates DEF Makes, Made
      <4> QED BY <2>3, <3>1, <4>1, TraceStates
    <3>3. \A i \in Iter : owner[i] \in Proc
      BY DEF Shape
    <3> QED BY <2>3, <3>2, <3>3 DEF Makes, Made
  <2>4. \A k \in DOMAIN inputs' : ~ inputs'[k].word
    <3>1. EndBatch => \A q \in Proc : task[q] = "done"
      BY DEF EndBatch
    <3> QED BY <2>1, <2>2, <2>3, <3>1
  <2>5. ASSUME NEW i \in Iter, Received(i)' PROVE ~ Known(i)'
    <3>1. CASE Received(i)
      <4>1. Ended(i)
        BY <3>1 DEF Received, Handed
      <4>2. Known(i)' <=> Known(i)
        BY <4>1, StepMoves, Moved
      <4> QED BY <2>1, <3>1, <4>2
    <3>2. CASE EndBatch
      <4>1. accesses' = accesses /\ \A q \in Proc : task[q] = "done"
        BY <3>2 DEF EndBatch
      <4>2. accesses'[i] = <<>>
        BY <2>3, <4>1
      <4> QED BY <4>2 DEF Known, Of
    <3> QED BY <2>2, <2>5, <3>1, <3>2 DEF Received
  <2> QED BY <2>4, <2>5 DEF Told
<1> QED BY <1>1, <1>2

\* Both parts about the allocation are kept.
LEMMA MakesNext ==
  ASSUME Shape, Shape', Owning, Items, Handed, Analyses, Makes, Next PROVE Makes'
  BY MadeNext, ToldNext DEF Makes



-----------------------------------------------------------------------------
(***************************************************************************)
(* What the analysis is told.                                              *)
(***************************************************************************)
TablesSay ==
  trace.state = "ready" =>
    \A t \in Table : \A i \in Iter : trace.Present[t].RWIter = i => accesses[i] # <<>>

TasksTell ==
  \A p \in Proc : \A i \in Iter :
    /\ at[p] = i /\ Known(i) => inInterval[p]
    /\ ProcNextLidep[p].kind = "start" /\ ProcNextLidep[p].iter = i /\ Known(i) =>
         IF task[p] = "spinning" THEN inInterval[p] ELSE ProcNextLidep[p].word

InputsTell ==
  \A k \in DOMAIN inputs : \A i \in Iter : inputs[k].iter = i /\ Known(i) => inputs[k].word

\* The parts of Tells: tables, tasks and inputs.
LEMMA TellsParts ==
  Tells <=> TablesSay /\ TasksTell /\ InputsTell
  BY DEF Tells, TablesSay, TasksTell, InputsTell

\* A table says that it is of an iteration only if the iteration has accesses.
LEMMA TablesSayNext ==
  ASSUME Shape, Shape', Owning, Items, Handed, Analyses, Makes, TablesSay, Next PROVE TablesSay'
<1> USE DEF reading, later
<1>1. \A i \in Iter : accesses[i] # <<>> => accesses'[i] # <<>>
  BY StepMoves, Moved
<1>2. ASSUME UNCHANGED trace PROVE TablesSay'
  BY <1>1, <1>2 DEF TablesSay
<1>3. EmptyTable.RWIter \notin Iter
  BY Constants DEF EmptyTable
<1>4. CASE StartBatch \/ EndBatch \/ TakeInput
  BY <1>2, <1>4 DEF StartBatch, EndBatch, TakeInput
<1>5. ASSUME NEW p \in Proc,
             SeeNull(p) \/ Crash(p) \/ EndBuffer(p) \/ EndIteration(p) \/ TableFree(p)
      PROVE  TablesSay'
  BY <1>2, <1>5 DEF SeeNull, Crash, EndBuffer, EndIteration, TableFree
<1>6. ASSUME NEW p \in Proc, Check(p) PROVE TablesSay'
  <2>1. PICK pc \in PC :
          /\ Happens(p, pc)
          /\ trace' = [trace EXCEPT !.Present[<<p, ProcWPresNum[p]>>]
                         = Update(EnterIteration(PresentOf(p), pc, at[p]), pc)]
    BY <1>6 DEF Check
  <2>2. Takes(p) /\ trace.state = "ready" /\ task[p] = "reading"
    BY <1>6 DEF Check, Takes
  <2>3. PICK c \in Table, i0 \in Iter : c = <<p, ProcWPresNum[p]>> /\ i0 = at[p]
    BY <2>2, Here
  <2>4. /\ trace'.Present[c].RWIter = i0
        /\ \A t \in Table : t # c => trace'.Present[t] = trace.Present[t]
    BY <2>1, <2>2, <2>3, CheckTrace
  <2>5. accesses'[i0] # <<>>
    <3>1. accesses'[i0] = Append(accesses[i0], [pc |-> pc, found |-> trace.state = "ready"])
      BY <2>1, <2>3, HappensType
    <3>2. accesses[i0] \in Seq(Access)
      BY DEF Shape
    <3>3. (trace.state = "ready") \in BOOLEAN
      OBVIOUS
    <3> QED BY <3>1, <3>2, <3>3, Appended
  <2> SUFFICES ASSUME NEW t \in Table, NEW i \in Iter, trace'.Present[t].RWIter = i
               PROVE  accesses'[i] # <<>>
    BY DEF TablesSay
  <2>6. CASE t = c
    BY <2>4, <2>5, <2>6
  <2>7. CASE t # c
    BY <2>2, <2>4, <2>7, <1>1 DEF TablesSay
  <2> QED BY <2>6, <2>7
<1>7. ASSUME NEW p \in Proc, Publish(p) PROVE TablesSay'
  <2>1. trace' = RawTrace(p)
    BY <1>7 DEF Publish
  <2>2. trace'.state = "raw"
    BY <2>1, RawIs
  <2> QED BY <2>2 DEF TablesSay
<1>8. ASSUME NEW p \in Proc, Fill(p) PROVE TablesSay'
  <2>1. CASE trace # RawTrace(p)
    BY <1>2, <1>8, <2>1, FillTrace
  <2>2. CASE trace = RawTrace(p)
    <3>1. task[p] = "filling"
      BY <1>8 DEF Fill
    <3>2. PICK c \in Table, i0 \in Iter, pc \in PC :
            c = <<p, ProcWPresNum[p]>> /\ i0 = at[p] /\ pc = item[p]
      BY <3>1, Here DEF Items, Making
    <3>3. /\ trace'.Present[c] = Update(EnterIteration(EmptyTable, pc, i0), pc)
          /\ \A t \in Table : t # c => trace'.Present[t] = EmptyTable
      BY <1>8, <2>2, <3>2, FillTrace
    <3>4. trace'.Present[c].RWIter = i0
      BY <3>3, FilledType
    <3>5. accesses[i0] # <<>>
      <4>1. accesses[i0] = <<[pc |-> item[p], found |-> FALSE]>>
        BY <3>1, <3>2 DEF Items, Making
      <4>2. \A x : <<x>> # <<>>
        OBVIOUS
      <4> QED BY <4>1, <4>2
    <3> QED BY <1>1, <1>3, <3>3, <3>4, <3>5 DEF TablesSay
  <2> QED BY <2>1, <2>2
<1>9. CASE AnalyseNext
  <2>1. CASE ~ inputs[1].word
    BY <1>2, <1>9, <2>1, AnalyseTrace
  <2>2. CASE inputs[1].word
    <3>1. PICK c \in Table : c = TableOf(FinishedLoopIter + 1)
      BY <1>9, Analysed
    <3>2. /\ Settled /\ trace'.Present[c] = EmptyTable
          /\ \A u \in Table : u # c => trace'.Present[u] = trace.Present[u]
      BY <1>9, <2>2, <3>1, AnalyseTrace
    <3> QED BY <1>1, <1>3, <3>2 DEF TablesSay, Settled
  <2> QED BY <2>1, <2>2
<1> QED
  BY <1>4, <1>5, <1>6, <1>7, <1>8, <1>9 DEF Next, ReadTask

\* The inputs of LCDAFilter tell of the word if their iterations are known.
LEMMA InputsTellNext ==
  ASSUME Shape, Shape', Owning, Items, Results, Handed, Analyses, Makes, TasksTell, InputsTell, Next
  PROVE  InputsTell'
<1>1. \A i \in Iter : Ended(i) => (Known(i)' <=> Known(i))
  BY StepMoves, Moved
<1>2. ASSUME NEW k \in DOMAIN inputs', NEW i \in Iter, inputs'[k].iter = i, Known(i)'
      PROVE  inputs'[k].word
  <2>1. CASE \E x \in DOMAIN inputs : inputs'[k] = inputs[x]
    <3>1. PICK x \in DOMAIN inputs : inputs'[k] = inputs[x]
      BY <2>1
    <3>2. Ended(i)
      BY <1>2, <3>1 DEF Handed
    <3> QED BY <1>1, <1>2, <3>1, <3>2 DEF InputsTell
  <2>2. CASE EndBatch /\ \E p \in Proc : ProcNextLidep[p].kind = "start"
                                         /\ inputs'[k] = ProcNextLidep[p]
    <3>1. PICK p \in Proc : ProcNextLidep[p].kind = "start" /\ inputs'[k] = ProcNextLidep[p]
      BY <2>2
    <3>2. task[p] # "spinning"
      BY <2>2 DEF EndBatch
    <3>3. Ended(i)
      BY <1>2, <3>1 DEF Results
    <3> QED BY <1>1, <1>2, <3>1, <3>2, <3>3 DEF TasksTell
  <2> QED BY <2>1, <2>2, InputsNext
<1> QED BY <1>2 DEF InputsTell


\* So do the intervals of the tasks, and their results.
LEMMA TasksTellNext ==
  ASSUME Shape, Shape', Owning, Items, Results, Handed, Running, Running', Analyses, Makes,
         TablesSay, TasksTell, Next
  PROVE  TasksTell'
<1> USE DEF reading, later
<1>1. /\ \A i \in Iter : /\ Ended(i) => (Known(i)' <=> Known(i)) /\ accesses'[i] = accesses[i]
                         /\ accesses[i] # <<>> => (Known(i)' <=> Known(i))
      /\ owner' = owner /\ owner \in [Iter -> Proc]
  BY StepMoves, Moved DEF Moves, Shape
<1>2. ASSUME UNCHANGED <<at, accesses, inInterval>>,
             \A q \in Proc : ProcNextLidep'[q].kind = "start" =>
               ProcNextLidep'[q] = ProcNextLidep[q] /\ (task'[q] = "spinning" <=> task[q] = "spinning")
      PROVE  TasksTell'
  <2>1. \A i \in Iter : Known(i)' <=> Known(i)
    BY <1>2 DEF Known, Of
  <2> QED BY <1>2, <2>1 DEF TasksTell
\* An access of process p
<1>3. ASSUME NEW p \in Proc, NEW i0 \in Iter, at[p] = i0, task[p] = "reading",
             UNCHANGED <<at, ProcNextLidep>>,
             \A i \in Iter : i # i0 => accesses'[i] = accesses[i],
             \A q \in Proc : inInterval[q] => inInterval'[q],
             \A q \in Proc : task'[q] = "spinning" <=> task[q] = "spinning",
             accesses[i0] = <<>> /\ Known(i0)' => inInterval'[p]
      PROVE  TasksTell'
  <2>1. \A i \in Iter : i # i0 => (Known(i)' <=> Known(i))
    BY <1>3 DEF Known, Of
  <2> SUFFICES ASSUME NEW q \in Proc, NEW i \in Iter, Known(i)'
               PROVE  /\ at[q] = i => inInterval'[q]
                      /\ ProcNextLidep[q].kind = "start" /\ ProcNextLidep[q].iter = i =>
                           IF task[q] = "spinning" THEN inInterval'[q] ELSE ProcNextLidep[q].word
    BY <1>3 DEF TasksTell
  <2>2. ASSUME at[q] = i PROVE inInterval'[q]
    <3>1. CASE i = i0 /\ accesses[i0] # <<>>
      <4>1. Known(i)
        BY <1>1, <3>1
      <4> QED BY <1>3, <2>2, <4>1 DEF TasksTell
    <3>2. CASE i = i0 /\ accesses[i0] = <<>>
      <4>1. owner[i0] = p /\ owner[i0] = q
        BY <1>3, <2>2, <3>2, IterIs DEF Owning
      <4> QED BY <1>3, <3>2, <4>1
    <3>3. CASE i # i0
      BY <1>3, <2>1, <2>2, <3>3 DEF TasksTell
    <3> QED BY <3>1, <3>2, <3>3
  <2>3. ASSUME ProcNextLidep[q].kind = "start", ProcNextLidep[q].iter = i
        PROVE  IF task[q] = "spinning" THEN inInterval'[q] ELSE ProcNextLidep[q].word
    <3>1. Ended(i)
      BY <2>3 DEF Results
    <3>2. Known(i)
      BY <1>1, <3>1
    <3> QED BY <1>3, <2>3, <3>2 DEF TasksTell
  <2> QED BY <2>2, <2>3
<1>4. CASE StartBatch \/ EndBatch
  <2>1. /\ UNCHANGED <<at, accesses, inInterval>>
        /\ ProcNextLidep' = [p \in Proc |-> NoInput]
    BY <1>4 DEF StartBatch, EndBatch
  <2>2. \A q \in Proc : ProcNextLidep'[q].kind # "start"
    BY <2>1 DEF NoInput
  <2> QED BY <1>2, <2>1, <2>2
<1>5. CASE TakeInput \/ AnalyseNext
  <2>1. UNCHANGED <<at, accesses, inInterval, ProcNextLidep, task>>
    BY <1>5 DEF TakeInput, AnalyseNext
  <2> QED BY <1>2, <2>1
<1>6. ASSUME NEW p \in Proc, Publish(p) \/ Fill(p) \/ Crash(p) PROVE TasksTell'
  <2>1. /\ UNCHANGED <<at, accesses, inInterval, ProcNextLidep>>
        /\ \A q \in Proc : task'[q] = "spinning" <=> task[q] = "spinning"
    BY <1>6 DEF Publish, Fill, Crash, Takes, Shape
  <2> QED BY <1>2, <2>1
<1>7. ASSUME NEW p \in Proc, EndBuffer(p) PROVE TasksTell'
  <2>1. /\ UNCHANGED <<at, accesses, inInterval, ProcNextLidep>>
        /\ \A q \in Proc : task'[q] = "spinning" <=> task[q] = "spinning"
    BY <1>7 DEF EndBuffer, Shape
  <2> QED BY <1>2, <2>1
<1>8. ASSUME NEW p \in Proc, Check(p) PROVE TasksTell'
  <2>1. PICK pc \in PC :
          /\ Happens(p, pc)
          /\ inInterval' = [inInterval EXCEPT ![p] = @ \/ Notes(PresentOf(p), pc, at[p])]
    BY <1>8 DEF Check
  <2>2. /\ Takes(p) /\ trace.state = "ready" /\ task[p] = "reading"
        /\ UNCHANGED <<at, ProcNextLidep, task>>
    BY <1>8 DEF Check, Takes
  <2>3. PICK c \in Table, i0 \in Iter : c = <<p, ProcWPresNum[p]>> /\ i0 = at[p]
    BY <2>2, Here
  <2>4. /\ \A i \in Iter : i # i0 => accesses'[i] = accesses[i]
        /\ accesses'[i0] = Append(accesses[i0], [pc |-> pc, found |-> trace.state = "ready"])
    BY <2>1, <2>3, HappensType
  <2>5. /\ \A q \in Proc : inInterval[q] => inInterval'[q]
        /\ Notes(PresentOf(p), pc, i0) => inInterval'[p]
    BY <2>1, <2>3 DEF Shape
  <2>6. ASSUME accesses[i0] = <<>>, Known(i0)' PROVE inInterval'[p]
    <3>1. PresentOf(p).RWIter # i0
      <4>1. PresentOf(p) = trace.Present[c]
        BY <2>2, <2>3, PresentOfIs
      <4> QED BY <2>2, <2>6, <4>1 DEF TablesSay
    <3>2. accesses'[i0] = <<[pc |-> pc, found |-> trace.state = "ready"]>>
      <4>1. \A a : Append(<<>>, a) = <<a>>
        OBVIOUS
      <4> QED BY <2>4, <2>6, <4>1
    <3>3. ~ pc.write
      <4>1. \A a : Head(<<a>>) = a
        OBVIOUS
      <4>2. Head(accesses'[i0]).pc = pc
        BY <3>2, <4>1
      <4>3. ~ Head(accesses'[i0]).pc.write
        BY <2>6 DEF Known, Of
      <4> QED BY <4>2, <4>3
    <3> QED BY <2>5, <3>1, <3>3 DEF Notes
  <2> QED BY <1>3, <2>2, <2>3, <2>4, <2>5, <2>6
<1>9. ASSUME NEW p \in Proc, SeeNull(p) PROVE TasksTell'
  <2>1. PICK pc \in PC : Happens(p, pc)
    BY <1>9 DEF SeeNull
  <2>2. /\ trace.state = "null" /\ task[p] = "reading"
        /\ UNCHANGED <<at, ProcNextLidep, inInterval>>
        /\ \A q \in Proc : task'[q] = "spinning" <=> task[q] = "spinning"
    BY <1>9 DEF SeeNull, Takes, Shape
  <2>3. PICK i0 \in Iter : i0 = at[p] /\ owner[i0] = p
    BY <2>2, Here
  <2>4. /\ \A i \in Iter : i # i0 => accesses'[i] = accesses[i]
        /\ accesses'[i0] = Append(accesses[i0], [pc |-> pc, found |-> trace.state = "ready"])
    BY <2>1, <2>3, HappensType
  <2>5. accesses[i0] = <<>>
    BY <2>2, <2>3 DEF Makes, Made
  <2>6. ~ Known(i0)'
    <3>1. (trace.state = "ready") = FALSE
      BY <2>2
    <3>2. \A a : Append(<<>>, a) = <<a>>
      OBVIOUS
    <3>3. accesses'[i0] = <<[pc |-> pc, found |-> FALSE]>>
      BY <2>4, <2>5, <3>1, <3>2
    <3>4. \A a : Head(<<a>>) = a
      OBVIOUS
    <3>5. Head(accesses'[i0]).found = FALSE
      BY <3>3, <3>4
    <3> QED BY <3>5 DEF Known, Of
  <2> QED BY <1>3, <2>2, <2>3, <2>4, <2>6
<1>10. ASSUME NEW p \in Proc, EndIteration(p) PROVE TasksTell'
  <2>1. PICK i0 \in Iter : i0 = at[p]
    BY <1>10, Ends
  <2>2. /\ UNCHANGED <<accesses, inInterval>> /\ task'[p] = "spinning"
        /\ \A q \in Proc : q # p => /\ task'[q] = task[q] /\ at'[q] = at[q]
                                    /\ ProcNextLidep'[q] = ProcNextLidep[q]
    BY <1>10 DEF EndIteration, Shape
  <2>3. ProcNextLidep'[p].iter = i0
    <3>1. ProcNextLidep'[p] = [kind |-> "start", iter |-> at[p], table |-> TableOf(at[p]),
                               word |-> FALSE]
      BY <1>10, Ends
    <3> QED BY <2>1, <3>1
  <2>4. \A i \in Iter : Known(i)' <=> Known(i)
    BY <2>2 DEF Known, Of
  <2>5. ASSUME NEW i \in Iter, at'[p] = i PROVE ~ Known(i)
    <3>1. i \in 1 .. NoIter /\ Owning'
      BY IterIs, OwningNext
    <3>2. owner'[i] = p
      BY <2>5, <3>1 DEF Owning
    <3>3. ~ Ended(i)'
      BY <2>5, <3>2, IterIs DEF Ended
    <3>4. accesses'[i] = <<>>
      BY <2>2, <2>5, <3>2, <3>3 DEF Running
    <3> QED BY <2>2, <3>4 DEF Known, Of
  <2> SUFFICES ASSUME NEW q \in Proc, NEW i \in Iter, Known(i)
               PROVE  /\ at'[q] = i => inInterval[q]
                      /\ ProcNextLidep'[q].kind = "start" /\ ProcNextLidep'[q].iter = i =>
                           IF task'[q] = "spinning" THEN inInterval[q] ELSE ProcNextLidep'[q].word
    BY <2>2, <2>4 DEF TasksTell
  <2>6. CASE q = p
    BY <2>1, <2>2, <2>3, <2>5, <2>6 DEF TasksTell
  <2>7. CASE q # p
    BY <2>2, <2>7 DEF TasksTell
  <2> QED BY <2>6, <2>7
<1>11. ASSUME NEW p \in Proc, TableFree(p) PROVE TasksTell'
  <2>1. /\ UNCHANGED <<accesses, at>> /\ task[p] = "spinning" /\ task'[p] = "done"
        /\ \A q \in Proc : q # p => /\ task'[q] = task[q] /\ inInterval'[q] = inInterval[q]
                                    /\ ProcNextLidep'[q] = ProcNextLidep[q]
        /\ ProcNextLidep'[p] = [ProcNextLidep[p] EXCEPT !.word = inInterval[p]]
    BY <1>11 DEF TableFree, Shape
  <2>2. /\ ProcNextLidep'[p].word = inInterval[p]
        /\ ProcNextLidep'[p].iter = ProcNextLidep[p].iter
        /\ ProcNextLidep[p].kind = "start"
    <3>1. ProcNextLidep[p] \in Input
      BY <2>1 DEF Shape, Results, NoInput
    <3> QED BY <2>1, <3>1 DEF Input
  <2>3. \A i \in Iter : Known(i)' <=> Known(i)
    BY <2>1 DEF Known, Of
  <2>4. ASSUME NEW i \in Iter, at[p] = i PROVE ~ Known(i)
    <3>1. owner[i] = p
      BY <2>4, IterIs DEF Owning
    <3>2. ~ Ended(i)
      BY <2>4, <3>1, IterIs DEF Ended
    <3>3. accesses[i] = <<>>
      BY <2>1, <2>4, <3>1, <3>2 DEF Running
    <3> QED BY <3>3 DEF Known, Of
  <2> SUFFICES ASSUME NEW q \in Proc, NEW i \in Iter, Known(i)
               PROVE  /\ at[q] = i => inInterval'[q]
                      /\ ProcNextLidep'[q].kind = "start" /\ ProcNextLidep'[q].iter = i =>
                           IF task'[q] = "spinning" THEN inInterval'[q] ELSE ProcNextLidep'[q].word
    BY <2>1, <2>3 DEF TasksTell
  <2>5. CASE q = p
    BY <2>1, <2>2, <2>4, <2>5 DEF TasksTell
  <2>6. CASE q # p
    BY <2>1, <2>6 DEF TasksTell
  <2> QED BY <2>5, <2>6
<1> QED
  BY <1>4, <1>5, <1>6, <1>7, <1>8, <1>9, <1>10, <1>11 DEF Next, ReadTask

\* All parts of Tells are kept.
LEMMA TellsNext ==
  ASSUME Shape, Shape', Owning, Items, Results, Handed, Running, Running', Analyses, Makes, Tells,
         Next
  PROVE  Tells'
<1>1. TablesSay /\ TasksTell /\ InputsTell
  BY TellsParts
<1>2. TablesSay' /\ TasksTell' /\ InputsTell'
  BY <1>1, TablesSayNext, TasksTellNext, InputsTellNext
<1> QED BY <1>2, TellsParts DEF Tells, TablesSay, TasksTell, InputsTell



-----------------------------------------------------------------------------
(***************************************************************************)
(* Whose accesses the tables and the precede tables hold.                  *)
(***************************************************************************)
\* The accesses that have been made stay, and so does what follows from them.
LEMMA UsedStays ==
  ASSUME Shape, Shape', Moves
  PROVE  /\ \A t \in Table : UsedBy(t) \subseteq UsedBy(t)'
         /\ \A pc, i : i \in Iter /\ TookPart(pc, i) => TookPart(pc, i)'
<1>1. \A i \in Iter : /\ TableOf(i)' = TableOf(i)
                      /\ Longer(accesses[i], accesses'[i])
  BY SameOwner DEF Moves
<1>2. \A k \in Iter : \A pc : (\E x \in DOMAIN accesses[k] : accesses[k][x].pc = pc)
        => \E x \in DOMAIN accesses'[k] : accesses'[k][x].pc = pc
  BY <1>1 DEF Longer
<1>3. \A t \in Table : UsedBy(t) \subseteq UsedBy(t)'
  BY <1>1, <1>2 DEF UsedBy
<1>4. \A pc, i : i \in Iter /\ TookPart(pc, i) => TookPart(pc, i)'
  BY <1>1, <1>2 DEF TookPart
<1> QED BY <1>3, <1>4

TablesHold ==
  trace.state = "ready" =>
    \A t \in Table : \A Q \in SUBSET PC : UsedBy(t) \subseteq Q => trace.Present[t] \in TableOver(Q)

PrecedeHold ==
  trace.state = "ready" =>
    \A q \in trace.PrecedeR \cup trace.PrecedeW :
      \E pc \in {q.pc}, i \in Iter : i =< FinishedLoopIter /\ by[i] = q.iter /\ TookPart(pc, i)

\* The parts of Holds: present and precede tables.
LEMMA HoldsParts ==
  Holds <=> TablesHold /\ PrecedeHold
  BY DEF Holds, TablesHold, PrecedeHold

\* Present tables hold nodes of instructions of the iterations that used them.
LEMMA TablesHoldNext ==
  ASSUME Shape, Shape', Owning, Items, Handed, Analyses, Makes, TablesHold, Next
  PROVE  TablesHold'
<1> USE DEF reading, later
<1>1. \A t \in Table : UsedBy(t) \subseteq UsedBy(t)'
  BY StepMoves, UsedStays
<1>2. ASSUME UNCHANGED trace PROVE TablesHold'
  <2> SUFFICES ASSUME trace.state = "ready", NEW t \in Table, NEW Q \in SUBSET PC, UsedBy(t)' \subseteq Q
               PROVE  trace.Present[t] \in TableOver(Q)
    BY <1>2 DEF TablesHold
  <2>1. UsedBy(t) \subseteq Q
    BY <1>1
  <2> QED BY <2>1 DEF TablesHold
<1>3. \A Q : EmptyTable \in TableOver(Q) /\ TableOK(EmptyTable)
  BY EmptyTableType
<1>4. CASE StartBatch \/ EndBatch \/ TakeInput
  BY <1>2, <1>4 DEF StartBatch, EndBatch, TakeInput
<1>5. ASSUME NEW p \in Proc,
             SeeNull(p) \/ Crash(p) \/ EndBuffer(p) \/ EndIteration(p) \/ TableFree(p)
      PROVE  TablesHold'
  BY <1>2, <1>5 DEF SeeNull, Crash, EndBuffer, EndIteration, TableFree
<1>6. ASSUME NEW p \in Proc, Check(p) PROVE TablesHold'
  <2>1. PICK pc \in PC :
          /\ Happens(p, pc)
          /\ trace' = [trace EXCEPT !.Present[<<p, ProcWPresNum[p]>>]
                         = Update(EnterIteration(PresentOf(p), pc, at[p]), pc)]
    BY <1>6 DEF Check
  <2>2. Takes(p) /\ trace.state = "ready" /\ task[p] = "reading"
    BY <1>6 DEF Check, Takes
  <2>3. PICK c \in Table, i0 \in Iter : c = <<p, ProcWPresNum[p]>> /\ i0 = at[p] /\ TableOf(i0) = c
    BY <2>2, Here
  <2>4. PICK t0 \in TableOver(PC) : t0 = PresentOf(p) /\ t0 = trace.Present[c] /\ TableOK(t0)
    BY <2>2, <2>3, PresentOfIs
  <2>5. /\ trace'.Present[c] = Update(EnterIteration(t0, pc, i0), pc)
        /\ \A t \in Table : t # c => trace'.Present[t] = trace.Present[t]
    BY <2>1, <2>2, <2>3, <2>4, CheckTrace
  <2>6. pc \in UsedBy(c)'
    <3>1. accesses'[i0] = Append(accesses[i0], [pc |-> pc, found |-> trace.state = "ready"])
      BY <2>1, <2>3, HappensType
    <3>2. accesses[i0] \in Seq(Access) /\ (trace.state = "ready") \in BOOLEAN
      BY DEF Shape
    <3>3. \E x \in DOMAIN accesses'[i0] : accesses'[i0][x].pc = pc
      <4>1. PICK n \in Nat : n = Len(accesses[i0])
        BY <3>2
      <4>2. n + 1 \in DOMAIN accesses'[i0] /\ accesses'[i0][n + 1].pc = pc
        BY <3>1, <3>2, <4>1, Appended
      <4> QED BY <4>2
    <3>4. TableOf(i0)' = c
      BY <2>3, StepMoves, Moved
    <3> QED BY <3>3, <3>4 DEF UsedBy
  <2> SUFFICES ASSUME NEW t \in Table, NEW Q \in SUBSET PC, UsedBy(t)' \subseteq Q
               PROVE  trace'.Present[t] \in TableOver(Q)
    BY DEF TablesHold
  <2>7. trace.Present[t] \in TableOver(Q)
    BY <1>1, <2>2 DEF TablesHold
  <2>8. CASE t = c
    <3>1. pc \in Q /\ t0 \in TableOver(Q)
      BY <2>4, <2>6, <2>7, <2>8
    <3> QED BY <2>4, <2>5, <2>8, <3>1, CheckedType
  <2>9. CASE t # c
    BY <2>5, <2>7, <2>9
  <2> QED BY <2>8, <2>9
<1>7. ASSUME NEW p \in Proc, Publish(p) PROVE TablesHold'
  <2>1. trace' = RawTrace(p)
    BY <1>7 DEF Publish
  <2>2. trace'.state = "raw"
    BY <2>1, RawIs
  <2> QED BY <2>2 DEF TablesHold
<1>8. ASSUME NEW p \in Proc, Fill(p) PROVE TablesHold'
  <2>1. CASE trace # RawTrace(p)
    BY <1>2, <1>8, <2>1, FillTrace
  <2>2. CASE trace = RawTrace(p)
    <3>1. task[p] = "filling" /\ UNCHANGED accesses
      BY <1>8 DEF Fill
    <3>2. PICK c \in Table, i0 \in Iter, pc \in PC :
            c = <<p, ProcWPresNum[p]>> /\ i0 = at[p] /\ pc = item[p] /\ TableOf(i0) = c
      BY <3>1, Here DEF Items, Making
    <3>3. /\ trace'.Present[c] = Update(EnterIteration(EmptyTable, pc, i0), pc)
          /\ \A t \in Table : t # c => trace'.Present[t] = EmptyTable
      BY <1>8, <2>2, <3>2, FillTrace
    <3>4. pc \in UsedBy(c)
      <4>1. accesses[i0] = <<[pc |-> pc, found |-> FALSE]>>
        BY <3>1, <3>2 DEF Items, Making
      <4>2. \A a : 1 \in DOMAIN <<a>> /\ <<a>>[1] = a
        OBVIOUS
      <4>3. 1 \in DOMAIN accesses[i0] /\ accesses[i0][1].pc = pc
        BY <4>1, <4>2
      <4> QED BY <3>2, <4>3 DEF UsedBy
    <3> SUFFICES ASSUME NEW t \in Table, NEW Q \in SUBSET PC, UsedBy(t)' \subseteq Q
                 PROVE  trace'.Present[t] \in TableOver(Q)
      BY DEF TablesHold
    <3>5. CASE t = c
      <4>1. pc \in Q
        BY <1>1, <3>4, <3>5
      <4> QED BY <1>3, <3>3, <3>5, <4>1, CheckedType
    <3>6. CASE t # c
      BY <1>3, <3>3, <3>6
    <3> QED BY <3>5, <3>6
  <2> QED BY <2>1, <2>2
<1>9. CASE AnalyseNext
  <2>1. CASE ~ inputs[1].word
    BY <1>2, <1>9, <2>1, AnalyseTrace
  <2>2. CASE inputs[1].word
    <3>1. PICK c \in Table : c = TableOf(FinishedLoopIter + 1)
      BY <1>9, Analysed
    <3>2. /\ trace.state = "ready" /\ trace'.Present[c] = EmptyTable
          /\ \A u \in Table : u # c => trace'.Present[u] = trace.Present[u]
      BY <1>9, <2>2, <3>1, AnalyseTrace DEF Settled
    <3> SUFFICES ASSUME NEW t \in Table, NEW Q \in SUBSET PC, UsedBy(t)' \subseteq Q
                 PROVE  trace'.Present[t] \in TableOver(Q)
      BY DEF TablesHold
    <3>3. trace.Present[t] \in TableOver(Q)
      BY <1>1, <3>2 DEF TablesHold
    <3> QED BY <1>3, <3>2, <3>3
  <2> QED BY <2>1, <2>2
<1> QED
  BY <1>4, <1>5, <1>6, <1>7, <1>8, <1>9 DEF Next, ReadTask

\* The nodes of the table that is analysed are of accesses up to its iteration.
LEMMA NodesTookPart ==
  ASSUME Shape, Owning, Running, Handed, Analyses, Tables, TablesHold, AnalyseNext,
         trace.state = "ready", NEW i \in Iter, i = FinishedLoopIter + 1
  PROVE  LET t == trace.Present[TableOf(i)] IN
         \A n \in Range(t.RTrace) \cup Range(t.WTrace) : n.pc \in PC /\ TookPart(n.pc, i)
<1> DEFINE t == trace.Present[TableOf(i)]
           Q == UsedBy(TableOf(i))
<1>1. TableOf(i) \in Table /\ Ended(i)
  BY Analysed
<1>2. Q \in SUBSET PC
  BY DEF UsedBy
<1>3. t \in TableOver(Q)
  BY <1>1, <1>2 DEF TablesHold
<1>4. t.RTrace \in Seq(NodesOf(Q)) /\ t.WTrace \in Seq(NodesOf(Q))
  <2> HIDE DEF t, Q
  <2> QED BY <1>3, TableFields
<1> SUFFICES ASSUME NEW n \in Range(t.RTrace) \cup Range(t.WTrace)
             PROVE  n.pc \in PC /\ TookPart(n.pc, i)
  OBVIOUS
<1>5. n \in NodesOf(Q)
  <2> HIDE DEF t, Q
  <2> QED BY <1>4, InRange
<1>6. n.pc \in Q
  <2> HIDE DEF Q
  <2> QED BY <1>5 DEF NodesOf
<1>7. PICK k \in Iter : /\ TableOf(k) = TableOf(i)
                        /\ \E x \in DOMAIN accesses[k] : accesses[k][x].pc = n.pc
  BY <1>6 DEF UsedBy
<1>8. accesses[k] # <<>>
  <2>1. DOMAIN <<>> = {}
    OBVIOUS
  <2> QED BY <1>7, <2>1
<1>9. k =< i
  BY <1>1, <1>7, <1>8, LastUser
<1> QED BY <1>2, <1>6, <1>7, <1>9 DEF TookPart


\* What AnalyseNext does to the history of the analysis
LEMMA AnalysisStep ==
  ASSUME Shape, Handed, Analyses, AnalyseNext
  PROVE  \E i, m \in Iter :
           /\ i = FinishedLoopIter + 1 /\ m = inputs[1].iter /\ m =< i /\ Ended(i) /\ Ended(m)
           /\ FinishedLoopIter' = i /\ by'[i] = m
           /\ \A k \in Iter : k # i => by'[k] = by[k]
           /\ \A k \in Iter : k =< i <=> k =< FinishedLoopIter \/ k = i
           /\ \A k \in Iter : k > i => k > FinishedLoopIter
           /\ by[i] = 0 /\ i \in Nat /\ m \in Nat
<1>1. PICK i, m \in Iter :
        /\ i = FinishedLoopIter + 1 /\ m = inputs[1].iter /\ m =< i /\ Ended(i)
        /\ Head(inputs) = inputs[1] /\ 1 \in DOMAIN inputs
  BY Analysed
<1>2. by' = [by EXCEPT ![i] = m] /\ FinishedLoopIter' = i
  BY <1>1 DEF AnalyseNext
<1>3. by'[i] = m /\ \A k \in Iter : k # i => by'[k] = by[k]
  BY <1>2 DEF Shape
<1>4. FinishedLoopIter \in Nat /\ \A k \in Iter : k \in Nat
  BY IterIs, Constants DEF Shape
<1>5. /\ \A k \in Iter : k =< i <=> k =< FinishedLoopIter \/ k = i
      /\ \A k \in Iter : k > i => k > FinishedLoopIter
      /\ i > FinishedLoopIter
  BY <1>1, <1>4
<1>6. by[i] = 0
  BY <1>5 DEF Analyses
<1>7. Ended(m)
  BY <1>1 DEF Handed
<1> QED BY <1>1, <1>2, <1>3, <1>4, <1>5, <1>6, <1>7

\* Precede tables hold nodes of instructions that took part in an analysed iteration.
LEMMA PrecedeHoldNext ==
  ASSUME Shape, Shape', Owning, Items, Running, Handed, Analyses, Tables, Makes, TablesHold,
         PrecedeHold, Next
  PROVE  PrecedeHold'
<1> USE DEF reading, later
<1>1. \A pc, i : i \in Iter /\ TookPart(pc, i) => TookPart(pc, i)'
  BY StepMoves, UsedStays
<1>2. ASSUME trace'.state = "ready" => /\ trace.state = "ready"
                                       /\ trace'.PrecedeR = trace.PrecedeR
                                       /\ trace'.PrecedeW = trace.PrecedeW,
             \A i \in Iter : i =< FinishedLoopIter => i =< FinishedLoopIter' /\ by'[i] = by[i]
      PROVE  PrecedeHold'
  <2> SUFFICES ASSUME trace'.state = "ready", NEW q \in trace'.PrecedeR \cup trace'.PrecedeW
               PROVE  \E pc \in {q.pc}, i \in Iter :
                        i =< FinishedLoopIter' /\ by'[i] = q.iter /\ TookPart(pc, i)'
    BY DEF PrecedeHold
  <2>1. PICK i \in Iter : i =< FinishedLoopIter /\ by[i] = q.iter /\ TookPart(q.pc, i)
    BY <1>2 DEF PrecedeHold
  <2> QED BY <1>1, <1>2, <2>1
<1>3. ASSUME UNCHANGED <<trace, FinishedLoopIter, by>> PROVE PrecedeHold'
  BY <1>2, <1>3
<1>4. CASE StartBatch \/ EndBatch \/ TakeInput
  BY <1>3, <1>4 DEF StartBatch, EndBatch, TakeInput
<1>5. ASSUME NEW p \in Proc,
             SeeNull(p) \/ Crash(p) \/ EndBuffer(p) \/ EndIteration(p) \/ TableFree(p)
      PROVE  PrecedeHold'
  BY <1>3, <1>5 DEF SeeNull, Crash, EndBuffer, EndIteration, TableFree
<1>6. ASSUME NEW p \in Proc, Check(p) PROVE PrecedeHold'
  <2>1. PICK pc \in PC :
          trace' = [trace EXCEPT !.Present[<<p, ProcWPresNum[p]>>]
                      = Update(EnterIteration(PresentOf(p), pc, at[p]), pc)]
    BY <1>6 DEF Check
  <2>2. Takes(p) /\ trace.state = "ready" /\ UNCHANGED <<FinishedLoopIter, by>>
    BY <1>6 DEF Check
  <2>3. trace'.PrecedeR = trace.PrecedeR /\ trace'.PrecedeW = trace.PrecedeW
    BY <2>1, <2>2, CheckTrace
  <2> QED BY <1>2, <2>2, <2>3
<1>7. ASSUME NEW p \in Proc, Publish(p) PROVE PrecedeHold'
  <2>1. trace' = RawTrace(p)
    BY <1>7 DEF Publish
  <2>2. trace'.state = "raw"
    BY <2>1, RawIs
  <2> QED BY <2>2 DEF PrecedeHold
<1>8. ASSUME NEW p \in Proc, Fill(p) PROVE PrecedeHold'
  <2>0. UNCHANGED <<FinishedLoopIter, by>>
    BY <1>8 DEF Fill
  <2>1. CASE trace # RawTrace(p)
    BY <1>3, <1>8, <2>0, <2>1, FillTrace
  <2>2. CASE trace = RawTrace(p)
    <3>1. trace'.PrecedeR = {} /\ trace'.PrecedeW = {}
      BY <1>8, <2>2, FillTrace
    <3> QED BY <3>1 DEF PrecedeHold
  <2> QED BY <2>1, <2>2
<1>9. CASE AnalyseNext
  <2>1. PICK i0, m \in Iter :
           /\ i0 = FinishedLoopIter + 1 /\ m = inputs[1].iter
           /\ FinishedLoopIter' = i0 /\ by'[i0] = m
           /\ \A k \in Iter : k # i0 => by'[k] = by[k]
           /\ \A k \in Iter : k =< i0 <=> k =< FinishedLoopIter \/ k = i0
           /\ i0 \in Nat
    BY <1>9, AnalysisStep
  <2>2. \A i \in Iter : i =< FinishedLoopIter => i =< FinishedLoopIter' /\ by'[i] = by[i]
    <3>1. \A i \in Iter : i =< FinishedLoopIter => i # i0
      BY <2>1, IterIs, Constants DEF Shape
    <3> QED BY <2>1, <3>1
  <2>3. CASE ~ inputs[1].word
    <3>1. trace' = trace
      BY <1>9, <2>3, AnalyseTrace
    <3> QED BY <1>2, <2>2, <3>1
  <2>4. CASE inputs[1].word
    <3>1. PICK t \in TableOver(PC) : t = trace.Present[TableOf(i0)]
      BY <1>9, <2>1, <2>4, AnalyseTrace
    <3>2. /\ trace.state = "ready"
          /\ trace'.PrecedeR = Word!AddToPrecede(trace.PrecedeR, Range(t.RTrace), m)
          /\ trace'.PrecedeW = Word!AddToPrecede(trace.PrecedeW, Range(t.WTrace), m)
      BY <1>9, <2>1, <2>4, <3>1, AnalyseTrace DEF Settled
    <3>3. \A n \in Range(t.RTrace) \cup Range(t.WTrace) : n.pc \in PC /\ TookPart(n.pc, i0)
      BY <1>9, <2>1, <3>1, <3>2, NodesTookPart
    <3>4. ASSUME NEW q \in trace'.PrecedeR \cup trace'.PrecedeW
          PROVE  \/ q \in trace.PrecedeR \cup trace.PrecedeW
                 \/ \E n \in Range(t.RTrace) \cup Range(t.WTrace) :
                      q = [pc |-> n.pc, mask |-> n.mask, iter |-> m]
      BY <3>2, AddToPrecedeIs
    <3> SUFFICES ASSUME NEW q \in trace'.PrecedeR \cup trace'.PrecedeW
                 PROVE  \E pc \in {q.pc}, i \in Iter :
                          i =< i0 /\ by'[i] = q.iter /\ TookPart(pc, i)'
      BY <2>1 DEF PrecedeHold
    <3>5. CASE q \in trace.PrecedeR \cup trace.PrecedeW
      <4>1. PICK i \in Iter : i =< FinishedLoopIter /\ by[i] = q.iter /\ TookPart(q.pc, i)
        BY <3>2, <3>5 DEF PrecedeHold
      <4> QED BY <1>1, <2>1, <2>2, <4>1
    <3>6. CASE \E n \in Range(t.RTrace) \cup Range(t.WTrace) :
                 q = [pc |-> n.pc, mask |-> n.mask, iter |-> m]
      <4>1. PICK n \in Range(t.RTrace) \cup Range(t.WTrace) :
                 q = [pc |-> n.pc, mask |-> n.mask, iter |-> m]
        BY <3>6
      <4>2. q.pc = n.pc /\ q.iter = m
        BY <4>1
      <4>3. TookPart(q.pc, i0)'
        BY <1>1, <3>3, <4>2
      <4> QED BY <2>1, <4>2, <4>3
    <3> QED BY <3>4, <3>5, <3>6
  <2> QED BY <2>3, <2>4
<1> QED
  BY <1>4, <1>5, <1>6, <1>7, <1>8, <1>9 DEF Next, ReadTask

\* Both parts of Holds are kept.
LEMMA HoldsNext ==
  ASSUME Shape, Shape', Owning, Items, Running, Handed, Analyses, Tables, Makes, Holds, Next
  PROVE  Holds'
<1>1. TablesHold /\ PrecedeHold
  BY HoldsParts
<1>2. TablesHold' /\ PrecedeHold'
  BY <1>1, TablesHoldNext, PrecedeHoldNext
<1> QED BY <1>2 DEF Holds, TablesHold, PrecedeHold

\* The dependences that AnalyseNext finds
LEMMA FoundLCDIs ==
  ASSUME NEW t, NEW iter, NEW d \in FoundLCD(t, iter)
  PROVE  \E n \in Range(t.RTrace) \cup Range(t.WTrace), q \in trace.PrecedeR \cup trace.PrecedeW :
           d[2] = q.pc /\ d[3] = n.pc /\ d[4] = iter - q.iter
<1> DEFINE R == Range(t.RTrace)
           W == Range(t.WTrace)
<1>1. \/ d \in Word!Carried("True", R, t.GlobalReadMask, trace.PrecedeW, iter)
      \/ d \in Word!Carried("Out", W, t.GlobalWriteMask, trace.PrecedeW, iter)
      \/ d \in Word!Carried("Anti", W, t.GlobalWriteMask, trace.PrecedeR, iter)
  BY DEF FoundLCD
<1> HIDE DEF R, W
<1>2. ASSUME NEW kind, NEW sinks \in SUBSET (R \cup W), NEW mask,
             NEW sources \in SUBSET (trace.PrecedeR \cup trace.PrecedeW),
             d \in Word!Carried(kind, sinks, mask, sources, iter)
      PROVE  \E n \in R \cup W, q \in trace.PrecedeR \cup trace.PrecedeW :
               d[2] = q.pc /\ d[3] = n.pc /\ d[4] = iter - q.iter
  <2>1. PICK n \in sinks, q \in sources : d = <<kind, q.pc, n.pc, iter - q.iter>>
    BY <1>2, CarriedIs
  <2>2. n \in R \cup W /\ q \in trace.PrecedeR \cup trace.PrecedeW
    OBVIOUS
  <2>3. d[2] = q.pc /\ d[3] = n.pc /\ d[4] = iter - q.iter
    BY <2>1
  <2> QED BY <2>2, <2>3
<1>3. \E n \in R \cup W, q \in trace.PrecedeR \cup trace.PrecedeW :
        d[2] = q.pc /\ d[3] = n.pc /\ d[4] = iter - q.iter
  BY <1>1, <1>2
<1> QED BY <1>3 DEF R, W

\* Every step that finds a loop-carried dependence finds one of instructions that
\* took part.
LEMMA CarriesNext ==
  ASSUME Shape, Shape', Owning, Items, Running, Handed, Analyses, Tables, Makes, TablesHold,
         PrecedeHold, Carries, Next
  PROVE  Carries'
<1> USE DEF reading, later
<1>1. \A pc, i : i \in Iter /\ TookPart(pc, i) => TookPart(pc, i)'
  BY StepMoves, UsedStays
<1>2. ASSUME NEW d \in LCD,
             \A i \in Iter : i =< FinishedLoopIter => i =< FinishedLoopIter' /\ by'[i] = by[i]
      PROVE  \E src \in {d.src}, sink \in {d.sink}, i, j \in Iter :
               /\ d.iter = j /\ j =< FinishedLoopIter' /\ TookPart(sink, j)'
               /\ i < j /\ TookPart(src, i)' /\ d.dist = by'[j] - by'[i]
  <2>1. PICK i, j \in Iter :
               /\ d.iter = j /\ j =< FinishedLoopIter /\ TookPart(d.sink, j)
               /\ i < j /\ TookPart(d.src, i) /\ d.dist = by[j] - by[i]
    BY DEF Carries
  <2>2. i =< FinishedLoopIter
    BY <2>1, IterIs, Constants DEF Shape
  <2> QED BY <1>1, <1>2, <2>1, <2>2
<1>3. ASSUME UNCHANGED <<LCD, FinishedLoopIter, by>> PROVE Carries'
  BY <1>2, <1>3 DEF Carries
<1>4. CASE StartBatch \/ EndBatch \/ TakeInput \/ \E p \in Proc : ReadTask(p)
  <2>1. UNCHANGED <<LCD, FinishedLoopIter, by>>
    BY <1>4 DEF StartBatch, EndBatch, TakeInput, ReadTask, Check, SeeNull, Publish, Fill, Crash,
                EndBuffer, EndIteration, TableFree
  <2> QED BY <1>3, <2>1
<1>5. CASE AnalyseNext
  <2>1. PICK i0, m \in Iter :
           /\ i0 = FinishedLoopIter + 1 /\ m = inputs[1].iter
           /\ FinishedLoopIter' = i0 /\ by'[i0] = m
           /\ \A k \in Iter : k # i0 => by'[k] = by[k]
           /\ \A k \in Iter : k =< i0 <=> k =< FinishedLoopIter \/ k = i0
           /\ i0 \in Nat
    BY <1>5, AnalysisStep
  <2>2. \A i \in Iter : i =< FinishedLoopIter => i < i0 /\ i =< FinishedLoopIter' /\ by'[i] = by[i]
    <3>1. \A i \in Iter : i =< FinishedLoopIter => i # i0 /\ i < i0
      BY <2>1, IterIs, Constants DEF Shape
    <3> QED BY <2>1, <3>1
  <2>3. CASE ~ inputs[1].word
    <3>1. LCD' = LCD
      BY <1>5, <2>3, AnalyseTrace
    <3> QED BY <1>2, <2>2, <3>1 DEF Carries
  <2>4. CASE inputs[1].word
    <3>1. PICK t \in TableOver(PC) : t = trace.Present[TableOf(i0)]
      BY <1>5, <2>1, <2>4, AnalyseTrace
    <3>2. /\ trace.state = "ready"
          /\ LCD' = LCD \cup {[kind |-> d[1], src |-> d[2], sink |-> d[3], dist |-> d[4],
                               iter |-> i0] : d \in FoundLCD(t, m)}
      BY <1>5, <2>1, <2>4, <3>1, AnalyseTrace DEF Settled
    <3>3. \A n \in Range(t.RTrace) \cup Range(t.WTrace) : n.pc \in PC /\ TookPart(n.pc, i0)
      BY <1>5, <2>1, <3>1, <3>2, NodesTookPart
    <3>4. ASSUME NEW e \in FoundLCD(t, m), NEW d,
                 d = [kind |-> e[1], src |-> e[2], sink |-> e[3], dist |-> e[4], iter |-> i0]
          PROVE  \E src \in {d.src}, sink \in {d.sink}, i, j \in Iter :
                   /\ d.iter = j /\ j =< FinishedLoopIter' /\ TookPart(sink, j)'
                   /\ i < j /\ TookPart(src, i)' /\ d.dist = by'[j] - by'[i]
      <4>1. d.src = e[2] /\ d.sink = e[3] /\ d.dist = e[4] /\ d.iter = i0
        BY <3>4
      <4>2. PICK n \in Range(t.RTrace) \cup Range(t.WTrace),
                 q \in trace.PrecedeR \cup trace.PrecedeW :
              e[2] = q.pc /\ e[3] = n.pc /\ e[4] = m - q.iter
        BY <3>4, FoundLCDIs
      <4>3. TookPart(d.sink, i0)'
        BY <1>1, <3>3, <4>1, <4>2
      <4>4. PICK i \in Iter : i =< FinishedLoopIter /\ by[i] = q.iter /\ TookPart(q.pc, i)
        BY <3>2 DEF PrecedeHold
      <4>5. TookPart(d.src, i)'
        BY <1>1, <4>1, <4>2, <4>4
      <4>6. d.dist = by'[i0] - by'[i] /\ i < i0
        BY <2>1, <2>2, <4>1, <4>2, <4>4
      <4>7. i0 =< FinishedLoopIter'
        BY <2>1
      <4> QED BY <4>1, <4>3, <4>5, <4>6, <4>7
    <3> QED BY <1>2, <2>2, <3>2, <3>4 DEF Carries
  <2> QED BY <2>3, <2>4
<1> QED BY <1>4, <1>5 DEF Next

\* Nothing is found of an iteration that has no accesses.
LEMMA FindsNext ==
  ASSUME Shape, Shape', Owning, Makes, Finds, Next
  PROVE  Finds'
<1> USE DEF reading, later
<1>1. \A i \in Iter : accesses[i] # <<>> => accesses'[i] # <<>>
  BY StepMoves, Moved
<1>2. ASSUME UNCHANGED LID PROVE Finds'
  BY <1>1, <1>2 DEF Finds
<1>3. ASSUME NEW p \in Proc, Check(p) PROVE Finds'
  <2>1. PICK pc \in PC :
          /\ Happens(p, pc)
          /\ LID' = LID \cup {[dep |-> d, iter |-> at[p]] :
                                d \in FoundLID(EnterIteration(PresentOf(p), pc, at[p]), pc)}
    BY <1>3 DEF Check
  <2>2. PICK i0 \in Iter : i0 = at[p]
    BY <1>3, Here DEF Check, Takes
  <2>3. accesses'[i0] # <<>>
    <3>1. accesses'[i0] = Append(accesses[i0], [pc |-> pc, found |-> trace.state = "ready"])
      BY <2>1, <2>2, HappensType
    <3>2. accesses[i0] \in Seq(Access)
      BY DEF Shape
    <3>3. \A f \in BOOLEAN : Append(accesses[i0], [pc |-> pc, found |-> f]) # <<>>
      BY <3>2, Appended
    <3>4. (trace.state = "ready") \in BOOLEAN
      OBVIOUS
    <3> QED BY <3>1, <3>3, <3>4
  <2>4. \A d \in LID' : d \in LID \/ d.iter = i0
    BY <2>1, <2>2
  <2> QED BY <1>1, <2>3, <2>4 DEF Finds
<1>4. CASE StartBatch \/ EndBatch \/ TakeInput \/ AnalyseNext
  BY <1>2, <1>4 DEF StartBatch, EndBatch, TakeInput, AnalyseNext
<1>5. ASSUME NEW p \in Proc, SeeNull(p) \/ Publish(p) \/ Fill(p) \/ Crash(p) \/ EndBuffer(p)
                               \/ EndIteration(p) \/ TableFree(p)
      PROVE  Finds'
  BY <1>2, <1>5 DEF SeeNull, Publish, Fill, Crash, EndBuffer, EndIteration, TableFree
<1> QED BY <1>3, <1>4, <1>5 DEF Next, ReadTask



-----------------------------------------------------------------------------
(***************************************************************************)
(* The tables that were empty when their iteration began.                  *)
(***************************************************************************)
LEMMA ReleasedBack ==
  ASSUME Shape, Shape', Analyses, Moves, NEW k \in Iter, by'[k] = by[k], Released(k)'
  PROVE  Released(k)
<1>1. accesses'[k] = <<>> => accesses[k] = <<>>
  BY Moved
<1>2. CASE accesses'[k] = <<>>
  BY <1>1, <1>2 DEF Released, Of
<1>3. CASE accesses'[k] # <<>>
  <2>1. by[k] # 0 /\ by[k] \in 0 .. NumIters
    BY <1>3 DEF Released, Of, Shape
  <2>2. PICK m \in Iter : m = by[k]
    BY <2>1, Constants
  <2>3. m \notin torn' /\ Known(m)'
    BY <1>3, <2>2 DEF Released, Of, Known
  <2>4. Ended(m) /\ m \notin torn
    BY <2>2, <2>3 DEF Analyses, Moves
  <2>5. Known(m)
    BY <2>3, <2>4, Moved
  <2> QED BY <2>1, <2>2, <2>4, <2>5 DEF Released
<1> QED BY <1>2, <1>3

\* An iteration that is clean was so before.
LEMMA CleanBack ==
  ASSUME Shape, Shape', Analyses, Moves, NEW i \in Iter, Clean(i)',
         \A k \in Iter : k < i /\ TableOf(k) = TableOf(i) => by'[k] = by[k] \/ Released(k)
  PROVE  Clean(i)
<1>1. \A k \in Iter : TableOf(k)' = TableOf(k)
  BY SameOwner DEF Moves
<1>2. i \notin torn
  BY DEF Clean, Moves
<1>3. ASSUME NEW k \in Iter, k < i, TableOf(k) = TableOf(i) PROVE k \notin torn /\ Released(k)
  <2>1. TableOf(k)' = TableOf(i)'
    BY <1>1, <1>3
  <2>2. k \notin torn' /\ Released(k)'
    BY <1>3, <2>1 DEF Clean
  <2>3. k \notin torn
    BY <2>2 DEF Moves
  <2>4. Released(k)
    BY <1>3, <2>2, ReleasedBack
  <2> QED BY <2>3, <2>4
<1> QED BY <1>2, <1>3 DEF Clean

\* The other iterations of the table that a task reads into come later, and the
\* one that it is at has not been analysed.
LEMMA OthersLater ==
  ASSUME Shape, Owning, Handed, Analyses, Tables, NEW p \in Proc,
         task[p] \in {"reading", "allocating", "filling"}, NEW i0 \in Iter, i0 = at[p],
         NEW i \in Iter, i > FinishedLoopIter, i # i0, TableOf(i) = TableOf(i0)
  PROVE  i0 < i /\ by[i0] = 0
<1>1. owner[i0] = p /\ TableOf(i0) = <<p, ProcWPresNum[p]>> /\ owner \in [Iter -> Proc]
  BY Here DEF Shape
<1>2. ~ Ended(i0)
  BY <1>1, IterIs DEF Ended
<1>3. i0 > FinishedLoopIter
  <2>1. ~ (i0 =< FinishedLoopIter)
    BY <1>2 DEF Analyses, Handed
  <2> QED BY <2>1, IterIs, Constants DEF Shape
<1>4. by[i0] = 0
  BY <1>3 DEF Analyses
<1>5. owner[i] = p
  <2>1. TableOf(i) = <<owner[i], Index(owner[i], i)>>
    BY <1>1, TableOfIs
  <2>2. <<owner[i], Index(owner[i], i)>> = <<p, ProcWPresNum[p]>>
    BY <1>1, <2>1
  <2> QED BY <2>2
<1>6. ~ (i < i0)
  <2> SUFFICES ASSUME i < i0 PROVE FALSE
    OBVIOUS
  <2>1. Ended(i)
    BY <1>5 DEF Ended
  <2>2. PresIsFull[TableOf(i)]
    BY <2>1 DEF Tables
  <2>3. ~ PresIsFull[<<p, ProcWPresNum[p]>>]
    BY DEF Tables
  <2> QED BY <1>1, <2>2, <2>3
<1> QED BY <1>4, <1>6, IterIs

\* What Faithful says of iteration i, in its parts
LEMMA FaithfulIs ==
  Faithful <=> \A i \in Iter :
    /\ trace.state = "ready" /\ i > FinishedLoopIter /\ Clean(i)
    /\ \A p \in Proc : owner[i] = p /\ at[p] = i => ~ Making(p)
    => Matches(trace.Present[TableOf(i)], i, accesses[i])
  BY DEF Faithful

\* A check leaves the table of its iteration faithful, and does not touch the others.
LEMMA FaithfulCheck ==
  ASSUME Shape, Shape', Owning, Running, Handed, Analyses, Tables, Makes, Faithful, Next,
         NEW p \in Proc, Check(p)
  PROVE  Faithful'
<1> USE DEF reading, later
<1>1. PICK pc \in PC :
        /\ Happens(p, pc)
        /\ trace' = [trace EXCEPT !.Present[<<p, ProcWPresNum[p]>>]
                       = Update(EnterIteration(PresentOf(p), pc, at[p]), pc)]
  BY DEF Check
<1>2. /\ Takes(p) /\ trace.state = "ready" /\ task[p] = "reading"
      /\ UNCHANGED <<at, task, by, FinishedLoopIter, torn>>
  BY DEF Check, Takes
<1>3. PICK c \in Table, i0 \in Iter : c = <<p, ProcWPresNum[p]>> /\ i0 = at[p] /\ TableOf(i0) = c
  BY <1>2, Here
<1>4. PICK t0 \in TableOver(PC) : t0 = PresentOf(p) /\ t0 = trace.Present[c] /\ TableOK(t0)
  BY <1>2, <1>3, PresentOfIs
<1>5. /\ trace'.Present[c] = Update(EnterIteration(t0, pc, i0), pc)
      /\ \A t \in Table : t # c => trace'.Present[t] = trace.Present[t]
  BY <1>1, <1>2, <1>3, <1>4, CheckTrace
<1>6. PICK f \in BOOLEAN : f = (trace.state = "ready")
  OBVIOUS
<1>7. PICK s \in Seq(Access) : s = accesses[i0]
  BY DEF Shape
<1>8. /\ accesses'[i0] = Append(s, [pc |-> pc, found |-> f])
      /\ \A i \in Iter : i # i0 => accesses'[i] = accesses[i]
  BY <1>1, <1>3, <1>6, <1>7, HappensType
<1>9. Moves
  BY StepMoves
<1> SUFFICES ASSUME NEW i \in Iter, i > FinishedLoopIter, Clean(i)',
                    \A q \in Proc : owner[i] = q /\ at[q] = i => ~ Making(q)
             PROVE  Matches(trace'.Present[TableOf(i)], i, accesses'[i])
  <2>1. \A i \in Iter : TableOf(i)' = TableOf(i)
    BY <1>9, SameOwner DEF Moves
  <2>2. owner' = owner
    BY <1>9 DEF Moves
  <2> QED BY <1>2, <2>1, <2>2 DEF Faithful, Making
<1>10. Clean(i)
  BY <1>2, <1>9, CleanBack
<1>11. Matches(trace.Present[TableOf(i)], i, accesses[i])
  BY <1>2, <1>10 DEF Faithful
<1>12. CASE i = i0
  <2>1. Matches(t0, i0, s)
    BY <1>3, <1>4, <1>7, <1>11, <1>12
  <2>2. Matches(Update(EnterIteration(t0, pc, i0), pc), i0, Append(s, [pc |-> pc, found |-> f]))
    BY <1>4, <2>1, MatchesNext
  <2> QED BY <1>3, <1>5, <1>8, <1>12, <2>2
<1>13. CASE i # i0 /\ TableOf(i) # c
  <2>1. TableOf(i) \in Table
    BY TableOfIs DEF Shape
  <2> QED BY <1>5, <1>8, <1>11, <1>13, <2>1
<1>14. CASE i # i0 /\ TableOf(i) = c
  <2>1. i0 < i /\ by[i0] = 0
    BY <1>2, <1>3, <1>14, OthersLater
  <2>2. accesses'[i0] # <<>>
    BY <1>8, Appended
  <2>3. TableOf(i0)' = TableOf(i)'
    BY <1>3, <1>9, <1>14, SameOwner DEF Moves
  <2>4. Released(i0)'
    BY <2>1, <2>3 DEF Clean
  <2> QED BY <1>2, <2>1, <2>2, <2>4 DEF Released, Of
<1> QED BY <1>12, <1>13, <1>14

\* So does the task that fills in the Trace: all tables are new.
LEMMA FaithfulFill ==
  ASSUME Shape, Shape', Owning, Items, Running, Handed, Analyses, Tables, Makes, Faithful, Next,
         NEW p \in Proc, Fill(p), trace = RawTrace(p)
  PROVE  Faithful'
<1> USE DEF reading, later
<1>1. /\ task[p] = "filling" /\ task' = [task EXCEPT ![p] = "reading"]
      /\ UNCHANGED <<owner, at, by, FinishedLoopIter, torn, accesses>>
  BY DEF Fill
<1>2. PICK c \in Table, i0 \in Iter, pc \in PC :
        c = <<p, ProcWPresNum[p]>> /\ i0 = at[p] /\ pc = item[p] /\ TableOf(i0) = c
  BY <1>1, Here DEF Items, Making
<1>3. /\ trace'.Present[c] = Update(EnterIteration(EmptyTable, pc, i0), pc)
      /\ \A t \in Table : t # c => trace'.Present[t] = EmptyTable
  BY <1>2, FillTrace
<1>4. accesses[i0] = <<[pc |-> pc, found |-> FALSE]>>
  BY <1>1, <1>2 DEF Items, Making
<1>5. \A q \in Proc : q # p => task'[q] = task[q]
  BY <1>1 DEF Shape
<1> SUFFICES ASSUME NEW i \in Iter, i > FinishedLoopIter, Clean(i)',
                    \A q \in Proc : owner[i] = q /\ at[q] = i => ~ Making(q)'
             PROVE  Matches(trace'.Present[TableOf(i)], i, accesses[i])
  <2>1. \A i \in Iter : TableOf(i)' = TableOf(i)
    BY <1>1, SameOwner
  <2> QED BY <1>1, <2>1 DEF Faithful
<1>6. i \notin torn
  BY <1>1 DEF Clean
<1>7. CASE i = i0
  <2>1. Matches(EmptyTable, i0, <<>>)
    BY MatchesEmpty
  <2>2. EmptyTable \in TableOver(PC) /\ TableOK(EmptyTable)
    BY EmptyTableType
  <2>3. <<>> \in Seq(Access) /\ PC \in SUBSET PC /\ FALSE \in BOOLEAN
    OBVIOUS
  <2>4. Matches(Update(EnterIteration(EmptyTable, pc, i0), pc), i0,
                Append(<<>>, [pc |-> pc, found |-> FALSE]))
    BY <2>1, <2>2, <2>3, MatchesNext
  <2>5. \A a : Append(<<>>, a) = <<a>>
    OBVIOUS
  <2> QED BY <1>2, <1>3, <1>4, <1>7, <2>4, <2>5
<1>8. CASE i # i0
  <2>1. trace.state = "raw"
    BY RawIs
  <2>2. accesses[i] = <<>>
    <3> SUFFICES ASSUME accesses[i] # <<>> PROVE FALSE
      OBVIOUS
    <3>1. i = at[owner[i]] /\ task[owner[i]] \in {"allocating", "filling"}
      BY <1>6, <2>1 DEF Makes, Made
    <3>2. PICK q \in Proc : q = owner[i]
      BY DEF Shape
    <3>3. q # p
      BY <1>2, <1>8, <3>1, <3>2
    <3>4. Making(q)'
      BY <1>5, <3>1, <3>2, <3>3 DEF Making
    <3> QED BY <3>1, <3>2, <3>4
  <2>3. TableOf(i) # c
    <3> SUFFICES ASSUME TableOf(i) = c PROVE FALSE
      OBVIOUS
    <3>1. i0 < i /\ by[i0] = 0
      BY <1>1, <1>2, <1>8, OthersLater
    <3>2. TableOf(i0)' = TableOf(i)'
      BY <1>1, <1>2, SameOwner
    <3>3. Released(i0)'
      BY <3>1, <3>2 DEF Clean
    <3>4. accesses[i0] # <<>>
      <4>1. \A a : <<a>> # <<>>
        OBVIOUS
      <4> QED BY <1>4, <4>1
    <3> QED BY <1>1, <3>1, <3>3, <3>4 DEF Released, Of
  <2>4. TableOf(i) \in Table
    BY TableOfIs DEF Shape
  <2>5. Matches(EmptyTable, i, <<>>)
    BY MatchesEmpty
  <2> QED BY <1>3, <2>2, <2>3, <2>4, <2>5
<1> QED BY <1>7, <1>8

\* An analysis empties the table, so that the next iteration to use it finds it empty.
LEMMA FaithfulAnalyse ==
  ASSUME Shape, Shape', Owning, Running, Handed, Analyses, Tables, Makes, InputsTell, Faithful, Next,
         AnalyseNext
  PROVE  Faithful'
<1> USE DEF reading, later
<1>1. PICK i0, m \in Iter :
         /\ i0 = FinishedLoopIter + 1 /\ m = inputs[1].iter /\ Ended(i0)
         /\ FinishedLoopIter' = i0 /\ by'[i0] = m
         /\ \A k \in Iter : k # i0 => by'[k] = by[k]
         /\ \A k \in Iter : k > i0 => k > FinishedLoopIter
         /\ i0 \in Nat /\ m \in Nat
  BY AnalysisStep
<1>2. UNCHANGED <<owner, at, task, accesses, torn>>
  BY DEF AnalyseNext
<1>3. Moves /\ TableOf(i0) \in Table
  BY StepMoves, TableOfIs DEF Shape
<1> SUFFICES ASSUME trace'.state = "ready", NEW i \in Iter, i > i0, Clean(i)',
                    \A q \in Proc : owner[i] = q /\ at[q] = i => ~ Making(q)
             PROVE  Matches(trace'.Present[TableOf(i)], i, accesses[i])
  <2>1. \A i \in Iter : TableOf(i)' = TableOf(i)
    BY <1>2, SameOwner
  <2> QED BY <1>1, <1>2, <2>1 DEF Faithful, Making
<1>4. i > FinishedLoopIter
  BY <1>1
<1>5. CASE ~ inputs[1].word
  <2>1. trace' = trace
    BY <1>5, AnalyseTrace
  <2>2. TableOf(i0) = TableOf(i) => Released(i0)
    <3> SUFFICES ASSUME TableOf(i0) = TableOf(i) PROVE Released(i0)
      OBVIOUS
    <3>1. TableOf(i0)' = TableOf(i)' /\ i0 < i
      BY <1>1, <1>2, SameOwner, IterIs
    <3>2. Released(i0)'
      BY <3>1 DEF Clean
    <3>3. accesses[i0] = <<>> \/ Known(m)
      BY <1>1, <1>2, <3>2 DEF Released, Of, Known
    <3>4. ~ Known(m)
      <4>1. 1 \in DOMAIN inputs
        BY Analysed
      <4> QED BY <1>1, <1>5, <4>1 DEF InputsTell
    <3> QED BY <3>3, <3>4 DEF Released, Of
  <2>3. Clean(i)
    <3>1. \A k \in Iter : k < i /\ TableOf(k) = TableOf(i) => by'[k] = by[k] \/ Released(k)
      BY <1>1, <2>2
    <3> QED BY <1>3, <3>1, CleanBack
  <2> QED BY <1>4, <2>1, <2>3 DEF Faithful
<1>6. CASE inputs[1].word
  <2>1. /\ trace.state = "ready" /\ trace'.Present[TableOf(i0)] = EmptyTable
        /\ \A u \in Table : u # TableOf(i0) => trace'.Present[u] = trace.Present[u]
    BY <1>1, <1>6, AnalyseTrace DEF Settled
  <2>2. CASE TableOf(i) = TableOf(i0)
    <3>1. accesses[i] = <<>>
      <4>1. ~ (i =< i0)
        BY <1>1, IterIs
      <4> QED BY <1>1, <2>2, <4>1, LastUser
    <3>2. Matches(EmptyTable, i, <<>>)
      BY MatchesEmpty
    <3> QED BY <2>1, <2>2, <3>1, <3>2
  <2>3. CASE TableOf(i) # TableOf(i0)
    <3>1. Clean(i)
      <4>1. \A k \in Iter : k < i /\ TableOf(k) = TableOf(i) => by'[k] = by[k] \/ Released(k)
        BY <1>1, <2>3
      <4> QED BY <1>3, <4>1, CleanBack
    <3>2. TableOf(i) \in Table
      BY TableOfIs DEF Shape
    <3> QED BY <1>4, <2>1, <2>3, <3>1, <3>2 DEF Faithful
  <2> QED BY <2>2, <2>3
<1> QED BY <1>5, <1>6

\* Every step keeps the tables faithful to the accesses of their iterations.
LEMMA FaithfulNext ==
  ASSUME Shape, Shape', Owning, Items, Running, Handed, Analyses, Tables, Makes, InputsTell,
         Faithful, Next
  PROVE  Faithful'
<1> USE DEF reading, later
<1>1. Moves
  BY StepMoves
<1>2. ASSUME UNCHANGED <<trace, accesses, FinishedLoopIter, by>>,
             \A q \in Proc : Making(q) => \/ at[q] \in torn
                                          \/ task'[q] \in {"allocating", "filling"} /\ at'[q] = at[q]
      PROVE  Faithful'
  <2> SUFFICES ASSUME trace.state = "ready", NEW i \in Iter, i > FinishedLoopIter, Clean(i)',
                      \A q \in Proc : owner[i] = q /\ at'[q] = i => ~ Making(q)'
               PROVE  Matches(trace.Present[TableOf(i)], i, accesses[i])
    <3>1. owner' = owner /\ \A i \in Iter : TableOf(i)' = TableOf(i)
      BY <1>1, SameOwner DEF Moves
    <3> QED BY <1>2, <3>1 DEF Faithful
  <2>1. Clean(i)
    BY <1>1, <1>2, CleanBack
  <2>2. i \notin torn
    BY <2>1 DEF Clean
  <2>3. \A q \in Proc : owner[i] = q /\ at[q] = i => ~ Making(q)
    BY <1>2, <2>2 DEF Making
  <2> QED BY <2>1, <2>3 DEF Faithful
<1>3. CASE StartBatch
  BY <1>2, <1>3 DEF StartBatch, Making
<1>4. CASE EndBatch
  BY <1>2, <1>4 DEF EndBatch, Making
<1>5. CASE TakeInput
  BY <1>2, <1>5 DEF TakeInput, Making
<1>6. ASSUME NEW p \in Proc, Crash(p) \/ EndBuffer(p) \/ EndIteration(p) \/ TableFree(p)
      PROVE  Faithful'
  <2>1. /\ UNCHANGED <<trace, accesses, FinishedLoopIter, by>>
        /\ \A q \in Proc : Making(q) => task'[q] = task[q] /\ at'[q] = at[q]
    BY <1>6 DEF Crash, EndBuffer, EndIteration, TableFree, Making, Takes, Shape
  <2> QED BY <1>2, <2>1 DEF Making
<1>7. ASSUME NEW p \in Proc, SeeNull(p) PROVE Faithful'
  <2>1. trace' = trace /\ trace.state = "null"
    BY <1>7 DEF SeeNull
  <2> QED BY <2>1 DEF Faithful
<1>8. ASSUME NEW p \in Proc, Publish(p) PROVE Faithful'
  <2>1. trace' = RawTrace(p)
    BY <1>8 DEF Publish
  <2>2. trace'.state = "raw"
    BY <2>1, RawIs
  <2> QED BY <2>2 DEF Faithful
<1>9. ASSUME NEW p \in Proc, Fill(p) PROVE Faithful'
  <2>1. CASE trace = RawTrace(p)
    BY <1>9, <2>1, FaithfulFill
  <2>2. CASE trace # RawTrace(p)
    <3>1. trace' = trace
      BY <1>9, <2>2, FillTrace
    <3>2. at[p] \in torn
      BY <1>9, <2>2 DEF Fill, Makes, Made
    <3>3. /\ UNCHANGED <<accesses, FinishedLoopIter, by, at>>
          /\ \A q \in Proc : q # p => task'[q] = task[q]
      BY <1>9 DEF Fill, Shape
    <3> QED BY <1>2, <3>1, <3>2, <3>3 DEF Making
  <2> QED BY <2>1, <2>2
<1>10. ASSUME NEW p \in Proc, Check(p) PROVE Faithful'
  BY <1>10, FaithfulCheck
<1>11. CASE AnalyseNext
  BY <1>11, FaithfulAnalyse
<1> QED
  BY <1>3, <1>4, <1>5, <1>6, <1>7, <1>8, <1>9, <1>10, <1>11 DEF Next, ReadTask



-----------------------------------------------------------------------------
(***************************************************************************)
(* The loop-independent dependences.                                       *)
(***************************************************************************)
LEMMA ReachesAppended ==
  ASSUME NEW s \in Seq(Access), NEW pc \in PC, NEW f \in BOOLEAN
  PROVE  LET r == Append(s, [pc |-> pc, found |-> f]) IN
         /\ \A k, l \in 1 .. Len(s) : Reaches(r, k, l) <=> Reaches(s, k, l)
         /\ \A k \in 1 .. Len(s) :
              Reaches(r, k, Len(s) + 1) <=> \E b \in RWMask(pc.len) : LastOn(s, k, b)
         /\ \A k, l \in 1 .. Len(s) + 1 : Reaches(r, k, l) => k \in 1 .. Len(s)
<1> DEFINE r == Append(s, [pc |-> pc, found |-> f])
           n == Len(s)
<1>1. /\ n \in Nat /\ DOMAIN s = 1 .. n /\ DOMAIN r = 1 .. n + 1 /\ Len(r) = n + 1
      /\ r[n + 1].pc = pc /\ \A k \in 1 .. n : r[k] = s[k]
  BY Appended
<1>2. \A k \in 1 .. n : \A b : WritesByte(r, k, b) <=> WritesByte(s, k, b)
  BY LastOnAppended
<1>3. \A b : b \in RWMask(pc.len) <=> b \in 0 .. 7 /\ Covers(r[n + 1], b)
  BY <1>1, Mask DEF Covers
<1> HIDE DEF r, n
<1>4. ASSUME NEW k \in 1 .. n, NEW l \in 1 .. n
      PROVE  Reaches(r, k, l) <=> Reaches(s, k, l)
  <2>1. \A j \in k + 1 .. l - 1 : j \in 1 .. n
    BY <1>1
  <2>2. k \in DOMAIN s /\ k \in DOMAIN r /\ l \in DOMAIN s /\ l \in DOMAIN r
    BY <1>1
  <2>3. r[k] = s[k] /\ r[l] = s[l]
    BY <1>1
  <2>4. \A b : (\A j \in k + 1 .. l - 1 : ~ WritesByte(r, j, b))
                 <=> \A j \in k + 1 .. l - 1 : ~ WritesByte(s, j, b)
    BY <2>1, <1>2
  <2> QED BY <2>2, <2>3, <2>4 DEF Reaches
<1>5. ASSUME NEW k \in 1 .. n
      PROVE  Reaches(r, k, n + 1) <=> \E b \in RWMask(pc.len) : LastOn(s, k, b)
  <2>1. /\ k \in DOMAIN s /\ k \in DOMAIN r /\ n + 1 \in DOMAIN r /\ k < n + 1
        /\ (n + 1) - 1 = n /\ \A j \in k + 1 .. n : j \in 1 .. n
    BY <1>1
  <2>2. r[k] = s[k]
    BY <1>1
  <2>3. Reaches(r, k, n + 1) <=>
          /\ s[k].pc.write
          /\ \E b \in 0 .. 7 : /\ Covers(s[k], b) /\ Covers(r[n + 1], b)
                               /\ \A j \in k + 1 .. n : ~ WritesByte(r, j, b)
    BY <2>1, <2>2 DEF Reaches
  <2>4. \A b : (\A j \in k + 1 .. n : ~ WritesByte(r, j, b))
                 <=> \A j \in k + 1 .. n : ~ WritesByte(s, j, b)
    BY <2>1, <1>2
  <2>5. \A b : LastOn(s, k, b) <=> /\ s[k].pc.write /\ Covers(s[k], b)
                                   /\ \A j \in k + 1 .. n : ~ WritesByte(s, j, b)
    BY <2>1 DEF LastOn, WritesByte, n
  <2> QED BY <2>3, <2>4, <2>5, <1>3
<1>6. \A k, l \in 1 .. n + 1 : Reaches(r, k, l) => k \in 1 .. n
  BY <1>1 DEF Reaches
<1> QED BY <1>4, <1>5, <1>6 DEF r, n

\* A check against a table that matches the accesses finds their dependences, and
\* no others.
LEMMA ExactNext ==
  ASSUME NEW t \in TableOver(PC), TableOK(t), NEW i \in Iter, NEW s \in Seq(Access),
         Matches(t, i, s), NEW pc \in PC, NEW f \in BOOLEAN, NEW D, Exact(D, i, s)
  PROVE  Exact(D \cup {[dep |-> d, iter |-> i] : d \in FoundLID(EnterIteration(t, pc, i), pc)},
               i, Append(s, [pc |-> pc, found |-> f]))
<1> DEFINE r == Append(s, [pc |-> pc, found |-> f])
           n == Len(s)
           found == FoundLID(EnterIteration(t, pc, i), pc)
           E == D \cup {[dep |-> d, iter |-> i] : d \in found}
<1>1. /\ n \in Nat /\ DOMAIN s = 1 .. n /\ DOMAIN r = 1 .. n + 1
      /\ r[n + 1].pc = pc /\ \A k \in 1 .. n : r[k] = s[k]
  BY Appended
<1>2. /\ \A k, l \in 1 .. n : Reaches(r, k, l) <=> Reaches(s, k, l)
      /\ \A k \in 1 .. n : Reaches(r, k, n + 1) <=> \E b \in RWMask(pc.len) : LastOn(s, k, b)
      /\ \A k, l \in 1 .. n + 1 : Reaches(r, k, l) => k \in 1 .. n
  BY ReachesAppended
<1>3. \A k \in 1 .. n : Shorter(r, k) <=> Shorter(s, k)
  BY LastOnAppended
<1>4. /\ \A d \in found : /\ d.sink = pc
                          /\ d.kind = "True" => ~ pc.write
                          /\ d.kind = "Out" => pc.write
                          /\ d.kind \in {"True", "Out"} =>
                               \E k \in DOMAIN s : s[k].pc = d.src
                                 /\ \E b \in RWMask(pc.len) : LastOn(s, k, b)
      /\ ~ pc.write =>
           \A k \in DOMAIN s : \A b \in RWMask(pc.len) : LastOn(s, k, b) /\ ~ Shorter(s, k)
             => [kind |-> "True", src |-> s[k].pc, sink |-> pc] \in found
  <2>1. PC \in SUBSET PC
    OBVIOUS
  <2> QED BY <2>1, MatchesFinds
<1>5. \A k \in 1 .. n + 1 : k \in 1 .. n \/ k = n + 1
  BY <1>1
<1> HIDE DEF r, n, found
<1>6. \A d \in found : [dep |-> d, iter |-> i] \in E
  OBVIOUS
<1>7. \A e \in E : e \in D \/ \E d \in found : e = [dep |-> d, iter |-> i]
  OBVIOUS
<1>8. ASSUME NEW k \in 1 .. n + 1, NEW l \in 1 .. n + 1,
             Reaches(r, k, l), ~ r[l].pc.write, ~ Shorter(r, k)
      PROVE  [dep |-> [kind |-> "True", src |-> r[k].pc, sink |-> r[l].pc], iter |-> i] \in E
  <2>1. k \in 1 .. n /\ r[k] = s[k] /\ ~ Shorter(s, k)
    BY <1>1, <1>2, <1>3, <1>8
  <2>2. CASE l \in 1 .. n
    <3>1. r[l] = s[l] /\ Reaches(s, k, l)
      BY <1>1, <1>2, <1>8, <2>1, <2>2
    <3>2. [dep |-> [kind |-> "True", src |-> s[k].pc, sink |-> s[l].pc], iter |-> i] \in D
      BY <1>1, <1>8, <2>1, <2>2, <3>1 DEF Exact
    <3> QED BY <2>1, <3>1, <3>2
  <2>3. CASE l = n + 1
    <3>1. PICK b \in RWMask(pc.len) : LastOn(s, k, b)
      BY <1>2, <1>8, <2>1, <2>3
    <3>2. ~ pc.write
      BY <1>1, <1>8, <2>3
    <3>3. [kind |-> "True", src |-> s[k].pc, sink |-> pc] \in found
      BY <1>1, <1>4, <2>1, <3>1, <3>2
    <3> QED BY <1>1, <1>6, <2>1, <2>3, <3>3
  <2> QED BY <1>5, <2>2, <2>3
<1>9. ASSUME NEW e \in E, e.iter = i, e.dep.kind \in {"True", "Out"}
      PROVE  \E k, l \in 1 .. n + 1 : /\ Reaches(r, k, l) /\ (r[l].pc.write <=> e.dep.kind = "Out")
                                      /\ e.dep.src = r[k].pc /\ e.dep.sink = r[l].pc
  <2>1. CASE e \in D
    <3>1. PICK k, l \in 1 .. n : /\ Reaches(s, k, l) /\ (s[l].pc.write <=> e.dep.kind = "Out")
                                 /\ e.dep.src = s[k].pc /\ e.dep.sink = s[l].pc
      BY <1>1, <1>9, <2>1 DEF Exact
    <3>2. Reaches(r, k, l) /\ r[k] = s[k] /\ r[l] = s[l]
      BY <1>1, <1>2, <3>1
    <3>3. k \in 1 .. n + 1 /\ l \in 1 .. n + 1
      BY <1>1
    <3> QED BY <3>1, <3>2, <3>3
  <2>2. CASE \E d \in found : e = [dep |-> d, iter |-> i]
    <3>1. PICK d \in found : e = [dep |-> d, iter |-> i]
      BY <2>2
    <3>2. e.dep = d
      BY <3>1
    <3>3. PICK k \in 1 .. n : s[k].pc = d.src /\ \E b \in RWMask(pc.len) : LastOn(s, k, b)
      BY <1>1, <1>4, <1>9, <3>2
    <3>4. Reaches(r, k, n + 1) /\ r[k] = s[k]
      BY <1>1, <1>2, <3>3
    <3>5. k \in 1 .. n + 1 /\ n + 1 \in 1 .. n + 1
      BY <1>1
    <3>6. (r[n + 1].pc.write <=> d.kind = "Out") /\ d.sink = pc
      BY <1>1, <1>4, <1>9, <3>2
    <3> QED BY <1>1, <3>2, <3>3, <3>4, <3>5, <3>6
  <2> QED BY <1>7, <2>1, <2>2
<1> HIDE DEF E
<1>10. Exact(E, i, r)
  BY <1>1, <1>8, <1>9 DEF Exact
<1> QED BY <1>10 DEF E, r, found

\* The iteration a task is at has not been analysed.
LEMMA NotAnalysed ==
  ASSUME Shape, Owning, Handed, Analyses, NEW p \in Proc,
         task[p] \in {"reading", "allocating", "filling"}, NEW i0 \in Iter, i0 = at[p]
  PROVE  i0 > FinishedLoopIter /\ owner[i0] = p
<1>1. owner[i0] = p
  BY Here
<1>2. ~ Ended(i0)
  BY <1>1, IterIs DEF Ended
<1>3. ~ (i0 =< FinishedLoopIter)
  BY <1>2 DEF Analyses, Handed
<1> QED BY <1>1, <1>3, IterIs, Constants DEF Shape

\* Nothing to find, and nothing found
LEMMA ExactFew ==
  ASSUME NEW i \in Iter, NEW s \in Seq(Access), Len(s) =< 1, NEW D, \A d \in D : d.iter # i
  PROVE  Exact(D, i, s)
<1>1. \A k, l \in DOMAIN s : ~ (k < l)
  OBVIOUS
<1> QED BY <1>1 DEF Exact, Reaches

\* Every step keeps the dependences within an iteration exact.
LEMMA ExactsNext ==
  ASSUME Shape, Shape', Owning, Running, Handed, Analyses, Tables, Makes, Faithful, Finds, Exacts, Next
  PROVE  Exacts'
<1> USE DEF reading, later
<1>1. Moves
  BY StepMoves
<1>2. ASSUME UNCHANGED <<accesses, LID, by>> PROVE Exacts'
  BY <1>1, <1>2, CleanBack DEF Exacts
<1>3. CASE StartBatch \/ EndBatch \/ TakeInput
  BY <1>2, <1>3 DEF StartBatch, EndBatch, TakeInput
<1>4. ASSUME NEW p \in Proc, Publish(p) \/ Fill(p) \/ Crash(p) \/ EndBuffer(p)
                               \/ EndIteration(p) \/ TableFree(p)
      PROVE  Exacts'
  BY <1>2, <1>4 DEF Publish, Fill, Crash, EndBuffer, EndIteration, TableFree
<1>5. ASSUME NEW p \in Proc, Check(p) PROVE Exacts'
  <2>1. PICK pc \in PC :
          /\ Happens(p, pc)
          /\ LID' = LID \cup {[dep |-> d, iter |-> at[p]] :
                                d \in FoundLID(EnterIteration(PresentOf(p), pc, at[p]), pc)}
    BY <1>5 DEF Check
  <2>2. /\ trace.state = "ready" /\ task[p] = "reading" /\ UNCHANGED <<by>>
    BY <1>5 DEF Check, Takes
  <2>3. PICK c \in Table, i0 \in Iter : c = <<p, ProcWPresNum[p]>> /\ i0 = at[p] /\ TableOf(i0) = c
    BY <2>2, Here
  <2>4. PICK t0 \in TableOver(PC) : t0 = PresentOf(p) /\ t0 = trace.Present[c] /\ TableOK(t0)
    BY <2>2, <2>3, PresentOfIs
  <2>5. PICK f \in BOOLEAN : f = (trace.state = "ready")
    OBVIOUS
  <2>6. PICK s \in Seq(Access) : s = accesses[i0]
    BY DEF Shape
  <2>7. /\ accesses'[i0] = Append(s, [pc |-> pc, found |-> f])
        /\ \A i \in Iter : i # i0 => accesses'[i] = accesses[i]
    BY <2>1, <2>3, <2>5, <2>6, HappensType
  <2>8. LID' = LID \cup {[dep |-> d, iter |-> i0] : d \in FoundLID(EnterIteration(t0, pc, i0), pc)}
    BY <2>1, <2>3, <2>4
  <2> SUFFICES ASSUME NEW i \in Iter, Clean(i)' PROVE Exact(LID', i, accesses'[i])
    BY DEF Exacts
  <2>9. Clean(i)
    BY <1>1, <2>2, CleanBack
  <2>10. Exact(LID, i, accesses[i])
    BY <2>9 DEF Exacts
  <2>11. CASE i = i0
    <3>1. i0 > FinishedLoopIter /\ owner[i0] = p
      BY <2>2, <2>3, NotAnalysed
    <3>2. \A q \in Proc : owner[i0] = q /\ at[q] = i0 => ~ Making(q)
      BY <2>2, <3>1 DEF Making
    <3>3. Matches(t0, i0, s)
      BY <2>2, <2>3, <2>4, <2>6, <2>9, <2>11, <3>1, <3>2 DEF Faithful
    <3>4. Exact(LID, i0, s)
      BY <2>6, <2>10, <2>11
    <3>5. Exact(LID \cup {[dep |-> d, iter |-> i0] : d \in FoundLID(EnterIteration(t0, pc, i0), pc)},
                i0, Append(s, [pc |-> pc, found |-> f]))
      BY <2>4, <3>3, <3>4, ExactNext
    <3> QED BY <2>7, <2>8, <2>11, <3>5
  <2>12. CASE i # i0
    <3>1. \A d \in LID' : d.iter = i => d \in LID
      BY <2>8, <2>12
    <3>2. LID \subseteq LID'
      BY <2>8
    <3>3. PICK r \in Seq(Access) : r = accesses[i]
      BY DEF Shape
    <3>4. Exact(LID, i, r)
      BY <2>10, <3>3
    <3>5. Exact(LID', i, r)
      BY <3>1, <3>2, <3>4 DEF Exact
    <3> QED BY <2>7, <2>12, <3>3, <3>5
  <2> QED BY <2>11, <2>12
<1>6. ASSUME NEW p \in Proc, SeeNull(p) PROVE Exacts'
  <2>1. PICK pc \in PC : Happens(p, pc)
    BY <1>6 DEF SeeNull
  <2>2. trace.state = "null" /\ task[p] = "reading" /\ UNCHANGED <<by, LID>>
    BY <1>6 DEF SeeNull, Takes
  <2>3. PICK i0 \in Iter : i0 = at[p] /\ owner[i0] = p
    BY <2>2, Here
  <2>4. /\ \A i \in Iter : i # i0 => accesses'[i] = accesses[i]
        /\ accesses'[i0] = Append(accesses[i0], [pc |-> pc, found |-> trace.state = "ready"])
    BY <2>1, <2>3, HappensType
  <2>5. accesses[i0] = <<>>
    BY <2>2, <2>3 DEF Makes, Made
  <2> SUFFICES ASSUME NEW i \in Iter, Clean(i)' PROVE Exact(LID', i, accesses'[i])
    BY DEF Exacts
  <2>6. CASE i = i0
    <3>1. accesses'[i0] \in Seq(Access) /\ Len(accesses'[i0]) =< 1
      <4>1. \A a : Len(Append(<<>>, a)) =< 1
        OBVIOUS
      <4> QED BY <2>4, <2>5, <4>1 DEF Shape
    <3>2. \A d \in LID' : d.iter # i0
      BY <2>2, <2>5 DEF Finds
    <3> QED BY <2>6, <3>1, <3>2, ExactFew
  <2>7. CASE i # i0
    <3>1. Clean(i)
      BY <1>1, <2>2, CleanBack
    <3> QED BY <2>2, <2>4, <2>7, <3>1 DEF Exacts
  <2> QED BY <2>6, <2>7
<1>7. CASE AnalyseNext
  <2>1. PICK i0 \in Iter :
           /\ i0 = FinishedLoopIter + 1 /\ Ended(i0)
           /\ \A k \in Iter : k # i0 => by'[k] = by[k]
    BY <1>7, AnalysisStep
  <2>2. UNCHANGED <<accesses, LID>>
    BY <1>7 DEF AnalyseNext
  <2> SUFFICES ASSUME NEW i \in Iter, Clean(i)' PROVE Exact(LID, i, accesses[i])
    BY <2>2 DEF Exacts
  <2>3. CASE i0 < i /\ TableOf(i0) = TableOf(i)
    <3>1. accesses[i] = <<>>
      <4>1. ~ (i =< i0)
        BY <2>3, IterIs
      <4> QED BY <2>1, <2>3, <4>1, LastUser
    <3>2. Len(accesses[i]) =< 1
      <4>1. Len(<<>>) =< 1
        OBVIOUS
      <4> QED BY <3>1, <4>1
    <3>3. \A d \in LID : d.iter # i
      BY <3>1 DEF Finds
    <3>4. accesses[i] \in Seq(Access)
      BY DEF Shape
    <3> QED BY <3>2, <3>3, <3>4, ExactFew
  <2>4. CASE ~ (i0 < i /\ TableOf(i0) = TableOf(i))
    <3>1. Clean(i)
      <4>1. \A k \in Iter : k < i /\ TableOf(k) = TableOf(i) => by'[k] = by[k] \/ Released(k)
        BY <2>1, <2>4
      <4> QED BY <1>1, <4>1, CleanBack
    <3> QED BY <3>1 DEF Exacts
  <2> QED BY <2>3, <2>4
<1> QED
  BY <1>3, <1>4, <1>5, <1>6, <1>7 DEF Next, ReadTask



-----------------------------------------------------------------------------
(***************************************************************************)
(* The loop-carried dependences of the iterations that are known.          *)
(***************************************************************************)
\* Byte 0 is of every access: the first read and the last write have it.
LEMMA MatchesRead ==
  ASSUME NEW t, NEW i, NEW s \in Seq(Access), Matches(t, i, s), NEW pc, Reads(s, pc)
  PROVE  0 \in t.GlobalReadMask /\ \E n \in Range(t.RTrace) : n.pc = pc /\ 0 \in n.mask
<1>1. /\ 0 \in t.GlobalReadMask
      /\ \E x \in DOMAIN t.RTrace : t.RTrace[x].pc = s[1].pc /\ 0 \in t.RTrace[x].mask
  BY DEF Matches, Reads
<1>2. \A x \in DOMAIN t.RTrace : t.RTrace[x] \in Range(t.RTrace)
  BY DEF Range
<1> QED BY <1>1, <1>2 DEF Reads

\* A table that matches the accesses has the last write of byte 0.
LEMMA MatchesWrite ==
  ASSUME NEW t, NEW i, NEW s \in Seq(Access), Matches(t, i, s), NEW pc, LastWrites(s, pc)
  PROVE  0 \in t.GlobalWriteMask /\ \E n \in Range(t.WTrace) : n.pc = pc /\ 0 \in n.mask
<1>1. PICK k \in DOMAIN s : /\ s[k].pc.write /\ s[k].pc = pc /\ ~ Shorter(s, k)
                            /\ \A l \in DOMAIN s : s[l].pc.write => l =< k
  BY DEF LastWrites
<1>2. s[k].pc \in PC
  <2>1. s[k] \in Access
    OBVIOUS
  <2> QED BY <2>1 DEF Access
<1>3. WritesByte(s, k, 0)
  BY <1>1, <1>2, Mask DEF WritesByte, Covers
<1>4. \A j \in k + 1 .. Len(s) : j \in DOMAIN s /\ ~ (j =< k)
  OBVIOUS
<1>5. LastOn(s, k, 0)
  BY <1>1, <1>3, <1>4 DEF LastOn, WritesByte
<1>6. /\ 0 \in t.GlobalWriteMask
      /\ \E x \in DOMAIN t.WTrace : t.WTrace[x].pc = s[k].pc /\ 0 \in t.WTrace[x].mask
  BY <1>1, <1>3, <1>5 DEF Matches
<1>7. \A x \in DOMAIN t.WTrace : t.WTrace[x] \in Range(t.WTrace)
  BY DEF Range
<1> QED BY <1>1, <1>6, <1>7

\* What the analysis knows of another iteration than the one it analyses, it knew.
LEMMA OwnBack ==
  ASSUME Shape, Shape', Owning, Handed, Analyses, Makes, Next, NEW i \in Iter, Own(i)',
         AnalyseNext => i # FinishedLoopIter + 1
  PROVE  Own(i) /\ accesses'[i] = accesses[i] /\ i =< FinishedLoopIter /\ Settled
<1> USE DEF reading, later
<1>1. Moves
  BY StepMoves
<1>2. Clean(i)' /\ Known(i)' /\ by'[i] = i
  BY DEF Own
<1>3. by'[i] = by[i] /\ \A k \in Iter : k =< i => by'[k] = by[k]
  <2>1. CASE AnalyseNext
    <3>1. PICK i0 \in Iter :
             /\ i0 = FinishedLoopIter + 1
             /\ \A k \in Iter : k # i0 => by'[k] = by[k]
             /\ \A k \in Iter : k > i0 => k > FinishedLoopIter
      BY <2>1, AnalysisStep
    <3>2. by'[i] = by[i] /\ i # i0
      BY <2>1, <3>1
    <3>3. ~ (i > i0)
      BY <1>2, <3>1, <3>2, Constants DEF Analyses
    <3>4. \A k \in Iter : k =< i => k # i0
      BY <3>2, <3>3, IterIs
    <3> QED BY <3>1, <3>2, <3>4
  <2>2. CASE ~ AnalyseNext
    <3>1. UNCHANGED by
      BY <2>2 DEF Next, ReadTask, StartBatch, EndBatch, TakeInput, Check, SeeNull, Publish, Fill,
                  Crash, EndBuffer, EndIteration, TableFree
    <3> QED BY <3>1
  <2> QED BY <2>1, <2>2
<1>4. Clean(i)
  <2>1. \A k \in Iter : k < i => k =< i
    BY IterIs
  <2>2. \A k \in Iter : k < i /\ TableOf(k) = TableOf(i) => by'[k] = by[k] \/ Released(k)
    BY <1>3, <2>1
  <2> QED BY <1>1, <1>2, <2>2, CleanBack
<1>5. i =< FinishedLoopIter
  <2>1. ~ (i > FinishedLoopIter)
    BY <1>2, <1>3, Constants DEF Analyses
  <2> QED BY <2>1, IterIs, Constants DEF Shape
<1>6. LoopIterPresNum[i] # NoTable
  BY <1>5 DEF Analyses
<1>7. Ended(i)
  BY <1>6 DEF Handed
<1>8. Known(i) /\ accesses'[i] = accesses[i]
  BY <1>1, <1>2, <1>7, Moved
<1>9. Settled
  BY <1>6, <1>8 DEF Makes, Told, Received
<1> QED BY <1>2, <1>3, <1>4, <1>5, <1>8, <1>9 DEF Own

\* What the analysis comes to know of the iteration that it analyses
LEMMA OwnAnalysed ==
  ASSUME Shape, Shape', Owning, Handed, Analyses, Makes, InputsTell, Faithful, Next, AnalyseNext,
         NEW i0 \in Iter, i0 = FinishedLoopIter + 1, Own(i0)'
  PROVE  /\ inputs[1].word /\ inputs[1].iter = i0
         /\ Matches(trace.Present[TableOf(i0)], i0, accesses[i0])
<1>1. Moves
  BY StepMoves
<1>2. Clean(i0)' /\ Known(i0)' /\ by'[i0] = i0
  BY DEF Own
<1>3. PICK m \in Iter :
         /\ m = inputs[1].iter /\ by'[i0] = m /\ Ended(i0)
         /\ \A k \in Iter : k # i0 => by'[k] = by[k]
  BY AnalysisStep
<1>4. m = i0
  BY <1>2, <1>3
<1>5. Known(i0)
  BY <1>1, <1>2, <1>3, Moved
<1>6. inputs[1].word
  <2>1. 1 \in DOMAIN inputs
    BY Analysed
  <2> QED BY <1>3, <1>4, <1>5, <2>1 DEF InputsTell
<1>7. Settled
  BY <1>6, AnalyseTrace
<1>8. Clean(i0)
  <2>1. \A k \in Iter : k < i0 => k # i0
    BY IterIs
  <2> QED BY <1>1, <1>2, <1>3, <2>1, CleanBack
<1>9. i0 > FinishedLoopIter
  BY Constants DEF Shape
<1>10. Matches(trace.Present[TableOf(i0)], i0, accesses[i0])
  BY <1>7, <1>8, <1>9 DEF Faithful, Settled
<1> QED BY <1>3, <1>4, <1>6, <1>10

\* A precede table of the nodes of iterations
LEMMA ListedAdded ==
  ASSUME NEW precede \in SUBSET PrecedeNodes, NEW present, NEW m \in Iter, NEW pc
  PROVE  LET after == Word!AddToPrecede(precede, present, m) IN
         /\ \A i \in Iter : i =< m /\ Listed(precede, pc, i) => Listed(after, pc, i)
         /\ (\E n \in present : n.pc = pc /\ 0 \in n.mask) => Listed(after, pc, m)
<1> DEFINE after == Word!AddToPrecede(precede, present, m)
<1>1. /\ \A n \in present : [pc |-> n.pc, mask |-> n.mask, iter |-> m] \in after
      /\ \A q \in precede : q \in after \/
           [pc |-> q.pc, mask |-> q.mask, iter |-> m] \in after
  BY AddToPrecedeIs
<1> HIDE DEF after
<1>2. m >= m
  BY IterIs
<1>3. ASSUME NEW n, [pc |-> n.pc, mask |-> n.mask, iter |-> m] \in after, n.pc = pc, 0 \in n.mask,
             NEW i \in Iter, m >= i
      PROVE  Listed(after, pc, i)
  BY <1>3 DEF Listed
<1>4. ASSUME NEW i \in Iter, i =< m, Listed(precede, pc, i) PROVE Listed(after, pc, i)
  <2>1. PICK q \in precede : q.pc = pc /\ 0 \in q.mask /\ q.iter >= i
    BY <1>4 DEF Listed
  <2>2. CASE q \in after
    BY <2>1, <2>2 DEF Listed
  <2>3. CASE [pc |-> q.pc, mask |-> q.mask, iter |-> m] \in after
    <3>1. m >= i
      BY <1>4, IterIs
    <3> QED BY <1>3, <2>1, <2>3, <3>1
  <2> QED BY <1>1, <2>2, <2>3
<1> QED BY <1>1, <1>2, <1>3, <1>4 DEF after

\* After the analysis of an iteration its first read and last write are in the
\* precede tables, and no later step takes them out or makes them older.
LEMMA PrecedesNext ==
  ASSUME Shape, Shape', Owning, Items, Handed, Analyses, Makes, InputsTell, Faithful, Precedes, Next
  PROVE  Precedes'
<1> USE DEF reading, later
<1>1. ASSUME trace.state = "ready" /\ (\A p \in Proc : ~ Making(p)) =>
               trace'.PrecedeR = trace.PrecedeR /\ trace'.PrecedeW = trace.PrecedeW,
             ~ AnalyseNext
      PROVE  Precedes'
  <2> SUFFICES ASSUME NEW i \in Iter, Own(i)', NEW pc \in PC
               PROVE  /\ Reads(accesses'[i], pc) => Listed(trace'.PrecedeR, pc, i)
                      /\ LastWrites(accesses'[i], pc) => Listed(trace'.PrecedeW, pc, i)
    BY DEF Precedes
  <2>1. Own(i) /\ accesses'[i] = accesses[i] /\ Settled
    BY <1>1, OwnBack
  <2>2. trace'.PrecedeR = trace.PrecedeR /\ trace'.PrecedeW = trace.PrecedeW
    BY <1>1, <2>1 DEF Settled
  <2> QED BY <2>1, <2>2 DEF Precedes
<1>2. CASE AnalyseNext
  <2>1. PICK i0, m \in Iter :
           /\ i0 = FinishedLoopIter + 1 /\ m = inputs[1].iter /\ m =< i0
    BY <1>2, AnalysisStep
  <2>2. inputs[1].word \in BOOLEAN
    BY <1>2, Analysed
  <2>3. UNCHANGED accesses
    BY <1>2 DEF AnalyseNext
  <2> SUFFICES ASSUME NEW i \in Iter, Own(i)', NEW pc \in PC
               PROVE  /\ Reads(accesses[i], pc) => Listed(trace'.PrecedeR, pc, i)
                      /\ LastWrites(accesses[i], pc) => Listed(trace'.PrecedeW, pc, i)
    BY <2>3 DEF Precedes
  <2>4. CASE ~ inputs[1].word
    <3>1. i # i0
      BY <1>2, <2>1, <2>4, OwnAnalysed
    <3>2. Own(i)
      BY <2>1, <3>1, OwnBack
    <3>3. trace' = trace
      BY <1>2, <2>4, AnalyseTrace
    <3> QED BY <3>2, <3>3 DEF Precedes
  <2>5. CASE inputs[1].word
    <3>1. PICK t \in TableOver(PC) : t = trace.Present[TableOf(i0)]
      BY <1>2, <2>1, <2>5, AnalyseTrace
    <3>2. /\ trace \in ReadyTrace
          /\ trace'.PrecedeR = Word!AddToPrecede(trace.PrecedeR, Range(t.RTrace), m)
          /\ trace'.PrecedeW = Word!AddToPrecede(trace.PrecedeW, Range(t.WTrace), m)
      BY <1>2, <2>1, <2>5, <3>1, AnalyseTrace
    <3>3. trace.PrecedeR \in SUBSET PrecedeNodes /\ trace.PrecedeW \in SUBSET PrecedeNodes
      BY <3>2, ReadyFields
    <3>4. CASE i = i0
      <4>1. m = i0 /\ Matches(t, i0, accesses[i0])
        BY <1>2, <2>1, <3>1, <3>4, OwnAnalysed
      <4>2. accesses[i0] \in Seq(Access)
        BY DEF Shape
      <4>3. /\ Reads(accesses[i0], pc) => \E n \in Range(t.RTrace) : n.pc = pc /\ 0 \in n.mask
            /\ LastWrites(accesses[i0], pc) => \E n \in Range(t.WTrace) : n.pc = pc /\ 0 \in n.mask
        BY <4>1, <4>2, MatchesRead, MatchesWrite
      <4> QED BY <3>2, <3>3, <3>4, <4>1, <4>3, ListedAdded
    <3>5. CASE i # i0
      <4>1. Own(i) /\ by[i] = i
        BY <2>1, <3>5, OwnBack DEF Own
      <4>2. i =< m
        BY <1>2, <2>1, <4>1 DEF Analyses, AnalyseNext
      <4>3. /\ Reads(accesses[i], pc) => Listed(trace.PrecedeR, pc, i)
            /\ LastWrites(accesses[i], pc) => Listed(trace.PrecedeW, pc, i)
        BY <4>1 DEF Precedes
      <4> QED BY <3>2, <3>3, <4>2, <4>3, ListedAdded
    <3> QED BY <3>4, <3>5
  <2> QED BY <2>2, <2>4, <2>5
<1>3. CASE ~ AnalyseNext /\ (StartBatch \/ EndBatch \/ TakeInput)
  BY <1>1, <1>3 DEF StartBatch, EndBatch, TakeInput
<1>4. ASSUME NEW p \in Proc, ~ AnalyseNext,
             SeeNull(p) \/ Crash(p) \/ EndBuffer(p) \/ EndIteration(p) \/ TableFree(p)
      PROVE  Precedes'
  BY <1>1, <1>4 DEF SeeNull, Crash, EndBuffer, EndIteration, TableFree
<1>5. ASSUME NEW p \in Proc, ~ AnalyseNext, Publish(p) \/ Fill(p) PROVE Precedes'
  BY <1>1, <1>5 DEF Publish, Fill, Making
<1>6. ASSUME NEW p \in Proc, ~ AnalyseNext, Check(p) PROVE Precedes'
  <2>1. PICK pc \in PC :
          trace' = [trace EXCEPT !.Present[<<p, ProcWPresNum[p]>>]
                      = Update(EnterIteration(PresentOf(p), pc, at[p]), pc)]
    BY <1>6 DEF Check
  <2>2. Takes(p) /\ trace.state = "ready"
    BY <1>6 DEF Check
  <2>3. trace'.PrecedeR = trace.PrecedeR /\ trace'.PrecedeW = trace.PrecedeW
    BY <2>1, <2>2, CheckTrace
  <2> QED BY <1>1, <1>6, <2>3
<1> QED
  BY <1>2, <1>3, <1>4, <1>5, <1>6 DEF Next, ReadTask


\* Node sink of the table is in the byte that node src of iteration i is in.
CanCarry(sinks, sinkMask, sources, m, i, src, sink) ==
  /\ m \in Iter /\ i \in Iter /\ 0 \in sinkMask
  /\ \E n \in sinks : n.pc = sink /\ 0 \in n.mask
  /\ Listed(sources, src, i)
  /\ \A q \in sources : q.iter \in Iter /\ q.iter < m

\* A node that is analysed with one of the precede nodes of an earlier iteration
LEMMA CarriedFound ==
  ASSUME NEW kind, NEW sinks, NEW sinkMask, NEW sources, NEW m, NEW i, NEW src, NEW sink,
         CanCarry(sinks, sinkMask, sources, m, i, src, sink)
  PROVE  \E d \in Word!Carried(kind, sinks, sinkMask, sources, m) :
           d[1] = kind /\ d[2] = src /\ d[3] = sink /\ d[4] \in 1 .. m - i
<1> USE DEF CanCarry
<1>1. PICK n \in sinks : n.pc = sink /\ 0 \in n.mask
  OBVIOUS
<1>2. PICK q \in sources : q.pc = src /\ 0 \in q.mask /\ q.iter >= i
  BY DEF Listed
<1>3. <<kind, q.pc, n.pc, m - q.iter>> \in Word!Carried(kind, sinks, sinkMask, sources, m)
  BY <1>1, <1>2, CarriedIs
<1>4. m - q.iter \in 1 .. m - i
  <2>1. q.iter \in Iter /\ q.iter < m
    BY <1>2
  <2>2. PICK x \in Iter : x = q.iter
    BY <2>1
  <2>3. x \in Nat /\ m \in Nat /\ i \in Nat /\ x < m /\ x >= i
    BY <1>2, <2>1, <2>2, IterIs
  <2>4. m - x \in 1 .. m - i
    BY <2>3
  <2> QED BY <2>2, <2>4
<1> DEFINE d == <<kind, q.pc, n.pc, m - q.iter>>
<1>5. d[1] = kind /\ d[2] = src /\ d[3] = sink /\ d[4] = m - q.iter
  BY <1>1, <1>2
<1> HIDE DEF d
<1>6. d \in Word!Carried(kind, sinks, sinkMask, sources, m)
  BY <1>3 DEF d
<1> QED BY <1>4, <1>5, <1>6

\* The analysis of an iteration finds the dependences on the first reads and last
\* writes of the earlier ones.
LEMMA CompletesNext ==
  ASSUME Shape, Shape', Owning, Items, Handed, Analyses, Makes, InputsTell, PrecedeHold, Faithful,
         Precedes, Completes, Next
  PROVE  Completes'
<1> USE DEF reading, later
<1>1. ASSUME NEW D, NEW E, D \subseteq E, NEW kind, NEW src, NEW sink, NEW i, NEW j,
             IsFound(D, kind, src, sink, i, j)
      PROVE  IsFound(E, kind, src, sink, i, j)
  BY <1>1 DEF IsFound
<1>2. CASE ~ AnalyseNext
  <2>1. UNCHANGED LCD
    BY <1>2 DEF Next, ReadTask, StartBatch, EndBatch, TakeInput, Check, SeeNull, Publish, Fill,
                Crash, EndBuffer, EndIteration, TableFree
  <2>2. \A i \in Iter : Own(i)' => Own(i) /\ accesses'[i] = accesses[i]
    BY <1>2, OwnBack
  <2> QED BY <2>1, <2>2 DEF Completes
<1>3. CASE AnalyseNext
  <2>1. PICK i0, m \in Iter :
           /\ i0 = FinishedLoopIter + 1 /\ m = inputs[1].iter /\ m =< i0
    BY <1>3, AnalysisStep
  <2>2. UNCHANGED accesses
    BY <1>3 DEF AnalyseNext
  <2>3. LCD \subseteq LCD'
    <3>1. inputs[1].word \in BOOLEAN
      BY <1>3, Analysed
    <3> QED BY <1>3, <3>1, AnalyseTrace
  <2> SUFFICES ASSUME NEW i \in Iter, NEW j \in Iter, i < j, Own(i)', Own(j)',
                      NEW src \in PC, NEW sink \in PC
               PROVE  LET s == accesses[i]
                          r == accesses[j] IN
                 /\ LastWrites(s, src) /\ Reads(r, sink) => IsFound(LCD', "True", src, sink, i, j)
                 /\ Reads(s, src) /\ LastWrites(r, sink) => IsFound(LCD', "Anti", src, sink, i, j)
                 /\ LastWrites(s, src) /\ LastWrites(r, sink) => IsFound(LCD', "Out", src, sink, i, j)
    BY <2>2 DEF Completes
  <2>4. CASE i # i0 /\ j # i0
    <3>1. Own(i) /\ Own(j)
      BY <2>1, <2>4, OwnBack
    <3> QED BY <1>1, <2>3, <3>1 DEF Completes
  <2>5. CASE i = i0
    <3>1. j =< FinishedLoopIter
      <4>1. j # i0
        BY <2>5, IterIs
      <4> QED BY <2>1, <4>1, OwnBack
    <3> QED BY <2>1, <2>5, <3>1, IterIs, Constants DEF Shape
  <2>6. CASE i # i0 /\ j = i0
    <3>1. Own(i)
      BY <2>1, <2>6, OwnBack
    <3>2. inputs[1].word /\ m = i0 /\ Matches(trace.Present[TableOf(i0)], i0, accesses[i0])
      BY <1>3, <2>1, <2>6, OwnAnalysed
    <3>3. PICK t \in TableOver(PC) : t = trace.Present[TableOf(i0)]
      BY <1>3, <2>1, <3>2, AnalyseTrace
    <3>4. /\ trace \in ReadyTrace /\ trace.state = "ready"
          /\ LCD' = LCD \cup {[kind |-> d[1], src |-> d[2], sink |-> d[3], dist |-> d[4],
                               iter |-> i0] : d \in FoundLCD(t, i0)}
      BY <1>3, <2>1, <3>2, <3>3, AnalyseTrace DEF Settled
    <3>5. PICK R, W \in SUBSET PrecedeNodes : R = trace.PrecedeR /\ W = trace.PrecedeW
      BY <3>4, ReadyFields
    <3>6. \A q \in R \cup W : q.iter \in Iter /\ q.iter < i0
      <4> SUFFICES ASSUME NEW q \in R \cup W PROVE q.iter \in Iter /\ q.iter < i0
        OBVIOUS
      <4>1. q.iter \in Iter
        <5>1. q \in PrecedeNodes
          OBVIOUS
        <5> QED BY <5>1 DEF PrecedeNodes
      <4>2. PICK k \in Iter : k =< FinishedLoopIter /\ by[k] = q.iter
        BY <3>4, <3>5 DEF PrecedeHold
      <4>3. q.iter =< k
        BY <4>1, <4>2 DEF Analyses
      <4>4. PICK x \in Iter : x = q.iter
        BY <4>1
      <4>5. x \in Nat /\ k \in Nat /\ i0 \in Nat /\ FinishedLoopIter \in Nat
        BY IterIs, Constants DEF Shape
      <4>6. x < i0
        BY <2>1, <4>2, <4>3, <4>4, <4>5
      <4> QED BY <4>1, <4>4, <4>6
    <3>7. PICK s, r \in Seq(Access) : s = accesses[i] /\ r = accesses[i0]
      BY DEF Shape
    <3>8. Matches(t, i0, r)
      BY <3>2, <3>3, <3>7
    <3>9. /\ Reads(s, src) => Listed(R, src, i)
          /\ LastWrites(s, src) => Listed(W, src, i)
      BY <3>1, <3>5, <3>7 DEF Precedes
    <3>10. /\ Reads(r, sink) => /\ 0 \in t.GlobalReadMask
                                /\ \E n \in Range(t.RTrace) : n.pc = sink /\ 0 \in n.mask
           /\ LastWrites(r, sink) => /\ 0 \in t.GlobalWriteMask
                                     /\ \E n \in Range(t.WTrace) : n.pc = sink /\ 0 \in n.mask
      BY <3>8, MatchesRead, MatchesWrite
    <3> DEFINE RT == Range(t.RTrace)
               WT == Range(t.WTrace)
               gr == t.GlobalReadMask
               gw == t.GlobalWriteMask
    <3>11. FoundLCD(t, i0) = Word!Carried("True", RT, gr, W, i0)
                               \cup Word!Carried("Out", WT, gw, W, i0)
                               \cup Word!Carried("Anti", WT, gw, R, i0)
      BY <3>5 DEF FoundLCD
    <3> HIDE DEF RT, WT, gr, gw
    <3>12. ASSUME NEW kind,
                  \E d \in FoundLCD(t, i0) : d[1] = kind /\ d[2] = src /\ d[3] = sink /\ d[4] \in 1 .. i0 - i
           PROVE  IsFound(LCD', kind, src, sink, i, i0)
      <4>1. PICK d \in FoundLCD(t, i0) :
              d[1] = kind /\ d[2] = src /\ d[3] = sink /\ d[4] \in 1 .. i0 - i
        BY <3>12
      <4> DEFINE e == [kind |-> d[1], src |-> d[2], sink |-> d[3], dist |-> d[4], iter |-> i0]
      <4>2. e \in LCD'
        BY <3>4
      <4>3. e.kind = d[1] /\ e.src = d[2] /\ e.sink = d[3] /\ e.dist = d[4] /\ e.iter = i0
        OBVIOUS
      <4> HIDE DEF e
      <4> QED BY <4>1, <4>2, <4>3 DEF IsFound
    <3>13. LastWrites(s, src) /\ Reads(r, sink) => IsFound(LCD', "True", src, sink, i, i0)
      <4> SUFFICES ASSUME LastWrites(s, src), Reads(r, sink)
                   PROVE  IsFound(LCD', "True", src, sink, i, i0)
        OBVIOUS
      <4>1. 0 \in gr /\ (\E n \in RT : n.pc = sink /\ 0 \in n.mask) /\ Listed(W, src, i)
        BY <3>9, <3>10 DEF gr, RT
      <4>2. CanCarry(RT, gr, W, i0, i, src, sink)
        BY <3>6, <4>1 DEF CanCarry
      <4>3. \E d \in Word!Carried("True", RT, gr, W, i0) :
              d[1] = "True" /\ d[2] = src /\ d[3] = sink /\ d[4] \in 1 .. i0 - i
        BY <4>2, CarriedFound
      <4> QED BY <3>11, <3>12, <4>3
    <3>14. Reads(s, src) /\ LastWrites(r, sink) => IsFound(LCD', "Anti", src, sink, i, i0)
      <4> SUFFICES ASSUME Reads(s, src), LastWrites(r, sink)
                   PROVE  IsFound(LCD', "Anti", src, sink, i, i0)
        OBVIOUS
      <4>1. 0 \in gw /\ (\E n \in WT : n.pc = sink /\ 0 \in n.mask) /\ Listed(R, src, i)
        BY <3>9, <3>10 DEF gw, WT
      <4>2. CanCarry(WT, gw, R, i0, i, src, sink)
        BY <3>6, <4>1 DEF CanCarry
      <4>3. \E d \in Word!Carried("Anti", WT, gw, R, i0) :
              d[1] = "Anti" /\ d[2] = src /\ d[3] = sink /\ d[4] \in 1 .. i0 - i
        BY <4>2, CarriedFound
      <4> QED BY <3>11, <3>12, <4>3
    <3>15. LastWrites(s, src) /\ LastWrites(r, sink) => IsFound(LCD', "Out", src, sink, i, i0)
      <4> SUFFICES ASSUME LastWrites(s, src), LastWrites(r, sink)
                   PROVE  IsFound(LCD', "Out", src, sink, i, i0)
        OBVIOUS
      <4>1. 0 \in gw /\ (\E n \in WT : n.pc = sink /\ 0 \in n.mask) /\ Listed(W, src, i)
        BY <3>9, <3>10 DEF gw, WT
      <4>2. CanCarry(WT, gw, W, i0, i, src, sink)
        BY <3>6, <4>1 DEF CanCarry
      <4>3. \E d \in Word!Carried("Out", WT, gw, W, i0) :
              d[1] = "Out" /\ d[2] = src /\ d[3] = sink /\ d[4] \in 1 .. i0 - i
        BY <4>2, CarriedFound
      <4> QED BY <3>11, <3>12, <4>3
    <3> QED BY <2>6, <3>7, <3>13, <3>14, <3>15
  <2> QED BY <2>4, <2>5, <2>6
<1> QED BY <1>2, <1>3



-----------------------------------------------------------------------------
(***************************************************************************)
(* The invariant holds initially, and every step keeps it.                 *)
(***************************************************************************)
\* No iteration has ended, and every process is at its first one, in table 0.
LEMMA InitOwning ==
  ASSUME Init PROVE Owning /\ \A i \in Iter : ~ Ended(i)
<1>1. owner \in [Iter -> Proc] /\ 0 \in 0 .. NumIters
  BY InitShape, Constants DEF Shape
<1>2. \A p \in Proc : at[p] = NextOwned(p, 0) /\ ProcWPresNum[p] = 0 /\ task[p] = "idle"
  BY DEF Init
<1>3. \A p \in Proc : /\ at[p] \in 1 .. NoIter
                      /\ at[p] \in Iter => owner[at[p]] = p
                      /\ \A l \in Iter : 0 < l /\ l < at[p] => owner[l] # p
  BY <1>1, <1>2, NextOwnedIs
<1>4. \A l \in Iter : 0 < l
  BY Constants
<1>5. \A i \in Iter : ~ Ended(i)
  BY <1>1, <1>3, <1>4 DEF Ended
<1>6. ASSUME NEW p \in Proc, NEW i \in 1 .. NoIter, at[p] = i PROVE Index(p, i) = 0
  <2>1. {k \in Iter : k < i /\ owner[k] = p} = {}
    BY <1>3, <1>4, <1>6
  <2>2. Cardinality({}) = 0
    BY FS_EmptySet
  <2>3. 0 % PRESNUM = 0
    <3>1. PRESNUM \in Nat \ {0} /\ 0 \in 0 .. PRESNUM - 1 /\ 0 \in Nat /\ 0 = PRESNUM * 0 + 0
      BY Constants
    <3> QED BY <3>1, ModIs
  <2> QED BY <2>1, <2>2, <2>3 DEF Index
<1> QED BY <1>2, <1>3, <1>5, <1>6 DEF Owning

\* Nothing has been allocated, handed over or found.
LEMMA InitInv ==
  ASSUME Init PROVE Inv
<1>1. Shape /\ Owning /\ \A i \in Iter : ~ Ended(i)
  BY InitShape, InitOwning
<1>2. /\ trace.state = "null" /\ trace.state # "ready" /\ trace.state # "raw"
      /\ \A p \in Proc : task[p] = "idle" /\ ~ inInterval[p]
      /\ \A p \in Proc : ProcNextLidep[p].kind # "start"
      /\ inputs = <<>> /\ ~ chained /\ FinishedLoopIter = 0 /\ LID = {} /\ LCD = {} /\ torn = {}
      /\ \A t \in Table : ~ PresIsFull[t]
      /\ \A i \in Iter : LoopIterPresNum[i] = NoTable /\ accesses[i] = <<>> /\ by[i] = 0
  BY DEF Init, NoTrace, NoInput
<1>3. DOMAIN inputs = {}
  BY <1>2
<1>4. \A i \in Iter : i # 0 /\ i > 0 /\ ~ (i =< 0)
  BY Constants
<1>5. Items /\ Results /\ Handed /\ Running
  BY <1>2, <1>3 DEF Items, Making, Results, Handed, Running
<1>6. Analyses
  BY <1>2, <1>4 DEF Analyses
<1>7. Tables
  <2>1. \A p \in Proc : <<p, ProcWPresNum[p]>> \in Table
    BY <1>1 DEF Shape, Table
  <2> QED BY <1>1, <1>2, <2>1 DEF Tables
<1>8. Makes
  BY <1>2, <1>3 DEF Makes, Made, Told, Received
<1>9. Tells
  <2>1. \A i \in Iter : ~ Known(i)
    BY <1>2 DEF Known, Of
  <2> QED BY <1>2, <1>3, <2>1 DEF Tells
<1>10. Holds /\ Carries /\ Faithful /\ Finds
  BY <1>2 DEF Holds, Carries, Faithful, Finds
<1>11. Exacts
  <2>1. DOMAIN <<>> = {}
    OBVIOUS
  <2> QED BY <1>2, <2>1 DEF Exacts, Exact
<1>12. Precedes /\ Completes
  BY <1>2, <1>4 DEF Precedes, Completes, Own
<1> QED
  BY <1>1, <1>5, <1>6, <1>7, <1>8, <1>9, <1>10, <1>11, <1>12 DEF Inv

\* Every step of the program keeps every part of the invariant.
LEMMA NextInv ==
  ASSUME Inv, Next PROVE Inv'
<1>1. /\ Shape /\ Owning /\ Items /\ Results /\ Handed /\ Running /\ Analyses /\ Tables
      /\ Makes /\ Tells /\ Holds /\ Carries /\ Faithful /\ Finds /\ Exacts /\ Precedes
      /\ Completes
  BY DEF Inv
<1>2. InputsTell /\ TablesHold /\ PrecedeHold
  BY <1>1, TellsParts, HoldsParts
<1>3. Shape'
  BY <1>1, ShapeNext
<1>4. Owning' /\ Items' /\ Makes'
  BY <1>1, <1>3, OwningNext, ItemsNext, MakesNext
<1>5. Results' /\ Handed' /\ Running'
  BY <1>1, <1>3, ResultsNext, HandedNext, RunningNext
<1>6. Analyses' /\ Tables'
  BY <1>1, <1>3, AnalysesNext, TablesNext
<1>7. Tells'
  BY <1>1, <1>3, <1>5, TellsNext
<1>8. Holds' /\ Carries'
  BY <1>1, <1>2, <1>3, HoldsNext, CarriesNext
<1>9. Faithful' /\ Finds'
  BY <1>1, <1>2, <1>3, FaithfulNext, FindsNext
<1>10. Exacts'
  BY <1>1, <1>2, <1>3, <1>4, <1>9, ExactsNext
<1>11. Precedes' /\ Completes'
  BY <1>1, <1>2, <1>3, PrecedesNext, CompletesNext
<1> QED
  BY <1>3, <1>4, <1>5, <1>6, <1>7, <1>8, <1>9, <1>10, <1>11 DEF Inv

\* A step that changes nothing keeps the invariant.
LEMMA StutterInv ==
  ASSUME Inv, UNCHANGED vars PROVE Inv'
<1>1. /\ owner' = owner /\ trace' = trace /\ at' = at /\ task' = task /\ item' = item
      /\ ProcWPresNum' = ProcWPresNum /\ PresIsFull' = PresIsFull /\ inInterval' = inInterval
      /\ ProcNextLidep' = ProcNextLidep /\ inputs' = inputs /\ chained' = chained
      /\ LoopIterPresNum' = LoopIterPresNum /\ FinishedLoopIter' = FinishedLoopIter
      /\ LID' = LID /\ LCD' = LCD /\ accesses' = accesses /\ torn' = torn /\ by' = by
  BY DEF vars, reading, later
<1>2. \A i : TableOf(i)' = TableOf(i)
  BY <1>1 DEF TableOf
<1>3. \A p, i : Index(p, i)' = Index(p, i)
  BY <1>1 DEF Index
<1>4. \A i : (Known(i)' <=> Known(i)) /\ (Ended(i)' <=> Ended(i))
  BY <1>1 DEF Known, Of, Ended
<1>5. \A i : Clean(i)' <=> Clean(i)
  BY <1>1, <1>2, <1>4 DEF Clean, Released, Of
<1>6. \A i : Own(i)' <=> Own(i)
  BY <1>1, <1>4, <1>5 DEF Own
<1>7. \A t : UsedBy(t)' = UsedBy(t)
  BY <1>1, <1>2 DEF UsedBy
<1>8. \A pc, i : TookPart(pc, i)' <=> TookPart(pc, i)
  BY <1>1, <1>2 DEF TookPart
<1>9. \A p : Making(p)' <=> Making(p)
  BY <1>1 DEF Making
<1>10. Shape' /\ Owning' /\ Items'
  BY <1>1, <1>3, <1>9 DEF Inv, Shape, Owning, Items
<1>11. Results' /\ Handed' /\ Running'
  BY <1>1, <1>2, <1>4 DEF Inv, Results, Handed, Running
<1>12. Analyses' /\ Tables'
  BY <1>1, <1>2, <1>4 DEF Inv, Analyses, Tables
<1>13. Makes' /\ Tells'
  BY <1>1, <1>4, <1>9 DEF Inv, Makes, Made, Told, Settled, Received, Tells
<1>14. Holds' /\ Carries' /\ Finds'
  BY <1>1, <1>7, <1>8 DEF Inv, Holds, Carries, Finds
<1>15. Faithful' /\ Exacts'
  BY <1>1, <1>2, <1>5, <1>9 DEF Inv, Faithful, Exacts
<1>16. Precedes' /\ Completes'
  BY <1>1, <1>6 DEF Inv, Precedes, Completes
<1> QED
  BY <1>10, <1>11, <1>12, <1>13, <1>14, <1>15, <1>16 DEF Inv



-----------------------------------------------------------------------------
(***************************************************************************)
(* What the invariant says of the properties.                              *)
(***************************************************************************)
\* The types are in the shape of the variables.
LEMMA InvTypeOK ==
  ASSUME Inv PROVE TypeOK
<1>1. Shape
  BY DEF Inv
<1>2. trace.state \in {"null", "raw", "ready"} /\ (trace.state = "ready" => trace \in ReadyTrace)
  BY <1>1 DEF Shape, NoTrace, RawTrace, ReadyTrace
<1>3. trace.state = "ready" => trace.PrecedeR \cup trace.PrecedeW \subseteq PrecedeNodes
  BY <1>2 DEF ReadyTrace
<1> QED BY <1>1, <1>2, <1>3 DEF TypeOK, Shape

\* The analysis is told of a word when its Trace is settled.
LEMMA InvAnalysisSeesTrace ==
  ASSUME Inv PROVE AnalysisSeesTrace
  BY DEF Inv, Makes, Told, Settled, AnalysisSeesTrace

\* The pairs of accesses of LIDExact are those of Exact.
LEMMA LastWriteOfIs ==
  ASSUME NEW i \in Iter, NEW k, NEW l, k \in DOMAIN accesses[i], l \in DOMAIN accesses[i]
  PROVE  LastWriteOf(i, k, l) <=> Reaches(accesses[i], k, l)
  BY DEF LastWriteOf, Reaches, Of, WritesByte

\* Exact, of every iteration that found its table empty, is LIDExact.
LEMMA InvLIDExact ==
  ASSUME Inv PROVE LIDExact
<1> SUFFICES ASSUME NEW i \in Iter, Clean(i)
             PROVE  LET found(kind) == {<<d.dep.src, d.dep.sink>> : d \in {e \in LID : e.iter = i /\ e.dep.kind = kind}}
                        n == Len(Of(i))
                        pairs == {kl \in (1 .. n) \X (1 .. n) : LastWriteOf(i, kl[1], kl[2])}
                        of(S) == {<<Of(i)[kl[1]].pc, Of(i)[kl[2]].pc>> : kl \in S}
                        reads == {kl \in pairs : ~ Of(i)[kl[2]].pc.write}
                    IN /\ of({kl \in reads : ~ Shadowed(i, kl[1])}) \subseteq found("True")
                       /\ found("True") \subseteq of(reads)
                       /\ found("Out") \subseteq of(pairs \ reads)
  BY DEF LIDExact
<1> DEFINE found(kind) == {<<d.dep.src, d.dep.sink>> : d \in {e \in LID : e.iter = i /\ e.dep.kind = kind}}
           n == Len(Of(i))
           pairs == {kl \in (1 .. n) \X (1 .. n) : LastWriteOf(i, kl[1], kl[2])}
           of(S) == {<<Of(i)[kl[1]].pc, Of(i)[kl[2]].pc>> : kl \in S}
           reads == {kl \in pairs : ~ Of(i)[kl[2]].pc.write}
<1>1. PICK s \in Seq(Access) : s = accesses[i]
  BY DEF Inv, Shape
<1>2. Of(i) = s /\ DOMAIN s = 1 .. n
  BY <1>1 DEF Of
<1>3. Exact(LID, i, s)
  BY <1>1 DEF Inv, Exacts
<1> HIDE DEF n
<1>4. \A k, l : <<k, l>> \in pairs <=> k \in DOMAIN s /\ l \in DOMAIN s /\ Reaches(s, k, l)
  BY <1>1, <1>2, LastWriteOfIs
<1>5. \A k, l : <<k, l>> \in reads <=> <<k, l>> \in pairs /\ ~ s[l].pc.write
  BY <1>2
<1>6. \A kl \in pairs : kl = <<kl[1], kl[2]>>
  OBVIOUS
<1>7. \A k : Shadowed(i, k) <=> Shorter(s, k)
  BY <1>2 DEF Shadowed, Shorter
<1>8. \A S, k, l : <<k, l>> \in S => <<s[k].pc, s[l].pc>> \in of(S)
  BY <1>2
<1>9. \A S : \A x \in of(S) : \E kl \in S : x = <<s[kl[1]].pc, s[kl[2]].pc>>
  BY <1>2
<1>10. reads \subseteq pairs
  OBVIOUS
<1>11. \A kind, x : x \in found(kind) <=>
         \E d \in LID : d.iter = i /\ d.dep.kind = kind /\ x = <<d.dep.src, d.dep.sink>>
  OBVIOUS
<1> DEFINE whole == {kl \in reads : ~ Shadowed(i, kl[1])}
<1>12. \A kl \in whole : kl \in reads /\ ~ Shadowed(i, kl[1])
  OBVIOUS
<1> HIDE DEF found, pairs, of, reads, whole
<1>13. of(whole) \subseteq found("True")
  <2> SUFFICES ASSUME NEW x \in of(whole) PROVE x \in found("True")
    OBVIOUS
  <2>1. PICK kl \in whole : x = <<s[kl[1]].pc, s[kl[2]].pc>>
    BY <1>9
  <2>2. kl \in reads /\ ~ Shorter(s, kl[1]) /\ kl = <<kl[1], kl[2]>>
    BY <1>6, <1>7, <1>10, <1>12
  <2>3. PICK k, l : k = kl[1] /\ l = kl[2]
    OBVIOUS
  <2>4. k \in DOMAIN s /\ l \in DOMAIN s /\ Reaches(s, k, l) /\ ~ s[l].pc.write /\ ~ Shorter(s, k)
    BY <1>4, <1>5, <2>2, <2>3
  <2> DEFINE d == [dep |-> [kind |-> "True", src |-> s[k].pc, sink |-> s[l].pc], iter |-> i]
  <2>5. d \in LID
    BY <1>3, <2>4 DEF Exact
  <2>6. d.iter = i /\ d.dep.kind = "True" /\ d.dep.src = s[k].pc /\ d.dep.sink = s[l].pc
    OBVIOUS
  <2> HIDE DEF d
  <2>7. x = <<d.dep.src, d.dep.sink>>
    BY <2>1, <2>3, <2>6
  <2> QED BY <1>11, <2>5, <2>6, <2>7
<1>14. ASSUME NEW kind \in {"True", "Out"}, NEW x \in found(kind)
       PROVE  \E k, l : /\ <<k, l>> \in pairs /\ x = <<s[k].pc, s[l].pc>>
                        /\ s[l].pc.write <=> kind = "Out"
  <2>1. PICK d \in LID : d.iter = i /\ d.dep.kind = kind /\ x = <<d.dep.src, d.dep.sink>>
    BY <1>11, <1>14
  <2>2. PICK k, l \in DOMAIN s : /\ Reaches(s, k, l) /\ (s[l].pc.write <=> d.dep.kind = "Out")
                                 /\ d.dep.src = s[k].pc /\ d.dep.sink = s[l].pc
    BY <1>3, <2>1 DEF Exact
  <2> QED BY <1>4, <2>1, <2>2
<1>15. found("True") \subseteq of(reads)
  <2> SUFFICES ASSUME NEW x \in found("True") PROVE x \in of(reads)
    OBVIOUS
  <2>1. PICK k, l : /\ <<k, l>> \in pairs /\ x = <<s[k].pc, s[l].pc>> /\ ~ s[l].pc.write
    BY <1>14
  <2> QED BY <1>5, <1>8, <2>1
<1>16. found("Out") \subseteq of(pairs \ reads)
  <2> SUFFICES ASSUME NEW x \in found("Out") PROVE x \in of(pairs \ reads)
    OBVIOUS
  <2>1. PICK k, l : /\ <<k, l>> \in pairs /\ x = <<s[k].pc, s[l].pc>> /\ s[l].pc.write
    BY <1>14
  <2>2. <<k, l>> \in pairs \ reads
    BY <1>5, <2>1
  <2> QED BY <1>8, <2>1, <2>2
<1> QED BY <1>13, <1>15, <1>16 DEF found, pairs, of, reads, whole, n

\* What an instruction took part in does not depend on how an access is named.
LEMMA InvLCDSound ==
  ASSUME Inv PROVE LCDSound
<1> DEFINE tookPart(pc, i) == \E k \in Iter : /\ k =< i /\ TableOf(k) = TableOf(i)
                                              /\ \E a \in Range(Of(k)) : a.pc = pc
<1>1. \A pc, i : TookPart(pc, i) => tookPart(pc, i)
  BY DEF TookPart, Range, Of
<1> SUFFICES ASSUME NEW d \in LCD
             PROVE  /\ tookPart(d.sink, d.iter)
                    /\ \E i \in 1 .. d.iter - 1 :
                         by[i] # 0 /\ tookPart(d.src, i) /\ d.dist = by[d.iter] - by[i]
  BY DEF LCDSound
<1>2. PICK src \in {d.src}, sink \in {d.sink}, i, j \in Iter :
        /\ d.iter = j /\ j =< FinishedLoopIter /\ TookPart(sink, j)
        /\ i < j /\ TookPart(src, i) /\ d.dist = by[j] - by[i]
  BY DEF Inv, Carries
<1>3. i \in 1 .. j - 1 /\ i =< FinishedLoopIter
  BY <1>2, Constants DEF Inv, Shape
<1>4. by[i] # 0
  BY <1>3 DEF Inv, Analyses
<1>5. tookPart(d.sink, j) /\ tookPart(d.src, i)
  BY <1>1, <1>2
<1> HIDE DEF tookPart
<1> QED BY <1>2, <1>3, <1>4, <1>5

\* The last write of LCDComplete is an access that nothing follows.
LEMMA LastWriteIs ==
  ASSUME Inv, NEW i \in Iter, HasLastWrite(i)
  PROVE  LastWrites(accesses[i], LastWrite(i).pc) /\ LastWrite(i).pc \in PC
<1>1. PICK s \in Seq(Access) : s = accesses[i] /\ s = Of(i)
  BY DEF Inv, Shape, Of
<1> DEFINE W == Writes(i)
<1>2. W # {} /\ \A k \in W : k \in DOMAIN s /\ s[k].pc.write
  BY <1>1 DEF HasLastWrite, Writes
<1>3. W \subseteq 1 .. Len(s) /\ \A l \in DOMAIN s : s[l].pc.write => l \in W
  BY <1>1, <1>2 DEF Writes
<1>4. W = Writes(i)
  OBVIOUS
<1> HIDE DEF W
<1>5. \E k \in W : \A l \in W : l =< k
  <2>1. Len(s) \in Nat
    BY <1>1
  <2> DEFINE T == {Len(s) - k : k \in W}
  <2>2. T \subseteq Nat /\ T # {}
    <3> DEFINE n == Len(s)
    <3>1. \A k \in W : k \in 1 .. n /\ n \in Nat
      BY <1>3, <2>1
    <3> HIDE DEF n
    <3>2. \A k \in W : n - k \in Nat
      BY <3>1
    <3> QED BY <1>2, <3>2 DEF n
  <2>3. PICK m \in T : \A x \in T : m =< x
    <3> HIDE DEF T
    <3> QED BY <2>2, LeastNumber
  <2>4. PICK k \in W : m = Len(s) - k
    OBVIOUS
  <2>5. \A l \in W : Len(s) - l \in T
    OBVIOUS
  <2>6. \A l \in W : Len(s) - k =< Len(s) - l
    BY <2>3, <2>4, <2>5
  <2> QED BY <1>3, <2>1, <2>6
<1>6. PICK k : k = CHOOSE x \in Writes(i) : \A l \in Writes(i) : l =< x
  OBVIOUS
<1>7. k \in W /\ \A l \in W : l =< k
  BY <1>5, <1>6, <1>4
<1>8. LastWrite(i) = s[k]
  BY <1>1, <1>6 DEF LastWrite
<1>9. ~ Shorter(s, k)
  BY <1>1, <1>7, <1>4 DEF HasLastWrite, Shadowed, Shorter
<1>10. s[k].pc \in PC
  <2>1. s[k] \in Access
    BY <1>1, <1>2, <1>7
  <2> QED BY <2>1 DEF Access
<1> QED BY <1>1, <1>2, <1>3, <1>7, <1>8, <1>9, <1>10 DEF LastWrites

\* Completes is LCDComplete, of the first read and the last write.
LEMMA InvLCDComplete ==
  ASSUME Inv PROVE LCDComplete
<1> SUFFICES ASSUME NEW i \in Iter, NEW j \in Iter, i < j,
                    \A k \in {i, j} : Clean(k) /\ Known(k) /\ by[k] = k
             PROVE  LET isFound(kind, src, sink) ==
                          \E d \in LCD : /\ d.kind = kind /\ d.src = src /\ d.sink = sink
                                         /\ d.iter = j /\ d.dist \in 1 .. j - i
                    IN /\ HasLastWrite(i) => isFound("True", LastWrite(i).pc, FirstRead(j).pc)
                       /\ HasLastWrite(j) => isFound("Anti", FirstRead(i).pc, LastWrite(j).pc)
                       /\ HasLastWrite(i) /\ HasLastWrite(j)
                            => isFound("Out", LastWrite(i).pc, LastWrite(j).pc)
  BY DEF LCDComplete
<1>1. Own(i) /\ Own(j)
  BY DEF Own
<1>2. ASSUME NEW k \in Iter, Known(k)
      PROVE  Reads(accesses[k], FirstRead(k).pc) /\ FirstRead(k).pc \in PC
  <2>1. PICK s \in Seq(Access) : s = accesses[k] /\ s = Of(k)
    BY DEF Inv, Shape, Of
  <2>2. s # <<>> /\ ~ Head(s).pc.write
    BY <1>2, <2>1 DEF Known
  <2>3. Head(s) = s[1] /\ s[1] \in Access
    BY <2>1, <2>2
  <2> QED BY <2>1, <2>2, <2>3 DEF Reads, FirstRead, Access
<1>3. \A s \in {accesses[i]}, r \in {accesses[j]}, D \in {LCD}, src, sink \in PC :
        /\ LastWrites(s, src) /\ Reads(r, sink) => IsFound(D, "True", src, sink, i, j)
        /\ Reads(s, src) /\ LastWrites(r, sink) => IsFound(D, "Anti", src, sink, i, j)
        /\ LastWrites(s, src) /\ LastWrites(r, sink) => IsFound(D, "Out", src, sink, i, j)
  BY <1>1 DEF Inv, Completes
<1>4. /\ Reads(accesses[i], FirstRead(i).pc) /\ FirstRead(i).pc \in PC
      /\ Reads(accesses[j], FirstRead(j).pc) /\ FirstRead(j).pc \in PC
  BY <1>1, <1>2 DEF Own
<1>5. /\ HasLastWrite(i) => LastWrites(accesses[i], LastWrite(i).pc) /\ LastWrite(i).pc \in PC
      /\ HasLastWrite(j) => LastWrites(accesses[j], LastWrite(j).pc) /\ LastWrite(j).pc \in PC
  BY LastWriteIs
<1>6. HasLastWrite(i) => IsFound(LCD, "True", LastWrite(i).pc, FirstRead(j).pc, i, j)
  BY <1>3, <1>4, <1>5
<1>7. HasLastWrite(j) => IsFound(LCD, "Anti", FirstRead(i).pc, LastWrite(j).pc, i, j)
  BY <1>3, <1>4, <1>5
<1>8. HasLastWrite(i) /\ HasLastWrite(j) => IsFound(LCD, "Out", LastWrite(i).pc, LastWrite(j).pc, i, j)
  BY <1>3, <1>4, <1>5
<1> QED BY <1>6, <1>7, <1>8 DEF IsFound

-----------------------------------------------------------------------------
\* The parts of the invariant hold in every state of the program.
THEOREM InvAlways == Spec => []Inv
<1>1. Inv /\ [Next]_vars => Inv'
  BY NextInv, StutterInv
<1> QED BY <1>1, InitInv, PTL DEF Spec

\* TypeOK: every present table holds nodes of instructions and of bytes of the
\* word, and no update or analysis follows a NULL pointer: a mask is empty if the
\* list of its nodes is (LDDParallelAnalysis.cpp, updatePresentWTrace).
THEOREM TypeCorrect == Spec => []TypeOK
  BY InvAlways, InvTypeOK, PTL

\* AnalysisSeesTrace: when LCDAFilter is handed a word, its Trace is allocated
\* and filled in, however the tasks that allocate it interleave.
THEOREM TraceSeen == Spec => []AnalysisSeesTrace
  BY InvAlways, InvAnalysisSeesTrace, PTL

\* LIDExact: in an iteration that starts with an empty table, the
\* loop-independent flow dependences are those of the program but for those of
\* shadowed writes, and the output dependences are of the program.
THEOREM LIDCorrect == Spec => []LIDExact
  BY InvAlways, InvLIDExact, PTL

\* LCDSound: the source and the sink of a loop-carried dependence accessed the
\* word in iterations that have the tables it was found in.
THEOREM LCDCorrect == Spec => []LCDSound
  BY InvAlways, InvLCDSound, PTL

\* LCDComplete: between iterations that the analysis knows, with their own inputs
\* and tables, the dependences of the first reads and the last writes are found.
THEOREM LCDFound == Spec => []LCDComplete
  BY InvAlways, InvLCDComplete, PTL
=============================================================================
