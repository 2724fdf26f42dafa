---------------------------- MODULE CSpaceProofs ----------------------------
(***************************************************************************)
(* The slots of a cspace are handed out once, for any size of cspace: the  *)
(* invariants of CSpace, proved. The argument is that cspace_alloc_slot    *)
(* takes the first free slot of the first cnode that is not full, which    *)
(* lies past the boot slots and before the last slot of its cnode, and     *)
(* that the cnodes up to that one exist.                                   *)
(***************************************************************************)
EXTENDS CSpace, WellFoundedInduction, TLAPS

(* A nonempty set of naturals has a least element: a proof by induction    *)
(* becomes one about the least counterexample.                             *)
LEMMA NatMin ==
  ASSUME NEW S, S \subseteq Nat, S # {}
  PROVE  \E n \in S : \A m \in S : n <= m
<1> DEFINE R == {ss \in Nat \X Nat : ss[1] < ss[2]}
<1>1. IsWellFoundedOn(R, Nat)
  BY NatLessThanWellFounded DEF OpToRel
<1>2. PICK n \in S : \A m \in S : ~(<<m, n>> \in R)
  BY <1>1, WFMin
<1>3. \A m \in S : m \in Nat /\ n \in Nat /\ ~(m < n)
  <2> SUFFICES ASSUME NEW m \in S PROVE m \in Nat /\ n \in Nat /\ ~(m < n)
    OBVIOUS
  <2>1. m \in Nat /\ n \in Nat /\ <<m, n>> \in Nat \X Nat
    OBVIOUS
  <2>2. m < n => <<m, n>> \in R
    BY <2>1
  <2>. QED BY <1>2, <2>1, <2>2
<1>. QED BY <1>3

(* bf_first_free: the first number below n that is not in S.               *)
LEMMA FirstFreeIs ==
  ASSUME NEW n \in Nat, NEW S
  PROVE  /\ FirstFree(n, S) \in 0 .. n
         /\ \A j \in 0 .. (FirstFree(n, S) - 1) : j \in S
         /\ FirstFree(n, S) < n => FirstFree(n, S) \notin S
<1> DEFINE free == {i \in 0 .. (n - 1) : i \notin S}
<1>1. CASE free = {}
  BY <1>1 DEF FirstFree
<1>2. CASE free # {}
  <2>1. free \subseteq Nat
    OBVIOUS
  <2>2. PICK i \in free : \A j \in free : i <= j
    BY <1>2, <2>1, NatMin, Zenon
  <2>3. i \in 0 .. (n - 1) /\ i \notin S /\ \A j \in 0 .. (i - 1) : j \in S
    BY <2>2
  <2>4. FirstFree(n, S) = CHOOSE k \in 0 .. (n - 1) : k \notin S /\ \A j \in 0 .. (k - 1) : j \in S
    BY <2>3 DEF FirstFree
  <2>. QED BY <2>3, <2>4
<1>. QED BY <1>1, <1>2

(* Division with remainder by a positive number.                           *)
LEMMA DivMod ==
  ASSUME NEW d \in Nat \ {0}
  PROVE  /\ \A c \in Nat : /\ c \div d \in Nat /\ (c % d) \in 0 .. (d - 1)
                           /\ c = (c \div d) * d + (c % d)
         /\ \A t \in Nat, i \in 0 .. (d - 1) :
              /\ t * d + i \in Nat
              /\ (t * d + i) \div d = t /\ ((t * d + i) % d) = i
         /\ \A a, b \in Nat : a <= b => a \div d <= b \div d
OBVIOUS

(* The sizes of the cspace, from the assumptions on the constants.         *)
LEMMA CSpaceSizes ==
  /\ CnodeSlots \in Nat \ {0} /\ CnodeSlots >= 4 /\ CnodesPerNode \in Nat \ {0}
  /\ TopSlots \in Nat \ {0} /\ MappingSlots \in Nat
  /\ BootSlots \in Nat \ {0} /\ BootCnodes \in Nat
  /\ BootTop \in Nat /\ BootTop < BootCnodes /\ BootCnodes <= TopSlots
  /\ BootTop \in Tops
BY CSpaceAssumption, DivMod DEF BootTop, TopIndex, Tops

(* A cptr is made of the index of its cnode and its index in the cnode.    *)
LEMMA SlotNumbers ==
  /\ \A c \in Slots : TopIndex(c) \in Tops /\ (c % CnodeSlots) \in 0 .. (CnodeSlots - 1)
                      /\ c = SlotOf(TopIndex(c), (c % CnodeSlots))
  /\ \A t \in Tops, i \in 0 .. (CnodeSlots - 1) :
       /\ SlotOf(t, i) \in Slots /\ TopIndex(SlotOf(t, i)) = t
       /\ (SlotOf(t, i) % CnodeSlots) = i
<1>1. ASSUME NEW t \in Tops, NEW i \in 0 .. (CnodeSlots - 1) PROVE SlotOf(t, i) \in Slots
  <2>1. t + 1 <= TopSlots /\ t \in Nat /\ TopSlots \in Nat /\ CnodeSlots \in Nat
    BY CSpaceSizes DEF Tops
  <2>2. (t + 1) * CnodeSlots <= TopSlots * CnodeSlots
    BY <2>1
  <2>. QED BY <2>1, <2>2 DEF Slots, SlotOf
<1>2. ASSUME NEW c \in Slots PROVE TopIndex(c) \in Tops
  <2>1. c \in Nat /\ c < TopSlots * CnodeSlots /\ TopSlots \in Nat /\ CnodeSlots \in Nat \ {0}
    BY CSpaceSizes DEF Slots
  <2>. QED BY <2>1 DEF TopIndex, Tops
<1>3. ASSUME NEW c \in Slots
      PROVE  (c % CnodeSlots) \in 0 .. (CnodeSlots - 1) /\ c = SlotOf(TopIndex(c), (c % CnodeSlots))
  <2>1. c \in Nat /\ CnodeSlots \in Nat \ {0}
    BY CSpaceSizes DEF Slots
  <2>. QED BY <2>1, DivMod DEF TopIndex, SlotOf
<1>4. ASSUME NEW t \in Tops, NEW i \in 0 .. (CnodeSlots - 1)
      PROVE  TopIndex(SlotOf(t, i)) = t /\ (SlotOf(t, i) % CnodeSlots) = i
  <2>1. t \in Nat /\ CnodeSlots \in Nat \ {0}
    BY CSpaceSizes DEF Tops
  <2>. QED BY <2>1, DivMod, Zenon DEF TopIndex, SlotOf
<1>. QED BY <1>1, <1>2, <1>3, <1>4

(* The index of a cnode is made of the index of its bookkeeping node and   *)
(* its index in the node, in the same order.                               *)
LEMMA NodeNumbers ==
  \A t \in Tops :
    /\ NodeIndex(t) \in NodeIds /\ CnodeIndex(t) \in 0 .. (CnodesPerNode - 1)
    /\ t = NodeIndex(t) * CnodesPerNode + CnodeIndex(t)
    /\ \A u \in Tops : t <= u => NodeIndex(t) <= NodeIndex(u)
                                 /\ (NodeIndex(t) = NodeIndex(u) => CnodeIndex(t) <= CnodeIndex(u))
<1> SUFFICES ASSUME NEW t \in Tops
             PROVE  /\ NodeIndex(t) \in NodeIds /\ CnodeIndex(t) \in 0 .. (CnodesPerNode - 1)
                    /\ t = NodeIndex(t) * CnodesPerNode + CnodeIndex(t)
                    /\ \A u \in Tops : t <= u => NodeIndex(t) <= NodeIndex(u)
                                 /\ (NodeIndex(t) = NodeIndex(u) => CnodeIndex(t) <= CnodeIndex(u))
  OBVIOUS
<1>1. t \in Nat /\ TopSlots - 1 \in Nat /\ t <= TopSlots - 1 /\ CnodesPerNode \in Nat \ {0}
  BY CSpaceSizes DEF Tops
<1>2. /\ NodeIndex(t) \in Nat /\ CnodeIndex(t) \in 0 .. (CnodesPerNode - 1)
      /\ t = NodeIndex(t) * CnodesPerNode + CnodeIndex(t)
      /\ NodeIndex(t) <= (TopSlots - 1) \div CnodesPerNode
  BY <1>1, DivMod, Zenon DEF NodeIndex, CnodeIndex
<1>3. (TopSlots - 1) \div CnodesPerNode \in Nat
  BY <1>1, DivMod
<1>4. ASSUME NEW u \in Tops, t <= u
      PROVE  /\ NodeIndex(t) <= NodeIndex(u)
             /\ NodeIndex(t) = NodeIndex(u) => CnodeIndex(t) <= CnodeIndex(u)
  <2>1. u \in Nat
    BY DEF Tops
  <2>2. /\ NodeIndex(u) \in Nat /\ CnodeIndex(u) \in 0 .. (CnodesPerNode - 1)
        /\ u = NodeIndex(u) * CnodesPerNode + CnodeIndex(u)
    BY <1>1, <2>1, DivMod, Zenon DEF NodeIndex, CnodeIndex
  <2>3. NodeIndex(t) <= NodeIndex(u)
    BY <1>1, <1>4, <2>1, DivMod, Zenon DEF NodeIndex
  <2>. QED BY <1>1, <1>2, <1>4, <2>1, <2>2, <2>3
<1>. QED BY <1>2, <1>3, <1>4 DEF NodeIds

(* The last slot of a cnode from the last boot cnode on is never taken:    *)
(* MarkFull counts the cnode full one slot early.                          *)
LastUnused ==
  \A c \in bits : TopIndex(c) >= BootTop => (c % CnodeSlots) # CnodeSlots - 1

(* The cnodes of the boot slots exist from the start.                      *)
BootMade == \A top \in 0 .. BootTop : CnodePresent(top)

(* The inductive invariant: the two invariants that the runs check, and    *)
(* the two facts that make the next slot one that nobody has.              *)
CSpaceIInv == SlotsAccounted /\ CnodesConsistent /\ LastUnused /\ BootMade

(* The first free slot of one cnode.                                       *)
LEMMA FirstBotIs ==
  ASSUME NEW b, b \subseteq Slots, NEW top \in Tops
  PROVE  /\ FirstBot(b, top) \in 0 .. CnodeSlots
         /\ \A j \in 0 .. (FirstBot(b, top) - 1) : SlotOf(top, j) \in b
         /\ FirstBot(b, top) < CnodeSlots =>
              /\ Taken(b, top) \notin b /\ Taken(b, top) \in Slots
              /\ TopIndex(Taken(b, top)) = top /\ (Taken(b, top) % CnodeSlots) = FirstBot(b, top)
<1> DEFINE S == {i \in 0 .. (CnodeSlots - 1) : SlotOf(top, i) \in b}
           f == FirstFree(CnodeSlots, S)
<1>0. CnodeSlots \in Nat
  BY CSpaceSizes
<1>1. f \in 0 .. CnodeSlots /\ (\A j \in 0 .. (f - 1) : j \in S) /\ (f < CnodeSlots => f \notin S)
  <2> HIDE DEF S
  <2>. QED BY <1>0, FirstFreeIs
<1>2. FirstBot(b, top) = f
  BY DEF FirstBot
<1>3. \A j \in S : SlotOf(top, j) \in b
  OBVIOUS
<1>4. \A j \in 0 .. (CnodeSlots - 1) : j \notin S => SlotOf(top, j) \notin b
  OBVIOUS
<1> HIDE DEF S, f
<1>5. f < CnodeSlots => f \in 0 .. (CnodeSlots - 1)
  BY <1>1, CSpaceSizes
<1>. QED BY <1>1, <1>2, <1>3, <1>4, <1>5, SlotNumbers DEF Taken

(* The slots of another cnode do not matter to it.                         *)
LEMMA FirstBotSame ==
  ASSUME NEW b, NEW c, NEW top \in Tops,
         \A i \in 0 .. (CnodeSlots - 1) : SlotOf(top, i) \in b <=> SlotOf(top, i) \in c
  PROVE  FirstBot(b, top) = FirstBot(c, top)
<1>1. {i \in 0 .. (CnodeSlots - 1) : SlotOf(top, i) \in b} = {i \in 0 .. (CnodeSlots - 1) : SlotOf(top, i) \in c}
  OBVIOUS
<1>. QED BY <1>1 DEF FirstBot

(* The first cnode with room: all below it are full.                       *)
LEMMA FirstTopIs ==
  ASSUME FirstTop < TopSlots
  PROVE  FirstTop \in Tops /\ FirstTop \notin full /\ \A t \in Tops : t < FirstTop => t \in full
BY FirstFreeIs, CSpaceSizes DEF FirstTop, Tops

(* A cnode that is present has all the cnodes of lower index.              *)
LEMMA MadeBelow ==
  ASSUME CSpaceIInv, NEW t \in Tops, CnodePresent(t), NEW u \in Tops, u <= t
  PROVE  CnodePresent(u)
<1>1. NodeIndex(u) <= NodeIndex(t) /\ (NodeIndex(u) = NodeIndex(t) => CnodeIndex(u) <= CnodeIndex(t))
      /\ NodeIndex(u) \in NodeIds /\ NodeIndex(t) \in NodeIds
      /\ CnodeIndex(u) \in 0 .. (CnodesPerNode - 1) /\ CnodeIndex(t) \in 0 .. (CnodesPerNode - 1)
  BY NodeNumbers
<1>2. NodeIds \subseteq Int /\ nodes \in Nat /\ cnodes \in [NodeIds -> 0 .. CnodesPerNode]
  BY DEF CSpaceIInv, SlotsAccounted, CSpaceTypeOK, NodeIds
<1>5. /\ NodeIndex(u) \in Int /\ NodeIndex(t) \in Int /\ CnodeIndex(u) \in Nat /\ CnodeIndex(t) \in Nat
      /\ CnodeIndex(u) < CnodesPerNode /\ CnodesPerNode \in Nat
      /\ cnodes[NodeIndex(u)] \in Nat /\ cnodes[NodeIndex(t)] \in Nat
  <2>1. CnodesPerNode \in Nat
    BY CSpaceSizes
  <2>2. NodeIndex(u) \in Int /\ NodeIndex(t) \in Int
    BY <1>1, <1>2, Zenon
  <2>3. cnodes[NodeIndex(u)] \in 0 .. CnodesPerNode /\ cnodes[NodeIndex(t)] \in 0 .. CnodesPerNode
    BY <1>1, <1>2, Zenon
  <2>. QED BY <1>1, <2>1, <2>2, <2>3
<1>6. nodes > NodeIndex(t) /\ cnodes[NodeIndex(t)] > CnodeIndex(t)
  BY DEF CnodePresent, NodePresent
<1>7. nodes > NodeIndex(u)
  BY <1>1, <1>2, <1>5, <1>6
<1>3. CASE NodeIndex(u) = NodeIndex(t)
  BY <1>1, <1>2, <1>3, <1>5, <1>6, <1>7 DEF CnodePresent, NodePresent
<1>4. CASE NodeIndex(u) < NodeIndex(t)
  <2>1. cnodes[NodeIndex(t)] > 0
    BY <1>5, <1>6
  <2>2. cnodes[NodeIndex(u)] = CnodesPerNode
    BY <1>1, <1>4, <2>1 DEF CSpaceIInv, CnodesConsistent, MadeInOrder
  <2>. QED BY <1>5, <1>7, <2>2 DEF CnodePresent, NodePresent
<1>. QED BY <1>1, <1>3, <1>4, <1>5

(* The cnode cspace_alloc_slot looks in is past the boot cnodes, all       *)
(* before it are present, and it has a free slot before its last.          *)
LEMMA NextCnode ==
  ASSUME CSpaceIInv, FirstTop < TopSlots
  PROVE  /\ FirstTop >= BootTop
         /\ \A t \in Tops : t < FirstTop => CnodePresent(t)
         /\ FirstBot(bits, FirstTop) < CnodeSlots - 1
<1>1. FirstTop \in Tops /\ FirstTop \notin full /\ \A t \in Tops : t < FirstTop => t \in full
  BY FirstTopIs
<1>2. bits \subseteq Slots /\ Tops \subseteq Int /\ BootTop \in Int /\ 0 .. BootTop \subseteq Tops
  BY CSpaceSizes DEF CSpaceIInv, SlotsAccounted, CSpaceTypeOK, Tops
<1>3. LevelsAgree /\ BootMade
  BY DEF CSpaceIInv, CnodesConsistent
<1>4. FirstTop >= BootTop
  BY <1>1, <1>2, <1>3 DEF LevelsAgree
<1>5. FirstBot(bits, FirstTop) < CnodeSlots - 1
  <2>1. ~(FirstBot(bits, FirstTop) >= CnodeSlots - 1)
    BY <1>1, <1>2, <1>3, <1>4 DEF LevelsAgree
  <2>. QED BY <1>1, <1>2, <2>1, FirstBotIs, CSpaceSizes
<1>6. ASSUME NEW t \in Tops, t < FirstTop PROVE CnodePresent(t)
  <2>1. CASE t <= BootTop
    BY <1>3, <2>1 DEF BootMade, Tops
  <2>2. CASE ~(t <= BootTop)
    <3>1. t \in full /\ ~(t < BootTop)
      BY <1>1, <1>2, <1>6, <2>2
    <3>2. FirstBot(bits, t) >= CnodeSlots - 1
      BY <1>3, <3>1 DEF LevelsAgree
    <3>3. SlotOf(t, 0) \in bits
      BY <1>2, <3>2, FirstBotIs, CSpaceSizes
    <3>4. TopIndex(SlotOf(t, 0)) = t
      BY SlotNumbers, CSpaceSizes
    <3>. QED BY <3>3, <3>4 DEF CSpaceIInv, CnodesConsistent, MadeInOrder
  <2>. QED BY <2>1, <2>2
<1>. QED BY <1>4, <1>5, <1>6

(* A slot taken from that cnode is not a boot slot.                        *)
LEMMA NotBoot ==
  ASSUME CSpaceIInv, FirstTop < TopSlots,
         NEW x \in Slots, TopIndex(x) = FirstTop, x \notin bits
  PROVE  x \notin 0 .. (BootSlots - 1)
<1> SUFFICES ASSUME x \in 0 .. (BootSlots - 1) PROVE FALSE
  OBVIOUS
<1>1. TopIndex(x) <= BootTop
  <2>1. x \in Nat /\ x <= BootSlots /\ BootSlots \in Nat /\ CnodeSlots \in Nat \ {0}
    BY CSpaceSizes
  <2>. QED BY <2>1, DivMod, Zenon DEF TopIndex, BootTop
<1>2. TopIndex(x) >= BootTop
  BY NextCnode
<1>3. TopIndex(x) = BootTop
  BY <1>1, <1>2, FirstTopIs, CSpaceSizes DEF Tops
<1>4. x \in Recorded
  BY <1>3 DEF Recorded
<1>. QED BY <1>4 DEF CSpaceIInv, SlotsAccounted

(* Taking slots from that cnode keeps the two levels of bitfields in       *)
(* agreement.                                                              *)
LEMMA TakeLevels ==
  ASSUME CSpaceIInv, FirstTop < TopSlots, NEW b, b \subseteq Slots, bits \subseteq b,
         \A x \in b \ bits : TopIndex(x) = FirstTop,
         bits' = b, full' = MarkFull(b, FirstTop)
  PROVE  LevelsAgree' /\ full' \subseteq Tops
<1>1. FirstTop \in Tops /\ FirstTop \notin full /\ FirstTop >= BootTop /\ FirstTop \in Int /\ BootTop \in Int
  BY FirstTopIs, NextCnode, CSpaceSizes DEF Tops
<1>2. LevelsAgree /\ full \subseteq Tops
  BY DEF CSpaceIInv, CnodesConsistent, SlotsAccounted, CSpaceTypeOK
<1>3. full' \subseteq Tops /\ full \subseteq full' /\ full' \subseteq full \cup {FirstTop}
      /\ (FirstTop \in full' <=> FirstBot(b, FirstTop) >= CnodeSlots - 1)
  BY <1>1, <1>2 DEF MarkFull
<1>4. ASSUME NEW t \in Tops, t # FirstTop PROVE FirstBot(b, t) = FirstBot(bits, t)
  <2>1. ASSUME NEW i \in 0 .. (CnodeSlots - 1) PROVE SlotOf(t, i) \in b <=> SlotOf(t, i) \in bits
    BY <1>4, SlotNumbers
  <2>. QED BY <2>1, FirstBotSame
<1>5. ASSUME NEW t \in Tops, t < BootTop PROVE t \in full'
  BY <1>2, <1>3, <1>5 DEF LevelsAgree
<1>6. ASSUME NEW t \in Tops, ~(t < BootTop) PROVE (t \in full') <=> FirstBot(bits', t) >= CnodeSlots - 1
  <2>1. CASE t = FirstTop
    BY <1>3, <2>1
  <2>2. CASE t # FirstTop
    <3>1. t \in full' <=> t \in full
      BY <1>3, <2>2
    <3>2. t \in full <=> FirstBot(bits, t) >= CnodeSlots - 1
      BY <1>2, <1>6 DEF LevelsAgree
    <3>. QED BY <1>4, <2>2, <3>1, <3>2
  <2>. QED BY <2>1, <2>2
<1>. QED BY <1>3, <1>5, <1>6 DEF LevelsAgree

(* Making that cnode, and its bookkeeping node where there is none, keeps  *)
(* the cnodes contiguous.                                                  *)
LEMMA GrowOne ==
  ASSUME CSpaceIInv, FirstTop < TopSlots, ~CnodePresent(FirstTop),
         cnodes' = [cnodes EXCEPT ![NodeIndex(FirstTop)] = @ + 1],
         nodes' = IF NodePresent(FirstTop) THEN nodes ELSE nodes + 1
  PROVE  /\ nodes' \in Nat /\ cnodes' \in [NodeIds -> 0 .. CnodesPerNode]
         /\ \A n \in NodeIds : cnodes'[n] > 0 => n < nodes'
         /\ \A m, n \in NodeIds : m < n /\ cnodes'[n] > 0 => cnodes'[m] = CnodesPerNode
         /\ \A t \in Tops : CnodePresent(t) \/ t = FirstTop => CnodePresent(t)'
<1> DEFINE top == FirstTop
           k == NodeIndex(top)
<1>1. top \in Tops /\ top \in Nat /\ Tops \subseteq Int /\ NodeIds \subseteq Int
  BY FirstTopIs DEF Tops, NodeIds
<1>2. /\ CnodesPerNode \in Nat \ {0} /\ nodes \in Nat
      /\ cnodes \in [NodeIds -> 0 .. CnodesPerNode]
      /\ \A n \in NodeIds : cnodes[n] > 0 => n < nodes
      /\ \A m, n \in NodeIds : m < n /\ cnodes[n] > 0 => cnodes[m] = CnodesPerNode
  BY CSpaceSizes DEF CSpaceIInv, CnodesConsistent, MadeInOrder, SlotsAccounted, CSpaceTypeOK
<1>3. /\ k \in NodeIds /\ k \in Nat /\ CnodeIndex(top) \in 0 .. (CnodesPerNode - 1)
      /\ top = k * CnodesPerNode + CnodeIndex(top)
  BY <1>1, NodeNumbers DEF NodeIds
<1>4. \A t \in Tops : t < top => nodes > NodeIndex(t) /\ cnodes[NodeIndex(t)] > CnodeIndex(t)
  BY NextCnode DEF CnodePresent, NodePresent
<1>c. \A n \in NodeIds : cnodes[n] \in Int /\ cnodes[n] >= 0 /\ cnodes[n] <= CnodesPerNode
  BY <1>2
<1>t. \A x \in Nat : x < top => x \in Tops
  BY <1>1, CSpaceSizes DEF Tops
<1>k. \A x \in Nat : x < k => x \in NodeIds
  <2>1. (TopSlots - 1) \div CnodesPerNode \in Int
    BY CSpaceSizes
  <2>. QED BY <1>3, <2>1 DEF NodeIds
<1>i. CnodeIndex(top) \in Nat /\ CnodeIndex(top) < CnodesPerNode
  BY <1>2, <1>3
<1> HIDE DEF top, k
<1>5. ASSUME NEW m \in NodeIds, m < k PROVE cnodes[m] = CnodesPerNode /\ m < nodes
  <2> DEFINE t == m * CnodesPerNode + (CnodesPerNode - 1)
  <2>1. m \in Nat
    BY DEF NodeIds
  <2>2. t < k * CnodesPerNode /\ t \in Nat
    BY <1>2, <1>3, <1>5, <2>1
  <2>3. t < top /\ t \in Tops
    <3>1. k * CnodesPerNode \in Nat /\ top >= k * CnodesPerNode
      BY <1>2, <1>3, <1>i
    <3> HIDE DEF t
    <3>. QED BY <1>1, <1>t, <2>2, <3>1
  <2>4. NodeIndex(t) = m /\ CnodeIndex(t) = CnodesPerNode - 1
    <3>1. CnodesPerNode - 1 \in 0 .. (CnodesPerNode - 1)
      BY <1>2
    <3>. QED BY <1>2, <2>1, <3>1, DivMod, Zenon DEF NodeIndex, CnodeIndex
  <2> HIDE DEF t
  <2>. QED BY <1>1, <1>2, <1>4, <1>c, <2>3, <2>4
<1>6. cnodes[k] = CnodeIndex(top)
  <2>1. CASE CnodeIndex(top) = 0
    <3>1. ~(cnodes[k] > 0)
      BY <1>2, <1>3, <2>1 DEF CnodePresent, NodePresent, top, k
    <3>. QED BY <1>3, <1>c, <2>1, <3>1
  <2>2. CASE CnodeIndex(top) > 0
    <3> DEFINE t == k * CnodesPerNode + (CnodeIndex(top) - 1)
    <3>1. t < top /\ t \in Tops
      <4>1. k * CnodesPerNode \in Nat
        BY <1>2, <1>3
      <4>2. t \in Nat /\ t < top
        BY <1>1, <1>3, <1>i, <2>2, <4>1
      <4>. QED BY <1>t, <4>2
    <3>2. NodeIndex(t) = k /\ CnodeIndex(t) = CnodeIndex(top) - 1
      <4>1. CnodeIndex(top) - 1 \in 0 .. (CnodesPerNode - 1)
        BY <1>2, <1>i, <2>2
      <4>. QED BY <1>2, <1>3, <4>1, DivMod, Zenon DEF NodeIndex, CnodeIndex
    <3> HIDE DEF t
    <3>3. nodes > k /\ cnodes[k] > CnodeIndex(top) - 1
      BY <1>4, <3>1, <3>2
    <3>4. ~(cnodes[k] > CnodeIndex(top))
      BY <3>3 DEF CnodePresent, NodePresent, top, k
    <3>. QED BY <1>3, <1>c, <3>3, <3>4
  <2>. QED BY <1>3, <2>1, <2>2
<1>7. \A n \in NodeIds : n > k => cnodes[n] = 0
  BY <1>2, <1>3, <1>6, <1>c, <1>1
<1>8. nodes' > k /\ nodes' >= nodes /\ nodes' \in Nat
  <2>1. CASE NodePresent(FirstTop)
    BY <1>2, <1>3, <2>1 DEF NodePresent, top, k
  <2>2. CASE ~NodePresent(FirstTop)
    <3>1. nodes' = nodes + 1 /\ ~(nodes > k)
      BY <2>2 DEF NodePresent, top, k
    <3>2. CASE k = 0
      BY <1>2, <3>1, <3>2
    <3>3. CASE k > 0
      <4>1. k - 1 \in NodeIds
        BY <1>3, <1>k, <3>3
      <4>2. k - 1 < nodes
        BY <1>3, <1>5, <4>1
      <4>. QED BY <1>2, <1>3, <3>1, <4>2
    <3>. QED BY <1>3, <3>2, <3>3
  <2>. QED BY <2>1, <2>2
<1>9. /\ cnodes' \in [NodeIds -> 0 .. CnodesPerNode] /\ cnodes'[k] = CnodeIndex(top) + 1
      /\ \A n \in NodeIds : n # k => cnodes'[n] = cnodes[n]
      /\ \A n \in NodeIds : cnodes'[n] >= cnodes[n]
  <2>1. cnodes' = [cnodes EXCEPT ![k] = @ + 1]
    BY DEF top, k
  <2>2. cnodes[k] + 1 \in 0 .. CnodesPerNode
    BY <1>2, <1>3, <1>6
  <2>. QED BY <1>2, <1>3, <1>6, <1>c, <2>1, <2>2
<1>10. \A n \in NodeIds : cnodes'[n] > 0 => n < nodes'
  BY <1>1, <1>2, <1>3, <1>7, <1>8, <1>9
<1>11. ASSUME NEW m \in NodeIds, NEW n \in NodeIds, m < n, cnodes'[n] > 0 PROVE cnodes'[m] = CnodesPerNode
  <2>1. n <= k
    BY <1>1, <1>3, <1>7, <1>9, <1>11
  <2>2. m < k /\ m # k
    BY <1>1, <1>3, <1>11, <2>1
  <2>. QED BY <1>5, <1>9, <2>2
<1>12. ASSUME NEW t \in Tops, CnodePresent(t) \/ t = top
       PROVE  nodes' > NodeIndex(t) /\ cnodes'[NodeIndex(t)] > CnodeIndex(t)
  <2>0. NodeIndex(t) \in NodeIds /\ CnodeIndex(t) \in 0 .. (CnodesPerNode - 1) /\ NodeIndex(t) \in Int
    BY <1>1, NodeNumbers, Zenon
  <2>1. CASE t = top
    BY <1>3, <1>8, <1>9, <2>1 DEF k
  <2>2. CASE CnodePresent(t)
    <3>1. nodes > NodeIndex(t) /\ cnodes[NodeIndex(t)] > CnodeIndex(t)
      BY <2>2 DEF CnodePresent, NodePresent
    <3>2. cnodes'[NodeIndex(t)] \in Int /\ cnodes[NodeIndex(t)] \in Int
      BY <1>2, <1>9, <2>0
    <3>. QED BY <1>2, <1>8, <1>9, <2>0, <3>1, <3>2
  <2>. QED BY <1>12, <2>1, <2>2
<1>. QED BY <1>8, <1>9, <1>10, <1>11, <1>12 DEF CnodePresent, NodePresent, top

(* Which cnodes are present depends on the bookkeeping only.               *)
LEMMA CnodesSame ==
  ASSUME UNCHANGED <<nodes, cnodes>>, NEW t
  PROVE  CnodePresent(t)' <=> CnodePresent(t)
BY DEF CnodePresent, NodePresent

(* The slot taken is free, is not a boot slot and is not the last of its   *)
(* cnode.                                                                  *)
LEMMA TakenFresh ==
  ASSUME CSpaceIInv, FirstTop < TopSlots
  PROVE  /\ Taken(bits, FirstTop) \in Slots /\ Taken(bits, FirstTop) \notin bits
         /\ Taken(bits, FirstTop) \notin 0 .. (BootSlots - 1)
         /\ TopIndex(Taken(bits, FirstTop)) = FirstTop
         /\ (Taken(bits, FirstTop) % CnodeSlots) = FirstBot(bits, FirstTop)
         /\ (Taken(bits, FirstTop) % CnodeSlots) # CnodeSlots - 1
<1>1. FirstTop \in Tops /\ bits \subseteq Slots /\ FirstBot(bits, FirstTop) < CnodeSlots - 1
  BY FirstTopIs, NextCnode DEF CSpaceIInv, SlotsAccounted, CSpaceTypeOK
<1>2. FirstBot(bits, FirstTop) \in Int /\ FirstBot(bits, FirstTop) < CnodeSlots
      /\ FirstBot(bits, FirstTop) # CnodeSlots - 1
  BY <1>1, FirstBotIs, CSpaceSizes
<1>3. /\ Taken(bits, FirstTop) \in Slots /\ Taken(bits, FirstTop) \notin bits
      /\ TopIndex(Taken(bits, FirstTop)) = FirstTop
      /\ (Taken(bits, FirstTop) % CnodeSlots) = FirstBot(bits, FirstTop)
  BY <1>1, <1>2, FirstBotIs
<1>. QED BY <1>2, <1>3, NotBoot

(* Handing out the slot, whether or not its cnode had to be made.          *)
LEMMA HandOut ==
  ASSUME CSpaceIInv, FirstTop < TopSlots,
         bits' = bits \cup {Taken(bits, FirstTop)}, full' = MarkFull(bits', FirstTop),
         given' = given \cup {Taken(bits, FirstTop)},
         UNCHANGED <<watermark, caps, crash>>, uts' \in Nat,
         nodes' \in Nat, cnodes' \in [NodeIds -> 0 .. CnodesPerNode],
         \A n \in NodeIds : cnodes'[n] > 0 => n < nodes',
         \A m, n \in NodeIds : m < n /\ cnodes'[n] > 0 => cnodes'[m] = CnodesPerNode,
         \A t \in Tops : CnodePresent(t) \/ t = FirstTop => CnodePresent(t)'
  PROVE  CSpaceIInv'
<1> DEFINE c == Taken(bits, FirstTop)
<1>1. /\ c \in Slots /\ c \notin bits /\ c \notin 0 .. (BootSlots - 1) /\ TopIndex(c) = FirstTop
      /\ (c % CnodeSlots) # CnodeSlots - 1
  BY TakenFresh
<1>2. bits' = bits \cup {c} /\ given' = given \cup {c} /\ full' = MarkFull(bits', FirstTop)
  OBVIOUS
<1> HIDE DEF c
<1>3. WatermarkSlots' = WatermarkSlots /\ Recorded' = Recorded
  BY DEF WatermarkSlots, Recorded
<1>4. LevelsAgree' /\ full' \subseteq Tops
  <2>1. bits' \subseteq Slots /\ bits \subseteq bits' /\ \A x \in bits' \ bits : TopIndex(x) = FirstTop
    BY <1>1, <1>2, Zenon DEF CSpaceIInv, SlotsAccounted, CSpaceTypeOK
  <2>. QED BY <1>2, <2>1, TakeLevels
<1>5. SlotsAccounted'
  <2>1. CSpaceTypeOK'
    BY <1>1, <1>2, <1>4, Zenon DEF CSpaceIInv, SlotsAccounted, CSpaceTypeOK
  <2>2. /\ bits' = Recorded \cup given' \cup (WatermarkSlots \cup caps)
        /\ given' \cap (0 .. (BootSlots - 1) \cup (WatermarkSlots \cup caps)) = {}
        /\ 0 .. (BootSlots - 1) \cap (WatermarkSlots \cup caps) = {}
    <3> DEFINE boot == 0 .. (BootSlots - 1)
               own == WatermarkSlots \cup caps
    <3>1. bits = Recorded \cup given \cup own /\ given \cap (boot \cup own) = {} /\ boot \cap own = {}
      BY DEF CSpaceIInv, SlotsAccounted
    <3>2. c \notin own /\ c \notin boot
      BY <1>1, <3>1
    <3> HIDE DEF boot, own
    <3>3. bits' = Recorded \cup given' \cup own /\ given' \cap (boot \cup own) = {}
      BY <1>2, <3>1, <3>2, Zenon
    <3>. QED BY <3>1, <3>3 DEF boot, own
  <2>. QED BY <1>3, <2>1, <2>2 DEF SlotsAccounted
<1>6. \A x \in bits' : CnodePresent(TopIndex(x))'
  BY <1>1, <1>2, SlotNumbers DEF CSpaceIInv, CnodesConsistent, MadeInOrder, SlotsAccounted, CSpaceTypeOK
<1>7. MadeInOrder'
  BY <1>6 DEF MadeInOrder
<1>8. LastUnused'
  BY <1>1, <1>2 DEF CSpaceIInv, LastUnused
<1>9. BootMade'
  BY CSpaceSizes DEF CSpaceIInv, BootMade, Tops
<1>. QED BY <1>4, <1>5, <1>7, <1>8, <1>9 DEF CSpaceIInv, CnodesConsistent

(* cspace_alloc_slot with room in a cnode that exists.                     *)
LEMMA AllocSlotIInv == ASSUME CSpaceIInv, AllocSlot PROVE CSpaceIInv'
<1>1. /\ FirstTop < TopSlots /\ CnodePresent(FirstTop)
      /\ bits' = bits \cup {Taken(bits, FirstTop)} /\ full' = MarkFull(bits', FirstTop)
      /\ given' = given \cup {Taken(bits, FirstTop)}
      /\ UNCHANGED <<nodes, cnodes, watermark, caps, uts, crash>>
  BY DEF AllocSlot
<1>2. /\ nodes' \in Nat /\ cnodes' \in [NodeIds -> 0 .. CnodesPerNode] /\ uts' \in Nat
      /\ \A n \in NodeIds : cnodes'[n] > 0 => n < nodes'
      /\ \A m, n \in NodeIds : m < n /\ cnodes'[n] > 0 => cnodes'[m] = CnodesPerNode
  BY <1>1 DEF CSpaceIInv, CnodesConsistent, MadeInOrder, SlotsAccounted, CSpaceTypeOK
<1>3. \A t \in Tops : CnodePresent(t) \/ t = FirstTop => CnodePresent(t)'
  BY <1>1, CnodesSame
<1>. QED BY <1>1, <1>2, <1>3, HandOut

(* cspace_alloc_slot that makes the cnode.                                 *)
LEMMA AllocNewCnodeIInv == ASSUME CSpaceIInv, AllocNewCnode PROVE CSpaceIInv'
<1>1. /\ FirstTop < TopSlots /\ NodePresent(FirstTop) /\ ~CnodePresent(FirstTop)
      /\ uts >= 1 /\ uts' = uts - 1
      /\ cnodes' = [cnodes EXCEPT ![NodeIndex(FirstTop)] = @ + 1]
      /\ bits' = bits \cup {Taken(bits, FirstTop)} /\ full' = MarkFull(bits', FirstTop)
      /\ given' = given \cup {Taken(bits, FirstTop)}
      /\ UNCHANGED <<nodes, watermark, caps, crash>>
  BY DEF AllocNewCnode, Affords
<1>2. uts' \in Nat
  BY <1>1 DEF CSpaceIInv, SlotsAccounted, CSpaceTypeOK
<1>3. nodes' = IF NodePresent(FirstTop) THEN nodes ELSE nodes + 1
  BY <1>1
<1>. QED BY <1>1, <1>2, <1>3, GrowOne, HandOut

(* cspace_alloc_slot that makes a bookkeeping node too, whose mapping may  *)
(* take further slots.                                                     *)
LEMMA AllocNewNodeIInv == ASSUME CSpaceIInv, NEW p \in Spare, AllocNewNode(p) PROVE CSpaceIInv'
<1> DEFINE used == 0 .. (p - 1) \cup {MappingSlots}
           c == Taken(bits, FirstTop)
           extra == Taken(bits \cup {c}, FirstTop)
           r == Refilled(used)
<1>1. /\ FirstTop < TopSlots /\ ~NodePresent(FirstTop) /\ uts >= 2 + p
      /\ caps' = caps \cup {watermark[i] : i \in used}
      /\ bits' = bits \cup {c, extra} /\ full' = MarkFull(bits', FirstTop)
      /\ given' = given \cup {c}
      /\ watermark' = [watermark EXCEPT ![r] = extra]
      /\ uts' = uts - 2 - p /\ nodes' = nodes + 1
      /\ cnodes' = [cnodes EXCEPT ![NodeIndex(FirstTop)] = @ + 1]
      /\ UNCHANGED crash
  BY DEF AllocNewNode, Affords
<1>2. used \subseteq Spare /\ r \in used
  <2>1. used \subseteq Spare /\ used \subseteq Nat /\ used # {}
    BY CSpaceSizes DEF Spare
  <2> HIDE DEF used
  <2>2. PICK i \in used : \A j \in used : i <= j
    BY <2>1, NatMin, Zenon
  <2>. QED BY <2>1, <2>2, Zenon DEF Refilled
<1>3. /\ c \in Slots /\ c \notin bits /\ c \notin 0 .. (BootSlots - 1) /\ TopIndex(c) = FirstTop
      /\ (c % CnodeSlots) # CnodeSlots - 1 /\ (c % CnodeSlots) = FirstBot(bits, FirstTop)
  BY <1>1, TakenFresh
<1>4. /\ bits \subseteq Slots /\ FirstTop \in Tops /\ uts \in Nat /\ p \in Nat
      /\ watermark \in [Spare -> Slots] /\ ~CnodePresent(FirstTop)
      /\ \A x \in bits : TopIndex(x) # FirstTop
  BY <1>1, FirstTopIs DEF CSpaceIInv, CnodesConsistent, MadeInOrder, SlotsAccounted, CSpaceTypeOK, CnodePresent, Spare
<1> HIDE DEF used, c, extra, r
<1>5. FirstBot(bits, FirstTop) = 0
  <2>1. SlotOf(FirstTop, 0) \notin bits
    BY <1>4, SlotNumbers, CSpaceSizes
  <2>. QED BY <1>4, <2>1, FirstBotIs, CSpaceSizes
<1>6. FirstBot(bits \cup {c}, FirstTop) \in 0 .. 1
  <2>1. SlotOf(FirstTop, 1) \notin bits \cup {c}
    BY <1>3, <1>4, <1>5, SlotNumbers, CSpaceSizes
  <2>2. bits \cup {c} \subseteq Slots
    BY <1>3, <1>4
  <2>. QED BY <1>4, <2>1, <2>2, FirstBotIs, CSpaceSizes
<1>7. /\ extra \in Slots /\ extra \notin bits /\ extra # c /\ TopIndex(extra) = FirstTop
      /\ (extra % CnodeSlots) # CnodeSlots - 1
  <2>1. bits \cup {c} \subseteq Slots
    BY <1>3, <1>4
  <2>2. FirstBot(bits \cup {c}, FirstTop) < CnodeSlots /\ FirstBot(bits \cup {c}, FirstTop) # CnodeSlots - 1
    BY <1>6, CSpaceSizes
  <2>. QED BY <1>4, <2>1, <2>2, FirstBotIs DEF extra
<1>8. extra \notin 0 .. (BootSlots - 1)
  BY <1>1, <1>7, NotBoot
<1>9. WatermarkSlots' \cup caps' = WatermarkSlots \cup caps \cup {extra} /\ watermark' \in [Spare -> Slots]
  <2>1. watermark' \in [Spare -> Slots] /\ watermark'[r] = extra
        /\ \A i \in Spare : i # r => watermark'[i] = watermark[i]
    BY <1>1, <1>2, <1>4, <1>7
  <2>2. WatermarkSlots = {watermark[i] : i \in Spare} /\ WatermarkSlots' = {watermark'[i] : i \in Spare}
    BY DEF WatermarkSlots
  <2>3. WatermarkSlots' \cup caps' \subseteq WatermarkSlots \cup caps \cup {extra}
    BY <1>1, <1>2, <2>1, <2>2
  <2>4. WatermarkSlots \cup caps \cup {extra} \subseteq WatermarkSlots' \cup caps'
    BY <1>1, <1>2, <2>1, <2>2
  <2>. QED BY <2>1, <2>3, <2>4
<1>10. caps' \subseteq Slots /\ bits' \subseteq Slots /\ given' \subseteq Slots
  BY <1>1, <1>2, <1>3, <1>4, <1>7 DEF CSpaceIInv, SlotsAccounted, CSpaceTypeOK
<1>11. LevelsAgree' /\ full' \subseteq Tops
  BY <1>1, <1>3, <1>7, <1>10, TakeLevels, Zenon
<1>12. nodes' = IF NodePresent(FirstTop) THEN nodes ELSE nodes + 1
  BY <1>1
<1>13. /\ nodes' \in Nat /\ cnodes' \in [NodeIds -> 0 .. CnodesPerNode]
       /\ \A n \in NodeIds : cnodes'[n] > 0 => n < nodes'
       /\ \A m, n \in NodeIds : m < n /\ cnodes'[n] > 0 => cnodes'[m] = CnodesPerNode
       /\ \A t \in Tops : CnodePresent(t) \/ t = FirstTop => CnodePresent(t)'
  BY <1>1, <1>4, <1>12, GrowOne
<1>14. SlotsAccounted'
  <2>1. CSpaceTypeOK'
    <3>1. uts' \in Nat
      BY <1>1, <1>4
    <3>. QED BY <1>1, <1>9, <1>10, <1>11, <1>13, <3>1, Zenon DEF CSpaceIInv, SlotsAccounted, CSpaceTypeOK
  <2>2. Recorded' = Recorded
    BY DEF Recorded
  <2>3. /\ bits' = Recorded \cup given' \cup (WatermarkSlots' \cup caps')
        /\ given' \cap (0 .. (BootSlots - 1) \cup (WatermarkSlots' \cup caps')) = {}
        /\ 0 .. (BootSlots - 1) \cap (WatermarkSlots' \cup caps') = {}
    BY <1>1, <1>3, <1>7, <1>8, <1>9 DEF CSpaceIInv, SlotsAccounted
  <2>. QED BY <2>1, <2>2, <2>3 DEF SlotsAccounted
<1>15. MadeInOrder'
  <2>1. \A x \in bits' : CnodePresent(TopIndex(x))'
    BY <1>1, <1>3, <1>4, <1>7, <1>13, SlotNumbers DEF CSpaceIInv, CnodesConsistent, MadeInOrder
  <2>. QED BY <1>13, <2>1 DEF MadeInOrder
<1>16. LastUnused'
  BY <1>1, <1>3, <1>7 DEF CSpaceIInv, LastUnused
<1>17. BootMade'
  BY <1>13, CSpaceSizes DEF CSpaceIInv, BootMade, Tops
<1>. QED BY <1>11, <1>14, <1>15, <1>16, <1>17 DEF CSpaceIInv, CnodesConsistent

(* cspace_free_slot of a slot its caller holds.                            *)
LEMMA FreeSlotIInv == ASSUME CSpaceIInv, NEW cptr \in given, FreeSlot(cptr) PROVE CSpaceIInv'
<1> DEFINE top == TopIndex(cptr)
<1>1. /\ cptr \in Slots /\ cptr \in bits /\ cptr \notin 0 .. (BootSlots - 1)
      /\ cptr \notin WatermarkSlots \cup caps /\ bits \subseteq Slots /\ CnodePresent(top)
  BY DEF CSpaceIInv, SlotsAccounted, CSpaceTypeOK, CnodesConsistent, MadeInOrder
<1>2. /\ full' = full \ {top} /\ bits' = bits \ {cptr} /\ given' = given \ {cptr}
      /\ UNCHANGED <<nodes, cnodes, watermark, caps, uts, crash>>
  BY <1>1 DEF FreeSlot
<1>3. /\ top \in Tops /\ top >= BootTop /\ (cptr % CnodeSlots) \in 0 .. (CnodeSlots - 1)
      /\ cptr = SlotOf(top, (cptr % CnodeSlots)) /\ (cptr % CnodeSlots) # CnodeSlots - 1
  <2>1. /\ top \in Tops /\ (cptr % CnodeSlots) \in 0 .. (CnodeSlots - 1)
        /\ cptr = SlotOf(top, (cptr % CnodeSlots))
    BY <1>1, SlotNumbers
  <2>2. top >= BootTop
    <3>1. cptr \in Nat /\ BootSlots <= cptr /\ BootSlots \in Nat /\ CnodeSlots \in Nat \ {0}
      BY <1>1, CSpaceSizes DEF Slots
    <3>2. BootSlots \div CnodeSlots <= cptr \div CnodeSlots
      BY <3>1, DivMod, Zenon
    <3>. QED BY <3>1, <3>2, CSpaceSizes, DivMod DEF TopIndex, BootTop
  <2>. QED BY <1>1, <2>1, <2>2 DEF CSpaceIInv, LastUnused
<1> HIDE DEF top
<1>4. SlotsAccounted'
  <2>1. CSpaceTypeOK'
    BY <1>1, <1>2 DEF CSpaceIInv, SlotsAccounted, CSpaceTypeOK
  <2>2. WatermarkSlots' = WatermarkSlots /\ Recorded' = Recorded
    BY <1>2 DEF WatermarkSlots, Recorded
  <2>3. Recorded \subseteq 0 .. (BootSlots - 1)
    BY DEF Recorded
  <2>4. /\ bits' = Recorded \cup given' \cup (WatermarkSlots \cup caps)
        /\ given' \cap (0 .. (BootSlots - 1) \cup (WatermarkSlots \cup caps)) = {}
        /\ 0 .. (BootSlots - 1) \cap (WatermarkSlots \cup caps) = {}
    BY <1>1, <1>2, <2>3 DEF CSpaceIInv, SlotsAccounted
  <2>. QED BY <1>2, <2>1, <2>2, <2>4 DEF SlotsAccounted
<1>5. LevelsAgree'
  <2>1. LevelsAgree
    BY DEF CSpaceIInv, CnodesConsistent
  <2>2. ~(FirstBot(bits', top) >= CnodeSlots - 1)
    <3>1. bits' \subseteq Slots /\ SlotOf(top, (cptr % CnodeSlots)) \notin bits'
      BY <1>1, <1>2, <1>3
    <3>2. /\ FirstBot(bits', top) \in 0 .. CnodeSlots
          /\ \A j \in 0 .. (FirstBot(bits', top) - 1) : SlotOf(top, j) \in bits'
      BY <1>3, <3>1, FirstBotIs
    <3>. QED BY <1>3, <3>1, <3>2, CSpaceSizes
  <2>3. ASSUME NEW t \in Tops, t # top PROVE FirstBot(bits', t) = FirstBot(bits, t)
    <3>1. ASSUME NEW i \in 0 .. (CnodeSlots - 1) PROVE SlotOf(t, i) \in bits' <=> SlotOf(t, i) \in bits
      BY <1>2, <2>3, SlotNumbers DEF top
    <3>. QED BY <3>1, FirstBotSame
  <2>4. ASSUME NEW t \in Tops, t < BootTop PROVE t \in full'
    <3>1. t \in full /\ t # top
      BY <1>3, <2>1, <2>4, CSpaceSizes DEF LevelsAgree, Tops
    <3>. QED BY <1>2, <3>1
  <2>5. ASSUME NEW t \in Tops, ~(t < BootTop) PROVE (t \in full') <=> FirstBot(bits', t) >= CnodeSlots - 1
    <3>1. CASE t = top
      BY <1>2, <2>2, <3>1
    <3>2. CASE t # top
      <4>1. t \in full <=> FirstBot(bits, t) >= CnodeSlots - 1
        BY <2>1, <2>5 DEF LevelsAgree
      <4>. QED BY <1>2, <2>3, <3>2, <4>1
    <3>. QED BY <3>1, <3>2
  <2>. QED BY <2>4, <2>5 DEF LevelsAgree
<1>6. \A t : CnodePresent(t)' <=> CnodePresent(t)
  BY <1>2, CnodesSame
<1>7. MadeInOrder'
  BY <1>2, <1>6 DEF CSpaceIInv, CnodesConsistent, MadeInOrder
<1>8. LastUnused' /\ BootMade'
  BY <1>2, <1>6 DEF CSpaceIInv, LastUnused, BootMade
<1>. QED BY <1>4, <1>5, <1>7, <1>8 DEF CSpaceIInv, CnodesConsistent

(* The other steps leave the bookkeeping alone, but for a node that is     *)
(* made and has no cnode yet.                                              *)
LEMMA OtherIInv ==
  ASSUME CSpaceIInv, UNCHANGED <<bits, full, cnodes, watermark, given>>,
         nodes' \in Nat, nodes' >= nodes,
         caps \subseteq caps', caps' \subseteq caps \cup WatermarkSlots, uts' \in Nat,
         crash' \in {"none", "null_ut", "past_end"}
  PROVE  CSpaceIInv'
<1>1. WatermarkSlots' = WatermarkSlots /\ Recorded' = Recorded
  BY DEF WatermarkSlots, Recorded
<1>2. WatermarkSlots' \cup caps' = WatermarkSlots \cup caps
  BY <1>1
<1>3. CSpaceTypeOK'
  <2>1. caps' \subseteq Slots
    BY DEF CSpaceIInv, SlotsAccounted, CSpaceTypeOK, WatermarkSlots
  <2>. QED BY <2>1 DEF CSpaceIInv, SlotsAccounted, CSpaceTypeOK
<1>4. SlotsAccounted'
  BY <1>1, <1>2, <1>3 DEF CSpaceIInv, SlotsAccounted
<1>5. \A t \in Tops : CnodePresent(t) => CnodePresent(t)'
  <2>1. nodes \in Nat /\ \A t \in Tops : NodeIndex(t) \in Int
    BY NodeNumbers DEF CSpaceIInv, SlotsAccounted, CSpaceTypeOK, NodeIds
  <2>. QED BY <2>1 DEF CnodePresent, NodePresent
<1>6. LevelsAgree'
  BY DEF CSpaceIInv, CnodesConsistent, LevelsAgree
<1>7. MadeInOrder'
  <2>1. \A x \in bits : TopIndex(x) \in Tops
    BY SlotNumbers DEF CSpaceIInv, SlotsAccounted, CSpaceTypeOK
  <2>2. \A n \in NodeIds : cnodes[n] > 0 => n < nodes'
    BY DEF CSpaceIInv, SlotsAccounted, CSpaceTypeOK, CnodesConsistent, MadeInOrder, NodeIds
  <2>. QED BY <1>5, <2>1, <2>2 DEF CSpaceIInv, CnodesConsistent, MadeInOrder
<1>8. LastUnused' /\ BootMade'
  <2>1. 0 .. BootTop \subseteq Tops
    BY CSpaceSizes DEF Tops
  <2>. QED BY <1>5, <2>1 DEF CSpaceIInv, LastUnused, BootMade
<1>. QED BY <1>4, <1>6, <1>7, <1>8 DEF CSpaceIInv, CnodesConsistent

(* Every step of the cspace keeps the invariant.                           *)
LEMMA CSpaceStep == ASSUME CSpaceIInv, [CSpaceNext]_cspaceVars PROVE CSpaceIInv'
<1>0. uts \in Nat /\ nodes \in Nat /\ MaxUts \in Nat /\ crash \in {"none", "null_ut", "past_end"}
  BY CSpaceAssumption DEF CSpaceIInv, SlotsAccounted, CSpaceTypeOK
<1>1. CASE CnodeRetypeFails \/ NodeRetypeFails \/ UNCHANGED cspaceVars
  BY <1>0, <1>1, OtherIInv DEF CnodeRetypeFails, NodeRetypeFails, cspaceVars
<1>2. ASSUME NEW q \in Spare, NodeMapFails(q) PROVE CSpaceIInv'
  <2>1. /\ UNCHANGED <<bits, full, nodes, cnodes, watermark, given, crash>>
        /\ caps' = caps \cup {watermark[i] : i \in 0 .. (q - 1)}
        /\ \/ uts = 1 + q /\ uts' = uts - q
           \/ uts >= 2 + q /\ uts' = uts - q - 1
    BY <1>2 DEF NodeMapFails
  <2>2. 0 .. (q - 1) \subseteq Spare /\ q \in Nat
    BY CSpaceSizes DEF Spare
  <2>3. uts' \in Nat
    BY <1>0, <2>1, <2>2
  <2>4. caps \subseteq caps' /\ caps' \subseteq caps \cup WatermarkSlots
    BY <2>1, <2>2 DEF WatermarkSlots
  <2>. QED BY <1>0, <2>1, <2>3, <2>4, OtherIInv
<1>3. ASSUME NEW p \in Spare, NoUntyped(p) PROVE CSpaceIInv'
  BY <1>0, <1>3, OtherIInv DEF NoUntyped
<1>4. CASE AllocFull
  BY <1>0, <1>4, OtherIInv DEF AllocFull
<1>5. CASE UtsChange
  <2>1. uts' \in Nat
    BY <1>0, <1>5 DEF UtsChange
  <2>. QED BY <1>0, <1>5, <2>1, OtherIInv DEF UtsChange
<1>6. ASSUME NEW p \in Spare, NodeWithoutCnode(p) PROVE CSpaceIInv'
  <2>1. /\ UNCHANGED <<bits, full, cnodes, watermark, given, crash>> /\ nodes' = nodes + 1
        /\ caps' = caps \cup {watermark[i] : i \in 0 .. (p - 1) \cup {MappingSlots}}
        /\ uts >= 2 + p /\ uts' = uts - 1 - p
    BY <1>6 DEF NodeWithoutCnode, Affords
  <2>2. 0 .. (p - 1) \cup {MappingSlots} \subseteq Spare /\ p \in Nat
    BY CSpaceSizes DEF Spare
  <2>3. uts' \in Nat /\ nodes' \in Nat /\ nodes' >= nodes
    BY <1>0, <2>1, <2>2
  <2>4. caps \subseteq caps' /\ caps' \subseteq caps \cup WatermarkSlots
    BY <2>1, <2>2 DEF WatermarkSlots
  <2>. QED BY <1>0, <2>1, <2>3, <2>4, OtherIInv
<1>. QED BY <1>1, <1>2, <1>3, <1>4, <1>5, <1>6, AllocSlotIInv, AllocNewCnodeIInv, AllocNewNodeIInv, FreeSlotIInv
         DEF CSpaceNext

(* cspace_create_one_level and bootstrap leave it true.                    *)
LEMMA CSpaceInitIInv == ASSUME CSpaceInit PROVE CSpaceIInv
<1> DEFINE rem == (BootSlots % CnodeSlots)
           mark == BootSlots .. (BootSlots + MappingSlots)
<1>1. /\ rem \in 0 .. (CnodeSlots - 1) /\ BootSlots = BootTop * CnodeSlots + rem
      /\ rem + MappingSlots + 1 < CnodeSlots
  BY CSpaceSizes, DivMod, CSpaceAssumption DEF BootTop, TopIndex
<1>2. \A x \in mark : /\ x \in Nat /\ x = SlotOf(BootTop, x - BootTop * CnodeSlots)
                       /\ x - BootTop * CnodeSlots \in rem .. (rem + MappingSlots)
                       /\ x - BootTop * CnodeSlots \in 0 .. (CnodeSlots - 2)
  <2>1. BootTop * CnodeSlots \in Nat
    BY CSpaceSizes
  <2>. QED BY <1>1, <2>1, CSpaceSizes DEF SlotOf
<1>3. \A x \in mark : x \in Slots /\ TopIndex(x) = BootTop /\ (x % CnodeSlots) # CnodeSlots - 1
  BY <1>2, SlotNumbers, CSpaceSizes
<1>4. \A x \in 0 .. (BootSlots - 1) :
        x \in Slots /\ TopIndex(x) <= BootTop /\ TopIndex(x) \in Nat
        /\ (TopIndex(x) = BootTop => (x % CnodeSlots) \in 0 .. (rem - 1))
  <2> TAKE x \in 0 .. (BootSlots - 1)
  <2>1. x \in Nat /\ x < BootSlots /\ BootSlots \in Nat /\ CnodeSlots \in Nat \ {0} /\ x <= BootSlots
    BY CSpaceSizes
  <2>2. x \in Slots
    BY <1>3, <2>1, CSpaceSizes DEF Slots
  <2>3. TopIndex(x) <= BootTop /\ TopIndex(x) \in Nat
    BY <2>1, DivMod DEF TopIndex, BootTop
  <2>4. TopIndex(x) = BootTop => (x % CnodeSlots) \in 0 .. (rem - 1)
    <3>1. x = TopIndex(x) * CnodeSlots + (x % CnodeSlots) /\ (x % CnodeSlots) \in 0 .. (CnodeSlots - 1)
      BY <2>1, DivMod DEF TopIndex
    <3>2. BootTop * CnodeSlots \in Nat /\ rem \in Nat
      BY <1>1, <2>1, CSpaceSizes
    <3> HIDE DEF rem
    <3>3. TopIndex(x) = BootTop => (x % CnodeSlots) < rem /\ (x % CnodeSlots) \in Nat
      BY <1>1, <2>1, <3>1, <3>2
    <3>. QED BY <3>2, <3>3
  <2>. QED BY <2>2, <2>3, <2>4
<1>5. Recorded \subseteq 0 .. (BootSlots - 1)
      /\ \A x \in 0 .. (BootSlots - 1) : TopIndex(x) = BootTop => x \in Recorded
  BY DEF Recorded
<1>6. /\ bits = Recorded \cup mark /\ watermark = [i \in Spare |-> BootSlots + i]
      /\ full = 0 .. (BootTop - 1) \cup
            (IF CnodeSlots - 1 <= rem + MappingSlots + 1 THEN {BootTop} ELSE {})
      /\ given = {} /\ caps = {} /\ crash = "none" /\ uts = MaxUts
      /\ nodes = BootCnodes \div CnodesPerNode + 1
      /\ cnodes = [n \in NodeIds |->
                 IF BootCnodes <= n * CnodesPerNode THEN 0
                 ELSE IF BootCnodes >= (n + 1) * CnodesPerNode THEN CnodesPerNode
                 ELSE BootCnodes % CnodesPerNode]
  BY DEF CSpaceInit
<1>7. /\ bits \subseteq Slots /\ full \subseteq Tops /\ rem \in Nat
      /\ \A x \in bits : TopIndex(x) \in 0 .. BootTop
  BY <1>1, <1>3, <1>4, <1>5, <1>6, CSpaceSizes DEF Tops
<1>8. WatermarkSlots = mark /\ watermark \in [Spare -> Slots]
  <2>1. \A i \in Spare : BootSlots + i \in mark
    BY CSpaceSizes DEF Spare
  <2>2. \A x \in mark : x - BootSlots \in Spare /\ x = BootSlots + (x - BootSlots)
    BY CSpaceSizes DEF Spare
  <2> HIDE DEF mark
  <2>3. WatermarkSlots = {BootSlots + i : i \in Spare}
    BY <1>6 DEF WatermarkSlots
  <2>4. WatermarkSlots = mark
    BY <2>1, <2>2, <2>3
  <2>. QED BY <1>3, <1>6, <2>1, <2>4
<1>9. mark \cap 0 .. (BootSlots - 1) = {}
  BY CSpaceSizes
<1> HIDE DEF rem, mark
<1>10. /\ nodes \in Nat /\ cnodes \in [NodeIds -> 0 .. CnodesPerNode]
       /\ \A n \in NodeIds : cnodes[n] > 0 => n < nodes
       /\ \A m, n \in NodeIds : m < n /\ cnodes[n] > 0 => cnodes[m] = CnodesPerNode
  <2>1. /\ BootCnodes \div CnodesPerNode \in Nat /\ (BootCnodes % CnodesPerNode) \in 0 .. (CnodesPerNode - 1)
        /\ BootCnodes = (BootCnodes \div CnodesPerNode) * CnodesPerNode + (BootCnodes % CnodesPerNode)
        /\ CnodesPerNode \in Nat \ {0} /\ BootCnodes \in Nat /\ NodeIds \subseteq Nat
    <3>1. CnodesPerNode \in Nat \ {0} /\ BootCnodes \in Nat
      BY CSpaceSizes
    <3>2. NodeIds \subseteq Nat
      BY DEF NodeIds
    <3>. QED BY <3>1, <3>2, DivMod, Zenon
  <2>2. nodes \in Nat /\ cnodes \in [NodeIds -> 0 .. CnodesPerNode]
    BY <1>6, <2>1
  <2>3. \A n \in NodeIds : cnodes[n] > 0 => BootCnodes > n * CnodesPerNode
    BY <1>6, <2>1
  <2>4. \A n \in NodeIds : cnodes[n] > 0 => n < nodes
    BY <1>6, <2>1, <2>3
  <2>5. ASSUME NEW m \in NodeIds, NEW n \in NodeIds, m < n, cnodes[n] > 0 PROVE cnodes[m] = CnodesPerNode
    <3>1. m \in Nat /\ n \in Nat /\ BootCnodes > n * CnodesPerNode
      BY <2>1, <2>3, <2>5
    <3>2. n * CnodesPerNode >= (m + 1) * CnodesPerNode /\ (m + 1) * CnodesPerNode > m * CnodesPerNode
          /\ n * CnodesPerNode \in Nat /\ (m + 1) * CnodesPerNode \in Nat /\ m * CnodesPerNode \in Nat
      BY <2>1, <2>5, <3>1
    <3>. QED BY <1>6, <2>1, <3>1, <3>2
  <2>. QED BY <2>2, <2>4, <2>5
<1>11. ASSUME NEW t \in 0 .. BootTop PROVE CnodePresent(t)
  <2> DEFINE k == NodeIndex(t)
             i == CnodeIndex(t)
  <2>1. t \in Tops /\ t \in Nat /\ t < BootCnodes /\ BootCnodes \in Nat /\ CnodesPerNode \in Nat \ {0}
    BY CSpaceSizes DEF Tops
  <2>2. k \in NodeIds /\ k \in Nat /\ i \in 0 .. (CnodesPerNode - 1) /\ t = k * CnodesPerNode + i
    BY <2>1, NodeNumbers DEF NodeIds
  <2>3. k <= BootCnodes \div CnodesPerNode
    <3>1. t <= BootCnodes
      BY <2>1
    <3>. QED BY <2>1, <3>1, DivMod, Zenon DEF NodeIndex
  <2>4. nodes > k
    BY <1>6, <2>1, <2>2, <2>3, DivMod
  <2> HIDE DEF k, i
  <2>5. BootCnodes > k * CnodesPerNode /\ k * CnodesPerNode \in Nat
    BY <2>1, <2>2
  <2>6. cnodes[k] = IF BootCnodes >= (k + 1) * CnodesPerNode THEN CnodesPerNode ELSE BootCnodes % CnodesPerNode
    BY <1>6, <2>1, <2>2, <2>5
  <2>7. BootCnodes < (k + 1) * CnodesPerNode => (BootCnodes % CnodesPerNode) = BootCnodes - k * CnodesPerNode
    BY <2>1, <2>2, <2>5, SMTT(30)
  <2>8. cnodes[k] > i
    BY <2>1, <2>2, <2>5, <2>6, <2>7
  <2>. QED BY <2>4, <2>8 DEF CnodePresent, NodePresent, k, i
<1>12. SlotsAccounted
  <2>1. CSpaceTypeOK
    BY <1>6, <1>7, <1>8, <1>10, CSpaceAssumption DEF CSpaceTypeOK
  <2>. QED BY <1>5, <1>6, <1>8, <1>9, <2>1 DEF SlotsAccounted
<1>13. LevelsAgree
  <2>1. FirstBot(bits, BootTop) = rem + MappingSlots + 1
    <3>1. ASSUME NEW j \in 0 .. (rem + MappingSlots) PROVE SlotOf(BootTop, j) \in bits
      <4>0. BootTop * CnodeSlots \in Nat
        BY CSpaceSizes
      <4>1. CASE j < rem
        <5>1. SlotOf(BootTop, j) \in 0 .. (BootSlots - 1) /\ j \in 0 .. (CnodeSlots - 1)
          BY <1>1, <1>7, <4>0, <4>1, CSpaceSizes DEF SlotOf
        <5>2. TopIndex(SlotOf(BootTop, j)) = BootTop
          BY <5>1, SlotNumbers, CSpaceSizes
        <5>. QED BY <1>5, <1>6, <5>1, <5>2
      <4>2. CASE ~(j < rem)
        <5>1. SlotOf(BootTop, j) \in mark
          BY <1>1, <1>7, <4>0, <4>2, CSpaceSizes DEF SlotOf, mark
        <5>. QED BY <1>6, <5>1
      <4>. QED BY <4>1, <4>2
    <3>2. SlotOf(BootTop, rem + MappingSlots + 1) \notin bits
      <4>0. BootTop * CnodeSlots \in Nat
        BY CSpaceSizes
      <4>1. SlotOf(BootTop, rem + MappingSlots + 1) = BootSlots + MappingSlots + 1
        BY <1>1, <1>7, <4>0, CSpaceSizes DEF SlotOf
      <4>. QED BY <1>5, <1>6, <4>1, CSpaceSizes DEF mark
    <3>3. /\ FirstBot(bits, BootTop) \in 0 .. CnodeSlots
          /\ \A j \in 0 .. (FirstBot(bits, BootTop) - 1) : SlotOf(BootTop, j) \in bits
          /\ FirstBot(bits, BootTop) < CnodeSlots => SlotOf(BootTop, FirstBot(bits, BootTop)) \notin bits
      BY <1>7, FirstBotIs, CSpaceSizes DEF Taken
    <3>. QED BY <1>1, <1>7, <3>1, <3>2, <3>3, CSpaceSizes
  <2>2. ASSUME NEW t \in Tops, t > BootTop PROVE t \notin full /\ ~(FirstBot(bits, t) >= CnodeSlots - 1)
    <3>1. t \notin full
      BY <1>6, <2>2, CSpaceSizes DEF Tops
    <3>2. TopIndex(SlotOf(t, 0)) = t
      BY SlotNumbers, CSpaceSizes
    <3>3. SlotOf(t, 0) \notin bits
      BY <1>7, <2>2, <3>2, CSpaceSizes DEF Tops
    <3>. QED BY <1>7, <3>1, <3>3, FirstBotIs, CSpaceSizes
  <2>3. ASSUME NEW t \in Tops, t < BootTop PROVE t \in full
    BY <1>6, <2>3, CSpaceSizes DEF Tops
  <2>4. BootTop \in full <=> FirstBot(bits, BootTop) >= CnodeSlots - 1
    BY <1>6, <1>7, <2>1, CSpaceSizes
  <2>5. \A t \in Tops : t > BootTop \/ t < BootTop \/ t = BootTop
    BY CSpaceSizes DEF Tops
  <2>6. \A t \in Tops : t > BootTop => ~(t < BootTop)
    BY CSpaceSizes DEF Tops
  <2>. QED BY <2>2, <2>3, <2>4, <2>5, <2>6 DEF LevelsAgree
<1>14. MadeInOrder
  BY <1>7, <1>10, <1>11 DEF MadeInOrder
<1>15. LastUnused
  <2> SUFFICES ASSUME NEW x \in bits, TopIndex(x) >= BootTop PROVE (x % CnodeSlots) # CnodeSlots - 1
    BY DEF LastUnused
  <2>1. CASE x \in mark
    BY <1>3, <2>1
  <2>2. CASE x \in 0 .. (BootSlots - 1)
    <3>1. TopIndex(x) = BootTop
      BY <1>4, <2>2, CSpaceSizes
    <3>2. (x % CnodeSlots) \in 0 .. (rem - 1)
      BY <1>4, <2>2, <3>1
    <3>. QED BY <1>1, <1>7, <3>2, CSpaceSizes
  <2>. QED BY <1>5, <1>6, <2>1, <2>2
<1>. QED BY <1>11, <1>12, <1>13, <1>14, <1>15 DEF CSpaceIInv, CnodesConsistent, BootMade

(* The invariant of the cspace.                                            *)
THEOREM CSpaceInductive == CSpaceSpec => []CSpaceIInv
BY CSpaceInitIInv, CSpaceStep, PTL DEF CSpaceSpec

(* For every size of cspace: no slot is handed to two callers, the slots   *)
(* in the hands of the callers are marked in the bitfield, and the two     *)
(* levels of bitfields agree.                                              *)
THEOREM SlotsStayAccounted == CSpaceSpec => []SlotsAccounted
<1>1. CSpaceIInv => SlotsAccounted
  BY DEF CSpaceIInv
<1>. QED BY <1>1, CSpaceInductive, PTL

(* For every size of cspace: every slot in use lies in a cnode that        *)
(* exists, and the bookkeeping nodes are filled in order.                  *)
THEOREM CnodesStayConsistent == CSpaceSpec => []CnodesConsistent
<1>1. CSpaceIInv => CnodesConsistent
  BY DEF CSpaceIInv
<1>. QED BY <1>1, CSpaceInductive, PTL

(* For every size of cspace: cspace_alloc_slot makes a cnode only when     *)
(* those it has are left with at most their last slot.                     *)
THEOREM SlotsAreReused == CSpaceSpec => ReusesBeforeGrowing
<1> DEFINE Full == \A top \in Tops : top >= BootTop /\ CnodePresent(top)
                           => FirstBot(bits, top) >= CnodeSlots - 1
<1>1. CSpaceIInv /\ [CSpaceNext]_cspaceVars => [cnodes' # cnodes => Full]_cspaceVars
  <2> SUFFICES ASSUME CSpaceIInv, CSpaceNext, cnodes' # cnodes,
                      NEW top \in Tops, top >= BootTop, CnodePresent(top)
               PROVE  FirstBot(bits, top) >= CnodeSlots - 1
    BY DEF cspaceVars
  <2>1. FirstTop < TopSlots /\ ~CnodePresent(FirstTop)
    BY Zenon DEF CSpaceNext, AllocSlot, AllocNewCnode, AllocNewNode, CnodeRetypeFails, NodeWithoutCnode,
           NodeRetypeFails, NodeMapFails, NoUntyped,
           AllocFull, FreeSlot, UtsChange, cspaceVars, CnodePresent
  <2>2. FirstTop \in Tops /\ \A t \in Tops : t < FirstTop => t \in full
    BY <2>1, FirstTopIs
  <2>3. ~(FirstTop <= top)
    BY <2>1, <2>2, MadeBelow
  <2>4. top \in full /\ ~(top < BootTop)
    BY <2>2, <2>3, CSpaceSizes DEF Tops
  <2>. QED BY <2>4 DEF CSpaceIInv, CnodesConsistent, LevelsAgree
<1>. QED BY <1>1, CSpaceInductive, PTL DEF CSpaceSpec, ReusesBeforeGrowing
=============================================================================
