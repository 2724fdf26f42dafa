------------------------------- MODULE CSpace -------------------------------
(***************************************************************************)
(* The slot allocator of a two-level cspace (libsel4cspace/src/cspace.c)   *)
(* as SOS uses it for its own cspace: a bitfield over the second-level     *)
(* cnodes (set: the cnode is full), one bitfield per cnode, kept in        *)
(* bookkeeping nodes that are created on demand.  Creating a node maps a   *)
(* frame, and that needs slots while there are none: the watermark.        *)
(*                                                                         *)
(* A cptr is a number; its cnode is cptr \div CnodeSlots.  One call of     *)
(* cspace_alloc_slot is one action, whichever callbacks it makes: SOS has  *)
(* one thread.                                                             *)
(***************************************************************************)
EXTENDS Integers

CONSTANTS
  CnodeSlots,     \* slots of a second-level cnode, 128
  CnodesPerNode,  \* BOT_LVL_PER_NODE, 169
  TopSlots,       \* cnodes the top level has room for
  MappingSlots,   \* MAPPING_SLOTS, 3
  BootSlots,      \* first_free_slot at the end of sos_bootstrap
  BootCnodes,     \* cnodes sos_bootstrap has made, n_cnodes there
  MaxUts          \* 4K untypeds of the machine

(* The watermark fits into the cnode that sos_bootstrap left partially     *)
(* full; a fresh cnode has room for the slot asked for and the one that    *)
(* refills the watermark.                                                  *)
ASSUME CSpaceAssumption ==
  /\ CnodeSlots \in Nat /\ CnodeSlots >= 4
  /\ CnodesPerNode \in Nat \ {0}
  /\ TopSlots \in Nat \ {0}
  /\ MappingSlots \in Nat
  /\ BootSlots \in Nat \ {0}
  /\ (BootSlots % CnodeSlots) + MappingSlots + 1 < CnodeSlots
  /\ BootCnodes \in Nat
  /\ BootSlots \div CnodeSlots < BootCnodes /\ BootCnodes <= TopSlots
  /\ MaxUts \in Nat

VARIABLES
  bits,       \* the slots whose bit is set in the bf of their cnode
  full,       \* the cnodes whose bit is set in top_bf
  nodes,      \* n_bot_lvl_nodes
  cnodes,     \* n_cnodes of each bookkeeping node
  watermark,  \* the spare slots
  caps,       \* slots that hold a cap of the library: frames, page tables
  given,      \* slots cspace_alloc_slot returned and nobody freed
  uts,        \* free 4K untypeds
  crash       \* "none"; "null_ut": an absent untyped was dereferenced;
              \* "past_end": the assert of bf_first_free failed

cspaceVars == <<bits, full, nodes, cnodes, watermark, caps, given, uts, crash>>

Tops == 0 .. (TopSlots - 1)
Slots == 0 .. (TopSlots * CnodeSlots - 1)
NodeIds == 0 .. ((TopSlots - 1) \div CnodesPerNode)
Spare == 0 .. MappingSlots

TopIndex(cptr) == cptr \div CnodeSlots
NodeIndex(top) == top \div CnodesPerNode
CnodeIndex(top) == top % CnodesPerNode
SlotOf(top, i) == top * CnodeSlots + i

-----------------------------------------------------------------------------
(* bf_first_free: the lowest clear bit of 0 .. n - 1, n when all are set   *)
FirstFree(n, set) ==
  IF \E i \in 0 .. (n - 1) : i \notin set
  THEN CHOOSE i \in 0 .. (n - 1) : i \notin set /\ \A j \in 0 .. (i - 1) : j \in set
  ELSE n

(* mutant: the cnode after the last full one                               *)
FirstTopAfterLast ==
  IF full = {} THEN 0
  ELSE 1 + (CHOOSE t \in full : \A o \in full : o <= t)

FirstTop == FirstFree(TopSlots, full)

FirstBot(b, top) ==
  FirstFree(CnodeSlots, {i \in 0 .. (CnodeSlots - 1) : SlotOf(top, i) \in b})

(* mutant: off by one                                                      *)
NodePresentEarly(top) == nodes >= NodeIndex(top)

NodePresent(top) == nodes > NodeIndex(top)

CnodePresent(top) ==
  NodePresent(top) /\ cnodes[NodeIndex(top)] > CnodeIndex(top)

(* the slot cspace_alloc_slot takes from a cnode that is present           *)
Taken(b, top) == SlotOf(top, FirstBot(b, top))

(* top_bf after slots were taken from a cnode: full when no slot but the   *)
(* last is left                                                            *)
MarkFull(b, top) ==
  IF FirstBot(b, top) >= CnodeSlots - 1 THEN full \cup {top} ELSE full

(* mutant: one untyped short                                               *)
AffordsShort(n) == uts + 1 >= n

(* there are n untypeds for the objects a call creates                     *)
Affords(n) == uts >= n

(* refill_watermark stops at the first spare slot that was used            *)
Refilled(used) == CHOOSE i \in used : \A j \in used : i <= j

-----------------------------------------------------------------------------
BootTop == TopIndex(BootSlots)

(* The slots used by the end of sos_bootstrap that it records in the       *)
(* bitfields of cnodes: all of the partially full one, but of the full     *)
(* ones only those that come first in their node (the loop that fills a    *)
(* bitfield shadows the variable that names the cnode).                    *)
Recorded ==
  {c \in 0 .. (BootSlots - 1) : TopIndex(c) = BootTop \/ CnodeIndex(TopIndex(c)) = 0}

(* The end of sos_bootstrap.  Cnodes made beyond the boot slots are        *)
(* counted in their nodes; cspace_alloc_slot provides the watermark.       *)
CSpaceInit ==
  /\ bits = Recorded \cup BootSlots .. (BootSlots + MappingSlots)
  /\ full = 0 .. (BootTop - 1) \cup
            (IF CnodeSlots - 1 <= (BootSlots % CnodeSlots) + MappingSlots + 1
             THEN {BootTop} ELSE {})
  /\ nodes = BootCnodes \div CnodesPerNode + 1
  /\ cnodes = [n \in NodeIds |->
                 IF BootCnodes <= n * CnodesPerNode THEN 0
                 ELSE IF BootCnodes >= (n + 1) * CnodesPerNode THEN CnodesPerNode
                 ELSE BootCnodes % CnodesPerNode]
  /\ watermark = [i \in Spare |-> BootSlots + i]
  /\ caps = {}
  /\ given = {}
  /\ uts = MaxUts
  /\ crash = "none"

(* cspace_alloc_slot from a cnode that exists                              *)
AllocSlot ==
  /\ crash = "none"
  /\ FirstTop < TopSlots /\ CnodePresent(FirstTop)
  /\ LET c == Taken(bits, FirstTop)
     IN  /\ bits' = bits \cup {c}
         /\ full' = MarkFull(bits', FirstTop)
         /\ given' = given \cup {c}
  /\ UNCHANGED <<nodes, cnodes, watermark, caps, uts, crash>>

(* ... when the bookkeeping node exists and the cnode has to be made       *)
AllocNewCnode ==
  /\ crash = "none"
  /\ FirstTop < TopSlots /\ NodePresent(FirstTop) /\ ~CnodePresent(FirstTop)
  /\ Affords(1)
  /\ uts' = uts - 1
  /\ cnodes' = [cnodes EXCEPT ![NodeIndex(FirstTop)] = @ + 1]
  /\ LET c == Taken(bits, FirstTop)
     IN  /\ bits' = bits \cup {c}
         /\ full' = MarkFull(bits', FirstTop)
         /\ given' = given \cup {c}
  /\ UNCHANGED <<nodes, watermark, caps, crash>>

(* ... when the node has to be made too: its frame goes in the last spare  *)
(* slot, the p paging structures its mapping lacks in the first p; then    *)
(* the nested cspace_alloc_slot of refill_watermark                        *)
AllocNewNode(p) ==
  /\ crash = "none"
  /\ FirstTop < TopSlots /\ ~NodePresent(FirstTop)
  /\ Affords(2 + p)
  /\ LET used  == 0 .. (p - 1) \cup {MappingSlots}
         c     == Taken(bits, FirstTop)
         spare == Taken(bits \cup {c}, FirstTop)
     IN  /\ \A i \in used : watermark[i] \notin caps
         /\ caps' = caps \cup {watermark[i] : i \in used}
         /\ bits' = bits \cup {c, spare}
         /\ full' = MarkFull(bits', FirstTop)
         /\ given' = given \cup {c}
         /\ watermark' = [watermark EXCEPT ![Refilled(used)] = spare]
  /\ uts' = uts - 2 - p
  /\ nodes' = nodes + 1
  /\ cnodes' = [cnodes EXCEPT ![NodeIndex(FirstTop)] = @ + 1]
  /\ UNCHANGED crash

(* no cnode: the kernel refuses to make it and its untyped goes back.  A   *)
(* node made in the same call stays, and what its mapping used is not      *)
(* refilled.                                                               *)
CnodeRetypeFails ==
  /\ crash = "none"
  /\ FirstTop < TopSlots /\ NodePresent(FirstTop) /\ ~CnodePresent(FirstTop)
  /\ Affords(1)
  /\ UNCHANGED cspaceVars

NodeWithoutCnode(p) ==
  /\ crash = "none"
  /\ FirstTop < TopSlots /\ ~NodePresent(FirstTop)
  /\ Affords(2 + p)
  /\ LET used == 0 .. (p - 1) \cup {MappingSlots}
     IN  /\ \A i \in used : watermark[i] \notin caps
         /\ caps' = caps \cup {watermark[i] : i \in used}
  /\ uts' = uts - 1 - p
  /\ nodes' = nodes + 1
  /\ UNCHANGED <<bits, full, cnodes, watermark, given, crash>>

(* no node: the last spare slot still holds an earlier node's frame        *)
NodeRetypeFails ==
  /\ crash = "none"
  /\ FirstTop < TopSlots /\ ~NodePresent(FirstTop)
  /\ uts >= 1
  /\ watermark[MappingSlots] \in caps
  /\ UNCHANGED cspaceVars

(* no node: mapping its frame made q paging structures and lacks the next, *)
(* because its spare slot is taken (the untyped for it is lost) or no      *)
(* untyped is left.  What was used is not refilled.                        *)
NodeMapFails(q) ==
  /\ crash = "none"
  /\ FirstTop < TopSlots /\ ~NodePresent(FirstTop)
  /\ watermark[MappingSlots] \notin caps
  /\ q < MappingSlots
  /\ \A i \in 0 .. (q - 1) : watermark[i] \notin caps
  /\ \/ uts = 1 + q /\ uts' = uts - q
     \/ uts >= 2 + q /\ watermark[q] \in caps /\ uts' = uts - q - 1
  /\ caps' = caps \cup {watermark[i] : i \in 0 .. (q - 1)}
  /\ UNCHANGED <<bits, full, nodes, cnodes, watermark, given, crash>>

(* bootstrap_cspace_alloc_4k_ut reads the cap of an untyped it did not get *)
NoUntyped(p) ==
  /\ crash = "none"
  /\ FirstTop < TopSlots /\ ~CnodePresent(FirstTop)
  /\ \/ uts = 0
     \/ /\ ~NodePresent(FirstTop) /\ uts = 1 + p
        /\ \A i \in 0 .. (p - 1) \cup {MappingSlots} : watermark[i] \notin caps
  /\ crash' = "null_ut"
  /\ UNCHANGED <<bits, full, nodes, cnodes, watermark, caps, given, uts>>

(* Every cnode is marked full: seL4_CapNull.  But bf_first_free reads, and *)
(* asserts not to be all ones, the word behind the bitfield: whatever is   *)
(* there decides whether the call returns.                                 *)
AllocFull ==
  /\ crash = "none"
  /\ FirstTop = TopSlots
  /\ crash' \in {"none", "past_end"}
  /\ UNCHANGED <<bits, full, nodes, cnodes, watermark, caps, given, uts>>

(* mutant: only the bit of the top level is cleared                        *)
FreeSlotTopOnly(cptr) ==
  /\ crash = "none"
  /\ full' = full \ {TopIndex(cptr)}
  /\ given' = given \ {cptr}
  /\ UNCHANGED <<bits, nodes, cnodes, watermark, caps, uts, crash>>

(* mutant: the bit of the top level stays set                              *)
FreeSlotBottomOnly(cptr) ==
  /\ crash = "none"
  /\ bits' = bits \ {cptr}
  /\ given' = given \ {cptr}
  /\ UNCHANGED <<full, nodes, cnodes, watermark, caps, uts, crash>>

(* cspace_free_slot of a slot its caller has emptied                       *)
FreeSlot(cptr) ==
  /\ crash = "none"
  /\ full' = full \ {TopIndex(cptr)}
  /\ bits' = IF CnodePresent(TopIndex(cptr)) THEN bits \ {cptr} ELSE bits
  /\ given' = given \ {cptr}
  /\ UNCHANGED <<nodes, cnodes, watermark, caps, uts, crash>>

(* SOS takes and returns untypeds for other purposes                       *)
UtsChange ==
  /\ crash = "none"
  /\ uts' \in 0 .. MaxUts
  /\ UNCHANGED <<bits, full, nodes, cnodes, watermark, caps, given, crash>>

CSpaceNext ==
  \/ AllocSlot
  \/ AllocNewCnode
  \/ \E p \in Spare : AllocNewNode(p)
  \/ CnodeRetypeFails
  \/ \E p \in Spare : NodeWithoutCnode(p)
  \/ NodeRetypeFails
  \/ \E q \in Spare : NodeMapFails(q)
  \/ \E p \in Spare : NoUntyped(p)
  \/ AllocFull
  \/ \E cptr \in given : FreeSlot(cptr)
  \/ UtsChange

CSpaceSpec == CSpaceInit /\ [][CSpaceNext]_cspaceVars

-----------------------------------------------------------------------------
(* The type invariant.                                                     *)
CSpaceTypeOK ==
  /\ bits \subseteq Slots
  /\ full \subseteq Tops
  /\ nodes \in Nat
  /\ cnodes \in [NodeIds -> 0 .. CnodesPerNode]
  /\ watermark \in [Spare -> Slots]
  /\ caps \subseteq Slots
  /\ given \subseteq Slots
  /\ uts \in Nat
  /\ crash \in {"none", "null_ut", "past_end"}

WatermarkSlots == {watermark[i] : i \in Spare}

(* The state has its type, and every slot at most one owner: the boot      *)
(* code, a caller of cspace_alloc_slot, or the library (spare, or holding  *)
(* one of its caps); and the bits that are set are those of the owned      *)
(* slots, except boot slots sos_bootstrap did not record.  So a slot is    *)
(* handed out to one caller at a time, and never while it holds a cap.     *)
SlotsAccounted ==
  LET boot == 0 .. (BootSlots - 1)
      own == WatermarkSlots \cup caps
  IN  /\ CSpaceTypeOK
      /\ bits = Recorded \cup given \cup own
      /\ given \cap (boot \cup own) = {}
      /\ boot \cap own = {}

(* The two levels agree: a cnode marked full has only its last slot left,  *)
(* and one that is not marked has a free bit, so that bf_first_free never  *)
(* runs past the bitfield of a cnode.  The cnodes filled at boot, whose    *)
(* bitfields may be empty, stay marked.                                    *)
LevelsAgree ==
  \A top \in Tops :
    IF top < BootTop THEN top \in full
    ELSE (top \in full) <=> FirstBot(bits, top) >= CnodeSlots - 1

(* Cnodes and nodes are made in the order of their index, which is what    *)
(* counting them in n_cnodes and n_bot_lvl_nodes relies on, and every slot *)
(* in use lies in a cnode that exists.                                     *)
MadeInOrder ==
  /\ \A n \in NodeIds : cnodes[n] > 0 => n < nodes
  /\ \A m, n \in NodeIds :
       m < n /\ cnodes[n] > 0 => cnodes[m] = CnodesPerNode
  /\ \A cptr \in bits : CnodePresent(TopIndex(cptr))

(* The bookkeeping of the two levels and of the nodes below them is        *)
(* consistent after every allocation, failed growth and free.              *)
CnodesConsistent == LevelsAgree /\ MadeInOrder

(* A freed slot is found again: a new cnode is made only when no cnode     *)
(* there is has a slot left below its last.  The last slot is not asked    *)
(* for, because the allocator never gives it out: a cnode is marked full   *)
(* when only that one is free (the - 1 of cspace.c:359).                   *)
ReusesBeforeGrowing ==
  [][cnodes' # cnodes =>
       \A top \in Tops : top >= BootTop /\ CnodePresent(top)
                           => FirstBot(bits, top) >= CnodeSlots - 1]_cspaceVars

(* "the cspace needs to keep a set of free slots to ensure it can allocate *)
(* further structures" (cspace.h:35-36): between two calls every spare     *)
(* slot is empty.                                                          *)
WatermarkFree == \A i \in Spare : watermark[i] \notin caps
=============================================================================
