---------------------------- MODULE KernelCaps ------------------------------
(***************************************************************************)
(* Capabilities and untyped memory of the seL4 kernel SOS runs on          *)
(* (kernel/src/object/cnode.c, untyped.c, objecttype.c): the CNode         *)
(* invocations, the derivation list (MDB), deletion with zombies and       *)
(* preemption points, and Retype.                                          *)
(*                                                                         *)
(* SOS works on this state directly: every slot of its cspaces, every      *)
(* untyped of its table and every frame and page table it makes.           *)
(*                                                                         *)
(* Addresses are integers in units of a CNode slot.  0 .. MemSize-1 is the *)
(* memory of the one untyped cap given at boot; a CNode of radix r at p    *)
(* has its slots at p .. p + 2^r - 1.  The slots of the root CNode, which  *)
(* is outside that memory, have no numbers.  Of the objects there are      *)
(* endpoints, CNodes and untypeds, the cases the code tells apart: a TCB   *)
(* goes the way of a CNode, notifications and frames that of an endpoint.  *)
(*                                                                         *)
(* An operator that may reach a preemption point returns the set of its    *)
(* outcomes.                                                               *)
(***************************************************************************)
EXTENDS Naturals, Sequences, FiniteSets, FiniteSetsExt

CONSTANTS
  MemBits,     \* size of the untyped given at boot
  Root,        \* slots of the root CNode
  Boot,        \* the one that holds the untyped cap at boot
  None,        \* the null pointer
  Badges,      \* badges other than 0
  Radices,     \* radices of the CNodes made
  UntypedBits, \* sizes of the untypeds made
  ChunkBits,   \* CONFIG_RESET_CHUNK_BITS
  MaxCaps,     \* bound on the caps there are at a time
  MaxWindow    \* most objects of one Retype, at most CONFIG_RETYPE_FAN_OUT_LIMIT

ASSUME KernelCapsAssumption ==
  /\ MemBits \in Nat /\ ChunkBits \in Nat /\ MaxWindow \in Nat /\ MaxCaps \in Nat
  /\ Boot \in Root /\ Root \cap Nat = {} /\ None \notin Root \cup Nat /\ 0 \notin Badges
  /\ Radices \subseteq Nat \ {0} /\ UntypedBits \subseteq Nat

MemSize == 2 ^ MemBits
Memory == 0 .. MemSize - 1
Slots == Root \cup Memory

VARIABLE
  kc  \* the kernel's state:
      \*   cap           the cap in each slot: its type, the address and the
      \*                 size (or radix) of the object, and data: the badge,
      \*                 the free index of an untyped, the number of a zombie
      \*   next, prev    the derivation list
      \*   rev, first    mdbRevocable, mdbFirstBadged
      \*   dirty         (ghost) memory written since it was last cleared
      \*   failed        TRUE when an assertion of the kernel has failed

Cap(type, ptr, bits, data) == [type |-> type, ptr |-> ptr, bits |-> bits, data |-> data]
Null == Cap("null", 0, 0, 0)

IsNull(m, s) == m.cap[s].type = "null"

Used == {s \in Slots : ~IsNull(kc, s)}

TypeOK ==
  /\ \A s \in Slots :
       kc.cap[s] \in [type : {"null", "untyped", "endpoint", "cnode", "zombie"},
                      ptr : Memory, bits : 0 .. MemBits,
                      data : 0 .. MemSize \cup Badges]
  /\ \A s \in Used : kc.cap[s].ptr % 2 ^ kc.cap[s].bits = 0  \* aligned
  /\ kc.next \in [Slots -> Slots \cup {None}] /\ kc.prev \in [Slots -> Slots \cup {None}]
  /\ kc.rev \in [Slots -> BOOLEAN] /\ kc.first \in [Slots -> BOOLEAN]
  /\ kc.dirty \subseteq Memory

-----------------------------------------------------------------------------
kassert(m, cond) == [m EXCEPT !.failed = @ \/ ~cond]

(* cap_get_capSizeBits, in units                                           *)
Size(c) == 2 ^ c.bits
Region(c) == c.ptr .. c.ptr + Size(c) - 1

sameRegionAs(a, b) ==
  CASE a.type = "untyped" -> b.type # "null" /\ Region(b) \subseteq Region(a)
    [] a.type = "endpoint" -> b.type = "endpoint" /\ a.ptr = b.ptr
    [] a.type = "cnode" -> b.type = "cnode" /\ a.ptr = b.ptr /\ a.bits = b.bits
    [] OTHER -> FALSE

sameObjectAs(a, b) == a.type # "untyped" /\ sameRegionAs(a, b)

(* mutant: badges of the parent are not looked at                          *)
isMDBParentOfBadge(m, a, b) ==
  /\ m.rev[a] /\ sameRegionAs(m.cap[a], m.cap[b])
  /\ m.cap[a].type = "endpoint" => m.cap[a].data = m.cap[b].data /\ ~m.first[b]

isMDBParentOf(m, a, b) ==
  /\ m.rev[a] /\ sameRegionAs(m.cap[a], m.cap[b])
  /\ m.cap[a].type = "endpoint" /\ m.cap[a].data # 0 =>
       m.cap[a].data = m.cap[b].data /\ ~m.first[b]

ensureNoChildren(m, s) == m.next[s] = None \/ ~isMDBParentOf(m, s, m.next[s])

(* mutant: only the neighbour behind is compared                           *)
isFinalCapabilityNext(m, s) ==
  m.next[s] # None => ~sameObjectAs(m.cap[s], m.cap[m.next[s]])

isFinalCapability(m, s) ==
  /\ m.prev[s] # None => ~sameObjectAs(m.cap[m.prev[s]], m.cap[s])
  /\ m.next[s] # None => ~sameObjectAs(m.cap[s], m.cap[m.next[s]])

isCapRevocable(new, src) ==
  \/ new.type = "untyped"
  \/ new.type = "endpoint" /\ new.data # src.data

deriveCap(m, s, c) ==
  IF c.type = "zombie" \/ (c.type = "untyped" /\ ~ensureNoChildren(m, s)) THEN Null ELSE c

(* the badge of a Mint; preserve: the cap is moved                         *)
updateCapData(preserve, badge, c) ==
  IF c.type # "endpoint" THEN c
  ELSE IF ~preserve /\ c.data = 0 THEN [c EXCEPT !.data = badge]
  ELSE Null

-----------------------------------------------------------------------------
(* The derivation list.                                                    *)

(* field f of slot s, unless s is the null pointer                         *)
SetNext(m, s, t) == IF s = None THEN m ELSE [m EXCEPT !.next[s] = t]
SetPrev(m, s, t) == IF s = None THEN m ELSE [m EXCEPT !.prev[s] = t]

Vacant(m, s) == IsNull(m, s) /\ m.next[s] = None /\ m.prev[s] = None

(* c goes into s, behind p in the list                                     *)
LinkAfter(m, p, s, c, rev) ==
  SetPrev([m EXCEPT !.cap[s] = c, !.prev[s] = p, !.next[s] = m.next[p],
                    !.rev[s] = rev, !.first[s] = rev, !.next[p] = s], m.next[p], s)

insertNewCap(m, parent, s, c) == LinkAfter(m, parent, s, c, TRUE)

setUntypedCapAsFull(m, c, src) ==
  LET sc == m.cap[src] IN
  IF sc.type = "untyped" /\ c.type = "untyped" /\ sc.ptr = c.ptr /\ sc.bits = c.bits
  THEN [m EXCEPT !.cap[src].data = Size(sc)] ELSE m

(* mutant: the untyped that is copied keeps its free index                 *)
cteInsertNotFull(m, c, src, dest) ==
  LinkAfter(m, src, dest, c, isCapRevocable(c, m.cap[src]))

cteInsert(m, c, src, dest) ==
  LinkAfter(setUntypedCapAsFull(kassert(m, Vacant(m, dest)), c, src), src, dest, c,
            isCapRevocable(c, m.cap[src]))

(* mutant: the neighbour behind keeps pointing at the old slot             *)
cteMoveOneSided(m, c, src, dest) ==
  SetNext([m EXCEPT !.cap[dest] = c, !.cap[src] = Null,
             !.next[dest] = m.next[src], !.prev[dest] = m.prev[src],
             !.rev[dest] = m.rev[src], !.first[dest] = m.first[src],
             !.next[src] = None, !.prev[src] = None,
             !.rev[src] = FALSE, !.first[src] = FALSE], m.prev[src], dest)

cteMove(m, c, src, dest) ==
  SetPrev(SetNext([kassert(m, Vacant(m, dest)) EXCEPT
             !.cap[dest] = c, !.cap[src] = Null,
             !.next[dest] = m.next[src], !.prev[dest] = m.prev[src],
             !.rev[dest] = m.rev[src], !.first[dest] = m.first[src],
             !.next[src] = None, !.prev[src] = None,
             !.rev[src] = FALSE, !.first[src] = FALSE],
           m.prev[src], dest), m.next[src], dest)

(* The node of s1 is read before its neighbours are redirected, that of s2 *)
(* after: neighbours in the list are swapped correctly.                    *)
cteSwap(m, c1, s1, c2, s2) ==
  LET m1 == [m EXCEPT !.cap[s1] = c2, !.cap[s2] = c1]
      m2 == SetPrev(SetNext(m1, m.prev[s1], s2), m.next[s1], s2)
      m3 == [m2 EXCEPT
               !.next[s1] = m2.next[s2], !.prev[s1] = m2.prev[s2],
               !.rev[s1] = m2.rev[s2], !.first[s1] = m2.first[s2],
               !.next[s2] = m.next[s1], !.prev[s2] = m.prev[s1],
               !.rev[s2] = m.rev[s1], !.first[s2] = m.first[s1]]
  IN SetPrev(SetNext(m3, m2.prev[s2], s1), m2.next[s2], s1)

emptySlot(m, s) ==
  LET p == m.prev[s]
      n == m.next[s]
      m1 == SetPrev(SetNext(m, p, n), n, p)
      m2 == IF n = None THEN m1 ELSE [m1 EXCEPT !.first[n] = @ \/ m.first[s]]
  IN IF IsNull(m, s) THEN m
     ELSE [m2 EXCEPT !.cap[s] = Null, !.next[s] = None, !.prev[s] = None,
                     !.rev[s] = FALSE, !.first[s] = FALSE]

-----------------------------------------------------------------------------
(* Deletion.  An outcome has the state, whether the operation was          *)
(* preempted, and the success flag of finaliseSlot.                        *)
Outcome(m, preempted, success) ==
  [m |-> m, preempted |-> preempted, success |-> success]

(* What is left of the cap.  The threads waiting on an endpoint are        *)
(* restarted in KernelIpc (cancelAllIPC).                                  *)
finaliseCap(m, s) ==
  LET c == m.cap[s] IN
  IF c.type = "cnode" /\ isFinalCapability(m, s) THEN Cap("zombie", c.ptr, c.bits, Size(c))
  ELSE IF c.type = "zombie" THEN c
  ELSE Null

capRemovable(c, s) ==
  c.type = "null" \/ c.data = 0 \/ (c.data = 1 /\ c.ptr = s)

capCyclicZombie(c, s) == c.type = "zombie" /\ c.ptr = s

RECURSIVE finaliseSlot(_, _, _)

(* mutant: only a delete by the user empties the slot                      *)
cteDeleteExposed(m, s, exposed) ==
  {IF ~r.preempted /\ exposed THEN [r EXCEPT !.m = emptySlot(r.m, s)] ELSE r :
     r \in finaliseSlot(m, s, exposed)}

cteDelete(m, s, exposed) ==
  {IF ~r.preempted /\ (exposed \/ r.success) THEN [r EXCEPT !.m = emptySlot(r.m, s)] ELSE r :
     r \in finaliseSlot(m, s, exposed)}

(* mutant: the zombie is counted down before its last slot is empty        *)
reduceZombieEarly(m, s, immediate) ==
  LET z == m.cap[s] IN
  IF immediate
  THEN cteDelete([m EXCEPT !.cap[s].data = z.data - 1], z.ptr + z.data - 1, FALSE)
  ELSE {Outcome(cteSwap(m, m.cap[z.ptr], z.ptr, z, s), FALSE, TRUE)}

reduceZombie(m, s, immediate) ==
  LET z == m.cap[s]
      endSlot == z.ptr + z.data - 1
      after(m1) ==
        LET c == m1.cap[s] IN
        IF c.type = "null" THEN m1
        ELSE IF c = z
        THEN [kassert(m1, IsNull(m1, endSlot)) EXCEPT !.cap[s].data = z.data - 1]
        ELSE kassert(m1, c.type = "zombie" /\ c.ptr = s /\ z.ptr # s)
  IN IF immediate
     THEN {IF r.preempted THEN r ELSE [r EXCEPT !.m = after(r.m)] :
             r \in cteDelete(kassert(m, z.data > 0), endSlot, FALSE)}
     ELSE LET moved == m.cap[z.ptr] IN
          {Outcome(cteSwap(kassert(m, z.ptr # s /\ ~capCyclicZombie(moved, z.ptr)),
                           moved, z.ptr, z, s), FALSE, TRUE)}

(* One round of the loop, and the rounds after its preemption point.  A    *)
(* failed assertion stops the kernel.                                      *)
finaliseSlot(m, s, immediate) ==
  LET c == finaliseCap(m, s)
      m1 == [m EXCEPT !.cap[s] = c]
  IN IF IsNull(m, s) \/ capRemovable(c, s) THEN {Outcome(m, FALSE, TRUE)}
     ELSE IF ~immediate /\ capCyclicZombie(c, s) THEN {Outcome(m1, FALSE, FALSE)}
     ELSE UNION {IF m.failed THEN {Outcome(m, TRUE, FALSE)}
                 ELSE {Outcome(r.m, TRUE, FALSE)} \cup
                      (IF r.preempted THEN {} ELSE finaliseSlot(r.m, s, immediate)) :
                 r \in reduceZombie(m1, s, immediate)}

RECURSIVE cteRevoke(_, _)
cteRevoke(m, s) ==
  IF ensureNoChildren(m, s) THEN {Outcome(m, FALSE, TRUE)}
  ELSE UNION {{Outcome(r.m, TRUE, FALSE)} \cup
              (IF r.preempted THEN {} ELSE cteRevoke(r.m, s)) :
              r \in cteDelete(m, m.next[s], TRUE)}

-----------------------------------------------------------------------------
(* Untyped memory.                                                         *)
alignUp(base, bits) == ((base + 2 ^ bits - 1) \div 2 ^ bits) * 2 ^ bits

(* mutant: the free index is lowered before the chunk is cleared           *)
RECURSIVE ClearChunksLate(_, _, _)
ClearChunksLate(m, s, offset) ==
  LET u == m.cap[s]
      m1 == [m EXCEPT !.cap[s].data = offset]
      m2 == [m1 EXCEPT !.dirty = @ \ (u.ptr + offset .. u.ptr + offset + 2 ^ ChunkBits - 1)]
  IN {Outcome(m1, TRUE, FALSE)} \cup
     (IF offset = 0 THEN {Outcome(m2, FALSE, TRUE)}
      ELSE ClearChunksLate(m2, s, offset - 2 ^ ChunkBits))

(* mutant: the free index is set to the end of the chunk                   *)
RECURSIVE ClearChunksEnd(_, _, _)
ClearChunksEnd(m, s, offset) ==
  LET u == m.cap[s]
      m1 == [m EXCEPT
               !.dirty = @ \ (u.ptr + offset .. u.ptr + offset + 2 ^ ChunkBits - 1),
               !.cap[s].data = offset + 2 ^ ChunkBits]
  IN {Outcome(m1, TRUE, FALSE)} \cup
     (IF offset = 0 THEN {Outcome(m1, FALSE, TRUE)}
      ELSE ClearChunksEnd(m1, s, offset - 2 ^ ChunkBits))

(* The chunks of the untyped in s from offset down.                        *)
RECURSIVE ClearChunks(_, _, _)
ClearChunks(m, s, offset) ==
  LET u == m.cap[s]
      m1 == [m EXCEPT
               !.dirty = @ \ (u.ptr + offset .. u.ptr + offset + 2 ^ ChunkBits - 1),
               !.cap[s].data = offset]
  IN {Outcome(m1, TRUE, FALSE)} \cup
     (IF offset = 0 THEN {Outcome(m1, FALSE, TRUE)}
      ELSE ClearChunks(m1, s, offset - 2 ^ ChunkBits))

resetUntypedCap(m, s) ==
  LET u == m.cap[s] IN
  IF u.data = 0 THEN {Outcome(m, FALSE, TRUE)}
  ELSE IF u.bits < ChunkBits
  THEN {Outcome([m EXCEPT !.dirty = @ \ Region(u), !.cap[s].data = 0], FALSE, TRUE)}
  ELSE ClearChunks(m, s, ((u.data - 1) \div 2 ^ ChunkBits) * 2 ^ ChunkBits)

(* Objects like c, from base on, with their caps in the slots dest.        *)
createNewObjects(m, parent, c, base, dest) ==
  LET obj(i) == [c EXCEPT !.ptr = base + i * Size(c)]
      upTo[i \in 0 .. Len(dest)] ==
        IF i = 0 THEN m
        ELSE insertNewCap(
               IF c.type = "untyped" THEN upTo[i - 1]
               ELSE [upTo[i - 1] EXCEPT !.dirty = @ \cup Region(obj(i - 1))],
               parent, dest[i], obj(i - 1))
  IN upTo[Len(dest)]

(* mutant: the objects start at the free index as it is                    *)
invokeUntyped_RetypeUnaligned(m, s, c, dest, reset) ==
  {IF r.preempted THEN r
   ELSE LET u == r.m.cap[s]
            base == u.ptr + u.data
        IN [r EXCEPT !.m = createNewObjects(
              [r.m EXCEPT !.cap[s].data = base + Len(dest) * Size(c) - u.ptr], s, c, base, dest)] :
     r \in IF reset THEN resetUntypedCap(m, s) ELSE {Outcome(m, FALSE, TRUE)}}

invokeUntyped_Retype(m, s, c, dest, reset) ==
  LET u == m.cap[s]
      base == alignUp(u.ptr + (IF reset THEN 0 ELSE u.data), c.bits)
  IN {IF r.preempted THEN r
      ELSE [r EXCEPT !.m = createNewObjects(
              [r.m EXCEPT !.cap[s].data = base + Len(dest) * Size(c) - u.ptr], s, c, base, dest)] :
        r \in IF reset THEN resetUntypedCap(m, s) ELSE {Outcome(m, FALSE, TRUE)}}

-----------------------------------------------------------------------------
(* The slots of each CNode with a cap in S.                                *)
CNodes(m, S) == {Region(m.cap[s]) : s \in {t \in S : m.cap[t].type = "cnode"}}

(* The slots an invocation can name: those of the root CNode and of the    *)
(* CNodes whose caps it can name.                                          *)
Reach(m) ==
  LET step[i \in 0 .. MemSize] ==
        IF i = 0 THEN Root
        ELSE LET S == step[i - 1] IN S \cup UNION CNodes(m, S)
  IN step[MemSize]

Init ==
  kc = [cap |-> [s \in Slots |-> IF s = Boot THEN Cap("untyped", 0, MemBits, 0) ELSE Null],
        next |-> [s \in Slots |-> None], prev |-> [s \in Slots |-> None],
        rev |-> [s \in Slots |-> s = Boot], first |-> [s \in Slots |-> s = Boot],
        dirty |-> {}, failed |-> FALSE]

NewObjects ==
  {Cap("endpoint", 0, 0, 0)} \cup {Cap("cnode", 0, r, 0) : r \in Radices}
    \cup {Cap("untyped", 0, b, 0) : b \in UntypedBits}

(* The slots of a Retype: empty, and consecutive ones of a CNode           *)
Windows(m, R) ==
  LET free == {s \in R : IsNull(m, s)} IN
  {<<s>> : s \in free} \cup
  (IF MaxWindow < 2 THEN {}
   ELSE {<<s, t>> \in (Root \cap free) \X (Root \cap free) : s # t} \cup
        {<<s, s + 1>> : s \in {t \in free \ Root :
           t + 1 \in free /\ \E node \in CNodes(m, R) : {t, t + 1} \subseteq node}})

UntypedRetype(s, c, dest) ==
  LET u == kc.cap[s]
      reset == ensureNoChildren(kc, s)
      free == IF reset THEN 0 ELSE u.data
  IN /\ Cardinality(Used) + Len(dest) <= MaxCaps
     /\ (Size(u) - free) \div Size(c) >= Len(dest)
     /\ \E r \in invokeUntyped_Retype(kc, s, c, dest, reset) : kc' = r.m

(* Copy and Mint; with badge 0 the cap is copied                           *)
CNodeMint(src, dest, badge) ==
  LET c == kc.cap[src]
      new == deriveCap(kc, src, IF badge = 0 THEN c ELSE updateCapData(FALSE, badge, c))
  IN /\ IsNull(kc, dest) /\ ~IsNull(kc, src) /\ new # Null
     /\ Cardinality(Used) < MaxCaps
     /\ kc' = cteInsert(kc, new, src, dest)

CNodeMove(src, dest) ==
  /\ IsNull(kc, dest) /\ ~IsNull(kc, src)
  /\ kc' = cteMove(kc, kc.cap[src], src, dest)

CNodeRotate(src, pivot, dest) ==
  LET newSrc == updateCapData(TRUE, 0, kc.cap[src])
      newPivot == updateCapData(TRUE, 0, kc.cap[pivot])
  IN /\ pivot \notin {src, dest} /\ (src # dest => IsNull(kc, dest))
     /\ newSrc # Null /\ newPivot # Null
     /\ kc' = IF src = dest THEN cteSwap(kc, newSrc, src, newPivot, pivot)
              ELSE cteMove(cteMove(kc, newPivot, pivot, dest), newSrc, src, pivot)

CNodeRevoke(s) == \E r \in cteRevoke(kc, s) : kc' = r.m
CNodeDelete(s) == \E r \in cteDelete(kc, s, TRUE) : kc' = r.m

Running == ~kc.failed

Revoke == Running /\ \E s \in Reach(kc) : CNodeRevoke(s)
Delete == Running /\ \E s \in Reach(kc) : CNodeDelete(s)
Retype ==
  /\ Running
  /\ LET R == Reach(kc) IN
     \E s \in {t \in R : kc.cap[t].type = "untyped"} :
       \E d \in Windows(kc, R), c \in NewObjects : UntypedRetype(s, c, d)
Mint ==
  /\ Running
  /\ LET R == Reach(kc) IN
     \E s \in R \cap Used, d \in R \ Used, b \in Badges \cup {0} : CNodeMint(s, d, b)
Move ==
  /\ Running
  /\ LET R == Reach(kc) IN \E s \in R \cap Used, d \in R \ Used : CNodeMove(s, d)
Rotate ==
  /\ Running
  /\ \E s \in Reach(kc) \cap Used, p \in Root \cap Used :
       \E d \in (Root \ Used) \cup {s} : CNodeRotate(s, p, d)

Next == Revoke \/ Delete \/ Retype \/ Mint \/ Move \/ Rotate

Spec == Init /\ [][Next]_kc

-----------------------------------------------------------------------------
(* Properties.                                                             *)
(* No assertion of the kernel fails: a slot filled is empty, a zombie is   *)
(* only counted down past an empty slot, and no self-referential zombie is *)
(* moved aside (cteInsert, cteMove, reduceZombie).                         *)
NoCapFailure == ~kc.failed

(* The slots behind s in the derivation list.                              *)
Behind(s) ==
  LET step[i \in 0 .. Cardinality(Slots)] ==
        IF i = 0 THEN {kc.next[s]} \ {None}
        ELSE LET S == step[i - 1] IN S \cup ({kc.next[t] : t \in S} \ {None})
  IN step[Cardinality(Slots)]

(* The derivation list is one doubly linked list, without a cycle, of      *)
(* exactly the slots that hold a cap; and the state has its type.          *)
MdbWellFormed ==
  /\ TypeOK
  /\ \A s, t \in Slots : kc.next[s] = t <=> kc.prev[t] = s
  /\ \A s \in Used : s \notin Behind(s)
  /\ \A s \in Slots \ Used : kc.next[s] = None /\ kc.prev[s] = None
  /\ Cardinality({s \in Used : kc.prev[s] = None}) = IF Used = {} THEN 0 ELSE 1

(* What cteRevoke(s) would find: the run of children behind s.             *)
Children(s) ==
  {t \in Behind(s) :
     \A u \in Behind(s) : (u = t \/ t \in Behind(u)) => isMDBParentOf(kc, s, u)}

(* c was made from s: c is a part of the untyped s, or s is the first cap  *)
(* of the object of c.                                                     *)
MadeFrom(s, t) ==
  LET a == kc.cap[s]
      b == kc.cap[t]
  IN \/ /\ a.type = "untyped" /\ Region(b) \subseteq Region(a)
        /\ b.type = "untyped" => b.bits < a.bits
     \/ /\ a.type \in {"endpoint", "cnode"} /\ kc.rev[s] /\ a.data = 0
        /\ sameObjectAs(a, b)

(* Revoking an untyped or the first cap of an object reaches every cap     *)
(* made from it, wherever it has been copied, moved or swapped to: the run *)
(* of children is not interrupted (cteRevoke, ensureNoChildren).           *)
RevokeReaches ==
  \A s, t \in Used : s # t /\ MadeFrom(s, t) => t \in Children(s)

(* A cap is taken for the last one of its object, whose deletion destroys  *)
(* the object, exactly when it is (isFinalCapability looks only at the     *)
(* neighbours in the list).                                                *)
FinalExact ==
  \A s \in Used :
    kc.cap[s].type \in {"endpoint", "cnode"} =>
      (isFinalCapability(kc, s) <=>
         \A t \in Used : kc.cap[t].type = kc.cap[s].type /\ kc.cap[t].ptr = kc.cap[s].ptr
                           => t = s)

(* Memory is in one use at a time: two caps whose memory overlaps name the *)
(* same object, or one is an untyped and the other lies below its free     *)
(* index.                                                                  *)
MemoryDisjoint ==
  \A s, t \in Used :
    LET a == kc.cap[s]
        b == kc.cap[t]
        inside(u, c) == u.type = "untyped" /\ Region(c) \subseteq u.ptr .. u.ptr + u.data - 1
        same == a.type = b.type /\ a.ptr = b.ptr /\ a.bits = b.bits /\ a.type # "untyped"
    IN s # t /\ Region(a) \cap Region(b) # {} => same \/ inside(a, b) \/ inside(b, a)

(* A cap in memory is in a slot of a CNode that still has a cap, or that a *)
(* zombie has yet to empty: no delete or revoke, preempted at any point,   *)
(* leaves a cap behind in memory that is free.                             *)
SlotsBacked ==
  \A s \in Used \cap Memory :
    \E t \in Used : \/ kc.cap[t].type = "cnode" /\ s \in Region(kc.cap[t])
                    \/ /\ kc.cap[t].type = "zombie"
                       /\ s \in kc.cap[t].ptr .. kc.cap[t].ptr + kc.cap[t].data - 1

(* Whatever order of retypes, copies, moves, deletes and revokes, memory   *)
(* has one use at a time and no cap lies in memory that is free.           *)
MemoryOneUse == MemoryDisjoint /\ SlotsBacked

(* What deletion has left to do for one cap: to turn a CNode into a zombie,*)
(* to swap the zombie into its own first slot, to count it down.           *)
Work(m, s) ==
  LET c == m.cap[s] IN
  CASE c.type = "cnode" -> 2 * Size(c) + 2
    [] c.type = "zombie" -> 2 * c.data + (IF c.ptr = s THEN 0 ELSE 1)
    [] c.type \in {"endpoint", "untyped"} -> 1
    [] c.type = "null" -> 0

TotalWork(m) == MapThenSumSet(LAMBDA s : Work(m, s), Slots)

(* A revoke, delete or reset that is preempted has got closer to its end,  *)
(* so that one which is restarted after every interrupt ends all the same  *)
(* (preemptionPoint in cteRevoke, finaliseSlot and resetUntypedCap).       *)
PreemptedProgress ==
  \A s \in Used :
    /\ \A r \in cteRevoke(kc, s) \cup cteDelete(kc, s, TRUE) :
         r.preempted => TotalWork(r.m) < TotalWork(kc)
    /\ kc.cap[s].type = "untyped" =>
         \A r \in resetUntypedCap(kc, s) : r.preempted => r.m.cap[s].data < kc.cap[s].data

(* The memory above the free index of an untyped is cleared, also after a  *)
(* preempted reset: a new object never shows what was there before.        *)
FreeIsClean ==
  \A s \in Used :
    LET u == kc.cap[s] IN
    u.type = "untyped" => kc.dirty \cap (u.ptr + u.data .. u.ptr + Size(u) - 1) = {}
=============================================================================
