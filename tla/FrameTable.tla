----------------------------- MODULE FrameTable -----------------------------
(***************************************************************************)
(* The frame table of SOS (sos/src/frame_table.c): every 4K frame SOS owns *)
(* is an entry of one array, threaded on one of two doubly linked lists    *)
(* (free, allocated) by array index.  Entry 0 is the NULL sentinel.  The   *)
(* array itself grows a page at a time (bump_capacity).                    *)
(*                                                                         *)
(* The record ft is the C struct frame_table together with the prev, next  *)
(* and list_id fields of the array.  The list operations map a table to a  *)
(* table, as the C functions update the static struct in place, and each   *)
(* has the asserts it runs as a predicate beside it: an action in which    *)
(* one is false stops the program.                                         *)
(***************************************************************************)
EXTENDS Integers, FiniteSets

CONSTANTS
  TotalUts,       \* 4K untypeds of the machine that the table can ever hold
  FramesPerPage,  \* entries per page of the array: 4096 / sizeof(frame_t)
  FrameLimit,     \* CONFIG_SOS_FRAME_LIMIT, 0 for no limit
  MaxSide         \* most untypeds one mapping sinks in cnodes and page tables

ASSUME FrameTableAssumption ==
  /\ TotalUts \in Nat
  /\ FramesPerPage \in Nat \ {0, 1}
  /\ FrameLimit \in Nat
  /\ MaxSide \in Nat

VARIABLES
  ft,        \* the frame table
  free_uts,  \* 4K untypeds the untyped manager has free
  mapped,    \* entries whose page is mapped at their frame_data address
  held,      \* references that alloc_frame returned and are not yet freed
  fault      \* "none", or how the program stopped: "assert" or "null_frame"

vars == <<ft, free_uts, mapped, held, fault>>

NULL_FRAME == 0
NO_LIST == 1
FREE_LIST == 2
ALLOCATED_LIST == 3

Lists == {FREE_LIST, ALLOCATED_LIST}
Refs == 0 .. TotalUts
NO_ENTRY == 0      \* list_id of an entry alloc_fresh_frame never wrote

-----------------------------------------------------------------------------
(* The list operations.  RefOk and FrameOk are the asserts of              *)
(* frame_from_ref and ref_from_frame.                                      *)

RefOk(t, r) == r # NULL_FRAME /\ r < t.capacity

FrameOk(t, f) == f < t.used

(* the asserts of push_front and push_back on the frame itself             *)
Unlinked(t, f) ==
  /\ t.list_id[f] = NO_LIST
  /\ t.next[f] = NULL_FRAME
  /\ t.prev[f] = NULL_FRAME
  /\ FrameOk(t, f)

(* mutant: push_front writes the old head's next instead of its prev       *)
PushFrontSwapped(t, l, f) ==
  LET old == t.first[l] IN
  [t EXCEPT
     !.last[l] = IF t.last[l] = NULL_FRAME THEN f ELSE t.last[l],
     !.next = [r \in Refs |-> IF r = f THEN old
                              ELSE IF r = old /\ old # NULL_FRAME THEN f
                              ELSE t.next[r]],
     !.first[l] = f,
     !.length[l] = t.length[l] + 1,
     !.list_id[f] = l]

PushFront(t, l, f) ==
  LET old == t.first[l] IN
  [t EXCEPT
     !.last[l] = IF t.last[l] = NULL_FRAME THEN f ELSE t.last[l],
     !.next[f] = old,
     !.prev = [r \in Refs |-> IF r = old /\ old # NULL_FRAME
                              THEN f ELSE t.prev[r]],
     !.first[l] = f,
     !.length[l] = t.length[l] + 1,
     !.list_id[f] = l]

PushFrontAsserts(t, l, f) ==
  Unlinked(t, f) /\ (t.first[l] # NULL_FRAME => RefOk(t, t.first[l]))

(* mutant: push_back forgets the length of a nonempty list                 *)
AppendFrameUncounted(t, l, f) ==
  [t EXCEPT
     !.next[t.last[l]] = f,
     !.prev[f] = t.last[l],
     !.last[l] = f,
     !.list_id[f] = l]

AppendFrame(t, l, f) ==
  LET old == t.last[l] IN
  [t EXCEPT
     !.next[old] = f,
     !.prev[f] = old,
     !.last[l] = f,
     !.length[l] = t.length[l] + 1,
     !.list_id[f] = l]

PushBack(t, l, f) ==
  IF t.last[l] # NULL_FRAME THEN AppendFrame(t, l, f) ELSE PushFront(t, l, f)

PushBackAsserts(t, l, f) ==
  IF t.last[l] # NULL_FRAME THEN Unlinked(t, f) /\ RefOk(t, t.last[l])
  ELSE PushFrontAsserts(t, l, f)

(* mutant: pop_front leaves the new head's prev                            *)
PopFrontKeepsPrev(t, l) ==
  LET head == t.first[l] IN
  [t EXCEPT
     !.last[l] = IF t.last[l] = head THEN NULL_FRAME ELSE t.last[l],
     !.first[l] = t.next[head],
     !.next[head] = NULL_FRAME,
     !.list_id[head] = NO_LIST,
     !.length[l] = t.length[l] - 1]

(* pop_front of a nonempty list; the popped frame is t.first[l].           *)
PopFront(t, l) ==
  LET head == t.first[l]
      next == t.next[head]
      only == t.last[l] = head
  IN
  [t EXCEPT
     !.last[l] = IF only THEN NULL_FRAME ELSE t.last[l],
     !.first[l] = next,
     !.prev = [r \in Refs |-> IF r = head \/ (~only /\ r = next)
                              THEN NULL_FRAME ELSE t.prev[r]],
     !.next[head] = NULL_FRAME,
     !.list_id[head] = NO_LIST,
     !.length[l] = t.length[l] - 1]

PopFrontAsserts(t, l) ==
  LET head == t.first[l]
      next == t.next[head]
  IN  /\ RefOk(t, head)
      /\ IF t.last[l] = head THEN next = NULL_FRAME ELSE RefOk(t, next)
      /\ t.prev[head] = NULL_FRAME

RemoveFrame(t, l, f) ==
  LET prev == t.prev[f]
      next == t.next[f]
  IN
  [t EXCEPT
     !.first[l] = IF prev = NULL_FRAME THEN next ELSE t.first[l],
     !.last[l] = IF next = NULL_FRAME THEN prev ELSE t.last[l],
     !.next = [r \in Refs |->
                 IF r = f THEN NULL_FRAME
                 ELSE IF prev # NULL_FRAME /\ r = prev THEN next
                 ELSE t.next[r]],
     !.prev = [r \in Refs |->
                 IF r = f THEN NULL_FRAME
                 ELSE IF next # NULL_FRAME /\ r = next THEN prev
                 ELSE t.prev[r]],
     !.list_id[f] = NO_LIST,
     !.length[l] = t.length[l] - 1]

RemoveFrameAsserts(t, l, f) ==
  /\ t.list_id[f] = l
  /\ t.prev[f] # NULL_FRAME => RefOk(t, t.prev[f])
  /\ t.next[f] # NULL_FRAME => RefOk(t, t.next[f])

-----------------------------------------------------------------------------
(* Growing the table.                                                      *)

(* mutant: bump_capacity does not stop at the limit                        *)
LimitNever(t) == FALSE

LimitReached(t) == FrameLimit # 0 /\ t.capacity = FrameLimit

(* mutant: byte_length grows by two pages for one page mapped              *)
BumpCapacityTwice(t) ==
  LET entries == (t.pages + 2) * FramesPerPage IN
  [t EXCEPT
     !.pages = t.pages + 2,
     !.capacity = IF FrameLimit # 0 /\ FrameLimit < entries
                  THEN FrameLimit ELSE entries]

(* bump_capacity once the page for the array is mapped                     *)
BumpCapacity(t) ==
  LET entries == (t.pages + 1) * FramesPerPage IN
  [t EXCEPT
     !.pages = t.pages + 1,
     !.capacity = IF FrameLimit # 0 /\ FrameLimit < entries
                  THEN FrameLimit ELSE entries]

(* the bump of alloc_fresh_frame, when the array is full                   *)
MakeRoom(t) == IF t.used = t.capacity THEN BumpCapacity(t) ELSE t

(* the entry alloc_fresh_frame takes: entry 0 is skipped the first time    *)
FreshRef(t) == IF t.used = 0 THEN 1 ELSE t.used

FreshAsserts(t) ==
  /\ t.used < t.capacity
  /\ RefOk(t, FreshRef(t))
  /\ FrameLimit # 0 => t.capacity <= FrameLimit

(* the entry is counted in used before its page is mapped ...              *)
ClaimEntry(t) == [t EXCEPT !.used = FreshRef(t) + 1]

(* mutant: used is not taken back                                          *)
UnclaimEntryNot(t) == t

(* ... and the count is taken back when the mapping fails                  *)
UnclaimEntry(t) == [t EXCEPT !.used = t.used - 1]

InitEntry(t, f) ==
  [t EXCEPT !.next[f] = NULL_FRAME, !.prev[f] = NULL_FRAME,
            !.list_id[f] = NO_LIST]

(* mutant: the frame's own untyped is not counted                          *)
MapSucceedsShort(uts, side) == uts >= side

(* alloc_frame_at: what the two outcomes cost the untyped manager.  side   *)
(* untypeds go to paging structures and cnodes; a failure gives the        *)
(* frame's own untyped back but not those.                                 *)
MapSucceeds(uts, side) == uts >= 1 + side

MapFails(uts, side) == side = 0 \/ uts >= 1 + side

-----------------------------------------------------------------------------
Init ==
  /\ ft = [used |-> 0, capacity |-> 0, pages |-> 0,
           first |-> [l \in Lists |-> NULL_FRAME],
           last |-> [l \in Lists |-> NULL_FRAME],
           length |-> [l \in Lists |-> 0],
           next |-> [r \in Refs |-> NULL_FRAME],
           prev |-> [r \in Refs |-> NULL_FRAME],
           list_id |-> [r \in Refs |-> NO_ENTRY]]
  /\ free_uts = TotalUts
  /\ mapped = {}
  /\ held = {}
  /\ fault = "none"

FaultIf(asserts, otherwise) == IF asserts THEN otherwise ELSE "assert"

(* mutant: a recycled frame goes back on the free list                     *)
AllocFreeWrongList ==
  /\ fault = "none"
  /\ ft.first[FREE_LIST] # NULL_FRAME
  /\ LET f == ft.first[FREE_LIST]
         t == PopFront(ft, FREE_LIST)
     IN  /\ ft' = PushBack(t, FREE_LIST, f)
         /\ held' = held \cup {f}
  /\ UNCHANGED <<free_uts, mapped, fault>>

(* alloc_frame when the free list has a frame                              *)
AllocFree ==
  /\ fault = "none"
  /\ ft.first[FREE_LIST] # NULL_FRAME
  /\ LET f == ft.first[FREE_LIST]
         t == PopFront(ft, FREE_LIST)
     IN  /\ ft' = PushBack(t, ALLOCATED_LIST, f)
         /\ held' = held \cup {f}
         /\ fault' = FaultIf(/\ PopFrontAsserts(ft, FREE_LIST)
                             /\ PushBackAsserts(t, ALLOCATED_LIST, f), "none")
  /\ UNCHANGED <<free_uts, mapped>>

(* alloc_frame through alloc_fresh_frame, every mapping succeeding         *)
AllocFresh(bumpside, side) ==
  /\ fault = "none"
  /\ ft.first[FREE_LIST] = NULL_FRAME
  /\ LET bump == ft.used = ft.capacity
         uts  == IF bump THEN free_uts - 1 - bumpside ELSE free_uts
         room == MakeRoom(ft)
         f    == FreshRef(room)
         t    == InitEntry(ClaimEntry(room), f)
     IN  /\ bump => ~LimitReached(ft) /\ MapSucceeds(free_uts, bumpside)
         /\ MapSucceeds(uts, side)
         /\ ft' = PushBack(t, ALLOCATED_LIST, f)
         /\ free_uts' = uts - 1 - side
         /\ mapped' = mapped \cup {f}
         /\ held' = held \cup {f}
         /\ fault' = FaultIf(/\ FreshAsserts(room)
                             /\ PushBackAsserts(t, ALLOCATED_LIST, f), "none")

(* alloc_frame with no memory for the array or at the limit: NULL reaches  *)
(* ref_from_frame, whose first assert stops the program                    *)
AllocNoRoom(bumpside) ==
  /\ fault = "none"
  /\ ft.first[FREE_LIST] = NULL_FRAME
  /\ ft.used = ft.capacity
  /\ \/ LimitReached(ft) /\ bumpside = 0
     \/ ~LimitReached(ft) /\ MapFails(free_uts, bumpside)
  /\ free_uts' = free_uts - bumpside
  /\ fault' = "null_frame"
  /\ UNCHANGED <<ft, mapped, held>>

(* alloc_frame with room in the array and no memory for the frame          *)
AllocNoFrame(bumpside, side) ==
  /\ fault = "none"
  /\ ft.first[FREE_LIST] = NULL_FRAME
  /\ LET bump == ft.used = ft.capacity
         uts  == IF bump THEN free_uts - 1 - bumpside ELSE free_uts
         room == MakeRoom(ft)
     IN  /\ bump => ~LimitReached(ft) /\ MapSucceeds(free_uts, bumpside)
         /\ MapFails(uts, side)
         /\ ft' = UnclaimEntry(ClaimEntry(room))
         /\ free_uts' = uts - side
         /\ fault' = FaultIf(FreshAsserts(room), "null_frame")
  /\ UNCHANGED <<mapped, held>>

(* mutant: freed frames are queued at the back of the free list            *)
FreeFrameFifo(r) ==
  /\ fault = "none"
  /\ IF r = NULL_FRAME
     THEN UNCHANGED <<ft, held>>
     ELSE /\ ft' = PushBack(RemoveFrame(ft, ALLOCATED_LIST, r), FREE_LIST, r)
          /\ held' = held \ {r}
  /\ UNCHANGED <<free_uts, mapped, fault>>

(* free_frame of a reference its caller holds, or of NULL_FRAME            *)
FreeFrame(r) ==
  /\ fault = "none"
  /\ IF r = NULL_FRAME
     THEN UNCHANGED <<ft, held, fault>>
     ELSE LET t == RemoveFrame(ft, ALLOCATED_LIST, r)
          IN  /\ ft' = PushFront(t, FREE_LIST, r)
              /\ held' = held \ {r}
              /\ fault' = FaultIf(/\ RefOk(ft, r)
                                  /\ RemoveFrameAsserts(ft, ALLOCATED_LIST, r)
                                  /\ PushFrontAsserts(t, FREE_LIST, r), "none")
  /\ UNCHANGED <<free_uts, mapped>>

(* the untypeds the table has turned into frames or array pages            *)
OwnUts == ft.pages + Cardinality(mapped)

(* other users of the untyped manager take and return 4K untypeds          *)
UtTraffic ==
  /\ fault = "none"
  /\ free_uts' \in 0 .. (TotalUts - OwnUts)
  /\ UNCHANGED <<ft, mapped, held, fault>>

Side == 0 .. MaxSide

Next ==
  \/ AllocFree
  \/ \E b, s \in Side : AllocFresh(b, s)
  \/ \E b \in Side : AllocNoRoom(b)
  \/ \E b, s \in Side : AllocNoFrame(b, s)
  \/ \E r \in held \cup {NULL_FRAME} : FreeFrame(r)
  \/ UtTraffic

Spec == Init /\ [][Next]_vars

-----------------------------------------------------------------------------
(* The type invariant.                                                     *)
TableType ==
  [used: Nat, capacity: Nat, pages: Nat,
   first: [Lists -> Refs], last: [Lists -> Refs], length: [Lists -> Int],
   next: [Refs -> Refs], prev: [Refs -> Refs],
   list_id: [Refs -> {NO_ENTRY, NO_LIST} \cup Lists]]

TypeOK ==
  /\ ft \in TableType
  /\ free_uts \in Nat
  /\ mapped \subseteq Refs
  /\ held \subseteq Refs
  /\ fault \in {"none", "assert", "null_frame"}

(* No assert() of the frame table fails, whatever the order of             *)
(* allocations, frees and failed mappings (except the one alloc_frame      *)
(* itself runs into when it has no frame to return, which is fault         *)
(* "null_frame").                                                          *)
AssertsHold == fault # "assert"

(* The links of the two lists are mutually inverse and stay within their   *)
(* list: what push_front, push_back, pop_front and remove_frame rely on    *)
(* when they patch only the neighbours of a frame.                         *)
LinksOf(t, l) ==
  /\ (t.first[l] = NULL_FRAME) <=> (t.last[l] = NULL_FRAME)
  /\ t.first[l] # NULL_FRAME => t.list_id[t.first[l]] = l
  /\ t.last[l] # NULL_FRAME => t.list_id[t.last[l]] = l
  /\ \A r \in Refs : t.list_id[r] = l =>
       /\ IF t.next[r] = NULL_FRAME THEN t.last[l] = r
          ELSE t.list_id[t.next[r]] = l /\ t.prev[t.next[r]] = r
       /\ IF t.prev[r] = NULL_FRAME THEN t.first[l] = r
          ELSE t.list_id[t.prev[r]] = l /\ t.next[t.prev[r]] = r
  /\ t.first[l] # NULL_FRAME => t.prev[t.first[l]] = NULL_FRAME
  /\ t.last[l] # NULL_FRAME => t.next[t.last[l]] = NULL_FRAME

LinksConsistent ==
  /\ \A l \in Lists : LinksOf(ft, l)
  /\ \A r \in Refs : ft.list_id[r] \notin Lists =>
       ft.next[r] = NULL_FRAME /\ ft.prev[r] = NULL_FRAME

(* Following next never goes round in a circle: every nonempty set of      *)
(* frames has a frame whose successor is outside it.                       *)
NoCycleIn(t) ==
  \A S \in SUBSET (Refs \ {NULL_FRAME}) :
    S # {} => \E r \in S : t.next[r] \notin S

NoCycle == NoCycleIn(ft)

(* The length kept "for debugging" is the number of frames on the list.    *)
LengthsCorrect ==
  \A l \in Lists :
    ft.length[l] = Cardinality({r \in Refs : ft.list_id[r] = l})

(* Whatever the order of push_front, push_back, pop_front and remove_frame,*)
(* both lists stay doubly linked, acyclic and correctly counted.           *)
ListsWellFormed == LinksConsistent /\ NoCycle /\ LengthsCorrect

(* The allocated list holds exactly the frames in callers' hands, so       *)
(* alloc_frame, which takes from the free list or a fresh entry, never     *)
(* hands one frame to two callers; the sentinel is never handed out.       *)
HeldAreAllocated ==
  /\ held = {r \in Refs : ft.list_id[r] = ALLOCATED_LIST}
  /\ NULL_FRAME \notin held

(* Across failed and successful mappings, the entries the table counts in  *)
(* used are exactly those with a page mapped at their frame_data address,  *)
(* and all lie inside the array pages that are mapped, and the limit.      *)
EveryFrameBacked ==
  /\ mapped = 1 .. (ft.used - 1)
  /\ ft.used <= ft.capacity
  /\ ft.capacity = IF FrameLimit # 0 /\ FrameLimit < ft.pages * FramesPerPage
                   THEN FrameLimit ELSE ft.pages * FramesPerPage
  /\ \A r \in Refs : ft.list_id[r] \in Lists => r \in mapped

(* The untypeds in the table and those still free never exceed the         *)
(* machine's: a frame consumes one when it is created and none when it is  *)
(* recycled.                                                               *)
UtsConserved == OwnUts + free_uts <= TotalUts

(* The state has its type, and whichever step of a growth fails, no frame  *)
(* is counted without its page and no untyped is counted twice.            *)
FramesAccounted == TypeOK /\ EveryFrameBacked /\ UtsConserved

(* alloc_frame "returns NULL if there are no free untypeds and an untyped  *)
(* could not be allocated" (frame_table.h:100-101): the program goes on.   *)
AllocFailureReturns == fault # "null_frame"
=============================================================================
