------------------------------ MODULE UtTable -------------------------------
(***************************************************************************)
(* The untyped manager (sos/src/ut.c): one free list per object size, from *)
(* the smallest (level 0) to 4K (level Top).  A request for a size with an *)
(* empty list takes the next larger untyped, found by recursion, and       *)
(* splits it in two; nothing is ever merged.                               *)
(*                                                                         *)
(* A block is a ut_t and the memory it stands for.  The recursion of       *)
(* ut_alloc is unfolded: UtAlloc is the descent to the first size with a   *)
(* free block, and every return from it is a Split step, so that each      *)
(* failure point of a level is an outcome of one step.                     *)
(***************************************************************************)
EXTENDS Integers, Sequences, Functions

CONSTANTS
  NumPages,        \* non-device 4K untypeds
  Top,             \* seL4_PageBits - seL4_EndpointBits
  StructsPerPage,  \* ut_t structures in a 4K frame, 256
  MaxGrow          \* most 4K untypeds one call takes to grow the cspace

ASSUME UtTableAssumption ==
  /\ NumPages \in Nat
  /\ Top \in Nat \ {0}
  /\ StructsPerPage \in Nat \ {0, 1}
  /\ MaxGrow \in Nat

(* The arithmetic of the sizes, which the provers do not know.             *)
ASSUME PowersOfTwo ==
  \A n \in 0 .. Top : 2^n \in Nat \ {0} /\ (n > 0 => 2^n = 2 * 2^(n - 1))

VARIABLES
  lists,   \* free_untypeds: per size, the free blocks, head first
  spare,   \* length of free_structures
  owned,   \* blocks in callers' hands
  call,    \* the ut_alloc in progress, if any: size wanted, block to split
  gone,    \* 4K blocks that left the allocator for good: structures, parts
           \* of the cspace, or lost when ensure_new_structures failed
  underflow  \* TRUE once a structure was popped from an empty free_structures

utVars == <<lists, spare, owned, call, gone, underflow>>

Levels == 0 .. Top
Pages == 1 .. NumPages
NoCall == [want |-> -1]

Page(p) == [page |-> p, lvl |-> Top, off |-> 0]

(* mutant: size_bits is not set                                            *)
HalfUnsized(b, i) == [page |-> b.page, lvl |-> b.lvl, off |-> 2 * b.off + i]

(* the two halves of a block, in the order they are retyped                *)
Half(b, i) == [page |-> b.page, lvl |-> b.lvl - 1, off |-> 2 * b.off + i]

Push(ls, b) == [ls EXCEPT ![b.lvl] = <<b>> \o @]

(* the lists without the first n blocks of 4K                              *)
Drop4k(ls, n) == [ls EXCEPT ![Top] = SubSeq(@, n + 1, Len(@))]

First4k(ls, n) == {ls[Top][i] : i \in 1 .. n}

-----------------------------------------------------------------------------
(* ut_add_untyped_range has pushed the pages one by one                    *)
UtInit ==
  /\ lists = [l \in Levels |->
                IF l = Top THEN [i \in 1 .. NumPages |-> Page(NumPages + 1 - i)]
                ELSE <<>>]
  /\ spare = 0
  /\ owned = {}
  /\ call = NoCall
  /\ gone = {}
  /\ underflow = FALSE

(* mutant: the head of the list is not advanced                            *)
UtAllocKeeps(want, l) ==
  /\ call = NoCall
  /\ want = l
  /\ lists[l] # <<>>
  /\ owned' = owned \cup {Head(lists[l])}
  /\ UNCHANGED <<lists, spare, call, gone, underflow>>

(* mutant: splits a larger block although there is one of the right size   *)
UtAllocAny(want, l) ==
  /\ call = NoCall
  /\ want < l
  /\ lists[l] # <<>>
  /\ lists' = [lists EXCEPT ![l] = Tail(@)]
  /\ call' = [want |-> want, larger |-> Head(lists[l])]
  /\ UNCHANGED <<spare, owned, gone, underflow>>

(* ut_alloc and, for 4K, ut_alloc_4k_untyped: down to the smallest size    *)
(* with a free block, l.  Larger than wanted: a split is needed.           *)
UtAlloc(want, l) ==
  /\ call = NoCall
  /\ want <= l
  /\ lists[l] # <<>> /\ \A k \in want .. (l - 1) : lists[k] = <<>>
  /\ lists' = [lists EXCEPT ![l] = Tail(@)]
  /\ IF l = want
     THEN owned' = owned \cup {Head(lists[l])} /\ UNCHANGED call
     ELSE call' = [want |-> want, larger |-> Head(lists[l])] /\ UNCHANGED owned
  /\ UNCHANGED <<spare, gone, underflow>>

(* ... and no size from want up has one: NULL                              *)
UtAllocFails(want) ==
  /\ call = NoCall
  /\ \A k \in want .. Top : lists[k] = <<>>
  /\ UNCHANGED utVars

(* mutant: the larger block is not freed                                   *)
GiveUpLeaks(ls) ==
  /\ lists' = ls
  /\ call' = NoCall
  /\ UNCHANGED owned

(* ut_free of the larger block and NULL to every caller of the recursion   *)
GiveUp(ls) ==
  /\ lists' = Push(ls, call.larger)
  /\ call' = NoCall
  /\ UNCHANGED owned

(* mutant: looks at the first structure only                               *)
EnoughOne(n) == n >= 1

(* ensure_new_structures: there are two structures to pop                  *)
Enough(n) == n >= 2

(* ensure_new_structures fails: no 4K untyped, or one that is popped and   *)
(* then lost because it gets no slot or cannot be mapped; grow untypeds    *)
(* went into the cspace on the way                                         *)
SplitNoStructures(grow) ==
  /\ call # NoCall
  /\ ~Enough(spare)
  /\ \/ /\ lists[Top] = <<>>
        /\ grow = 0
        /\ GiveUp(lists)
        /\ UNCHANGED gone
     \/ /\ 1 + grow <= Len(lists[Top])
        /\ gone' = gone \cup First4k(lists, 1 + grow)
        /\ GiveUp(Drop4k(lists, 1 + grow))
  /\ UNCHANGED <<spare, underflow>>

(* The rest of a level of ut_alloc, from the state ensure_new_structures   *)
(* leaves (the page it took and those the cspace took are the first taken  *)
(* of the 4K list).  How it ends:                                          *)
(*   "slot1"    no slot for the first half: its structure is lost          *)
(*   "slot2"    no slot for the second: both structures are lost           *)
(*   "retype1"  the first retype fails: the second structure is lost       *)
(*   "retype2"  the second retype fails: both structures go back           *)
(*   "ok"       both halves go on their list, and the second is popped     *)
Outcomes == {"slot1", "slot2", "retype1", "retype2", "ok"}

Lost(outcome) ==
  CASE outcome \in {"slot1", "retype1"} -> 1
    [] outcome = "retype2" -> 0
    [] OTHER -> 2

(* mutant: the first split is taken for the last                           *)
DoneEarly(b) == TRUE

(* a block of the size wanted has been made                                *)
Done(b) == b.lvl = call.want

Split(grow, outcome) ==
  /\ call # NoCall
  /\ LET more  == ~Enough(spare)
         taken == IF more THEN 1 + grow ELSE grow
         have  == IF more THEN spare + StructsPerPage ELSE spare
         ls    == Drop4k(lists, taken)
         one   == Half(call.larger, 0)
         two   == Half(call.larger, 1)
     IN  /\ taken <= Len(lists[Top])
         /\ gone' = gone \cup First4k(lists, taken)
         /\ spare' = have - Lost(outcome)
         /\ underflow' = (underflow \/ have < IF outcome = "slot1" THEN 1 ELSE 2)
         /\ IF outcome # "ok" THEN GiveUp(ls)
            ELSE /\ lists' = Push(ls, one)
                 /\ IF Done(two)
                    THEN owned' = owned \cup {two} /\ call' = NoCall
                    ELSE call' = [call EXCEPT !.larger = two] /\ UNCHANGED owned

UtFree(b) ==
  /\ call = NoCall
  /\ lists' = Push(lists, b)
  /\ owned' = owned \ {b}
  /\ UNCHANGED <<spare, call, gone, underflow>>

Grow == 0 .. MaxGrow

InCall ==
  \/ \E g \in Grow : SplitNoStructures(g)
  \/ \E g \in Grow, o \in Outcomes : Split(g, o)

UtNext ==
  \/ \E want, l \in Levels : UtAlloc(want, l)
  \/ \E want \in Levels : UtAllocFails(want)
  \/ InCall
  \/ \E b \in owned : UtFree(b)

UtSpec == UtInit /\ [][UtNext]_utVars

-----------------------------------------------------------------------------
Blocks ==
  UNION {[page: Pages, lvl: {l}, off: 0 .. (2^(Top - l) - 1)] : l \in Levels}

(* The type invariant.                                                     *)
UtTypeOK ==
  /\ lists \in [Levels -> Seq(Blocks)]
  /\ \A l \in Levels : \A i \in DOMAIN lists[l] : lists[l][i].lvl = l
  /\ spare \in Nat
  /\ owned \subseteq Blocks
  /\ call = NoCall \/ call \in [want: Levels, larger: Blocks]
  /\ gone \subseteq Blocks
  /\ underflow \in BOOLEAN

Cells(b) ==
  {b.page} \X ((b.off * 2^b.lvl) .. ((b.off + 1) * 2^b.lvl - 1))

Listed == UNION {Range(lists[l]) : l \in Levels}

Larger == IF call = NoCall THEN {} ELSE {call.larger}

(* Two untypeds that are free, in use or being split never share memory,   *)
(* and none is on a list twice, both free and in use, or either of them    *)
(* and gone: what is allocated from ut_alloc is nobody else's.             *)
NoOverlap ==
  /\ \A l \in Levels : IsInjective(lists[l])
  /\ Listed \cap owned = {} /\ Larger \cap (owned \cup Listed) = {}
  /\ gone \cap (Listed \cup owned \cup Larger) = {}
  /\ \A b, c \in Listed \cup owned \cup Larger \cup gone :
       b # c => Cells(b) \cap Cells(c) = {}

(* However a split fails, the memory to be split is not lost: every cell   *)
(* of every page is free, in use, being split, or in a page that was taken *)
(* for bookkeeping.                                                        *)
MemoryConserved ==
  UNION {Cells(b) : b \in Listed \cup owned \cup Larger \cup gone}
    = Pages \X (0 .. (2^Top - 1))

(* pop never runs on an empty free_structures: ensure_new_structures is    *)
(* asked before two structures are taken.                                  *)
StructuresReady == ~underflow

(* At every moment, in the middle of a ut_alloc too, the untypeds that are *)
(* free, in use, being split or gone into bookkeeping are well typed and   *)
(* divide the memory among them: none of it is lost or in two of them, and *)
(* each has its ut_t structure.                                            *)
MemoryPartitioned == UtTypeOK /\ NoOverlap /\ MemoryConserved /\ StructuresReady

(* A larger untyped is split only because no smaller one would do, however *)
(* the nested growth of the cspace changes the lists meanwhile, and the    *)
(* caller then gets one untyped, of the size it asked for.                 *)
SplitsOnlyIfNeeded ==
  /\ [](call # NoCall =>
          \A k \in call.want .. (call.larger.lvl - 1) : lists[k] = <<>>)
  /\ [][call # NoCall /\ owned' # owned =>
          \E b \in owned' : owned' = owned \cup {b} /\ b.lvl = call.want]_utVars
=============================================================================
