---------------------------- MODULE KernelVSpace ----------------------------
(***************************************************************************)
(* The address spaces of the aarch64 seL4 kernel: the ASID table and its   *)
(* pools, the four levels of translation tables, the frames, the mapping   *)
(* information each capability carries, the translation cache (TLB) and    *)
(* the translation root the processor runs on.                             *)
(*                                                                         *)
(* A table of level k is mapped in an entry of a table of level k + 1, and *)
(* a frame of level k in an entry of a table of level k: page table = 1,   *)
(* page directory = 2, page upper directory = 3, page global directory =   *)
(* Depth = 4, and small, large and huge pages = 1, 2, 3.  The code of the  *)
(* levels is the same text three times over; here it is one definition     *)
(* with the level as a parameter.                                          *)
(*                                                                         *)
(* The mapping information is redundant: a capability says where its       *)
(* object is mapped, the tables say what is mapped there, and either may   *)
(* have changed since the other was written.  Every unmapping therefore    *)
(* looks before it writes; this module is about whether that is enough.    *)
(***************************************************************************)
EXTENDS Integers, FiniteSetsExt, Bags

CONSTANTS Objects,   \* blocks of memory, one kernel object each
          Kind,      \* object -> what its memory is retyped to
          BootPool,  \* the ASID pool made at boot
          Depth,     \* levels of translation table: 4
          Entries,   \* entries of a table and of an ASID pool: 512
          NumPools,  \* nASIDPools: 128
          Addrs,     \* page numbers the invocations name
          MaxCaps,   \* slots, outside the running thread's VTable
          Nil        \* no object

ASSUME VSpaceConstants ==
  /\ Depth \in Nat \ {0} /\ Entries \in Nat \ {0, 1} /\ NumPools \in Nat \ {0}
  /\ Nil \notin Objects /\ MaxCaps \in Nat
  /\ Kind \in [Objects -> [kind : {"pool"}, level : {0}]
                            \cup [kind : {"table"}, level : 1 .. Depth]
                            \cup [kind : {"frame"}, level : 1 .. Depth - 1]]
  /\ BootPool \in Objects /\ Kind[BootPool].kind = "pool"
  /\ Addrs \subseteq 0 .. (Entries ^ Depth - 1)

VARIABLES caps,      \* the bag of capabilities: which slot holds one is all the same
          vtable,    \* the capability in the VTable slot of the running thread
          entry,     \* object -> its entries, meaningful for tables and pools
          asidTable, \* armKSASIDTable
          tlb,       \* translations the processor has cached
          ttbr       \* the translation root the processor walks, with its ASID

vars == <<caps, vtable, entry, asidTable, tlb, ttbr>>

-----------------------------------------------------------------------------
(* Capabilities, objects and entries.  asid = 0 is asidInvalid and, for a  *)
(* table, capPTIsMapped = 0.                                                *)

NoCap == [obj |-> Nil, asid |-> 0, vaddr |-> 0]
Empty == [kind |-> "empty", obj |-> Nil]
Cleared == [i \in 0 .. Entries - 1 |-> Empty]
Global == [asid |-> 0, root |-> Nil]
IT_ASID == 1

Has(c, kind) == c # NoCap /\ Kind[c.obj].kind = kind
Level(c) == Kind[c.obj].level
IsRoot(c) == Has(c, "table") /\ Level(c) = Depth

\* The bag with a capability added, taken out, or replaced where it is.
Room == BagCardinality(caps) < MaxCaps
Plus(c) == IF c = NoCap THEN caps ELSE caps (+) SetToBag({c})
Minus(c) == IF c = NoCap THEN caps ELSE caps (-) SetToBag({c})
Update(c, d) == Minus(c) (+) SetToBag({d})

CapsOf(o) == {c \in BagToSet(caps) \cup {vtable} : c.obj = o}

Designators(o) == [c \in CapsOf(o) |-> CopiesIn(c, caps) + (IF vtable = c THEN 1 ELSE 0)]

\* isFinalCapability: no other capability designates the object.
Final(c) == Designators(c.obj) = [x \in {c} |-> 1]

\* GET_PGD_INDEX .. GET_PT_INDEX, and an address rounded down to what one
\* entry of a table of level k covers.
Index(v, k) == (v \div (Entries ^ (k - 1))) % Entries
RoundDown(v, k) == v - (v % (Entries ^ (k - 1)))

Entry(e, t, v, k) == e[t][Index(v, k)]

\* lookupPGDSlot .. lookupPTSlot: the table of level k that translates v.
Table(e, root, v, k) ==
  LET walk[j \in 0 .. Depth - k] ==
        IF j = 0 THEN root
        ELSE LET t == walk[j - 1]
                 x == IF t = Nil THEN Empty ELSE Entry(e, t, v, Depth - j + 1)
             IN  IF x.kind = "table" THEN x.obj ELSE Nil
  IN  walk[Depth - k]

findVSpaceForASID(e, at, a) ==
  LET pool == at[a \div Entries]
  IN  IF pool = Nil THEN Nil ELSE e[pool][a % Entries].obj

\* The page that a walk from a root finds for v: its frame and the address its
\* first byte has, none if the walk meets an invalid entry.
Pages(e, root, v) ==
  {[va |-> RoundDown(v, k), frame |-> Entry(e, Table(e, root, v, k), v, k).obj] :
     k \in {k \in 1 .. Depth - 1 :
              /\ Table(e, root, v, k) # Nil
              /\ Entry(e, Table(e, root, v, k), v, k).kind = "page"}}

\* setVMRoot: the address space of a thread with c in its VTable, if it is the one
\* its ASID names.
setVMRoot(e, at, c) ==
  IF IsRoot(c) /\ c.asid # 0 /\ findVSpaceForASID(e, at, c.asid) = c.obj
  THEN [asid |-> c.asid, root |-> c.obj]
  ELSE Global

Capability == [obj : Objects, asid : 0 .. (NumPools * Entries - 1),
               vaddr : 0 .. (Entries ^ Depth - 1)]

TypeOK ==
  /\ IsABag(caps) /\ BagToSet(caps) \subseteq Capability
  /\ vtable \in {c \in Capability : IsRoot(c)} \cup {NoCap}
  /\ entry \in [Objects -> [0 .. Entries - 1 ->
                   [kind : {"empty", "table", "page"}, obj : Objects \cup {Nil}]]]
  /\ asidTable \in [0 .. NumPools - 1 -> Objects \cup {Nil}]
  /\ tlb \subseteq [asid : Nat, va : Nat, frame : Objects]
  /\ ttbr \in [asid : Nat, root : Objects \cup {Nil}]

\* After boot: the initial thread runs in an address space of its own, whose root
\* has the ASID 1 of the pool made with it (its own pages are left out); all other
\* memory is free.
Init ==
  \E r \in {o \in Objects : Kind[o] = [kind |-> "table", level |-> Depth]} :
    /\ vtable = [obj |-> r, asid |-> IT_ASID, vaddr |-> 0]
    /\ caps = SetToBag({[NoCap EXCEPT !.obj = BootPool], vtable})
    /\ entry = [[o \in Objects |-> Cleared]
                  EXCEPT ![BootPool][IT_ASID] = [kind |-> "table", obj |-> r]]
    /\ asidTable = [p \in 0 .. NumPools - 1 |-> IF p = 0 THEN BootPool ELSE Nil]
    /\ tlb = {} /\ ttbr = [asid |-> IT_ASID, root |-> r]

-----------------------------------------------------------------------------
(* Unmapping, shared by the invocations and by the deletion of a capability *)

ClearEntry(t, i) == entry' = [entry EXCEPT ![t][i] = Empty]
invalidateTLBByASID(a) == tlb' = {x \in tlb : x.asid # a}
invalidateTLBByASIDVA(a, v) == tlb' = {x \in tlb : ~(x.asid = a /\ x.va = v)}

\* mutant: whatever table is mapped there.
ParentOfAnybody(c, k) ==
  LET root == findVSpaceForASID(entry, asidTable, c.asid)
      t == IF root = Nil THEN Nil ELSE Table(entry, root, c.vaddr, k + 1)
  IN  IF t # Nil /\ Entry(entry, t, c.vaddr, k + 1).kind = "table" THEN t ELSE Nil

\* pageUpperDirectoryMapped, pageDirectoryMapped, pageTableMapped: the table
\* whose entry still maps the table of this capability, where it says.
ParentOf(c, k) ==
  LET root == findVSpaceForASID(entry, asidTable, c.asid)
      t == IF root = Nil THEN Nil ELSE Table(entry, root, c.vaddr, k + 1)
  IN  IF t # Nil /\ Entry(entry, t, c.vaddr, k + 1) = [kind |-> "table", obj |-> c.obj]
      THEN t ELSE Nil

\* mutant: an unmapped table keeps its entries.
unmapTableUncleared(c, k, clear) ==
  LET t == ParentOf(c, k)
  IN  IF t = Nil THEN UNCHANGED <<entry, tlb>>
      ELSE ClearEntry(t, Index(c.vaddr, k + 1)) /\ invalidateTLBByASID(c.asid)

\* unmapPageUpperDirectory, unmapPageDirectory, unmapPageTable; clears the
\* memory of the table too when an invocation unmaps it.
unmapTable(c, k, clear) ==
  LET t == ParentOf(c, k)
      cut == IF t = Nil THEN entry
             ELSE [entry EXCEPT ![t][Index(c.vaddr, k + 1)] = Empty]
  IN  /\ entry' = IF clear THEN [cut EXCEPT ![c.obj] = Cleared] ELSE cut
      /\ IF t = Nil THEN UNCHANGED tlb ELSE invalidateTLBByASID(c.asid)

\* mutant: whatever page is mapped there is unmapped.
unmapPageOfAnybody(c, k) ==
  LET root == findVSpaceForASID(entry, asidTable, c.asid)
      t == IF root = Nil THEN Nil ELSE Table(entry, root, c.vaddr, k)
  IN  IF t = Nil THEN UNCHANGED <<entry, tlb>>
      ELSE /\ IF Entry(entry, t, c.vaddr, k).kind = "page"
              THEN ClearEntry(t, Index(c.vaddr, k)) ELSE UNCHANGED entry
           /\ invalidateTLBByASIDVA(c.asid, c.vaddr)

\* mutant: the translation of a page is invalidated only if it was not the frame's.
unmapPageCached(c, k) ==
  LET root == findVSpaceForASID(entry, asidTable, c.asid)
      t == IF root = Nil THEN Nil ELSE Table(entry, root, c.vaddr, k)
  IN  IF t = Nil THEN UNCHANGED <<entry, tlb>>
      ELSE IF Entry(entry, t, c.vaddr, k) = [kind |-> "page", obj |-> c.obj]
           THEN ClearEntry(t, Index(c.vaddr, k)) /\ UNCHANGED tlb
           ELSE UNCHANGED entry /\ invalidateTLBByASIDVA(c.asid, c.vaddr)

\* unmapPage: an early return where the walk fails, and otherwise the TLB
\* entry is invalidated whether or not the page was this frame's.
unmapPage(c, k) ==
  LET root == findVSpaceForASID(entry, asidTable, c.asid)
      t == IF root = Nil THEN Nil ELSE Table(entry, root, c.vaddr, k)
  IN  IF t = Nil THEN UNCHANGED <<entry, tlb>>
      ELSE /\ IF Entry(entry, t, c.vaddr, k) = [kind |-> "page", obj |-> c.obj]
              THEN ClearEntry(t, Index(c.vaddr, k)) ELSE UNCHANGED entry
           /\ invalidateTLBByASIDVA(c.asid, c.vaddr)

\* mutant: the ASID is freed whatever root it names by now.
deleteASIDOfAnybody(c) ==
  LET pool == asidTable[c.asid \div Entries]
  IN  IF pool # Nil
      THEN /\ ClearEntry(pool, c.asid % Entries)
           /\ invalidateTLBByASID(c.asid)
           /\ ttbr' = setVMRoot(entry', asidTable, vtable)
      ELSE UNCHANGED <<entry, tlb, ttbr>>

\* deleteASID: only if the ASID still names this root.
deleteASID(c) ==
  IF findVSpaceForASID(entry, asidTable, c.asid) = c.obj
  THEN /\ ClearEntry(asidTable[c.asid \div Entries], c.asid % Entries)
       /\ invalidateTLBByASID(c.asid)
       /\ ttbr' = setVMRoot(entry', asidTable, vtable)
  ELSE UNCHANGED <<entry, tlb, ttbr>>

\* mutant: the running thread stays on the tables of the deleted pool.
deleteASIDPoolRunning(c) ==
  LET p == c.asid \div Entries
  IN  /\ UNCHANGED ttbr
      /\ IF asidTable[p] = c.obj
         THEN /\ asidTable' = [asidTable EXCEPT ![p] = Nil]
              /\ tlb' = {x \in tlb : x.asid \div Entries # p}
         ELSE UNCHANGED <<asidTable, tlb>>

\* deleteASIDPool: only if the table still names this pool.
deleteASIDPool(c) ==
  LET p == c.asid \div Entries
  IN  IF asidTable[p] = c.obj
      THEN /\ asidTable' = [asidTable EXCEPT ![p] = Nil]
           /\ tlb' = {x \in tlb : ~(/\ x.asid \div Entries = p
                                    /\ entry[c.obj][x.asid % Entries] # Empty)}
           /\ ttbr' = setVMRoot(entry, asidTable', vtable)
      ELSE UNCHANGED <<asidTable, tlb, ttbr>>

-----------------------------------------------------------------------------
(* The invocations *)

\* invokeUntyped_Retype of a free block into a table or a frame: its memory has
\* been cleared.
Retype(o) ==
  /\ Room /\ CapsOf(o) = {} /\ Kind[o].kind # "pool"
  /\ caps' = Plus([NoCap EXCEPT !.obj = o])
  /\ entry' = [entry EXCEPT ![o] = Cleared]
  /\ UNCHANGED <<vtable, asidTable, tlb, ttbr>>

\* performASIDControlInvocation: the first free place of the ASID table.
MakePool(o) ==
  LET free == {p \in DOMAIN asidTable : asidTable[p] = Nil}
  IN  /\ Room /\ CapsOf(o) = {} /\ Kind[o].kind = "pool" /\ free # {}
      /\ caps' = Plus([NoCap EXCEPT !.obj = o, !.asid = Min(free) * Entries])
      /\ entry' = [entry EXCEPT ![o] = Cleared]
      /\ asidTable' = [asidTable EXCEPT ![Min(free)] = o]
      /\ UNCHANGED <<vtable, tlb, ttbr>>

\* performASIDPoolInvocation: the pool's first free ASID, never ASID 0, to a
\* root that has not had one.
Assign(c, r) ==
  LET free == {i \in 0 .. Entries - 1 : c.asid + i # 0 /\ entry[c.obj][i] = Empty}
  IN  /\ Has(c, "pool") /\ IsRoot(r) /\ r.asid = 0
      /\ asidTable[c.asid \div Entries] = c.obj /\ free # {}
      /\ caps' = Update(r, [r EXCEPT !.asid = c.asid + Min(free)])
      /\ entry' = [entry EXCEPT ![c.obj][Min(free)] = [kind |-> "table", obj |-> r.obj]]
      /\ UNCHANGED <<vtable, asidTable, tlb, ttbr>>

\* The checks every Map invocation makes of the root it is given.
ValidRoot(r) ==
  IsRoot(r) /\ r.asid # 0 /\ findVSpaceForASID(entry, asidTable, r.asid) = r.obj

\* ARMPageUpperDirectoryMap, ARMPageDirectoryMap, ARMPageTableMap: into an entry
\* that is empty.
MapTable(c, r, v) ==
  LET k == Level(c) + 1
      va == RoundDown(v, k)
      t == Table(entry, r.obj, va, k)
  IN  /\ Has(c, "table") /\ Level(c) < Depth /\ c.asid = 0
      /\ ValidRoot(r)
      /\ t # Nil /\ Entry(entry, t, va, k) = Empty
      /\ caps' = Update(c, [c EXCEPT !.asid = r.asid, !.vaddr = va])
      /\ entry' = [entry EXCEPT ![t][Index(va, k)] = [kind |-> "table", obj |-> c.obj]]
      /\ UNCHANGED <<vtable, asidTable, tlb, ttbr>>

\* performHugePageInvocationMap, performLargePageInvocationMap and
\* performSmallPageInvocationMap: the frame is written into the entry of v in t; if
\* that held a page, its translation is invalidated.
performPageMap(c, a, v, t) ==
  LET k == Level(c)
  IN  /\ entry' = [entry EXCEPT ![t][Index(v, k)] = [kind |-> "page", obj |-> c.obj]]
      /\ IF Entry(entry, t, v, k).kind = "page" THEN invalidateTLBByASIDVA(a, v)
         ELSE UNCHANGED tlb

\* ARMPageMap of a small, a large or a huge page: into an entry that is empty.
MapFrame(c, r, v) ==
  LET t == Table(entry, r.obj, v, Level(c))
  IN  /\ Has(c, "frame") /\ c.asid = 0
      /\ ValidRoot(r)
      /\ v = RoundDown(v, Level(c))
      /\ t # Nil /\ Entry(entry, t, v, Level(c)) = Empty
      /\ caps' = Update(c, [c EXCEPT !.asid = r.asid, !.vaddr = v])
      /\ performPageMap(c, r.asid, v, t)
      /\ UNCHANGED <<vtable, asidTable, ttbr>>

\* ARMPageRemap: the frame is written again where its capability says it is mapped,
\* whatever the entry holds by now.  The result of the lookup is not looked at: where
\* it found no table the kernel reads through NULL, and there is no next state.
Remap(c, r) ==
  LET t == Table(entry, r.obj, c.vaddr, Level(c))
  IN  /\ Has(c, "frame") /\ ValidRoot(r) /\ c.asid = r.asid
      /\ t # Nil
      /\ performPageMap(c, c.asid, c.vaddr, t)
      /\ UNCHANGED <<caps, vtable, asidTable, ttbr>>

\* ARMPageUpperDirectoryUnmap, ARMPageDirectoryUnmap, ARMPageTableUnmap.
UnmapTable(c) ==
  /\ Has(c, "table") /\ Level(c) < Depth /\ Final(c) /\ c.asid # 0
  /\ unmapTable(c, Level(c), TRUE)
  /\ caps' = Update(c, [c EXCEPT !.asid = 0, !.vaddr = 0])
  /\ UNCHANGED <<vtable, asidTable, ttbr>>

\* ARMPageUnmap.
UnmapFrame(c) ==
  /\ Has(c, "frame") /\ c.asid # 0
  /\ unmapPage(c, Level(c))
  /\ caps' = Update(c, [c EXCEPT !.asid = 0, !.vaddr = 0])
  /\ UNCHANGED <<vtable, asidTable, ttbr>>

\* Arch_deriveCap: the copy of a frame capability is unmapped, a table or a root
\* is copied only while it is mapped.
Arch_deriveCap(c) == IF Has(c, "frame") THEN [c EXCEPT !.asid = 0, !.vaddr = 0] ELSE c

Copy(c) ==
  /\ Room /\ (Has(c, "table") => c.asid # 0)
  /\ caps' = Plus(Arch_deriveCap(c))
  /\ UNCHANGED <<vtable, entry, asidTable, tlb, ttbr>>

\* Arch_finaliseCap: a frame is unmapped with every capability to it, the others
\* with the last.
Arch_finaliseCap(c) ==
  CASE Has(c, "frame") /\ c.asid # 0 ->
         unmapPage(c, Level(c)) /\ UNCHANGED <<asidTable, ttbr>>
    [] Has(c, "table") /\ Level(c) < Depth /\ c.asid # 0 /\ Final(c) ->
         unmapTable(c, Level(c), FALSE) /\ UNCHANGED <<asidTable, ttbr>>
    [] IsRoot(c) /\ c.asid # 0 /\ Final(c) ->
         deleteASID(c) /\ UNCHANGED asidTable
    [] Has(c, "pool") /\ Final(c) ->
         deleteASIDPool(c) /\ UNCHANGED entry
    [] OTHER -> UNCHANGED <<entry, asidTable, tlb, ttbr>>

Delete(c) ==
  /\ Arch_finaliseCap(c)
  /\ caps' = Minus(c)
  /\ UNCHANGED vtable

DeleteVTable ==
  /\ vtable # NoCap
  /\ Arch_finaliseCap(vtable)
  /\ vtable' = NoCap
  /\ UNCHANGED caps

\* switchToThread: a thread with c in its VTable runs, the one before keeps its own.
Switch(c) ==
  /\ IsRoot(c) \/ c = NoCap
  /\ caps' = IF vtable = NoCap THEN Minus(c) ELSE Minus(c) (+) SetToBag({vtable})
  /\ vtable' = c
  /\ ttbr' = setVMRoot(entry, asidTable, c)
  /\ UNCHANGED <<entry, asidTable, tlb>>

\* The processor walks the tables from ttbr and caches what it finds.
Walk(v) ==
  /\ ttbr # Global
  /\ \E p \in Pages(entry, ttbr.root, v) :
       tlb' = tlb \cup {[asid |-> ttbr.asid, va |-> p.va, frame |-> p.frame]}
  /\ UNCHANGED <<caps, vtable, entry, asidTable, ttbr>>

Held == BagToSet(caps)

RetypeAny == \E o \in Objects : Retype(o)
MakeAnyPool == \E o \in Objects : MakePool(o)
AssignAny == \E c, r \in Held : Assign(c, r)
MapAnyTable == \E c, r \in Held, v \in Addrs : MapTable(c, r, v)
MapAnyFrame == \E c, r \in Held, v \in Addrs : MapFrame(c, r, v)
RemapAny == \E c, r \in Held : Remap(c, r)
UnmapAnyTable == \E c \in Held : UnmapTable(c)
UnmapAnyFrame == \E c \in Held : UnmapFrame(c)
CopyAny == \E c \in Held : Copy(c)
DeleteAny == \E c \in Held : Delete(c)
SwitchAny == \E c \in Held \cup {NoCap} : Switch(c)
WalkAny == \E v \in Addrs : Walk(v)

Next == \/ RetypeAny \/ MakeAnyPool \/ AssignAny \/ MapAnyTable \/ MapAnyFrame
        \/ RemapAny \/ UnmapAnyTable \/ UnmapAnyFrame \/ CopyAny \/ DeleteAny \/ DeleteVTable
        \/ SwitchAny \/ WalkAny

Spec == Init /\ [][Next]_vars

-----------------------------------------------------------------------------
(* Properties *)

ASIDs == 1 .. (NumPools * Entries - 1)
RootOf(a) == findVSpaceForASID(entry, asidTable, a)

\* Whatever a walk from an ASID in use can reach is alive and accounted for.  The
\* pool and the root have a capability that names the ASID; a table reached has
\* capabilities, all of them recording this ASID and address, so that it is
\* reached nowhere else and its deletion will find it; a frame reached has one
\* that records this mapping.  An unmapping that trusted a stale capability, or a
\* table mapped again with its old contents, would leave a walk that ends in
\* memory the kernel has already given to somebody else.
WalksReachOwned ==
  /\ TypeOK
  /\ \A p \in DOMAIN asidTable :
       LET o == asidTable[p]
       IN  o # Nil => Kind[o].kind = "pool" /\ \E c \in CapsOf(o) : c.asid = p * Entries
  /\ \A a \in ASIDs :
       RootOf(a) # Nil =>
         /\ Kind[RootOf(a)].level = Depth /\ CapsOf(RootOf(a)) # {}
         /\ \A c \in CapsOf(RootOf(a)) : c.asid = a
         /\ \A v \in Addrs, k \in 1 .. Depth :
              LET t == Table(entry, RootOf(a), v, k)
                  x == IF t = Nil THEN Empty ELSE Entry(entry, t, v, k)
                  here(c) == c.asid = a /\ c.vaddr = RoundDown(v, k)
              IN  CASE x.kind = "empty" -> TRUE
                    [] x.kind = "table" -> /\ Kind[x.obj] = [kind |-> "table", level |-> k - 1]
                                           /\ CapsOf(x.obj) # {}
                                           /\ \A c \in CapsOf(x.obj) : here(c)
                    [] x.kind = "page"  -> /\ Kind[x.obj] = [kind |-> "frame", level |-> k]
                                           /\ \E c \in CapsOf(x.obj) : here(c)

\* A translation the processor has cached is one a walk would find now: unmapping a
\* page, unmapping a table, deleting an ASID or a pool, and Remap of one page over
\* another of its size invalidate what may be cached, also when ASIDs are used
\* again.  It is not so for Remap of a large or a huge page over an entry that has
\* come to hold a table (vspace.c:1509 and 1526 ask only whether the entry holds a
\* page): it needs memory with both a table and a page of the level above it.
TlbCoherent ==
  \A x \in tlb : /\ RootOf(x.asid) # Nil
                 /\ [va |-> x.va, frame |-> x.frame] \in Pages(entry, RootOf(x.asid), x.va)

\* The processor never walks tables that are not, any more, the address space of
\* the ASID it runs with: deleteASID and deleteASIDPool move the running thread to
\* the global tables in the same kernel entry.
RunsOnLiveRoot == ttbr # Global => RootOf(ttbr.asid) = ttbr.root

\* Both, on a machine without the exception above: whatever is unmapped, deleted or
\* used again, the processor goes on neither with the old tables nor with a
\* translation from them.
TranslationsCurrent == TlbCoherent /\ RunsOnLiveRoot

\* The objects that the translation of v goes through.
Path(a, v) ==
  {asidTable[a \div Entries], RootOf(a)}
    \cup {Table(entry, RootOf(a), v, k) : k \in 1 .. Depth}
    \cup {p.frame : p \in Pages(entry, RootOf(a), v)}

Gone(a, v) ==
  /\ RootOf(a) # Nil /\ Pages(entry, RootOf(a), v) # {}
  /\ \/ findVSpaceForASID(entry', asidTable', a) = Nil
     \/ Pages(entry', findVSpaceForASID(entry', asidTable', a), v)
          # Pages(entry, RootOf(a), v)

\* The frame that v translates to is now one whose capability records this place.
Replaced(a, v) ==
  \E c \in Held : /\ Has(c, "frame") /\ c.asid = a /\ c.vaddr = RoundDown(v, Level(c))
                  /\ Pages(entry', RootOf(a)', v) = {[va |-> c.vaddr, frame |-> c.obj]}

\* A translation goes away only in a step on a capability to one of the objects it
\* goes through, or when Remap writes another frame in its place.  Deleting or
\* unmapping a capability whose ASID, or whose place in a table, has been given to
\* another root, table or frame since disturbs nobody: pageTableMapped, unmapPage and
\* deleteASID look at what is there before they write.
NoStrayUnmap ==
  [][\A a \in ASIDs, v \in Addrs :
       Gone(a, v) => \/ \E o \in Path(a, v) : Designators(o)' # Designators(o)
                     \/ Replaced(a, v)]_vars
=============================================================================
