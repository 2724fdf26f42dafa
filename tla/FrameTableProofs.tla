-------------------------- MODULE FrameTableProofs --------------------------
(***************************************************************************)
(* The frame table keeps its lists well formed for every number of         *)
(* untypeds, every page size and every frame limit but 1.                  *)
(***************************************************************************)
EXTENDS FrameTable, FiniteSetTheorems, TLAPS

(* The frames a list may hold are entries the table has initialised.       *)
Inside(t) ==
  /\ t.used <= t.capacity
  /\ \A r \in Refs : t.list_id[r] \in Lists => r # NULL_FRAME /\ r < t.used

Loose(t) ==
  \A r \in Refs : t.list_id[r] \notin Lists =>
    t.next[r] = NULL_FRAME /\ t.prev[r] = NULL_FRAME

Linked(t) == \A l \in Lists : LinksOf(t, l)

Members(t, l) == {r \in Refs : t.list_id[r] = l}

Counted(t) == \A l \in Lists : t.length[l] = Cardinality(Members(t, l))

(* A well-formed table: what every list operation expects and leaves.      *)
WellFormed(t) ==
  /\ t \in TableType
  /\ Inside(t)
  /\ Loose(t)
  /\ Linked(t)
  /\ NoCycleIn(t)
  /\ Counted(t)

-----------------------------------------------------------------------------
LEMMA Names ==
  /\ NULL_FRAME \in Refs
  /\ NO_LIST \notin Lists /\ NO_ENTRY \notin Lists
  /\ FREE_LIST \in Lists /\ ALLOCATED_LIST \in Lists
  /\ FREE_LIST # ALLOCATED_LIST
  /\ Refs \subseteq Nat
BY FrameTableAssumption DEF NULL_FRAME, NO_LIST, NO_ENTRY, FREE_LIST,
   ALLOCATED_LIST, Lists, Refs

(* The types of the fields the list operations read and write.             *)
Typed(t) ==
  /\ t.used \in Nat /\ t.capacity \in Nat /\ t.pages \in Nat
  /\ t.first \in [Lists -> Refs] /\ t.last \in [Lists -> Refs]
  /\ t.length \in [Lists -> Int]
  /\ t.next \in [Refs -> Refs] /\ t.prev \in [Refs -> Refs]
  /\ t.list_id \in [Refs -> {NO_ENTRY, NO_LIST} \cup Lists]

LEMMA Fields == ASSUME NEW t \in TableType PROVE Typed(t)
BY DEF TableType, Typed

(* A frame on a list passes the asserts of frame_from_ref.                 *)
LEMMA ListedRefOk ==
  ASSUME NEW t \in TableType, Inside(t), NEW r \in Refs, t.list_id[r] \in Lists
  PROVE  RefOk(t, r)
<1>1. r \in Nat /\ t.used \in Nat /\ t.capacity \in Nat
  BY Names, Fields DEF Typed
<1>2. r # NULL_FRAME /\ r < t.used /\ t.used <= t.capacity
  BY DEF Inside
<1>. QED BY <1>1, <1>2 DEF RefOk

(* How the number of frames of each list changes when one frame joins or   *)
(* leaves a list.                                                          *)
LEMMA MembersFinite ==
  ASSUME NEW t, NEW l PROVE IsFiniteSet(Members(t, l))
<1>1. IsFiniteSet(Refs)
  BY FS_Interval, FrameTableAssumption DEF Refs
<1>2. Members(t, l) \subseteq Refs
  BY DEF Members
<1>. QED BY <1>1, <1>2, FS_Subset

LEMMA CountAdd ==
  ASSUME NEW t, NEW u, NEW l \in Lists, NEW f \in Refs,
         t \in TableType, Counted(t), t.list_id[f] \notin Lists,
         u.list_id = [t.list_id EXCEPT ![f] = l],
         u.length = [t.length EXCEPT ![l] = t.length[l] + 1]
  PROVE  Counted(u)
<1> SUFFICES ASSUME NEW k \in Lists
             PROVE  u.length[k] = Cardinality(Members(u, k))
  BY DEF Counted
<1>1. CASE k = l
  <2>1. Members(u, k) = Members(t, k) \cup {f} /\ f \notin Members(t, k)
    BY <1>1 DEF Members, TableType
  <2>2. Cardinality(Members(u, k)) = Cardinality(Members(t, k)) + 1
    BY <2>1, MembersFinite, FS_AddElement, Zenon
  <2>. QED BY <2>2, <1>1 DEF Counted, TableType
<1>2. CASE k # l
  <2>1. Members(u, k) = Members(t, k)
    BY <1>2 DEF Members, TableType
  <2>. QED BY <2>1, <1>2 DEF Counted, TableType
<1>. QED BY <1>1, <1>2

LEMMA CountDrop ==
  ASSUME NEW t, NEW u, NEW l \in Lists, NEW f \in Refs,
         t \in TableType, Counted(t), t.list_id[f] = l,
         u.list_id = [t.list_id EXCEPT ![f] = NO_LIST],
         u.length = [t.length EXCEPT ![l] = t.length[l] - 1]
  PROVE  Counted(u)
<1> SUFFICES ASSUME NEW k \in Lists
             PROVE  u.length[k] = Cardinality(Members(u, k))
  BY DEF Counted
<1>0. NO_LIST \notin Lists
  BY DEF NO_LIST, Lists, FREE_LIST, ALLOCATED_LIST
<1>1. CASE k = l
  <2>1. Members(u, k) = Members(t, k) \ {f} /\ f \in Members(t, k)
    BY <1>0, <1>1 DEF Members, TableType
  <2>2. Cardinality(Members(u, k)) = Cardinality(Members(t, k)) - 1
    BY <2>1, MembersFinite, FS_RemoveElement, Zenon
  <2>. QED BY <2>2, <1>1 DEF Counted, TableType
<1>2. CASE k # l
  <2>1. Members(u, k) = Members(t, k)
    BY <1>0, <1>2 DEF Members, TableType
  <2>. QED BY <2>1, <1>2 DEF Counted, TableType
<1>. QED BY <1>1, <1>2

(* push_front of an unlinked frame keeps the table well formed and fails   *)
(* no assert.                                                              *)
LEMMA PushFrontWF ==
  ASSUME NEW t, NEW l \in Lists, NEW f \in Refs,
         WellFormed(t), Unlinked(t, f), f # NULL_FRAME
  PROVE  /\ WellFormed(PushFront(t, l, f))
         /\ PushFrontAsserts(t, l, f)
         /\ PushFront(t, l, f).list_id = [t.list_id EXCEPT ![f] = l]
         /\ PushFront(t, l, f).used = t.used
         /\ PushFront(t, l, f).capacity = t.capacity
         /\ PushFront(t, l, f).pages = t.pages
<1> DEFINE u == PushFront(t, l, f)
           old == t.first[l]
<1>0. t \in TableType /\ Inside(t) /\ Loose(t) /\ Linked(t) /\ NoCycleIn(t)
      /\ Counted(t)
  BY DEF WellFormed
<1>f. Typed(t)
  BY <1>0, Fields
<1>u. /\ t.list_id[f] = NO_LIST /\ t.next[f] = NULL_FRAME
      /\ t.prev[f] = NULL_FRAME /\ f < t.used
  BY DEF Unlinked, FrameOk
<1>1. /\ u.next = [t.next EXCEPT ![f] = old]
      /\ u.prev = [r \in Refs |-> IF r = old /\ old # NULL_FRAME THEN f
                                  ELSE t.prev[r]]
      /\ u.first = [t.first EXCEPT ![l] = f]
      /\ u.last = [t.last EXCEPT ![l] = IF t.last[l] = NULL_FRAME THEN f
                                        ELSE t.last[l]]
      /\ u.list_id = [t.list_id EXCEPT ![f] = l]
      /\ u.length = [t.length EXCEPT ![l] = t.length[l] + 1]
      /\ u.used = t.used /\ u.capacity = t.capacity /\ u.pages = t.pages
  BY <1>0 DEF PushFront, TableType
<1>2. PushFrontAsserts(t, l, f)
  <2>1. old \in Refs /\ (old # NULL_FRAME => t.list_id[old] = l)
    BY <1>0, <1>f, SMTT(30) DEF Linked, LinksOf, Typed
  <2>. QED BY <1>0, <2>1, ListedRefOk DEF PushFrontAsserts
<1>3. u \in TableType
  <2>1. /\ u.next \in [Refs -> Refs] /\ u.prev \in [Refs -> Refs]
        /\ u.first \in [Lists -> Refs] /\ u.last \in [Lists -> Refs]
        /\ u.list_id \in [Refs -> {NO_ENTRY, NO_LIST} \cup Lists]
        /\ u.length \in [Lists -> Int]
    BY <1>f, <1>1 DEF Typed
  <2>. QED BY <1>0, <2>1, Zenon DEF TableType, PushFront
<1> HIDE DEF u
<1>4. Inside(u)
  BY <1>0, <1>f, <1>u, <1>1, Names DEF Inside, Typed
<1>5. Loose(u)
  BY <1>0, <1>f, <1>u, <1>1, Names DEF Loose, Linked, LinksOf, Typed
<1>6. Linked(u)
  <2>1. ASSUME NEW k \in Lists PROVE LinksOf(u, k)
    <3>1. CASE k = l
      BY SMTT(90), <1>0, <1>f, <1>u, <1>1, <3>1, Names DEF Linked, LinksOf, Inside, Typed
    <3>2. CASE k # l
      BY SMTT(90), <1>0, <1>f, <1>u, <1>1, <3>2, Names DEF Linked, LinksOf, Inside, Typed
    <3>. QED BY <3>1, <3>2
  <2>. QED BY <2>1 DEF Linked
<1>7. NoCycleIn(u)
  <2> SUFFICES ASSUME NEW S \in SUBSET (Refs \ {NULL_FRAME}), S # {}
               PROVE  \E r \in S : u.next[r] \notin S
    BY DEF NoCycleIn
  <2>1. \A r \in Refs : t.next[r] # f
    BY <1>0, <1>f, <1>u, Names DEF Linked, LinksOf, Loose, Typed
  <2>2. CASE S = {f}
    <3>1. old # f
      BY <1>0, <1>f, <1>u, Names DEF Linked, LinksOf, Typed
    <3>. QED BY <1>f, <1>1, <2>2, <3>1 DEF Typed
  <2>3. CASE S # {f}
    <3>1. PICK r \in S \ {f} : t.next[r] \notin S \ {f}
      BY <1>0, <2>3, Zenon DEF NoCycleIn
    <3>. QED BY <1>f, <1>1, <2>1, <3>1 DEF Typed
  <2>. QED BY <2>2, <2>3
<1>8. Counted(u)
  BY <1>0, <1>f, <1>u, <1>1, Names, CountAdd, Zenon
<1>. QED BY <1>1, <1>2, <1>3, <1>4, <1>5, <1>6, <1>7, <1>8 DEF WellFormed, u

(* push_back likewise: on a nonempty list it links after the last frame,   *)
(* on an empty one it is push_front.                                       *)
LEMMA PushBackWF ==
  ASSUME NEW t, NEW l \in Lists, NEW f \in Refs,
         WellFormed(t), Unlinked(t, f), f # NULL_FRAME
  PROVE  /\ WellFormed(PushBack(t, l, f))
         /\ PushBackAsserts(t, l, f)
         /\ PushBack(t, l, f).list_id = [t.list_id EXCEPT ![f] = l]
         /\ PushBack(t, l, f).used = t.used
         /\ PushBack(t, l, f).capacity = t.capacity
         /\ PushBack(t, l, f).pages = t.pages
<1> DEFINE u == AppendFrame(t, l, f)
           old == t.last[l]
<1>e. CASE old = NULL_FRAME
  <2>1. PushBack(t, l, f) = PushFront(t, l, f)
        /\ (PushBackAsserts(t, l, f) <=> PushFrontAsserts(t, l, f))
    BY <1>e DEF PushBack, PushBackAsserts
  <2>. QED BY <2>1, PushFrontWF
<1>n. CASE old # NULL_FRAME
  <2>0. t \in TableType /\ Inside(t) /\ Loose(t) /\ Linked(t) /\ NoCycleIn(t)
        /\ Counted(t)
    BY DEF WellFormed
  <2>f. Typed(t)
    BY <2>0, Fields
  <2>u. /\ t.list_id[f] = NO_LIST /\ t.next[f] = NULL_FRAME
        /\ t.prev[f] = NULL_FRAME /\ f < t.used
    BY DEF Unlinked, FrameOk
  <2>1. /\ u.next = [t.next EXCEPT ![old] = f]
        /\ u.prev = [t.prev EXCEPT ![f] = old]
        /\ u.first = t.first
        /\ u.last = [t.last EXCEPT ![l] = f]
        /\ u.list_id = [t.list_id EXCEPT ![f] = l]
        /\ u.length = [t.length EXCEPT ![l] = t.length[l] + 1]
        /\ u.used = t.used /\ u.capacity = t.capacity /\ u.pages = t.pages
    BY <2>0 DEF AppendFrame, TableType
  <2>o. old \in Refs /\ t.list_id[old] = l /\ t.next[old] = NULL_FRAME
    BY <1>n, <2>0, <2>f DEF Linked, LinksOf, Typed
  <2>2. PushBackAsserts(t, l, f) /\ PushBack(t, l, f) = u
    BY <1>n, <2>0, <2>o, ListedRefOk DEF PushBackAsserts, PushBack
  <2>3. u \in TableType
    <3>1. /\ u.next \in [Refs -> Refs] /\ u.prev \in [Refs -> Refs]
          /\ u.last \in [Lists -> Refs]
          /\ u.list_id \in [Refs -> {NO_ENTRY, NO_LIST} \cup Lists]
          /\ u.length \in [Lists -> Int]
      BY <2>f, <2>o, <2>1 DEF Typed
    <3>. QED BY <2>0, <3>1, Zenon DEF TableType, AppendFrame
  <2> HIDE DEF u
  <2>4. Inside(u)
    BY <2>0, <2>f, <2>u, <2>1, Names DEF Inside, Typed
  <2>5. Loose(u)
    BY <2>0, <2>f, <2>u, <2>o, <2>1, Names DEF Loose, Typed
  <2>6. Linked(u)
    <3>1. ASSUME NEW k \in Lists PROVE LinksOf(u, k)
      <4>1. CASE k = l
        <5>0. LinksOf(t, l)
          BY <2>0 DEF Linked
        <5>1. /\ u.first[l] # NULL_FRAME /\ u.last[l] = f
              /\ u.list_id[u.first[l]] = l /\ u.prev[u.first[l]] = NULL_FRAME
              /\ u.list_id[f] = l /\ u.next[f] = NULL_FRAME
              /\ u.prev[f] = old /\ u.next[old] = f /\ u.list_id[old] = l
          BY <1>n, <2>f, <2>u, <2>o, <2>1, <5>0, Names DEF LinksOf, Typed
        <5>2. ASSUME NEW r \in Refs, u.list_id[r] = l
              PROVE /\ IF u.next[r] = NULL_FRAME THEN u.last[l] = r
                       ELSE u.list_id[u.next[r]] = l /\ u.prev[u.next[r]] = r
                    /\ IF u.prev[r] = NULL_FRAME THEN u.first[l] = r
                       ELSE u.list_id[u.prev[r]] = l /\ u.next[u.prev[r]] = r
          <6>1. CASE r = f
            BY <1>n, <5>1, <6>1
          <6>2. CASE r = old
            BY SMTT(90), <1>n, <2>f, <2>u, <2>o, <2>1, <5>0, <5>1, <6>2, Names
            DEF LinksOf, Typed
          <6>3. CASE r # f /\ r # old
            <7>1. t.list_id[r] = l /\ r # NULL_FRAME
              BY <2>0, <2>f, <2>1, <5>2, <6>3 DEF Inside, Typed
            <7>. QED
              BY SMTT(30), <1>n, <2>f, <2>u, <2>o, <2>1, <5>0, <6>3, <7>1, Names
              DEF LinksOf, Typed
          <6>. QED BY <6>1, <6>2, <6>3
        <5>. QED BY <4>1, <5>1, <5>2 DEF LinksOf
      <4>2. CASE k # l
        BY SMTT(90), <2>0, <2>f, <2>u, <2>o, <2>1, <4>2, Names DEF Linked, LinksOf, Typed
      <4>. QED BY <4>1, <4>2
    <3>. QED BY <3>1 DEF Linked
  <2>7. NoCycleIn(u)
    <3> SUFFICES ASSUME NEW S \in SUBSET (Refs \ {NULL_FRAME}), S # {}
                 PROVE  \E r \in S : u.next[r] \notin S
      BY DEF NoCycleIn
    <3>1. CASE f \in S
      <4>1. u.next[f] = NULL_FRAME
        BY <2>f, <2>u, <2>o, <2>1, Names DEF Typed
      <4>. QED BY <3>1, <4>1
    <3>2. CASE f \notin S
      <4>1. PICK r \in S : t.next[r] \notin S
        BY <2>0 DEF NoCycleIn
      <4>. QED BY <2>f, <2>1, <2>o, <3>2, <4>1 DEF Typed
    <3>. QED BY <3>1, <3>2
  <2>8. Counted(u)
    BY <2>0, <2>u, <2>1, Names, CountAdd, Zenon
  <2>. QED BY <2>1, <2>2, <2>3, <2>4, <2>5, <2>6, <2>7, <2>8 DEF WellFormed
<1>. QED BY <1>e, <1>n

(* remove_frame of a frame on list l takes it off the list, leaves it      *)
(* unlinked and joins its neighbours.                                      *)
LEMMA RemoveFrameWF ==
  ASSUME NEW t, NEW l \in Lists, NEW f \in Refs,
         WellFormed(t), t.list_id[f] = l
  PROVE  /\ WellFormed(RemoveFrame(t, l, f))
         /\ RemoveFrameAsserts(t, l, f)
         /\ Unlinked(RemoveFrame(t, l, f), f)
         /\ RemoveFrame(t, l, f).list_id = [t.list_id EXCEPT ![f] = NO_LIST]
         /\ RemoveFrame(t, l, f).used = t.used
         /\ RemoveFrame(t, l, f).capacity = t.capacity
         /\ RemoveFrame(t, l, f).pages = t.pages
<1> DEFINE u == RemoveFrame(t, l, f)
           p == t.prev[f]
           n == t.next[f]
<1>0. t \in TableType /\ Inside(t) /\ Loose(t) /\ Linked(t) /\ NoCycleIn(t)
      /\ Counted(t)
  BY DEF WellFormed
<1>f. Typed(t)
  BY <1>0, Fields
<1>l. LinksOf(t, l)
  BY <1>0 DEF Linked
<1>1. /\ u.next = [r \in Refs |-> IF r = f THEN NULL_FRAME
                    ELSE IF p # NULL_FRAME /\ r = p THEN n ELSE t.next[r]]
      /\ u.prev = [r \in Refs |-> IF r = f THEN NULL_FRAME
                    ELSE IF n # NULL_FRAME /\ r = n THEN p ELSE t.prev[r]]
      /\ u.first = [t.first EXCEPT ![l] = IF p = NULL_FRAME THEN n
                                          ELSE t.first[l]]
      /\ u.last = [t.last EXCEPT ![l] = IF n = NULL_FRAME THEN p
                                        ELSE t.last[l]]
      /\ u.list_id = [t.list_id EXCEPT ![f] = NO_LIST]
      /\ u.length = [t.length EXCEPT ![l] = t.length[l] - 1]
      /\ u.used = t.used /\ u.capacity = t.capacity /\ u.pages = t.pages
  BY <1>0 DEF RemoveFrame, TableType
<1>n. /\ f # NULL_FRAME /\ f < t.used
      /\ p \in Refs /\ n \in Refs /\ p # f /\ n # f
      /\ p # NULL_FRAME => t.list_id[p] = l /\ t.next[p] = f
      /\ n # NULL_FRAME => t.list_id[n] = l /\ t.prev[n] = f
      /\ p = NULL_FRAME => t.first[l] = f
      /\ n = NULL_FRAME => t.last[l] = f
  <2>1. /\ f # NULL_FRAME /\ f < t.used
        /\ p \in Refs /\ n \in Refs
        /\ p # NULL_FRAME => t.list_id[p] = l /\ t.next[p] = f
        /\ n # NULL_FRAME => t.list_id[n] = l /\ t.prev[n] = f
        /\ p = NULL_FRAME => t.first[l] = f
        /\ n = NULL_FRAME => t.last[l] = f
    BY <1>0, <1>f, <1>l DEF Inside, LinksOf, Typed
  <2>2. n # f
    <3>1. {f} \in SUBSET (Refs \ {NULL_FRAME}) /\ {f} # {}
      BY <2>1
    <3>. QED BY <3>1, <1>0, Zenon DEF NoCycleIn
  <2>. QED BY <2>1, <2>2
<1>2. RemoveFrameAsserts(t, l, f)
  BY <1>0, <1>n, ListedRefOk DEF RemoveFrameAsserts
<1>3. u \in TableType
  <2>1. /\ u.next \in [Refs -> Refs] /\ u.prev \in [Refs -> Refs]
        /\ u.first \in [Lists -> Refs] /\ u.last \in [Lists -> Refs]
        /\ u.list_id \in [Refs -> {NO_ENTRY, NO_LIST} \cup Lists]
        /\ u.length \in [Lists -> Int]
    BY SMTT(30), <1>f, <1>n, <1>1, Names DEF Typed
  <2>. QED BY <1>0, <2>1, Zenon DEF TableType, RemoveFrame
<1> HIDE DEF u
<1>4. Inside(u) /\ Unlinked(u, f)
  BY SMTT(30), <1>0, <1>f, <1>n, <1>1, Names DEF Inside, Typed, Unlinked, FrameOk
<1>5. Loose(u)
  BY SMTT(30), <1>0, <1>f, <1>n, <1>1, Names DEF Loose, Typed
<1>6. Linked(u)
  <2>1. ASSUME NEW k \in Lists PROVE LinksOf(u, k)
    <3>0. LinksOf(t, k)
      BY <1>0 DEF Linked
    <3>1. CASE k = l
      <4>1. ASSUME NEW r \in Refs, u.list_id[r] = l
            PROVE /\ IF u.next[r] = NULL_FRAME THEN u.last[l] = r
                     ELSE u.list_id[u.next[r]] = l /\ u.prev[u.next[r]] = r
                  /\ IF u.prev[r] = NULL_FRAME THEN u.first[l] = r
                     ELSE u.list_id[u.prev[r]] = l /\ u.next[u.prev[r]] = r
        <5>1. r # f /\ t.list_id[r] = l /\ r # NULL_FRAME
          BY SMTT(30), <1>0, <1>f, <1>1, <4>1, Names DEF Inside, Typed
        <5>. QED BY SMTT(90), <1>f, <1>l, <1>n, <1>1, <5>1, Names DEF LinksOf, Typed
      <4>2. /\ (u.first[l] = NULL_FRAME) <=> (u.last[l] = NULL_FRAME)
            /\ u.first[l] # NULL_FRAME => /\ u.list_id[u.first[l]] = l
                                          /\ u.prev[u.first[l]] = NULL_FRAME
            /\ u.last[l] # NULL_FRAME => /\ u.list_id[u.last[l]] = l
                                         /\ u.next[u.last[l]] = NULL_FRAME
        BY SMTT(90), <1>f, <1>l, <1>n, <1>1, Names DEF LinksOf, Typed
      <4>. QED BY <3>1, <4>1, <4>2, SMTT(30) DEF LinksOf
    <3>2. CASE k # l
      <4>1. u.first[k] = t.first[k] /\ u.last[k] = t.last[k]
        BY <1>f, <1>1, <3>2 DEF Typed
      <4>2. ASSUME NEW r \in Refs
            PROVE  (u.list_id[r] = k) <=> (t.list_id[r] = k)
        BY <1>f, <1>1, <3>2, Names DEF Typed
      <4>3. ASSUME NEW r \in Refs, t.list_id[r] = k
            PROVE  u.next[r] = t.next[r] /\ u.prev[r] = t.prev[r]
        <5>1. r # f /\ (p # NULL_FRAME => r # p) /\ (n # NULL_FRAME => r # n)
          BY <1>n, <3>2, <4>3
        <5>. QED BY <5>1, <1>1
      <4>. QED
        BY SMTT(90), <1>f, <3>0, <4>1, <4>2, <4>3 DEF LinksOf, Typed
    <3>. QED BY <3>1, <3>2
  <2>. QED BY <2>1 DEF Linked
<1>7. NoCycleIn(u)
  <2> SUFFICES ASSUME NEW S \in SUBSET (Refs \ {NULL_FRAME}), S # {}
               PROVE  \E r \in S : u.next[r] \notin S
    BY DEF NoCycleIn
  <2>1. CASE f \in S
    <3>1. u.next[f] = NULL_FRAME
      BY <1>1
    <3>. QED BY <2>1, <3>1
  <2>2. CASE f \notin S /\ p \in S /\ n \in S
    <3>1. PICK r \in S \cup {f} : t.next[r] \notin S \cup {f}
      BY <1>0, <1>n, Zenon DEF NoCycleIn
    <3>2. r # f /\ r # p
      BY <1>n, <2>2, <3>1
    <3>. QED BY <1>f, <1>1, <3>1, <3>2 DEF Typed
  <2>3. CASE f \notin S /\ p \in S /\ n \notin S
    <3>1. u.next[p] = n
      BY <1>n, <1>1, <2>3
    <3>. QED BY <2>3, <3>1
  <2>4. CASE f \notin S /\ p \notin S
    <3>1. PICK r \in S : t.next[r] \notin S
      BY <1>0 DEF NoCycleIn
    <3>. QED BY <1>f, <1>1, <2>4, <3>1 DEF Typed
  <2>. QED BY <2>1, <2>2, <2>3, <2>4
<1>8. Counted(u)
  BY SMTT(30), <1>0, <1>1, CountDrop
<1>. QED BY <1>1, <1>2, <1>3, <1>4, <1>5, <1>6, <1>7, <1>8 DEF WellFormed, u

(* Two tables with the same fields are the same table.                     *)
LEMMA TableExtensional ==
  ASSUME NEW t \in TableType, NEW u \in TableType,
         t.used = u.used, t.capacity = u.capacity, t.pages = u.pages,
         t.first = u.first, t.last = u.last, t.length = u.length,
         t.next = u.next, t.prev = u.prev, t.list_id = u.list_id
  PROVE  t = u
BY DEF TableType

(* On a well-formed list, pop_front is remove_frame of the first frame.    *)
LEMMA PopFrontIsRemove ==
  ASSUME NEW t, NEW l \in Lists, WellFormed(t), t.first[l] # NULL_FRAME
  PROVE  /\ t.first[l] \in Refs /\ t.list_id[t.first[l]] = l
         /\ PopFront(t, l) = RemoveFrame(t, l, t.first[l])
         /\ PopFrontAsserts(t, l)
<1> DEFINE h == t.first[l]
           n == t.next[h]
<1>0. t \in TableType /\ Inside(t) /\ LinksOf(t, l)
  BY DEF WellFormed, Linked
<1>f. Typed(t)
  BY <1>0, Fields
<1>1. h \in Refs /\ t.list_id[h] = l /\ t.prev[h] = NULL_FRAME /\ n \in Refs
  BY <1>0, <1>f DEF LinksOf, Typed
<1>2. (t.last[l] = h) <=> (n = NULL_FRAME)
  BY <1>0, <1>f, <1>1 DEF LinksOf, Typed
<1>3. n # NULL_FRAME => t.list_id[n] = l
  BY <1>0, <1>1 DEF LinksOf
<1>4. PopFrontAsserts(t, l)
  BY <1>0, <1>1, <1>2, <1>3, ListedRefOk DEF PopFrontAsserts
<1>5. PopFront(t, l) = RemoveFrame(t, l, h)
  <2> DEFINE pp == t.prev[h]
             nx == [r \in Refs |-> IF r = h THEN NULL_FRAME
                      ELSE IF pp # NULL_FRAME /\ r = pp THEN n ELSE t.next[r]]
             pv == [r \in Refs |-> IF r = h THEN NULL_FRAME
                      ELSE IF n # NULL_FRAME /\ r = n THEN pp ELSE t.prev[r]]
             pv2 == [r \in Refs |-> IF r = h \/ (~(t.last[l] = h) /\ r = n)
                                    THEN NULL_FRAME ELSE t.prev[r]]
  <2>1. nx = [t.next EXCEPT ![h] = NULL_FRAME]
    BY <1>f, <1>1 DEF Typed
  <2>2. pv = pv2
    BY <1>f, <1>1, <1>2 DEF Typed
  <2> DEFINE la == [t.last EXCEPT ![l] = IF n = NULL_FRAME THEN pp
                                         ELSE t.last[l]]
             la2 == [t.last EXCEPT ![l] = IF t.last[l] = h THEN NULL_FRAME
                                          ELSE t.last[l]]
             fi == [t.first EXCEPT ![l] = IF pp = NULL_FRAME THEN n
                                          ELSE t.first[l]]
             fi2 == [t.first EXCEPT ![l] = n]
             u == PopFront(t, l)
             v == RemoveFrame(t, l, h)
  <2>3. la = la2 /\ fi = fi2
    BY <1>1, <1>2
  <2>5. /\ v.first = fi /\ v.last = la /\ v.next = nx /\ v.prev = pv
        /\ v.list_id = [t.list_id EXCEPT ![h] = NO_LIST]
        /\ v.length = [t.length EXCEPT ![l] = t.length[l] - 1]
        /\ v.used = t.used /\ v.capacity = t.capacity /\ v.pages = t.pages
    BY <1>0, SMTT(30) DEF RemoveFrame, TableType
  <2>6. /\ u.first = fi2 /\ u.last = la2 /\ u.prev = pv2
        /\ u.next = [t.next EXCEPT ![h] = NULL_FRAME]
        /\ u.list_id = [t.list_id EXCEPT ![h] = NO_LIST]
        /\ u.length = [t.length EXCEPT ![l] = t.length[l] - 1]
        /\ u.used = t.used /\ u.capacity = t.capacity /\ u.pages = t.pages
    BY <1>0 DEF PopFront, TableType
  <2>7. v \in TableType
    BY <1>1, RemoveFrameWF, Zenon DEF WellFormed
  <2> HIDE DEF nx, pv, pv2, la, la2, fi, fi2, v
  <2>8. Typed(v)
    BY <2>7, Fields
  <2>9. u \in TableType
    <3>1. /\ u.next \in [Refs -> Refs] /\ u.prev \in [Refs -> Refs]
          /\ u.first \in [Lists -> Refs] /\ u.last \in [Lists -> Refs]
          /\ u.list_id \in [Refs -> {NO_ENTRY, NO_LIST} \cup Lists]
          /\ u.length \in [Lists -> Int]
      BY <2>1, <2>2, <2>3, <2>5, <2>6, <2>8 DEF Typed
    <3>. QED BY <1>0, <3>1, Zenon DEF TableType, PopFront
  <2> HIDE DEF u
  <2>. QED
    BY <2>1, <2>2, <2>3, <2>5, <2>6, <2>7, <2>9, TableExtensional DEF u, v
<1>. QED BY <1>1, <1>4, <1>5

-----------------------------------------------------------------------------
(* Growing.  A table that differs only in its counters is well formed if   *)
(* the counters grow and used stays within the capacity.                   *)
LEMMA CountersWF ==
  ASSUME NEW t, NEW u \in TableType, WellFormed(t),
         u.first = t.first, u.last = t.last, u.length = t.length,
         u.next = t.next, u.prev = t.prev, u.list_id = t.list_id,
         t.used <= u.used, u.used <= u.capacity
  PROVE  WellFormed(u)
<1>0. t \in TableType /\ Inside(t) /\ Loose(t) /\ Linked(t) /\ NoCycleIn(t)
      /\ Counted(t)
  BY DEF WellFormed
<1>1. Inside(u)
  <2>1. t.used \in Nat /\ u.used \in Nat /\ Refs \subseteq Nat
    BY <1>0, Fields, Names DEF Typed
  <2>. QED BY <1>0, <2>1 DEF Inside
<1>2. Loose(u)
  BY <1>0 DEF Loose
<1>3. Linked(u)
  BY SMTT(90), <1>0 DEF Linked, LinksOf
<1>4. NoCycleIn(u)
  BY <1>0 DEF NoCycleIn
<1>5. Counted(u)
  BY <1>0 DEF Counted, Members
<1>. QED BY <1>1, <1>2, <1>3, <1>4, <1>5 DEF WellFormed

(* The entry alloc_fresh_frame initialises was on no list; it is unlinked  *)
(* afterwards.                                                             *)
LEMMA FreshEntryWF ==
  ASSUME NEW t, WellFormed(t), NEW f \in Refs, f = FreshRef(t),
         f < t.capacity
  PROVE  /\ WellFormed(InitEntry(ClaimEntry(t), f))
         /\ Unlinked(InitEntry(ClaimEntry(t), f), f)
         /\ InitEntry(ClaimEntry(t), f).list_id
              = [t.list_id EXCEPT ![f] = NO_LIST]
         /\ InitEntry(ClaimEntry(t), f).used = f + 1
         /\ InitEntry(ClaimEntry(t), f).capacity = t.capacity
         /\ InitEntry(ClaimEntry(t), f).pages = t.pages
         /\ t.list_id[f] \notin Lists
<1> DEFINE c == ClaimEntry(t)
           u == InitEntry(c, f)
<1>0. t \in TableType /\ Inside(t) /\ Loose(t)
  BY DEF WellFormed
<1>f. Typed(t)
  BY <1>0, Fields
<1>n. f \in Nat /\ t.used <= f
  BY <1>f, Names DEF FreshRef, Typed
<1>1. t.list_id[f] \notin Lists
  BY <1>0, <1>f, <1>n DEF Inside, Typed
<1>2. /\ c.next = t.next /\ c.prev = t.prev /\ c.list_id = t.list_id
      /\ c.first = t.first /\ c.last = t.last /\ c.length = t.length
      /\ c.used = f + 1 /\ c.capacity = t.capacity /\ c.pages = t.pages
      /\ c \in TableType
  BY <1>0, <1>n DEF ClaimEntry, TableType
<1>3. WellFormed(c)
  BY <1>2, <1>n, <1>f, CountersWF DEF Typed
<1> HIDE DEF c
<1>4. /\ u.next = [t.next EXCEPT ![f] = NULL_FRAME]
      /\ u.prev = [t.prev EXCEPT ![f] = NULL_FRAME]
      /\ u.list_id = [t.list_id EXCEPT ![f] = NO_LIST]
      /\ u.first = t.first /\ u.last = t.last /\ u.length = t.length
      /\ u.used = f + 1 /\ u.capacity = t.capacity /\ u.pages = t.pages
  BY <1>2, Zenon DEF InitEntry, TableType
<1>5. u \in TableType
  <2>1. /\ u.next \in [Refs -> Refs] /\ u.prev \in [Refs -> Refs]
        /\ u.list_id \in [Refs -> {NO_ENTRY, NO_LIST} \cup Lists]
    BY <1>f, <1>4, Names DEF Typed
  <2>. QED BY <1>2, <2>1, Zenon DEF InitEntry, TableType
<1> HIDE DEF u
<1>6. u.next = t.next /\ u.prev = t.prev
  <2>1. t.next[f] = NULL_FRAME /\ t.prev[f] = NULL_FRAME
    BY <1>0, <1>1 DEF Loose
  <2>. QED BY <1>4, <1>f, <2>1 DEF Typed
<1>7. \A k \in Lists, r \in Refs : u.list_id[r] = k <=> t.list_id[r] = k
  BY <1>1, <1>4, <1>f, Names DEF Typed
<1>8. Inside(u)
  BY <1>f, <1>n, <1>3, <1>2, <1>4, <1>7 DEF WellFormed, Inside, Typed
<1>9. Loose(u)
  BY <1>0, <1>6, <1>7, <1>5, Fields, SMTT(30) DEF Loose, Typed
<1>10. Linked(u)
  <2> SUFFICES ASSUME NEW k \in Lists PROVE LinksOf(u, k)
    BY DEF Linked
  <2>1. LinksOf(t, k)
    BY DEF WellFormed, Linked
  <2>. QED BY SMTT(90), <1>f, <1>4, <1>6, <1>7, <2>1 DEF LinksOf, Typed
<1>11. NoCycleIn(u)
  BY <1>6 DEF NoCycleIn, WellFormed
<1>12. Counted(u)
  <2>1. \A k \in Lists : Members(u, k) = Members(t, k)
    BY <1>7 DEF Members
  <2>. QED BY <1>4, <2>1 DEF Counted, WellFormed
<1>13. Unlinked(u, f)
  BY <1>4, <1>n, <1>f DEF Unlinked, FrameOk, Typed
<1>. QED BY <1>1, <1>4, <1>5, <1>8, <1>9, <1>10, <1>11, <1>12, <1>13
     DEF WellFormed, u, c

-----------------------------------------------------------------------------
(* The inductive invariant.                                                *)
IInv ==
  /\ TypeOK
  /\ WellFormed(ft)
  /\ HeldAreAllocated
  /\ EveryFrameBacked
  /\ UtsConserved
  /\ AssertsHold

(* The number of frames made is used - 1, or 0 before the first.           *)
LEMMA MadeCount ==
  ASSUME NEW n \in Nat
  PROVE  /\ IsFiniteSet(1 .. (n - 1))
         /\ Cardinality(1 .. (n - 1)) = IF n = 0 THEN 0 ELSE n - 1
BY FS_Interval

(* After MakeRoom there is an entry to claim, unless the limit is reached. *)
LEMMA RoomToGrow ==
  ASSUME FrameLimit # 1, IInv,
         ft.used = ft.capacity => ~LimitReached(ft)
  PROVE  /\ WellFormed(MakeRoom(ft))
         /\ FreshAsserts(MakeRoom(ft))
         /\ MakeRoom(ft).used = ft.used
         /\ MakeRoom(ft).list_id = ft.list_id
         /\ MakeRoom(ft).pages
              = IF ft.used = ft.capacity THEN ft.pages + 1 ELSE ft.pages
         /\ MakeRoom(ft).capacity
              = IF FrameLimit # 0
                   /\ FrameLimit < MakeRoom(ft).pages * FramesPerPage
                THEN FrameLimit ELSE MakeRoom(ft).pages * FramesPerPage
         /\ MakeRoom(ft).pages # 0
<1> DEFINE u == MakeRoom(ft)
           P == ft.pages * FramesPerPage
<1>0. ft \in TableType /\ WellFormed(ft)
  BY DEF IInv, TypeOK
<1>f. Typed(ft)
  BY <1>0, Fields
<1>1. /\ ft.used <= ft.capacity
      /\ ft.capacity = IF FrameLimit # 0 /\ FrameLimit < P
                       THEN FrameLimit ELSE P
  BY DEF IInv, EveryFrameBacked
<1>a. /\ (ft.pages + 1) * FramesPerPage = P + FramesPerPage
      /\ P \in Nat /\ (ft.pages = 0 => P = 0)
      /\ (ft.pages # 0 => P >= FramesPerPage)
  BY <1>f, FrameTableAssumption DEF Typed
<1>2. CASE ft.used = ft.capacity
  <2>1. u = BumpCapacity(ft)
    BY <1>2 DEF MakeRoom
  <2>2. /\ u.used = ft.used /\ u.list_id = ft.list_id
        /\ u.first = ft.first /\ u.last = ft.last /\ u.length = ft.length
        /\ u.next = ft.next /\ u.prev = ft.prev
        /\ u.pages = ft.pages + 1
        /\ u.capacity = IF FrameLimit # 0
                           /\ FrameLimit < (ft.pages + 1) * FramesPerPage
                        THEN FrameLimit ELSE (ft.pages + 1) * FramesPerPage
    BY <1>0, <2>1 DEF BumpCapacity, TableType
  <2>c. u.capacity \in Nat
    BY <1>a, <2>2, FrameTableAssumption
  <2>3. u \in TableType
    <3> DEFINE cap == IF FrameLimit # 0
                         /\ FrameLimit < (ft.pages + 1) * FramesPerPage
                      THEN FrameLimit ELSE (ft.pages + 1) * FramesPerPage
               pgs == ft.pages + 1
    <3>1. cap \in Nat /\ pgs \in Nat
      BY <1>f, <2>2, <2>c DEF Typed
    <3>2. u = [ft EXCEPT !.pages = pgs, !.capacity = cap]
      BY <2>1 DEF BumpCapacity
    <3> HIDE DEF cap, pgs, u
    <3>. QED BY <1>0, <3>1, <3>2, Zenon DEF TableType
  <2> HIDE DEF u, P
  <2>4. ft.capacity < u.capacity /\ 2 <= u.capacity
        /\ (FrameLimit # 0 => u.capacity <= FrameLimit)
    BY <1>f, <1>a, <1>1, <1>2, <2>2, FrameTableAssumption
    DEF LimitReached, Typed
  <2>5. WellFormed(u)
    BY <1>0, <1>f, <1>2, <2>c, <2>2, <2>3, <2>4, CountersWF DEF Typed
  <2>6. FreshAsserts(u)
    BY <1>f, <1>2, <2>c, <2>2, <2>4
    DEF FreshAsserts, RefOk, FreshRef, NULL_FRAME, Typed
  <2>. QED BY <1>f, <1>2, <2>2, <2>5, <2>6 DEF u, P, Typed
<1>3. CASE ft.used # ft.capacity
  <2>1. u = ft
    BY <1>3 DEF MakeRoom
  <2> HIDE DEF P
  <2>2. ft.pages # 0
    BY <1>f, <1>1, <1>a, <1>3, FrameTableAssumption DEF Typed
  <2>3. 2 <= ft.capacity /\ (FrameLimit # 0 => ft.capacity <= FrameLimit)
    BY <1>f, <1>1, <1>a, <2>2, FrameTableAssumption DEF Typed
  <2>4. FreshAsserts(ft)
    BY <1>f, <1>1, <1>3, <2>3
    DEF FreshAsserts, RefOk, FreshRef, NULL_FRAME, Typed
  <2>. QED BY <1>0, <1>1, <1>3, <2>1, <2>2, <2>4 DEF P
<1>. QED BY <1>2, <1>3

LEMMA InitIInv == Init => IInv
<1> SUFFICES ASSUME Init PROVE IInv
  OBVIOUS
<1>1. ft \in TableType /\ TypeOK
  BY FrameTableAssumption, Names
  DEF Init, TypeOK, TableType, NULL_FRAME, NO_ENTRY, Refs
<1>2. /\ ft.used = 0 /\ ft.capacity = 0 /\ ft.pages = 0
      /\ \A r \in Refs : ft.list_id[r] = NO_ENTRY /\ ft.next[r] = NULL_FRAME
                         /\ ft.prev[r] = NULL_FRAME
      /\ \A l \in Lists : ft.first[l] = NULL_FRAME /\ ft.last[l] = NULL_FRAME
                          /\ ft.length[l] = 0
  BY DEF Init
<1>3. Inside(ft) /\ Loose(ft) /\ Linked(ft)
  BY <1>2, Names DEF Inside, Loose, Linked, LinksOf
<1>4. NoCycleIn(ft)
  BY <1>2 DEF NoCycleIn
<1>5. Counted(ft)
  <2>1. \A l \in Lists : Members(ft, l) = {}
    BY <1>2, Names, Zenon DEF Members
  <2>. QED BY <1>2, <2>1, FS_EmptySet DEF Counted
<1>6. HeldAreAllocated
  BY <1>2, Names DEF HeldAreAllocated, Init
<1>7. EveryFrameBacked
  BY <1>2, Names, FrameTableAssumption DEF EveryFrameBacked, Init
<1>8. UtsConserved
  BY <1>2, FS_EmptySet, FrameTableAssumption DEF UtsConserved, OwnUts, Init
<1>9. AssertsHold
  BY DEF AssertsHold, Init
<1>. QED BY <1>1, <1>3, <1>4, <1>5, <1>6, <1>7, <1>8, <1>9
     DEF IInv, WellFormed

-----------------------------------------------------------------------------
(* One lemma per action.                                                   *)
LEMMA StutterIInv == ASSUME IInv, UNCHANGED vars PROVE IInv'
<1>1. /\ ft' = ft /\ mapped' = mapped /\ held' = held /\ fault' = fault
      /\ free_uts' = free_uts
  BY DEF vars
<1>. QED BY <1>1, Zenon DEF IInv, TypeOK, AssertsHold, HeldAreAllocated,
             EveryFrameBacked, UtsConserved, OwnUts

LEMMA AllocFreeIInv == ASSUME IInv, AllocFree PROVE IInv'
<1> DEFINE f == ft.first[FREE_LIST]
           t == PopFront(ft, FREE_LIST)
           u == PushBack(t, ALLOCATED_LIST, f)
<1>0. ft \in TableType /\ WellFormed(ft)
  BY DEF IInv, TypeOK
<1>f. Typed(ft)
  BY <1>0, Fields
<1>1. f # NULL_FRAME /\ ft' = u /\ held' = held \cup {f}
      /\ free_uts' = free_uts /\ mapped' = mapped
  BY DEF AllocFree
<1>2. /\ f \in Refs /\ ft.list_id[f] = FREE_LIST /\ PopFrontAsserts(ft, FREE_LIST)
      /\ t = RemoveFrame(ft, FREE_LIST, f)
  BY <1>0, <1>1, Names, PopFrontIsRemove
<1> HIDE DEF f, t
<1>3. /\ WellFormed(t) /\ Unlinked(t, f)
      /\ t.list_id = [ft.list_id EXCEPT ![f] = NO_LIST]
      /\ t.used = ft.used /\ t.capacity = ft.capacity /\ t.pages = ft.pages
  <2> DEFINE w == RemoveFrame(ft, FREE_LIST, f)
  <2>1. /\ WellFormed(w) /\ Unlinked(w, f)
        /\ w.list_id = [ft.list_id EXCEPT ![f] = NO_LIST]
        /\ w.used = ft.used /\ w.capacity = ft.capacity /\ w.pages = ft.pages
    BY <1>0, <1>2, Names, RemoveFrameWF
  <2>. QED BY <1>2, <2>1
<1>4. /\ WellFormed(u) /\ PushBackAsserts(t, ALLOCATED_LIST, f)
      /\ u.list_id = [t.list_id EXCEPT ![f] = ALLOCATED_LIST]
      /\ u.used = t.used /\ u.capacity = t.capacity /\ u.pages = t.pages
  BY <1>1, <1>2, <1>3, Names, PushBackWF, SMTT(30)
<1>5. fault' = "none"
  BY <1>2, <1>4 DEF AllocFree, FaultIf, t, f
<1> HIDE DEF u
<1>6. u.list_id = [ft.list_id EXCEPT ![f] = ALLOCATED_LIST]
  BY <1>2, <1>3, <1>4, <1>f DEF Typed
<1>7. HeldAreAllocated'
  BY <1>1, <1>2, <1>6, <1>f DEF IInv, HeldAreAllocated, Typed
<1>8. EveryFrameBacked'
  <2>1. f \in mapped
    BY <1>2, Names DEF IInv, EveryFrameBacked
  <2>2. \A q \in Refs : u.list_id[q] \in Lists => q \in mapped
    BY <1>2, <1>6, <1>f, <2>1 DEF IInv, EveryFrameBacked, Typed
  <2>. QED BY <1>1, <1>3, <1>4, <2>2 DEF IInv, EveryFrameBacked
<1>9. UtsConserved'
  BY <1>1, <1>3, <1>4 DEF IInv, UtsConserved, OwnUts
<1>10. TypeOK' /\ AssertsHold'
  BY <1>1, <1>2, <1>4, <1>5 DEF IInv, TypeOK, WellFormed, AssertsHold
<1>. QED BY <1>1, <1>4, <1>7, <1>8, <1>9, <1>10 DEF IInv

LEMMA FreeFrameIInv ==
  ASSUME IInv, NEW r \in held \cup {NULL_FRAME}, FreeFrame(r) PROVE IInv'
<1>1. CASE r = NULL_FRAME
  <2>1. UNCHANGED vars
    BY <1>1 DEF FreeFrame, vars
  <2>. QED BY <2>1, StutterIInv
<1>2. CASE r # NULL_FRAME
  <2> DEFINE t == RemoveFrame(ft, ALLOCATED_LIST, r)
             u == PushFront(t, FREE_LIST, r)
  <2>0. ft \in TableType /\ WellFormed(ft) /\ Inside(ft)
    BY DEF IInv, TypeOK, WellFormed
  <2>f. Typed(ft)
    BY <2>0, Fields
  <2>1. ft' = u /\ held' = held \ {r} /\ free_uts' = free_uts
        /\ mapped' = mapped
    BY <1>2 DEF FreeFrame
  <2>2. r \in Refs /\ ft.list_id[r] = ALLOCATED_LIST
    BY <1>2 DEF IInv, HeldAreAllocated
  <2>3. /\ WellFormed(t) /\ Unlinked(t, r)
        /\ RemoveFrameAsserts(ft, ALLOCATED_LIST, r)
        /\ t.list_id = [ft.list_id EXCEPT ![r] = NO_LIST]
        /\ t.used = ft.used /\ t.capacity = ft.capacity /\ t.pages = ft.pages
    BY SMTT(90), <2>0, <2>2, Names, RemoveFrameWF
  <2>a. RefOk(ft, r)
    BY <2>0, <2>2, Names, ListedRefOk
  <2> HIDE DEF t
  <2>4. /\ WellFormed(u) /\ PushFrontAsserts(t, FREE_LIST, r)
        /\ u.list_id = [t.list_id EXCEPT ![r] = FREE_LIST]
        /\ u.used = t.used /\ u.capacity = t.capacity /\ u.pages = t.pages
    BY <1>2, <2>2, <2>3, Names, PushFrontWF, SMTT(30)
  <2>5. fault' = "none"
    BY <1>2, <2>3, <2>a, <2>4 DEF FreeFrame, FaultIf, t
  <2> HIDE DEF u
  <2>6. u.list_id = [ft.list_id EXCEPT ![r] = FREE_LIST]
    BY <2>2, <2>3, <2>4, <2>f DEF Typed
  <2>7. HeldAreAllocated'
    BY <2>1, <2>2, <2>6, <2>f, Names DEF IInv, HeldAreAllocated, Typed
  <2>8. EveryFrameBacked'
    <3>1. r \in mapped
      BY <2>2, Names DEF IInv, EveryFrameBacked
    <3>2. \A q \in Refs : u.list_id[q] \in Lists => q \in mapped
      BY <2>2, <2>6, <2>f, <3>1 DEF IInv, EveryFrameBacked, Typed
    <3>. QED BY <2>1, <2>3, <2>4, <3>2 DEF IInv, EveryFrameBacked
  <2>9. UtsConserved'
    BY <2>1, <2>3, <2>4 DEF IInv, UtsConserved, OwnUts
  <2>10. TypeOK' /\ AssertsHold'
    BY <2>1, <2>2, <2>4, <2>5 DEF IInv, TypeOK, WellFormed, AssertsHold
  <2>. QED BY <2>1, <2>4, <2>7, <2>8, <2>9, <2>10 DEF IInv
<1>. QED BY <1>1, <1>2

(* The untypeds of a table that counts used entries in pages pages.        *)
LEMMA OwnCount ==
  ASSUME IInv
  PROVE  /\ IsFiniteSet(mapped)
         /\ Cardinality(mapped) = IF ft.used = 0 THEN 0 ELSE ft.used - 1
         /\ ft.pages + Cardinality(mapped) + free_uts <= TotalUts
         /\ ft.used \in Nat /\ ft.pages \in Nat /\ free_uts \in Nat
<1>1. ft.used \in Nat /\ ft.pages \in Nat /\ free_uts \in Nat
  BY Fields DEF IInv, TypeOK, Typed
<1>2. mapped = 1 .. (ft.used - 1)
  BY DEF IInv, EveryFrameBacked
<1>3. IsFiniteSet(mapped)
      /\ Cardinality(mapped) = IF ft.used = 0 THEN 0 ELSE ft.used - 1
  BY <1>1, <1>2, MadeCount
<1>. QED BY <1>1, <1>3 DEF IInv, UtsConserved, OwnUts

LEMMA AllocFreshIInv ==
  ASSUME FrameLimit # 1, IInv,
         NEW b \in Side, NEW s \in Side, AllocFresh(b, s)
  PROVE  IInv'
<1> DEFINE room == MakeRoom(ft)
           uts == IF ft.used = ft.capacity THEN free_uts - 1 - b ELSE free_uts
           f == FreshRef(room)
           t == InitEntry(ClaimEntry(room), f)
           u == PushBack(t, ALLOCATED_LIST, f)
<1>0. ft \in TableType
  BY DEF IInv, TypeOK
<1>f. Typed(ft)
  BY <1>0, Fields, SMTT(30)
<1>1. /\ ft' = u /\ held' = held \cup {f} /\ mapped' = mapped \cup {f}
      /\ free_uts' = uts - 1 - s /\ uts >= 1 + s
      /\ ft.used = ft.capacity => ~LimitReached(ft) /\ free_uts >= 1 + b
  BY DEF AllocFresh, MapSucceeds
<1>s. b \in Nat /\ s \in Nat
  BY FrameTableAssumption, SMTT(30) DEF Side
<1>2. /\ WellFormed(room) /\ FreshAsserts(room)
      /\ room.used = ft.used /\ room.list_id = ft.list_id
      /\ room.pages = IF ft.used = ft.capacity THEN ft.pages + 1 ELSE ft.pages
      /\ room.capacity = IF FrameLimit # 0
                            /\ FrameLimit < room.pages * FramesPerPage
                         THEN FrameLimit ELSE room.pages * FramesPerPage
      /\ room.pages # 0
  BY <1>1, RoomToGrow, SMTT(30)
<1>e. fault' = FaultIf(/\ FreshAsserts(room)
                       /\ PushBackAsserts(t, ALLOCATED_LIST, f), "none")
  BY DEF AllocFresh
<1> HIDE DEF room
<1>3. f = (IF ft.used = 0 THEN 1 ELSE ft.used) /\ f < room.capacity
  BY <1>2, SMTT(30) DEF FreshRef, FreshAsserts, RefOk
<1> HIDE DEF uts
<1>4. /\ uts \in Int /\ f \in Nat /\ f # NULL_FRAME /\ f <= TotalUts
      /\ (IF ft.used = ft.capacity THEN ft.pages + 1 ELSE ft.pages)
           + f + (uts - 1 - s) <= TotalUts
  BY SMTT(90), <1>f, <1>1, <1>s, <1>2, <1>3, OwnCount, FrameTableAssumption
  DEF Typed, uts, NULL_FRAME
<1>5. f \in Refs
  BY <1>4, FrameTableAssumption, SMTT(30) DEF Refs
<1>6. /\ WellFormed(t) /\ Unlinked(t, f)
      /\ t.list_id = [room.list_id EXCEPT ![f] = NO_LIST]
      /\ t.used = f + 1 /\ t.capacity = room.capacity /\ t.pages = room.pages
      /\ room.list_id[f] \notin Lists
  BY <1>2, <1>3, <1>5, FreshEntryWF
<1> HIDE DEF f, t
<1>7. /\ WellFormed(u) /\ PushBackAsserts(t, ALLOCATED_LIST, f)
      /\ u.list_id = [t.list_id EXCEPT ![f] = ALLOCATED_LIST]
      /\ u.used = t.used /\ u.capacity = t.capacity /\ u.pages = t.pages
  BY SMTT(30), <1>4, <1>5, <1>6, Names, PushBackWF
<1> HIDE DEF u
<1>8. fault' = "none"
  BY <1>e, <1>2, <1>7 DEF FaultIf
<1>9. u.list_id = [ft.list_id EXCEPT ![f] = ALLOCATED_LIST]
  BY <1>2, <1>5, <1>6, <1>7, <1>f DEF Typed
<1>10. HeldAreAllocated'
  BY SMTT(90), <1>1, <1>4, <1>5, <1>9, <1>f DEF IInv, HeldAreAllocated, Typed
<1>11. mapped' = 1 .. (u.used - 1) /\ u.used = f + 1
  <2>1. mapped = 1 .. (ft.used - 1)
    BY DEF IInv, EveryFrameBacked
  <2>. QED BY SMTT(90), <1>1, <1>3, <1>4, <1>6, <1>7, <1>f, <2>1 DEF Typed
<1>12. EveryFrameBacked'
  <2>1. u.used <= u.capacity
    BY <1>7 DEF WellFormed, Inside
  <2>2. \A r \in Refs : u.list_id[r] \in Lists => r \in mapped'
    BY <1>1, <1>5, <1>9, <1>f DEF IInv, EveryFrameBacked, Typed
  <2>. QED BY <1>1, <1>2, <1>6, <1>7, <1>11, <2>1, <2>2 DEF EveryFrameBacked
<1>13. UtsConserved'
  <2>1. Cardinality(mapped') = f
    BY <1>4, <1>11, MadeCount DEF NULL_FRAME
  <2>. QED BY <1>1, <1>2, <1>4, <1>6, <1>7, <2>1 DEF UtsConserved, OwnUts
<1>14. TypeOK' /\ AssertsHold'
  BY <1>1, <1>4, <1>s, <1>5, <1>7, <1>8
  DEF IInv, TypeOK, WellFormed, AssertsHold
<1>. QED BY <1>1, <1>7, <1>10, <1>12, <1>13, <1>14 DEF IInv

LEMMA AllocNoRoomIInv ==
  ASSUME IInv, NEW b \in Side, AllocNoRoom(b) PROVE IInv'
<1>1. /\ ft' = ft /\ mapped' = mapped /\ held' = held
      /\ fault' = "null_frame" /\ free_uts' = free_uts - b
      /\ b = 0 \/ free_uts >= 1 + b
  BY DEF AllocNoRoom, MapFails
<1>2. free_uts' \in Nat /\ free_uts' <= free_uts
  BY <1>1, OwnCount, FrameTableAssumption DEF Side
<1>3. UtsConserved'
  <2>1. Cardinality(mapped) \in Nat
    BY OwnCount, FS_CardinalityType
  <2>2. ft.pages + Cardinality(mapped) + free_uts' <= TotalUts
    BY <1>2, <2>1, OwnCount, FrameTableAssumption
  <2>. QED BY <1>1, <2>2 DEF UtsConserved, OwnUts
<1>4. TypeOK' /\ AssertsHold' /\ HeldAreAllocated' /\ EveryFrameBacked'
  BY <1>1, <1>2 DEF IInv, TypeOK, AssertsHold, HeldAreAllocated,
                    EveryFrameBacked
<1>. QED BY <1>1, <1>3, <1>4 DEF IInv

LEMMA UtTrafficIInv == ASSUME IInv, UtTraffic PROVE IInv'
<1>1. /\ ft' = ft /\ mapped' = mapped /\ held' = held /\ fault' = fault
      /\ free_uts' \in 0 .. (TotalUts - OwnUts)
  BY DEF UtTraffic
<1>2. free_uts' \in Nat /\ UtsConserved'
  BY <1>1, OwnCount, FS_CardinalityType, FrameTableAssumption
  DEF UtsConserved, OwnUts
<1>3. TypeOK' /\ AssertsHold' /\ HeldAreAllocated' /\ EveryFrameBacked'
  BY <1>1, <1>2 DEF IInv, TypeOK, AssertsHold, HeldAreAllocated,
                    EveryFrameBacked
<1>. QED BY <1>1, <1>2, <1>3 DEF IInv

LEMMA AllocNoFrameIInv ==
  ASSUME FrameLimit # 1, IInv,
         NEW b \in Side, NEW s \in Side, AllocNoFrame(b, s)
  PROVE  IInv'
<1> DEFINE room == MakeRoom(ft)
           uts == IF ft.used = ft.capacity THEN free_uts - 1 - b ELSE free_uts
           u == UnclaimEntry(ClaimEntry(room))
<1>f. Typed(ft)
  BY Fields DEF IInv, TypeOK
<1>1. /\ ft' = u /\ held' = held /\ mapped' = mapped
      /\ free_uts' = uts - s /\ (s = 0 \/ uts >= 1 + s)
      /\ ft.used = ft.capacity => ~LimitReached(ft) /\ free_uts >= 1 + b
  BY DEF AllocNoFrame, MapSucceeds, MapFails
<1>s. b \in Nat /\ s \in Nat
  BY FrameTableAssumption DEF Side
<1>2. /\ WellFormed(room) /\ FreshAsserts(room)
      /\ room.used = ft.used /\ room.list_id = ft.list_id
      /\ room.pages = IF ft.used = ft.capacity THEN ft.pages + 1 ELSE ft.pages
      /\ room.capacity = IF FrameLimit # 0
                            /\ FrameLimit < room.pages * FramesPerPage
                         THEN FrameLimit ELSE room.pages * FramesPerPage
  BY <1>1, RoomToGrow
<1>e. fault' = FaultIf(FreshAsserts(room), "null_frame")
  BY DEF AllocNoFrame
<1> HIDE DEF room, uts
<1>r. room \in TableType /\ room.used \in Nat
  BY <1>2, Fields DEF WellFormed, Typed
<1>3. /\ u.used = FreshRef(room) /\ u.capacity = room.capacity
      /\ u.pages = room.pages /\ u.first = room.first /\ u.last = room.last
      /\ u.length = room.length /\ u.next = room.next /\ u.prev = room.prev
      /\ u.list_id = room.list_id /\ u \in TableType
  <2> DEFINE c == ClaimEntry(room)
             n == FreshRef(room)
  <2>1. n \in Nat
    BY <1>r DEF FreshRef
  <2> HIDE DEF n
  <2>2. c = [room EXCEPT !.used = n + 1]
    BY DEF ClaimEntry, n
  <2> HIDE DEF c
  <2>3. /\ c \in TableType /\ c.used = n + 1 /\ c.capacity = room.capacity
        /\ c.pages = room.pages /\ c.first = room.first /\ c.last = room.last
        /\ c.length = room.length /\ c.next = room.next /\ c.prev = room.prev
        /\ c.list_id = room.list_id
    BY <1>r, <2>1, <2>2 DEF TableType
  <2>4. c.used - 1 = n
    BY <2>1, <2>3
  <2>5. u = [c EXCEPT !.used = n]
    BY <2>4 DEF UnclaimEntry, c
  <2> HIDE DEF u
  <2>. QED BY <2>1, <2>3, <2>5 DEF TableType, n
<1> HIDE DEF u
<1>4. /\ FreshRef(room) = (IF ft.used = 0 THEN 1 ELSE ft.used)
      /\ FreshRef(room) < room.capacity
  BY <1>2 DEF FreshRef, FreshAsserts, RefOk
<1>5. WellFormed(u)
  <2>1. u.used <= u.capacity /\ room.used <= u.used
    BY SMTT(30), <1>2, <1>3, <1>4, <1>f, <1>r, Fields DEF Typed
  <2>. QED BY <1>2, <1>3, <2>1, CountersWF
<1>6. mapped' = 1 .. (u.used - 1)
  <2>1. mapped = 1 .. (ft.used - 1)
    BY DEF IInv, EveryFrameBacked
  <2>. QED BY SMTT(30), <1>1, <1>3, <1>4, <1>f, <2>1 DEF Typed
<1>7. EveryFrameBacked'
  <2>1. u.used <= u.capacity /\ u.used \in Nat
    BY <1>5, Fields DEF WellFormed, Inside, Typed
  <2>2. u.capacity = IF FrameLimit # 0 /\ FrameLimit < u.pages * FramesPerPage
                     THEN FrameLimit ELSE u.pages * FramesPerPage
    BY <1>2, <1>3
  <2>3. \A r \in Refs : u.list_id[r] \in Lists => r # NULL_FRAME /\ r < u.used
    BY <1>5 DEF WellFormed, Inside
  <2>4. \A r \in Refs : u.list_id[r] \in Lists => r \in 1 .. (u.used - 1)
    BY <2>1, <2>3, FrameTableAssumption DEF Refs, NULL_FRAME
  <2>. QED BY <1>1, <1>6, <2>1, <2>2, <2>4 DEF EveryFrameBacked
<1>8. HeldAreAllocated'
  BY <1>1, <1>2, <1>3 DEF IInv, HeldAreAllocated
<1>9. free_uts' \in Nat /\ UtsConserved'
  <2>1. Cardinality(mapped) \in Nat
    BY OwnCount, FS_CardinalityType
  <2>2. /\ free_uts' \in Nat
        /\ room.pages + Cardinality(mapped) + free_uts' <= TotalUts
    BY <1>1, <1>2, <1>s, <2>1, OwnCount, FrameTableAssumption DEF uts
  <2>. QED BY <1>1, <1>3, <2>2 DEF UtsConserved, OwnUts
<1>10. TypeOK' /\ AssertsHold'
  BY <1>1, <1>2, <1>3, <1>9, <1>e DEF IInv, TypeOK, AssertsHold, FaultIf
<1>. QED BY <1>1, <1>5, <1>7, <1>8, <1>9, <1>10 DEF IInv

-----------------------------------------------------------------------------
(* The inductive invariant: a well-formed table (links, counts and no      *)
(* cycle), whose allocated frames are those held, whose entries are backed *)
(* and within the machine's memory.  FrameLimit # 1 is needed: with a      *)
(* limit of one the only entry is the sentinel, and frame_data's assert    *)
(* stops the first alloc_frame.                                            *)
THEOREM Inductive == FrameLimit # 1 => (Spec => []IInv)
<1> SUFFICES ASSUME FrameLimit # 1 PROVE Spec => []IInv
  OBVIOUS
<1>1. Init => IInv
  BY InitIInv
<1>2. IInv /\ [Next]_vars => IInv'
  <2> SUFFICES ASSUME IInv, [Next]_vars PROVE IInv'
    OBVIOUS
  <2>1. ASSUME AllocFree PROVE IInv'
    BY <2>1, AllocFreeIInv
  <2>2. ASSUME NEW b \in Side, NEW s \in Side, AllocFresh(b, s) PROVE IInv'
    BY <2>2, AllocFreshIInv
  <2>3. ASSUME NEW b \in Side, AllocNoRoom(b) PROVE IInv'
    BY <2>3, AllocNoRoomIInv
  <2>4. ASSUME NEW b \in Side, NEW s \in Side, AllocNoFrame(b, s) PROVE IInv'
    BY <2>4, AllocNoFrameIInv
  <2>5. ASSUME NEW r \in held \cup {NULL_FRAME}, FreeFrame(r) PROVE IInv'
    BY <2>5, FreeFrameIInv
  <2>6. ASSUME UtTraffic PROVE IInv'
    BY <2>6, UtTrafficIInv
  <2>7. CASE UNCHANGED vars
    BY <2>7, StutterIInv
  <2>. QED BY <2>1, <2>2, <2>3, <2>4, <2>5, <2>6, <2>7 DEF Next
<1>. QED BY <1>1, <1>2, PTL DEF Spec

(* No assert of frame_table.c fails in any sequence of alloc_frame and     *)
(* free_frame calls, failed mappings included.                             *)
THEOREM NoAssertFails == FrameLimit # 1 => (Spec => []AssertsHold)
<1>1. IInv => AssertsHold
  BY DEF IInv
<1>. QED BY <1>1, Inductive, PTL

(* push_front, push_back, pop_front and remove_frame keep both lists       *)
(* doubly linked, acyclic and correctly counted.                           *)
THEOREM ListsStayWellFormed == FrameLimit # 1 => (Spec => []ListsWellFormed)
<1>1. IInv => ListsWellFormed
  BY DEF IInv, WellFormed, Linked, Loose, NoCycle, Counted, Members,
     LinksConsistent, LengthsCorrect, ListsWellFormed
<1>. QED BY <1>1, Inductive, PTL

(* alloc_frame hands no frame to two callers, and never the sentinel.      *)
THEOREM NoFrameHeldTwice == FrameLimit # 1 => (Spec => []HeldAreAllocated)
<1>1. IInv => HeldAreAllocated
  BY DEF IInv
<1>. QED BY <1>1, Inductive, PTL

(* The state has its type; every entry counted in used has its page, the   *)
(* array covers every entry, and the table never takes more untypeds than  *)
(* the machine has.                                                        *)
THEOREM FramesBacked == FrameLimit # 1 => (Spec => []FramesAccounted)
<1>1. IInv => FramesAccounted
  BY DEF IInv, FramesAccounted
<1>. QED BY <1>1, Inductive, PTL
=============================================================================
