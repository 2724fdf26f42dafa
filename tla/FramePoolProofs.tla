-------------------------- MODULE FramePoolProofs ---------------------------
(***************************************************************************)
(* The frame table implements the pool of frames (FramePool), for any      *)
(* number of untypeds and any capacity. The refinement mapping walks the   *)
(* doubly linked lists; the proof shows that the walk of a well-formed     *)
(* list meets its frames, each once, and what each operation of the table  *)
(* does to the walks.                                                      *)
(***************************************************************************)
EXTENDS FrameTableImpl, FrameTableProofs, SequenceTheorems

(* A nonempty set of naturals has a least element: a proof by induction    *)
(* becomes one about the least counterexample.                             *)
LEMMA NatMin ==
  ASSUME NEW S, S \subseteq Nat, S # {}
  PROVE  \E n \in S : \A m \in S : n <= m
<1> DEFINE R == {ss \in Nat \X Nat : ss[1] < ss[2]}
<1>1. IsWellFoundedOn(R, Nat)
  BY NatLessThanWellFounded DEF OpToRel
<1>2. PICK n \in S : \A m \in S : ~(<<m, n>> \in R)
  BY <1>1, WFMin
<1>3. \A m \in S : m \in Nat /\ n \in Nat /\ ~(m < n)
  <2> SUFFICES ASSUME NEW m \in S PROVE m \in Nat /\ n \in Nat /\ ~(m < n)
    OBVIOUS
  <2>1. m \in Nat /\ n \in Nat /\ <<m, n>> \in Nat \X Nat
    OBVIOUS
  <2>2. m < n => <<m, n>> \in R
    BY <2>1
  <2>. QED BY <1>2, <2>1, <2>2
<1>. QED BY <1>3

(* a lists the first N frames met on the way from x along the links g.     *)
Walk(N, x, g, a) ==
  \A n \in 1 .. N : a[n] = IF n = 1 THEN x ELSE g[a[n - 1]]

(* There is one such list.                                                 *)
LEMMA WalkUnique ==
  ASSUME NEW N \in Nat, NEW g, NEW x, NEW a, NEW b,
         Walk(N, x, g, a), Walk(N, x, g, b)
  PROVE  \A n \in 1 .. N : a[n] = b[n]
<1> DEFINE D == {n \in 1 .. N : a[n] # b[n]}
<1>1. CASE D = {}
  BY <1>1
<1>2. CASE D # {}
  <2>0. D \in SUBSET Nat
    OBVIOUS
  <2>1. PICK n \in D : \A m \in D : n <= m
    <3> HIDE DEF D
    <3>. QED BY <1>2, <2>0, NatMin, Zenon
  <2>2. n \in 1 .. N /\ a[n] # b[n]
    BY <2>1
  <2>3. a[n] = (IF n = 1 THEN x ELSE g[a[n - 1]]) /\ b[n] = (IF n = 1 THEN x ELSE g[b[n - 1]])
    BY <2>2 DEF Walk
  <2>4. n # 1 /\ n - 1 \in 1 .. N /\ n - 1 < n
    BY <2>2, <2>3
  <2>5. n - 1 \notin D
    <3>1. ~(n <= n - 1)
      BY <2>2
    <3> HIDE DEF D
    <3>. QED BY <2>1, <3>1
  <2>6. a[n - 1] = b[n - 1]
    BY <2>4, <2>5
  <2>. QED BY <2>2, <2>3, <2>4, <2>6
<1>. QED BY <1>1, <1>2

(* There is such a list when the links stay inside a set.                  *)
LEMMA WalkExists ==
  ASSUME NEW N \in Nat, NEW S, NEW g \in [S -> S], NEW x \in S
  PROVE  \E a \in [1 .. N -> S] : Walk(N, x, g, a)
<1> DEFINE Walks(k, a) == a \in [1 .. k -> S] /\ \A n \in 1 .. k : a[n] = IF n = 1 THEN x ELSE g[a[n - 1]]
           Bad == {k \in Nat : ~ \E a : Walks(k, a)}
<1>1. Bad = {}
  <2> SUFFICES ASSUME Bad # {} PROVE FALSE
    OBVIOUS
  <2>1. PICK k \in Bad : \A m \in Bad : k <= m
    BY NatMin, Zenon
  <2>2. k # 0
    <3>1. Walks(0, [n \in 1 .. 0 |-> x])
      OBVIOUS
    <3>. QED BY <2>1, <3>1, Zenon
  <2>3. k - 1 \in Nat /\ k - 1 \notin Bad /\ k \in Nat
    <3>1. k \in Nat
      BY <2>1
    <3>2. k - 1 \in Nat /\ ~(k <= k - 1)
      BY <2>2, <3>1
    <3> HIDE DEF Bad
    <3>. QED BY <2>1, <3>1, <3>2
  <2>4. PICK a : Walks(k - 1, a)
    BY <2>3
  <2> DEFINE y == IF k = 1 THEN x ELSE g[a[k - 1]]
             b == [n \in 1 .. k |-> IF n = k THEN y ELSE a[n]]
  <2>5. \A n \in 1 .. (k - 1) : a[n] \in S /\ a[n] = IF n = 1 THEN x ELSE g[a[n - 1]]
    BY <2>4
  <2>6. y \in S
    <3>1. k # 1 => k - 1 \in 1 .. (k - 1)
      BY <2>2, <2>3
    <3>. QED BY <2>5, <3>1
  <2> HIDE DEF y
  <2>7. \A n \in 1 .. k : n # k => n \in 1 .. (k - 1)
    BY <2>3
  <2>8. b \in [1 .. k -> S]
    BY <2>5, <2>6, <2>7
  <2>9. ASSUME NEW n \in 1 .. k PROVE b[n] = IF n = 1 THEN x ELSE g[b[n - 1]]
    <3>1. n # 1 => n - 1 \in 1 .. k /\ n - 1 # k
      BY <2>3
    <3>2. n # 1 => b[n - 1] = a[n - 1]
      BY <3>1
    <3>3. CASE n = k
      BY <3>2, <3>3 DEF y
    <3>4. CASE n # k
      <4>1. b[n] = a[n] /\ n \in 1 .. (k - 1)
        BY <2>7, <3>4
      <4>. QED BY <2>5, <3>2, <4>1
    <3>. QED BY <3>3, <3>4
  <2>10. Walks(k, b)
    BY <2>8, <2>9
  <2>. QED BY <2>1, <2>10, Zenon
<1>2. PICK a : Walks(N, a)
  BY <1>1
<1>. QED BY <1>2 DEF Walk

(* s lists the frames of list l of the table, from the first along the     *)
(* next links, as many as the length says.                                 *)
Listing(t, l, s) ==
  /\ s \in Seq(Refs) /\ Len(s) = t.length[l]
  /\ \A n \in 1 .. Len(s) : s[n] = IF n = 1 THEN t.first[l] ELSE t.next[s[n - 1]]

(* ListSeq is that list.                                                   *)
LEMMA ListingIs ==
  ASSUME NEW t, NEW l, NEW s, Listing(t, l, s)
  PROVE  ListSeq(t, l) = s
<1> DEFINE N == t.length[l]
           w == ListSeq(t, l)
<1>1. s \in Seq(Refs) /\ Len(s) = N /\ N \in Nat
  BY LenProperties DEF Listing
<1>2. s \in [1 .. N -> Refs] /\ \A n \in 1 .. N : s[n] = IF n = 1 THEN t.first[l] ELSE t.next[s[n - 1]]
  BY <1>1, LenProperties DEF Listing
<1>3. s = [n \in 1 .. N |-> IF n = 1 THEN t.first[l] ELSE t.next[s[n - 1]]]
  <2>1. s = [n \in 1 .. N |-> s[n]]
    BY <1>2
  <2>. QED BY <1>2, <2>1
<1>4. w = [n \in 1 .. N |-> IF n = 1 THEN t.first[l] ELSE t.next[w[n - 1]]]
  BY <1>3, Zenon DEF ListSeq
<1> HIDE DEF w
<1>5. \A n \in 1 .. N : s[n] = w[n]
  <2> DEFINE g == t.next
             x == t.first[l]
  <2>1. Walk(N, x, g, s) /\ Walk(N, x, g, w)
    BY <1>2, <1>4, Zenon DEF Walk
  <2>2. N \in Nat
    BY <1>1 DEF N
  <2> HIDE DEF g, x, N
  <2>. QED BY <2>1, <2>2, WalkUnique
<1>6. w = [n \in 1 .. N |-> w[n]] /\ s = [n \in 1 .. N |-> s[n]]
  BY <1>2, <1>4
<1>. QED BY <1>5, <1>6 DEF w

(* A typed table has one.                                                  *)
LEMMA ListingExists ==
  ASSUME NEW t \in TableType, Counted(t), NEW l \in Lists
  PROVE  Listing(t, l, ListSeq(t, l))
<1> DEFINE N == t.length[l]
           x == t.first[l]
           g == t.next
<1>1. g \in [Refs -> Refs] /\ x \in Refs
  BY Fields DEF Typed
<1>2. N \in Nat
  <2>1. N = Cardinality(Members(t, l))
    BY DEF Counted
  <2>. QED BY <2>1, MembersFinite, FS_CardinalityType
<1> HIDE DEF N, x, g
<1>3. PICK a \in [1 .. N -> Refs] : Walk(N, x, g, a)
  BY <1>1, <1>2, WalkExists
<1>4. a \in Seq(Refs) /\ Len(a) = N
  BY <1>2, IsASeq, LenProperties
<1>5. \A n \in 1 .. N : a[n] = IF n = 1 THEN x ELSE g[a[n - 1]]
  BY <1>3 DEF Walk
<1>6. Listing(t, l, a)
  BY <1>4, <1>5 DEF Listing, N, x, g
<1>. QED BY <1>6, ListingIs

(* The links of a well-formed list, from FrameTableProofs.                 *)
LEMMA LinkFacts ==
  ASSUME NEW t, WellFormed(t), NEW l \in Lists
  PROVE  /\ \A r \in Members(t, l) :
              /\ r \in Refs /\ r # NULL_FRAME
              /\ t.next[r] \in Refs /\ t.prev[r] \in Refs
              /\ t.next[r] = NULL_FRAME => t.last[l] = r
              /\ t.next[r] # NULL_FRAME => t.next[r] \in Members(t, l) /\ t.prev[t.next[r]] = r
              /\ t.prev[r] = NULL_FRAME => t.first[l] = r
         /\ t.first[l] # NULL_FRAME => t.first[l] \in Members(t, l) /\ t.prev[t.first[l]] = NULL_FRAME
         /\ t.last[l] # NULL_FRAME => t.last[l] \in Members(t, l) /\ t.next[t.last[l]] = NULL_FRAME
         /\ t.first[l] = NULL_FRAME <=> t.last[l] = NULL_FRAME
         /\ t.length[l] = Cardinality(Members(t, l)) /\ t.length[l] \in Nat
<1>1. t \in TableType /\ Typed(t) /\ Inside(t) /\ LinksOf(t, l) /\ Counted(t)
  BY Fields DEF WellFormed, Linked
<1>2. t.first[l] \in Refs /\ t.last[l] \in Refs /\ \A r \in Refs : t.next[r] \in Refs /\ t.prev[r] \in Refs
  BY <1>1 DEF Typed
<1>3. \A r \in Members(t, l) : r \in Refs /\ t.list_id[r] = l /\ r # NULL_FRAME
  BY <1>1 DEF Members, Inside
<1>4. t.length[l] = Cardinality(Members(t, l)) /\ t.length[l] \in Nat
  BY <1>1, MembersFinite, FS_CardinalityType DEF Counted
<1>. QED BY <1>1, <1>2, <1>3, <1>4 DEF LinksOf, Members

(* The listing, a step at a time.                                          *)
LEMMA ListingSteps ==
  ASSUME NEW t, NEW l, NEW s, Listing(t, l, s)
  PROVE  /\ s \in Seq(Refs) /\ Len(s) \in Nat /\ Len(s) = t.length[l]
         /\ 1 \in 1 .. Len(s) => s[1] = t.first[l]
         /\ \A n \in 1 .. Len(s) : n # 1 => n - 1 \in 1 .. Len(s) /\ s[n] = t.next[s[n - 1]]
<1>1. s \in Seq(Refs) /\ Len(s) \in Nat
  BY LenProperties DEF Listing
<1>2. \A n \in 1 .. Len(s) : n # 1 => n - 1 \in 1 .. Len(s)
  BY <1>1
<1>. QED BY <1>1, <1>2 DEF Listing

(* The walk stays on the list: had it met NULL_FRAME early, it would have  *)
(* met every frame of the list by then, and these are as many as the       *)
(* length says.                                                            *)
LEMMA WalkInside ==
  ASSUME NEW t, WellFormed(t), NEW l \in Lists, NEW s, Listing(t, l, s)
  PROVE  \A n \in 1 .. Len(s) : s[n] \in Members(t, l)
<1> DEFINE M == Members(t, l)
           Bad == {n \in 1 .. Len(s) : s[n] \notin M}
<1>l. /\ Len(s) \in Nat /\ Len(s) = Cardinality(M)
      /\ 1 \in 1 .. Len(s) => s[1] = t.first[l]
      /\ \A n \in 1 .. Len(s) : n # 1 => n - 1 \in 1 .. Len(s) /\ s[n] = t.next[s[n - 1]]
  BY LinkFacts, ListingSteps
<1>m. M \in SUBSET (Refs \ {NULL_FRAME}) /\ IsFiniteSet(M)
  <2>1. M \subseteq Refs /\ NULL_FRAME \notin M
    BY LinkFacts
  <2>. QED BY <2>1, MembersFinite
<1>c. \A S \in SUBSET (Refs \ {NULL_FRAME}) : S # {} => \E r \in S : t.next[r] \notin S
  BY DEF WellFormed, NoCycleIn
<1> SUFFICES ASSUME Bad # {} PROVE FALSE
  OBVIOUS
<1>0. Bad \subseteq Nat
  OBVIOUS
<1>1. PICK i \in Bad : \A m \in Bad : i <= m
  <2> HIDE DEF Bad
  <2>. QED BY <1>0, NatMin, Zenon
<1>2. i \in 1 .. Len(s) /\ s[i] \notin M
  BY <1>1
<1>3. \A j \in 1 .. (i - 1) : j \in 1 .. Len(s) /\ s[j] \in M
  <2> SUFFICES ASSUME NEW j \in 1 .. (i - 1) PROVE j \in 1 .. Len(s) /\ s[j] \in M
    OBVIOUS
  <2>1. j \in 1 .. Len(s) /\ ~(i <= j)
    BY <1>l, <1>2
  <2>2. j \notin Bad
    <3> HIDE DEF Bad
    <3>. QED BY <1>1, <2>1
  <2>. QED BY <2>1, <2>2
<1> HIDE DEF Bad
<1> DEFINE W == {s[j] : j \in 1 .. (i - 1)}
           S == M \ W
<1>4. t.last[l] \in W \cup {NULL_FRAME}
  <2>1. CASE i = 1
    <3>1. t.first[l] \notin M
      BY <1>2, <1>l, <2>1
    <3>. QED BY <3>1, LinkFacts
  <2>2. CASE i # 1
    <3>1. i - 1 \in 1 .. (i - 1) /\ s[i - 1] \in M /\ s[i] = t.next[s[i - 1]]
      BY <1>2, <1>3, <1>l, <2>2
    <3>2. t.last[l] = s[i - 1]
      BY <3>1, <1>2, LinkFacts
    <3>. QED BY <3>1, <3>2
  <2>. QED BY <2>1, <2>2
<1>5. ASSUME NEW r \in M, t.next[r] \in W PROVE r \in W
  <2>1. PICK j \in 1 .. (i - 1) : t.next[r] = s[j]
    BY <1>5
  <2>2. j \in 1 .. Len(s) /\ s[j] \in M /\ j \in Nat
    BY <1>3
  <2>3. t.prev[s[j]] = r /\ r # NULL_FRAME
    BY <2>1, <2>2, LinkFacts
  <2>4. CASE j = 1
    <3>1. s[j] = t.first[l]
      BY <2>2, <2>4, <1>l
    <3>4. t.first[l] \in Members(t, l)
      BY <2>2, <3>1
    <3>3. t.first[l] # NULL_FRAME
      BY <3>4, LinkFacts
    <3>2. t.prev[s[j]] = NULL_FRAME
      BY <3>1, <3>3, LinkFacts
    <3>. QED BY <2>3, <3>2
  <2>5. CASE j # 1
    <3>1. j - 1 \in 1 .. (i - 1) /\ s[j] = t.next[s[j - 1]]
      BY <2>2, <2>5, <1>l, <1>2
    <3>2. s[j - 1] \in M
      BY <3>1, <1>3
    <3>3. t.next[s[j - 1]] # NULL_FRAME
      BY <3>1, <2>2, LinkFacts
    <3>4. t.prev[s[j]] = s[j - 1]
      BY <3>1, <3>2, <3>3, LinkFacts
    <3>. QED BY <2>3, <3>1, <3>4
  <2>. QED BY <2>4, <2>5
<1> HIDE DEF W
<1>6. S = {}
  <2> SUFFICES ASSUME S # {} PROVE FALSE
    OBVIOUS
  <2>1. PICK r \in S : t.next[r] \notin S
    <3>1. S \in SUBSET (Refs \ {NULL_FRAME})
      BY <1>m
    <3> HIDE DEF S
    <3>. QED BY <3>1, <1>c
  <2>2. r \in M /\ r \notin W
    BY <2>1
  <2>3. CASE t.next[r] = NULL_FRAME
    <3>1. t.last[l] = r /\ r # NULL_FRAME
      BY <2>2, <2>3, LinkFacts
    <3>. QED BY <3>1, <2>2, <1>4
  <2>4. CASE t.next[r] # NULL_FRAME
    <3>1. t.next[r] \in M
      BY <2>2, <2>4, LinkFacts
    <3>2. t.next[r] \in W
      BY <3>1, <2>1
    <3>. QED BY <3>2, <2>2, <1>5
  <2>. QED BY <2>3, <2>4
<1>7. M \subseteq W
  BY <1>6
<1>8. Cardinality(M) <= i - 1
  <2>1. IsFiniteSet(1 .. (i - 1)) /\ Cardinality(1 .. (i - 1)) = i - 1
    <3> DEFINE k == i - 1
    <3>1. k \in Nat
      BY <1>2, <1>l
    <3> HIDE DEF k
    <3>2. IsFiniteSet(1 .. k) /\ Cardinality(1 .. k) = k
      BY <3>1, FS_Interval
    <3>. QED BY <3>2 DEF k
  <2> DEFINE h == [j \in 1 .. (i - 1) |-> s[j]]
  <2>2. h \in Surjection(1 .. (i - 1), W)
    BY DEF W, Surjection
  <2>3. IsFiniteSet(W) /\ Cardinality(W) <= i - 1
    <3> HIDE DEF h
    <3>. QED BY <2>1, <2>2, FS_Surjection
  <2>4. Cardinality(M) <= Cardinality(W) /\ Cardinality(W) \in Nat /\ Cardinality(M) \in Nat
    BY <2>3, <1>7, <1>m, FS_Subset, FS_CardinalityType
  <2>. QED BY <2>3, <2>4, <1>2, <1>l
<1>. QED BY <1>8, <1>l, <1>2

(* The listing of a well-formed list meets its frames, each once, in the   *)
(* order of both links, and ends at the last one.                          *)
Ordered(t, l, s) ==
  /\ Listing(t, l, s)
  /\ \A n \in 1 .. Len(s) : s[n] \in Members(t, l)
  /\ \A n \in 1 .. Len(s) : t.prev[s[n]] = IF n = 1 THEN NULL_FRAME ELSE s[n - 1]
  /\ \A m, n \in 1 .. Len(s) : s[m] = s[n] => m = n
  /\ \A r \in Members(t, l) : \E n \in 1 .. Len(s) : r = s[n]
  /\ \A n \in 1 .. Len(s) : t.next[s[n]] = IF n = Len(s) THEN NULL_FRAME ELSE s[n + 1]
  /\ IF Len(s) = 0 THEN t.first[l] = NULL_FRAME /\ t.last[l] = NULL_FRAME
     ELSE t.first[l] = s[1] /\ t.last[l] = s[Len(s)]

(* The listing of a well-formed list does so.                              *)
LEMMA ListOrdered ==
  ASSUME NEW t, WellFormed(t), NEW l \in Lists
  PROVE  Ordered(t, l, ListSeq(t, l))
<1> DEFINE s == ListSeq(t, l)
           M == Members(t, l)
<1>1. Listing(t, l, s)
  BY ListingExists DEF WellFormed
<1> HIDE DEF s
<1>2. \A n \in 1 .. Len(s) : s[n] \in M
  BY <1>1, WalkInside
<1>l. /\ Len(s) \in Nat /\ Len(s) = Cardinality(M) /\ s \in Seq(Refs)
      /\ 1 \in 1 .. Len(s) => s[1] = t.first[l]
      /\ \A n \in 1 .. Len(s) : n # 1 => n - 1 \in 1 .. Len(s) /\ s[n] = t.next[s[n - 1]]
  BY <1>1, LinkFacts, ListingSteps
<1>3. ASSUME NEW n \in 1 .. Len(s)
      PROVE  t.prev[s[n]] = IF n = 1 THEN NULL_FRAME ELSE s[n - 1]
  <2>0. s[n] \in M
    BY <1>2
  <2>1. s[n] \in M /\ s[n] # NULL_FRAME
    BY <2>0, LinkFacts
  <2>2. n = 1 => s[n] = t.first[l]
    BY <1>l
  <2>3. n # 1 => n - 1 \in 1 .. Len(s) /\ s[n] = t.next[s[n - 1]]
    BY <1>l
  <2>4. n = 1 => t.prev[s[n]] = NULL_FRAME
    BY <2>1, <2>2, LinkFacts
  <2>5. n # 1 => t.prev[s[n]] = s[n - 1]
    BY <2>1, <2>3, <1>2, LinkFacts
  <2>. QED BY <2>4, <2>5
<1>4. \A m, n \in 1 .. Len(s) : s[m] = s[n] => m = n
  <2> DEFINE Bad == {m \in 1 .. Len(s) : \E n \in 1 .. Len(s) : s[m] = s[n] /\ m < n}
  <2>1. Bad = {}
    <3> SUFFICES ASSUME Bad # {} PROVE FALSE
      OBVIOUS
    <3>1. Bad \subseteq Nat
      OBVIOUS
    <3>2. PICK m \in Bad : \A k \in Bad : m <= k
      <4> HIDE DEF Bad
      <4>. QED BY <3>1, NatMin, Zenon
    <3>3. m \in 1 .. Len(s)
      BY <3>2
    <3>4. PICK n \in 1 .. Len(s) : s[m] = s[n] /\ m < n
      BY <3>2
    <3>5. n # 1 /\ n - 1 \in 1 .. Len(s)
      BY <3>3, <3>4, <1>l
    <3>6. t.prev[s[n]] = s[n - 1] /\ s[n - 1] # NULL_FRAME
      BY <3>5, <1>3, <1>2, LinkFacts, SMTT(30)
    <3>7. m # 1
      BY <3>3, <3>4, <3>6, <1>3, SMTT(30)
    <3>8. m - 1 \in 1 .. Len(s) /\ t.prev[s[m]] = s[m - 1]
      BY <3>3, <3>7, <1>3, <1>l
    <3>9. s[m - 1] = s[n - 1] /\ m - 1 < n - 1 /\ ~(m <= m - 1)
      BY <3>3, <3>4, <3>6, <3>8, <1>l
    <3>10. m - 1 \in Bad
      BY <3>5, <3>8, <3>9
    <3> HIDE DEF Bad
    <3>. QED BY <3>2, <3>9, <3>10
  <2>2. \A m, n \in 1 .. Len(s) : s[m] = s[n] => ~(m < n) /\ ~(n < m)
    BY <2>1
  <2>3. \A m, n \in 1 .. Len(s) : m < n \/ n < m \/ m = n
    BY <1>l
  <2> HIDE DEF Bad
  <2>. QED BY <2>2, <2>3
<1>5. \A r \in M : \E n \in 1 .. Len(s) : r = s[n]
  <2> DEFINE D == 1 .. Len(s)
             h == [n \in D |-> s[n]]
  <2>1. h \in Injection(D, M)
    <3>1. h \in [D -> M]
      BY <1>2
    <3>2. \A m, n \in D : h[m] = h[n] => m = n
      BY <1>4
    <3> HIDE DEF h, D, M
    <3>. QED BY <3>1, <3>2 DEF Injection, IsInjective
  <2>2. IsFiniteSet(M)
    BY MembersFinite
  <2>3. Cardinality(D) = Len(s)
    BY <1>l, FS_Interval
  <2>4. h \in Surjection(D, M)
    <3> HIDE DEF h, D, M
    <3>. QED BY <2>1, <2>2, <2>3, <1>l, FS_Injection
  <2>. QED BY <2>4, Zenon DEF Surjection
<1>6. ASSUME NEW n \in 1 .. Len(s)
      PROVE  t.next[s[n]] = IF n = Len(s) THEN NULL_FRAME ELSE s[n + 1]
  <2>1. CASE n # Len(s)
    <3>1. n + 1 \in 1 .. Len(s) /\ n + 1 # 1 /\ (n + 1) - 1 = n
      BY <1>l, <2>1
    <3>. QED BY <3>1, <1>l, <2>1
  <2>2. CASE n = Len(s)
    <3> SUFFICES ASSUME t.next[s[n]] # NULL_FRAME PROVE FALSE
      BY <2>2
    <3>1. s[n] \in M /\ s[n] # NULL_FRAME
      BY <1>2, LinkFacts
    <3>2. t.next[s[n]] \in M /\ t.prev[t.next[s[n]]] = s[n]
      BY <3>1, LinkFacts
    <3>3. PICK j \in 1 .. Len(s) : t.next[s[n]] = s[j]
      BY <3>2, <1>5
    <3>4. j # 1 /\ s[n] = s[j - 1] /\ j - 1 \in 1 .. Len(s)
      BY <3>1, <3>2, <3>3, <1>3, <1>l
    <3>5. n = j - 1
      BY <3>4, <1>4
    <3>. QED BY <3>5, <2>2, <1>l
  <2>. QED BY <2>1, <2>2
<1>7. IF Len(s) = 0 THEN t.first[l] = NULL_FRAME /\ t.last[l] = NULL_FRAME
      ELSE t.first[l] = s[1] /\ t.last[l] = s[Len(s)]
  <2>1. CASE Len(s) = 0
    <3>1. \A n \in 1 .. Len(s) : FALSE
      BY <2>1
    <3>2. t.first[l] \notin M
      BY <3>1, <1>5
    <3>. QED BY <3>2, <2>1, LinkFacts
  <2>2. CASE Len(s) # 0
    <3>1. 1 \in 1 .. Len(s) /\ Len(s) \in 1 .. Len(s)
      BY <1>l, <2>2
    <3>2. t.next[s[Len(s)]] = NULL_FRAME /\ s[Len(s)] \in M
      BY <3>1, <1>6, <1>2
    <3>. QED BY <3>1, <3>2, <2>2, <1>l, LinkFacts
  <2>. QED BY <2>1, <2>2
<1>8. Ordered(t, l, s)
  BY <1>1, <1>2, <1>3, <1>4, <1>5, <1>6, <1>7 DEF Ordered
<1>. QED BY <1>8 DEF s

(* The listing depends on the links of its frames only.                    *)
LEMMA ListingKept ==
  ASSUME NEW t, NEW u, NEW k, NEW s, Ordered(t, k, s),
         u.first[k] = t.first[k], u.length[k] = t.length[k],
         \A r \in Members(t, k) : u.next[r] = t.next[r]
  PROVE  Listing(u, k, s)
<1>1. Listing(t, k, s) /\ \A n \in 1 .. Len(s) : s[n] \in Members(t, k)
  BY DEF Ordered
<1>2. \A n \in 1 .. Len(s) : n # 1 => n - 1 \in 1 .. Len(s)
  BY <1>1, ListingSteps
<1>. QED BY <1>1, <1>2, SMTT(30) DEF Listing

(* push_front puts the frame before the others of its list.                *)
LEMMA PushFrontSeq ==
  ASSUME NEW t, WellFormed(t), NEW l \in Lists, NEW f \in Refs, Unlinked(t, f)
  PROVE  /\ ListSeq(PushFront(t, l, f), l) = <<f>> \o ListSeq(t, l)
         /\ \A k \in Lists \ {l} : ListSeq(PushFront(t, l, f), k) = ListSeq(t, k)
<1> DEFINE u == PushFront(t, l, f)
           s == ListSeq(t, l)
           r == <<f>> \o s
<1>t. Typed(t)
  BY Fields DEF WellFormed
<1>u. /\ u.first = [t.first EXCEPT ![l] = f]
      /\ u.length = [t.length EXCEPT ![l] = t.length[l] + 1]
      /\ u.next = [t.next EXCEPT ![f] = t.first[l]]
  BY <1>t DEF PushFront, Typed, WellFormed, TableType
<1>v. /\ u.first[l] = f /\ u.length[l] = t.length[l] + 1
      /\ u.next[f] = t.first[l]
      /\ \A q \in Refs : q # f => u.next[q] = t.next[q]
      /\ \A k \in Lists : k # l => u.first[k] = t.first[k] /\ u.length[k] = t.length[k]
  BY <1>t, <1>u DEF Typed
<1>f. \A k \in Lists : f \notin Members(t, k)
  BY Names DEF Unlinked, Members
<1> HIDE DEF u, s
<1>1. \A k \in Lists \ {l} : ListSeq(u, k) = ListSeq(t, k)
  <2> SUFFICES ASSUME NEW k \in Lists \ {l} PROVE ListSeq(u, k) = ListSeq(t, k)
    OBVIOUS
  <2>1. Ordered(t, k, ListSeq(t, k))
    BY ListOrdered
  <2>2. \A q \in Members(t, k) : u.next[q] = t.next[q]
    BY <1>v, <1>f DEF Members
  <2>3. Listing(u, k, ListSeq(t, k))
    BY <1>v, <2>1, <2>2, ListingKept
  <2>. QED BY <2>3, ListingIs
<1>2. Ordered(t, l, s)
  BY ListOrdered DEF s
<1>3. /\ s \in Seq(Refs) /\ Len(s) \in Nat /\ Len(s) = t.length[l]
      /\ \A n \in 1 .. Len(s) : s[n] \in Members(t, l) /\ s[n] \in Refs /\ s[n] # f
      /\ 1 \in 1 .. Len(s) => s[1] = t.first[l]
      /\ \A n \in 1 .. Len(s) : n # 1 => n - 1 \in 1 .. Len(s) /\ s[n] = t.next[s[n - 1]]
  BY <1>2, <1>f, ListingSteps DEF Ordered, Members
<1>4. /\ r \in Seq(Refs) /\ Len(r) = Len(s) + 1 /\ r[1] = f
      /\ \A n \in 1 .. Len(r) : n # 1 => n - 1 \in 1 .. Len(s) /\ r[n] = s[n - 1]
  BY <1>3
<1> HIDE DEF r
<1>5. ASSUME NEW n \in 1 .. Len(r) PROVE r[n] = IF n = 1 THEN u.first[l] ELSE u.next[r[n - 1]]
  <2>1. CASE n = 1
    BY <2>1, <1>4, <1>v
  <2>2. CASE n # 1
    <3> DEFINE m == n - 1
    <3>1. m \in 1 .. Len(s) /\ r[n] = s[m] /\ m \in 1 .. Len(r)
      BY <2>2, <1>3, <1>4
    <3>2. CASE m = 1
      BY <3>1, <3>2, <2>2, <1>v, <1>4, <1>3, SMTT(30)
    <3>3. CASE m # 1
      <4>1. m - 1 \in 1 .. Len(s) /\ s[m] = t.next[s[m - 1]] /\ r[m] = s[m - 1]
        BY <3>1, <3>3, <1>3, <1>4, Zenon
      <4>2. u.next[s[m - 1]] = t.next[s[m - 1]]
        BY <4>1, <1>3, <1>v
      <4>. QED BY <4>1, <4>2, <3>1, <2>2
    <3>. QED BY <3>2, <3>3
  <2>. QED BY <2>1, <2>2
<1>6. Listing(u, l, r)
  BY <1>3, <1>4, <1>5, <1>v DEF Listing
<1>7. ListSeq(u, l) = r
  BY <1>6, ListingIs
<1>. QED BY <1>1, <1>7 DEF u, s, r

(* push_back puts the frame behind the others of its list.                 *)
LEMMA PushBackSeq ==
  ASSUME NEW t, WellFormed(t), NEW l \in Lists, NEW f \in Refs, Unlinked(t, f)
  PROVE  /\ ListSeq(PushBack(t, l, f), l) = Append(ListSeq(t, l), f)
         /\ \A k \in Lists \ {l} : ListSeq(PushBack(t, l, f), k) = ListSeq(t, k)
<1> DEFINE u == PushBack(t, l, f)
           s == ListSeq(t, l)
           r == Append(s, f)
<1>t. Typed(t)
  BY Fields DEF WellFormed
<1>f. \A k \in Lists : f \notin Members(t, k)
  BY Names DEF Unlinked, Members
<1>2. Ordered(t, l, s)
  BY ListOrdered
<1> HIDE DEF s
<1>3. /\ s \in Seq(Refs) /\ Len(s) \in Nat /\ Len(s) = t.length[l]
      /\ \A n \in 1 .. Len(s) : s[n] \in Members(t, l) /\ s[n] \in Refs /\ s[n] # f
      /\ 1 \in 1 .. Len(s) => s[1] = t.first[l]
      /\ \A n \in 1 .. Len(s) : n # 1 => n - 1 \in 1 .. Len(s) /\ s[n] = t.next[s[n - 1]]
      /\ \A m, n \in 1 .. Len(s) : s[m] = s[n] => m = n
      /\ Len(s) = 0 => t.last[l] = NULL_FRAME
      /\ Len(s) # 0 => t.last[l] = s[Len(s)] /\ t.first[l] = s[1]
  BY <1>2, <1>f, ListingSteps DEF Ordered, Members
<1>a. CASE t.last[l] = NULL_FRAME
  <2>1. u = PushFront(t, l, f)
    BY <1>a DEF PushBack
  <2>2. Len(s) = 0
    <3> SUFFICES ASSUME Len(s) # 0 PROVE FALSE
      OBVIOUS
    <3>1. Len(s) \in 1 .. Len(s)
      BY <1>3
    <3>2. t.last[l] \in Members(t, l)
      BY <3>1, <1>3
    <3>. QED BY <3>2, <1>a, LinkFacts, Zenon
  <2>3. s = <<>>
    BY <2>2, <1>3
  <2>4. <<f>> \o s = Append(s, f)
    BY <2>3
  <2> HIDE DEF u
  <2>5. /\ ListSeq(u, l) = <<f>> \o s
        /\ \A k \in Lists \ {l} : ListSeq(u, k) = ListSeq(t, k)
    BY <2>1, PushFrontSeq DEF s
  <2>6. ListSeq(u, l) = Append(s, f)
    BY <2>4, <2>5
  <2>. QED BY <2>5, <2>6 DEF s, u
<1>b. CASE t.last[l] # NULL_FRAME
  <2>l. Len(s) # 0 /\ t.last[l] = s[Len(s)] /\ Len(s) \in 1 .. Len(s)
    BY <1>b, <1>3
  <2> DEFINE z == t.last[l]
  <2>z. z \in Refs /\ z # f /\ z \in Members(t, l)
    BY <2>l, <1>3
  <2>u. /\ u.first = t.first
        /\ u.length = [t.length EXCEPT ![l] = t.length[l] + 1]
        /\ u.next = [t.next EXCEPT ![z] = f]
    BY <1>t, <1>b DEF PushBack, AppendFrame, Typed, WellFormed, TableType
  <2>v. /\ u.length[l] = t.length[l] + 1 /\ u.next[z] = f
        /\ u.first[l] = t.first[l]
        /\ \A q \in Refs : q # z => u.next[q] = t.next[q]
        /\ \A k \in Lists : k # l => u.first[k] = t.first[k] /\ u.length[k] = t.length[k]
    BY <1>t, <2>u, <2>z, SMTT(30) DEF Typed
  <2> HIDE DEF u, z
  <2>1. \A k \in Lists \ {l} : ListSeq(u, k) = ListSeq(t, k)
    <3> SUFFICES ASSUME NEW k \in Lists \ {l} PROVE ListSeq(u, k) = ListSeq(t, k)
      OBVIOUS
    <3>1. Ordered(t, k, ListSeq(t, k))
      BY ListOrdered
    <3>2. \A q \in Members(t, k) : u.next[q] = t.next[q]
      BY <2>v, <2>z DEF Members
    <3>3. Listing(u, k, ListSeq(t, k))
      BY <2>v, <3>1, <3>2, ListingKept
    <3>. QED BY <3>3, ListingIs
  <2>4. /\ r \in Seq(Refs) /\ Len(r) = Len(s) + 1 /\ r[Len(s) + 1] = f
        /\ \A n \in 1 .. Len(s) : r[n] = s[n]
    BY <1>3, AppendProperties
  <2> HIDE DEF r
  <2>5. ASSUME NEW n \in 1 .. Len(r) PROVE r[n] = IF n = 1 THEN u.first[l] ELSE u.next[r[n - 1]]
    <3>1. CASE n = Len(s) + 1
      <4>1. n # 1 /\ n - 1 = Len(s) /\ r[n - 1] = z
        BY <3>1, <2>l, <2>4, <1>3 DEF z
      <4>. QED BY <4>1, <3>1, <2>4, <2>v
    <3>2. CASE n # Len(s) + 1
      <4>1. n \in 1 .. Len(s) /\ r[n] = s[n]
        BY <3>2, <2>4, <1>3
      <4>2. CASE n = 1
        BY <4>1, <4>2, <2>l, <1>3, <2>v
      <4>3. CASE n # 1
        <5>1. n - 1 \in 1 .. Len(s) /\ s[n] = t.next[s[n - 1]] /\ r[n - 1] = s[n - 1] /\ n - 1 # Len(s)
          BY <4>1, <4>3, <1>3, <2>4
        <5>2. s[n - 1] # z /\ s[n - 1] \in Refs
          BY <5>1, <2>l, <1>3 DEF z
        <5>. QED BY <5>1, <5>2, <4>1, <4>3, <2>v
      <4>. QED BY <4>2, <4>3
    <3>. QED BY <3>1, <3>2
  <2>6. Listing(u, l, r)
    BY <1>3, <2>4, <2>5, <2>v DEF Listing
  <2>7. ListSeq(u, l) = r
    BY <2>6, ListingIs
  <2>. QED BY <2>1, <2>7 DEF u, s, r
<1>. QED BY <1>a, <1>b, SMTT(30)

(* r is s without its i-th element.                                        *)
RemovedAt(S, s, i, r) ==
  /\ r \in Seq(S) /\ Len(r) = Len(s) - 1
  /\ \A n \in 1 .. (Len(s) - 1) : r[n] = IF n < i THEN s[n] ELSE s[n + 1]

(* The sequence without its i-th element, as FramePool writes it.          *)
Without(s, i) == SubSeq(s, 1, i - 1) \o SubSeq(s, i + 1, Len(s))

(* That is what it is.                                                     *)
LEMMA WithoutIs ==
  ASSUME NEW S, NEW s \in Seq(S), NEW i \in 1 .. Len(s)
  PROVE  RemovedAt(S, s, i, Without(s, i))
<1> DEFINE a == SubSeq(s, 1, i - 1)
           b == SubSeq(s, i + 1, Len(s))
<1>0. Len(s) \in Nat /\ i \in Nat /\ \A n \in 1 .. Len(s) : s[n] \in S
  BY LenProperties, ElementOfSeq
<1>1. /\ a \in Seq(S) /\ Len(a) = i - 1
      /\ \A n \in 1 .. (i - 1) : a[n] = s[n]
  <2>1. 1 \in Int /\ i - 1 \in Int /\ \A n \in 1 .. (i - 1) : s[n] \in S
    BY <1>0
  <2>2. /\ a \in Seq(S) /\ Len(a) = (IF 1 <= i - 1 THEN (i - 1) - 1 + 1 ELSE 0)
        /\ \A n \in 1 .. ((i - 1) - 1 + 1) : a[n] = s[1 + n - 1]
    BY <2>1, SubSeqProperties
  <2> HIDE DEF a
  <2>3. \A n \in 1 .. (i - 1) : n \in 1 .. ((i - 1) - 1 + 1) /\ 1 + n - 1 = n
    BY <1>0
  <2>. QED BY <2>2, <2>3, <1>0
<1>2. /\ b \in Seq(S) /\ Len(b) = Len(s) - i
      /\ \A n \in 1 .. (Len(s) - i) : b[n] = s[i + n]
  <2>1. i + 1 \in Int /\ Len(s) \in Int /\ \A n \in (i + 1) .. Len(s) : s[n] \in S
    BY <1>0
  <2>2. /\ b \in Seq(S) /\ Len(b) = (IF i + 1 <= Len(s) THEN Len(s) - (i + 1) + 1 ELSE 0)
        /\ \A n \in 1 .. (Len(s) - (i + 1) + 1) : b[n] = s[(i + 1) + n - 1]
    BY <2>1, SubSeqProperties
  <2> HIDE DEF b
  <2>3. \A n \in 1 .. (Len(s) - i) : n \in 1 .. (Len(s) - (i + 1) + 1) /\ (i + 1) + n - 1 = i + n
    BY <1>0
  <2>. QED BY <2>2, <2>3, <1>0
<1>3. Without(s, i) = a \o b
  BY DEF Without
<1> HIDE DEF a, b
<1>4. /\ a \o b \in Seq(S) /\ Len(a \o b) = Len(a) + Len(b)
      /\ \A n \in 1 .. (Len(a) + Len(b)) : (a \o b)[n] = IF n <= Len(a) THEN a[n] ELSE b[n - Len(a)]
  BY <1>1, <1>2, ConcatProperties, Zenon
<1>5. Len(a) + Len(b) = Len(s) - 1
  BY <1>0, <1>1, <1>2
<1>6. ASSUME NEW n \in 1 .. (Len(s) - 1) PROVE (a \o b)[n] = IF n < i THEN s[n] ELSE s[n + 1]
  <2>1. CASE n < i
    <3>1. n \in 1 .. (i - 1) /\ n <= Len(a) /\ n \in 1 .. (Len(a) + Len(b))
      BY <2>1, <1>0, <1>1, <1>5
    <3>. QED BY <3>1, <2>1, <1>1, <1>4
  <2>2. CASE ~(n < i)
    <3>1. n - Len(a) = n - i + 1 /\ n - i + 1 \in 1 .. (Len(s) - i) /\ ~(n <= Len(a)) /\ i + (n - i + 1) = n + 1
      BY <2>2, <1>0, <1>1
    <3>2. n \in 1 .. (Len(a) + Len(b))
      BY <1>5
    <3>3. (a \o b)[n] = b[n - Len(a)]
      BY <3>1, <3>2, <1>4
    <3>4. b[n - i + 1] = s[i + (n - i + 1)]
      BY <3>1, <1>2, Zenon
    <3>. QED BY <3>1, <3>3, <3>4, <2>2
  <2>. QED BY <2>1, <2>2, Zenon
<1>. QED BY <1>3, <1>4, <1>5, <1>6 DEF RemovedAt

(* remove_frame takes the frame out of its list and leaves the order of    *)
(* the others.                                                             *)
LEMMA RemoveFrameSeq ==
  ASSUME NEW t, WellFormed(t), NEW l \in Lists, NEW i \in 1 .. Len(ListSeq(t, l))
  PROVE  LET f == ListSeq(t, l)[i] IN
         /\ ListSeq(RemoveFrame(t, l, f), l) = Without(ListSeq(t, l), i)
         /\ \A k \in Lists \ {l} : ListSeq(RemoveFrame(t, l, f), k) = ListSeq(t, k)
<1> DEFINE s == ListSeq(t, l)
           f == s[i]
           u == RemoveFrame(t, l, f)
           r == Without(s, i)
           p == t.prev[f]
           q == t.next[f]
<1>t. Typed(t)
  BY Fields DEF WellFormed
<1>2. Ordered(t, l, s)
  BY ListOrdered
<1>i. i \in 1 .. Len(s)
  OBVIOUS
<1> HIDE DEF s
<1>3. /\ s \in Seq(Refs) /\ Len(s) \in Nat /\ Len(s) = t.length[l]
      /\ \A n \in 1 .. Len(s) : s[n] \in Members(t, l) /\ s[n] \in Refs /\ s[n] # NULL_FRAME
      /\ 1 \in 1 .. Len(s) => s[1] = t.first[l]
      /\ \A n \in 1 .. Len(s) : n # 1 => n - 1 \in 1 .. Len(s) /\ s[n] = t.next[s[n - 1]]
      /\ \A m, n \in 1 .. Len(s) : s[m] = s[n] => m = n
      /\ \A n \in 1 .. Len(s) : t.prev[s[n]] = IF n = 1 THEN NULL_FRAME ELSE s[n - 1]
      /\ \A n \in 1 .. Len(s) : t.next[s[n]] = IF n = Len(s) THEN NULL_FRAME ELSE s[n + 1]
  BY <1>2, ListingSteps, LinkFacts DEF Ordered
<1>f. /\ f \in Refs /\ f \in Members(t, l)
      /\ i = 1 => p = NULL_FRAME
      /\ i # 1 => i - 1 \in 1 .. Len(s) /\ p = s[i - 1] /\ p # NULL_FRAME /\ p \in Members(t, l) /\ p \in Refs
      /\ i = Len(s) => q = NULL_FRAME
      /\ i # Len(s) => q = s[i + 1]
  <2>1. /\ f \in Refs /\ f \in Members(t, l)
        /\ p = IF i = 1 THEN NULL_FRAME ELSE s[i - 1]
        /\ q = IF i = Len(s) THEN NULL_FRAME ELSE s[i + 1]
    BY <1>i, <1>3
  <2> HIDE DEF f, p, q
  <2>2. i # 1 => i - 1 \in 1 .. Len(s)
    BY <1>i, <1>3
  <2>3. i # 1 => s[i - 1] # NULL_FRAME /\ s[i - 1] \in Members(t, l) /\ s[i - 1] \in Refs
    BY <2>2, <1>3
  <2>. QED BY <2>1, <2>2, <2>3
<1>u. /\ u.first = [t.first EXCEPT ![l] = IF p = NULL_FRAME THEN q ELSE t.first[l]]
      /\ u.length = [t.length EXCEPT ![l] = t.length[l] - 1]
      /\ u.next = [x \in Refs |-> IF x = f THEN NULL_FRAME
                                  ELSE IF p # NULL_FRAME /\ x = p THEN q
                                  ELSE t.next[x]]
  BY <1>t DEF RemoveFrame, Typed, WellFormed, TableType
<1> HIDE DEF u, f, p, q
<1>v. /\ u.first[l] = (IF p = NULL_FRAME THEN q ELSE t.first[l])
      /\ u.length[l] = t.length[l] - 1
      /\ i # 1 => u.next[p] = q
      /\ \A x \in Refs : x # f /\ (i = 1 \/ x # p) => u.next[x] = t.next[x]
      /\ \A k \in Lists : k # l => u.first[k] = t.first[k] /\ u.length[k] = t.length[k]
  <2>1. i # 1 => p # f
    BY <1>f, <1>i, <1>3 DEF f
  <2>. QED BY <1>t, <1>u, <1>f, <2>1 DEF Typed
<1>1. \A k \in Lists \ {l} : ListSeq(u, k) = ListSeq(t, k)
  <2> SUFFICES ASSUME NEW k \in Lists \ {l} PROVE ListSeq(u, k) = ListSeq(t, k)
    OBVIOUS
  <2>1. Ordered(t, k, ListSeq(t, k))
    BY ListOrdered
  <2>2. \A x \in Members(t, k) : u.next[x] = t.next[x]
    BY <1>v, <1>f DEF Members
  <2>3. Listing(u, k, ListSeq(t, k))
    BY <1>v, <2>1, <2>2, ListingKept
  <2>. QED BY <2>3, ListingIs
<1>4. /\ r \in Seq(Refs) /\ Len(r) = Len(s) - 1
      /\ \A n \in 1 .. (Len(s) - 1) : r[n] = IF n < i THEN s[n] ELSE s[n + 1]
  <2>1. RemovedAt(Refs, s, i, r)
    BY <1>i, <1>3, WithoutIs
  <2> HIDE DEF r
  <2>. QED BY <2>1 DEF RemovedAt
<1> HIDE DEF r
<1>5. ASSUME NEW n \in 1 .. Len(r) PROVE r[n] = IF n = 1 THEN u.first[l] ELSE u.next[r[n - 1]]
  <2>0. n \in 1 .. (Len(s) - 1) /\ n \in 1 .. Len(s) /\ n + 1 \in 1 .. Len(s) /\ n + 1 # 1 /\ (n + 1) - 1 = n
        /\ n \in Nat /\ i \in Nat
    BY <1>4, <1>3, <1>i
  <2>1. CASE n = 1
    <3>1. CASE i = 1
      <4>1. r[n] = s[2] /\ i # Len(s) /\ i + 1 = 2
        BY <2>0, <2>1, <3>1, <1>4, <1>3
      <4>. QED BY <4>1, <2>1, <3>1, <1>f, <1>v
    <3>2. CASE i # 1
      <4>1. n < i
        BY <2>0, <2>1, <3>2, <1>i
      <4>2. r[n] = s[1] /\ s[1] = t.first[l]
        BY <2>0, <2>1, <4>1, <1>4, <1>3
      <4>. QED BY <4>2, <2>1, <3>2, <1>f, <1>v
    <3>. QED BY <3>1, <3>2
  <2>2. CASE n # 1
    <3>0. n - 1 \in 1 .. (Len(s) - 1) /\ n - 1 \in 1 .. Len(s) /\ n - 1 \in Nat
      BY <2>0, <2>2, <1>3
    <3>1. CASE n < i
      <4>1. r[n] = s[n] /\ r[n - 1] = s[n - 1] /\ s[n] = t.next[s[n - 1]]
        BY <2>0, <3>0, <3>1, <2>2, <1>4, <1>3, SMTT(30)
      <4>2. n - 1 # i /\ n - 1 # i - 1 /\ i # 1
        BY <2>0, <3>0, <3>1, SMTT(30)
      <4>3. s[n - 1] # f /\ s[n - 1] # p /\ s[n - 1] \in Refs
        BY <4>2, <3>0, <1>f, <1>i, <1>3, SMTT(30) DEF f
      <4>. QED BY <4>1, <4>3, <2>2, <1>v, SMTT(30)
    <3>2. CASE n = i
      <4>1. r[n] = s[i + 1] /\ r[n - 1] = s[i - 1] /\ i # Len(s) /\ i # 1
        BY <2>0, <3>0, <3>2, <2>2, <1>4, <1>3, SMTT(30)
      <4>2. r[n - 1] = p /\ q = s[i + 1]
        BY <4>1, <1>f
      <4>. QED BY <4>1, <4>2, <2>2, <1>v
    <3>3. CASE i < n
      <4>1. r[n] = s[n + 1] /\ r[n - 1] = s[n] /\ s[n + 1] = t.next[s[n]]
        <5>1. ~(n < i) /\ ~(n - 1 < i) /\ (n - 1) + 1 = n
          BY <2>0, <3>0, <3>3
        <5>. QED BY <5>1, <2>0, <3>0, <1>4, <1>3
      <4>2. n # i /\ n # i - 1
        BY <2>0, <3>3
      <4>3. s[n] # f /\ (i = 1 \/ s[n] # p) /\ s[n] \in Refs
        <5>1. s[n] # s[i] /\ s[n] \in Refs
          BY <4>2, <2>0, <1>i, <1>3, SMTT(30)
        <5>2. i # 1 => s[n] # s[i - 1]
          BY <4>2, <2>0, <1>f, <1>3, SMTT(30)
        <5>. QED BY <5>1, <5>2, <1>f DEF f
      <4>. QED BY <4>1, <4>3, <2>2, <1>v, SMTT(30)
    <3>. QED BY <3>1, <3>2, <3>3, <2>0
  <2>. QED BY <2>1, <2>2
<1>6. Listing(u, l, r)
  BY <1>3, <1>4, <1>5, <1>v DEF Listing
<1>7. ListSeq(u, l) = r
  BY <1>6, ListingIs
<1>. QED BY <1>1, <1>7 DEF u, s, r, f

(* Taking out the first leaves the tail.                                   *)
LEMMA RemoveHead ==
  ASSUME NEW S, NEW s \in Seq(S), s # <<>>
  PROVE  Without(s, 1) = Tail(s)
<1>0. Len(s) \in Nat /\ Len(s) # 0 /\ 1 \in 1 .. Len(s)
  BY EmptySeq, LenProperties
<1>1. RemovedAt(S, s, 1, Without(s, 1))
  BY <1>0, WithoutIs
<1> DEFINE r == Without(s, 1)
           q == Tail(s)
<1>2. q \in Seq(S) /\ Len(q) = Len(s) - 1 /\ \A n \in 1 .. Len(q) : q[n] = s[n + 1]
  BY HeadTailProperties
<1>3. r \in Seq(S) /\ Len(r) = Len(s) - 1 /\ \A n \in 1 .. (Len(s) - 1) : r[n] = IF n < 1 THEN s[n] ELSE s[n + 1]
  BY <1>1 DEF RemovedAt
<1> HIDE DEF r, q
<1>4. \A n \in 1 .. Len(r) : r[n] = q[n]
  BY <1>0, <1>2, <1>3
<1>5. r = q
  BY <1>2, <1>3, <1>4, SeqEqual
<1>. QED BY <1>5 DEF r, q

(* alloc_frame with a free frame: the pool reuses the frame freed last.    *)
LEMMA AllocFreePool == ASSUME IInv, AllocFree PROVE Pool!Reuse
<1> DEFINE f == ft.first[FREE_LIST]
           t == PopFront(ft, FREE_LIST)
           fr == ListSeq(ft, FREE_LIST)
           al == ListSeq(ft, ALLOCATED_LIST)
<1>0. WellFormed(ft)
  BY DEF IInv
<1>1. f # NULL_FRAME /\ ft' = PushBack(t, ALLOCATED_LIST, f) /\ mapped' = mapped
  BY DEF AllocFree
<1>2. /\ f \in Refs /\ ft.list_id[f] = FREE_LIST
      /\ t = RemoveFrame(ft, FREE_LIST, f)
  BY <1>0, <1>1, Names, PopFrontIsRemove
<1>3. Ordered(ft, FREE_LIST, fr)
  BY <1>0, Names, ListOrdered, SMTT(30)
<1>4. fr \in Seq(Refs) /\ Len(fr) \in Nat /\ Len(fr) # 0 /\ f = fr[1] /\ 1 \in 1 .. Len(fr) /\ fr # <<>>
  BY <1>1, <1>3, ListingSteps, EmptySeq DEF Ordered
<1>5. WellFormed(t) /\ Unlinked(t, f)
  <2>1. WellFormed(RemoveFrame(ft, FREE_LIST, f)) /\ Unlinked(RemoveFrame(ft, FREE_LIST, f), f)
    <3> HIDE DEF f, t
    <3>. QED BY <1>0, <1>2, Names, RemoveFrameWF, Zenon
  <2>. QED BY <2>1, <1>2
<1>6. /\ ListSeq(t, FREE_LIST) = Without(fr, 1)
      /\ ListSeq(t, ALLOCATED_LIST) = al
  <2>1. \A k \in Lists \ {FREE_LIST} : ListSeq(RemoveFrame(ft, FREE_LIST, f), k) = ListSeq(ft, k)
    BY <1>0, <1>4, Names, RemoveFrameSeq
  <2>2. ListSeq(RemoveFrame(ft, FREE_LIST, f), FREE_LIST) = Without(fr, 1)
    BY <1>0, <1>4, Names, RemoveFrameSeq
  <2>. QED BY <2>1, <2>2, <1>2, Names
<1>7. Without(fr, 1) = Tail(fr)
  BY <1>4, RemoveHead
<1> HIDE DEF t, f
<1>8. /\ ListSeq(PushBack(t, ALLOCATED_LIST, f), ALLOCATED_LIST) = Append(ListSeq(t, ALLOCATED_LIST), f)
      /\ ListSeq(PushBack(t, ALLOCATED_LIST, f), FREE_LIST) = ListSeq(t, FREE_LIST)
  BY <1>2, <1>5, Names, PushBackSeq
<1>9. /\ ListSeq(ft, ALLOCATED_LIST)' = Append(al, f)
      /\ ListSeq(ft, FREE_LIST)' = Tail(fr)
  BY <1>1, <1>6, <1>7, <1>8
<1>10. f = Head(fr)
  BY <1>4
<1>. QED BY <1>1, <1>4, <1>9, <1>10 DEF Pool!Reuse

(* free_frame of a frame its caller holds releases it to the pool.         *)
LEMMA FreeFramePool ==
  ASSUME IInv, NEW r \in held, FreeFrame(r)
  PROVE  \E i \in DOMAIN ListSeq(ft, ALLOCATED_LIST) : Pool!Release(i)
<1> DEFINE t == RemoveFrame(ft, ALLOCATED_LIST, r)
           fr == ListSeq(ft, FREE_LIST)
           al == ListSeq(ft, ALLOCATED_LIST)
<1>0. WellFormed(ft)
  BY DEF IInv
<1>1. r # NULL_FRAME /\ r \in Refs /\ ft.list_id[r] = ALLOCATED_LIST
  BY DEF IInv, HeldAreAllocated
<1>2. ft' = PushFront(t, FREE_LIST, r) /\ mapped' = mapped
  BY <1>1 DEF FreeFrame
<1>3. Ordered(ft, ALLOCATED_LIST, al)
  BY <1>0, Names, ListOrdered, SMTT(30)
<1>4. al \in Seq(Refs) /\ DOMAIN al = 1 .. Len(al)
  BY <1>3, ListingSteps, LenProperties, SMTT(30) DEF Ordered
<1>5. PICK i \in 1 .. Len(al) : r = al[i]
  BY <1>1, <1>3 DEF Ordered, Members
<1>6. WellFormed(t) /\ Unlinked(t, r)
  BY <1>0, <1>1, Names, RemoveFrameWF, Zenon
<1>7. /\ ListSeq(t, ALLOCATED_LIST) = Without(al, i)
      /\ ListSeq(t, FREE_LIST) = fr
  <2>1. /\ ListSeq(RemoveFrame(ft, ALLOCATED_LIST, al[i]), ALLOCATED_LIST) = Without(al, i)
        /\ \A k \in Lists \ {ALLOCATED_LIST} :
             ListSeq(RemoveFrame(ft, ALLOCATED_LIST, al[i]), k) = ListSeq(ft, k)
    BY <1>0, Names, RemoveFrameSeq
  <2>. QED BY <2>1, <1>5, Names
<1> HIDE DEF t
<1>8. /\ ListSeq(PushFront(t, FREE_LIST, r), FREE_LIST) = <<r>> \o ListSeq(t, FREE_LIST)
      /\ ListSeq(PushFront(t, FREE_LIST, r), ALLOCATED_LIST) = ListSeq(t, ALLOCATED_LIST)
  BY <1>1, <1>6, Names, PushFrontSeq
<1>9. /\ ListSeq(ft, ALLOCATED_LIST)' = Without(al, i)
      /\ ListSeq(ft, FREE_LIST)' = <<al[i]>> \o fr
  BY <1>2, <1>5, <1>7, <1>8
<1>10. Without(al, i) = SubSeq(al, 1, i - 1) \o SubSeq(al, i + 1, Len(al))
  BY DEF Without
<1>11. Pool!Release(i)
  BY <1>2, <1>9, <1>10 DEF Pool!Release
<1>. QED BY <1>4, <1>11

(* A step that leaves the links of a list alone leaves the list alone.     *)
LEMMA SameLinks ==
  ASSUME NEW t, NEW u, WellFormed(t), NEW l \in Lists,
         u.first = t.first, u.length = t.length,
         \A r \in Members(t, l) : u.next[r] = t.next[r]
  PROVE  ListSeq(u, l) = ListSeq(t, l)
<1>1. Ordered(t, l, ListSeq(t, l))
  BY ListOrdered
<1>2. Listing(u, l, ListSeq(t, l))
  BY <1>1, ListingKept
<1>. QED BY <1>2, ListingIs

(* bump_capacity leaves the links alone.                                   *)
LEMMA MakeRoomLinks ==
  ASSUME NEW t \in TableType
  PROVE  /\ MakeRoom(t).first = t.first /\ MakeRoom(t).length = t.length
         /\ MakeRoom(t).next = t.next /\ MakeRoom(t).list_id = t.list_id
         /\ MakeRoom(t).used = t.used
BY DEF MakeRoom, BumpCapacity, TableType

(* alloc_frame through alloc_fresh_frame: the pool makes its next frame.   *)
LEMMA AllocFreshPool ==
  ASSUME FrameLimit # 1, IInv, NEW b \in Side, NEW s \in Side, AllocFresh(b, s)
  PROVE  Pool!Make
<1> DEFINE room == MakeRoom(ft)
           f == FreshRef(room)
           t == InitEntry(ClaimEntry(room), f)
           fr == ListSeq(ft, FREE_LIST)
           al == ListSeq(ft, ALLOCATED_LIST)
<1>0. WellFormed(ft) /\ ft \in TableType /\ IInv'
  BY AllocFreshIInv, SMTT(30) DEF IInv, TypeOK
<1>1. /\ ft.first[FREE_LIST] = NULL_FRAME
      /\ ft' = PushBack(t, ALLOCATED_LIST, f) /\ mapped' = mapped \cup {f}
      /\ ft.used = ft.capacity => ~LimitReached(ft)
  BY DEF AllocFresh
<1>2. /\ WellFormed(room) /\ FreshAsserts(room) /\ room.used = ft.used
      /\ room.list_id = ft.list_id /\ room.first = ft.first
      /\ room.length = ft.length /\ room.next = ft.next
  BY <1>0, <1>1, RoomToGrow, MakeRoomLinks
<1>3. Cardinality(mapped) = (IF ft.used = 0 THEN 0 ELSE ft.used - 1) /\ ft.used \in Nat
  BY OwnCount
<1>4. f = Cardinality(mapped) + 1
  BY <1>2, <1>3 DEF FreshRef
<1>5. f < room.capacity
  BY <1>2 DEF FreshAsserts, RefOk
<1>6. f \in Refs
  <2>1. mapped' \subseteq Refs
    BY <1>0 DEF IInv, TypeOK
  <2>. QED BY <2>1, <1>1
<1>7. IsFiniteSet(mapped) /\ f \notin mapped
  <2>1. mapped = 1 .. (ft.used - 1)
    BY DEF IInv, EveryFrameBacked
  <2>2. ~(f \in 1 .. (ft.used - 1))
    BY <1>3, <1>4
  <2>. QED BY <2>1, <2>2, OwnCount
<1> HIDE DEF f
<1>8. Cardinality(mapped') = Cardinality(mapped) + 1
  BY <1>1, <1>7, FS_AddElement, Zenon
<1>9. f = FreshRef(room)
  BY DEF f
<1> HIDE DEF room
<1>10. /\ WellFormed(t) /\ Unlinked(t, f) /\ room.list_id[f] \notin Lists
  BY <1>2, <1>5, <1>6, <1>9, FreshEntryWF, Zenon
<1>11. /\ t.first = room.first /\ t.length = room.length
       /\ t.next = [room.next EXCEPT ![f] = NULL_FRAME]
  BY <1>2 DEF InitEntry, ClaimEntry, WellFormed, TableType
<1>12. \A l \in Lists : ListSeq(t, l) = ListSeq(ft, l)
  <2> SUFFICES ASSUME NEW l \in Lists PROVE ListSeq(t, l) = ListSeq(ft, l)
    OBVIOUS
  <2>1. \A r \in Members(ft, l) : r # f /\ r \in Refs
    BY <1>2, <1>10 DEF Members
  <2>2. ft.next \in [Refs -> Refs]
    BY <1>0, Fields, SMTT(30) DEF Typed
  <2>3. \A r \in Members(ft, l) : t.next[r] = ft.next[r]
    BY <2>1, <2>2, <1>2, <1>11
  <2>4. t.first = ft.first /\ t.length = ft.length
    BY <1>2, <1>11
  <2> HIDE DEF t
  <2>. QED BY <1>0, <2>3, <2>4, SameLinks
<1> HIDE DEF t
<1>13. /\ ListSeq(PushBack(t, ALLOCATED_LIST, f), ALLOCATED_LIST) = Append(ListSeq(t, ALLOCATED_LIST), f)
       /\ ListSeq(PushBack(t, ALLOCATED_LIST, f), FREE_LIST) = ListSeq(t, FREE_LIST)
  BY <1>6, <1>10, Names, PushBackSeq
<1>14. /\ ListSeq(ft, ALLOCATED_LIST)' = Append(al, f)
       /\ ListSeq(ft, FREE_LIST)' = fr
  BY <1>1, <1>12, <1>13, Names
<1>15. fr = <<>>
  <2>1. Ordered(ft, FREE_LIST, fr)
    BY <1>0, Names, ListOrdered, SMTT(30)
  <2>2. fr \in Seq(Refs) /\ Len(fr) \in Nat /\ \A n \in 1 .. Len(fr) : fr[n] # NULL_FRAME
    BY <2>1, <1>0, Names, ListingSteps, LinkFacts, SMTT(30) DEF Ordered
  <2>3. Len(fr) # 0 => 1 \in 1 .. Len(fr) /\ fr[1] = ft.first[FREE_LIST]
    BY <2>1, <2>2 DEF Ordered
  <2>4. Len(fr) = 0
    BY <2>2, <2>3, <1>1
  <2>. QED BY <2>2, <2>4, EmptySeq
<1>. QED BY <1>4, <1>8, <1>14, <1>15 DEF Pool!Make

(* alloc_frame that returns NULL_FRAME leaves the pool alone.              *)
LEMMA AllocNoFramePool ==
  ASSUME FrameLimit # 1, IInv, NEW b \in Side, NEW s \in Side, AllocNoFrame(b, s)
  PROVE  UNCHANGED Pool!poolvars
<1> DEFINE room == MakeRoom(ft)
           u == UnclaimEntry(ClaimEntry(room))
<1>0. WellFormed(ft) /\ ft \in TableType
  BY DEF IInv, TypeOK
<1>1. ft' = u /\ mapped' = mapped /\ (ft.used = ft.capacity => ~LimitReached(ft))
  BY DEF AllocNoFrame
<1>2. /\ room.first = ft.first /\ room.length = ft.length /\ room.next = ft.next
      /\ room \in TableType
  BY <1>0, <1>1, MakeRoomLinks, RoomToGrow DEF WellFormed
<1> HIDE DEF room
<1>3. u.first = ft.first /\ u.length = ft.length /\ u.next = ft.next
  BY <1>2 DEF UnclaimEntry, ClaimEntry, TableType
<1> HIDE DEF u
<1>4. \A l \in Lists : ListSeq(u, l) = ListSeq(ft, l)
  BY <1>0, <1>3, SameLinks
<1>5. ListSeq(ft, FREE_LIST)' = ListSeq(ft, FREE_LIST) /\ ListSeq(ft, ALLOCATED_LIST)' = ListSeq(ft, ALLOCATED_LIST)
  BY <1>1, <1>4, Names
<1>. QED BY <1>1, <1>5 DEF Pool!poolvars

(* The table is empty at the start, and so is the pool.                    *)
LEMMA InitPool == ASSUME Init PROVE Pool!PoolInit
<1>1. WellFormed(ft)
  BY InitIInv DEF IInv
<1>2. \A l \in Lists : ft.length[l] = 0
  BY DEF Init
<1>3. \A l \in Lists : ListSeq(ft, l) = <<>>
  <2> SUFFICES ASSUME NEW l \in Lists PROVE ListSeq(ft, l) = <<>>
    OBVIOUS
  <2>1. Listing(ft, l, ListSeq(ft, l))
    BY <1>1, ListingExists DEF WellFormed
  <2>. QED BY <2>1, <1>2, ListingSteps, EmptySeq
<1>4. Cardinality(mapped) = 0
  BY FS_EmptySet DEF Init
<1>. QED BY <1>3, <1>4, Names DEF Pool!PoolInit

(* For any number of untypeds and any capacity: the doubly linked lists of *)
(* frame_table.c implement the pool of FramePool. Frames are numbered as   *)
(* they are made, the frame freed last is reused first and a frame is made *)
(* only when none is free. A limit of 1 is left out: with it, the array    *)
(* holds the null entry only and the first allocation claims an entry      *)
(* beyond it.                                                              *)
THEOREM TableImplementsPool == FrameLimit # 1 => (Spec => ImplementsPool)
<1> SUFFICES ASSUME FrameLimit # 1 PROVE Spec => ImplementsPool
  OBVIOUS
<1>1. Init => Pool!PoolInit
  BY InitPool
<1>2. IInv /\ [Next]_vars => [Pool!PoolNext]_(Pool!poolvars)
  <2> SUFFICES ASSUME IInv, [Next]_vars PROVE Pool!PoolNext \/ UNCHANGED Pool!poolvars
    OBVIOUS
  <2>s. ASSUME ft' = ft, mapped' = mapped PROVE UNCHANGED Pool!poolvars
    BY <2>s DEF Pool!poolvars
  <2>1. CASE AllocFree
    BY <2>1, AllocFreePool DEF Pool!PoolNext
  <2>2. ASSUME NEW b \in Side, NEW s \in Side, AllocFresh(b, s) PROVE Pool!Make
    BY <2>2, AllocFreshPool
  <2>3. ASSUME NEW b \in Side, AllocNoRoom(b) PROVE UNCHANGED Pool!poolvars
    BY <2>3, <2>s DEF AllocNoRoom
  <2>4. ASSUME NEW b \in Side, NEW s \in Side, AllocNoFrame(b, s) PROVE UNCHANGED Pool!poolvars
    BY <2>4, AllocNoFramePool
  <2>5. ASSUME NEW r \in held \cup {NULL_FRAME}, FreeFrame(r)
        PROVE  \/ \E i \in DOMAIN ListSeq(ft, ALLOCATED_LIST) : Pool!Release(i)
               \/ UNCHANGED Pool!poolvars
    <3>1. CASE r \in held
      BY <2>5, <3>1, FreeFramePool
    <3>2. CASE r = NULL_FRAME
      BY <2>5, <3>2, <2>s DEF FreeFrame
    <3>. QED BY <3>1, <3>2
  <2>6. CASE UtTraffic
    BY <2>6, <2>s DEF UtTraffic
  <2>7. CASE UNCHANGED vars
    BY <2>7, <2>s DEF vars
  <2>. QED BY <2>1, <2>2, <2>3, <2>4, <2>5, <2>6, <2>7, SMTT(30) DEF Next, Pool!PoolNext
<1>. QED BY <1>1, <1>2, Inductive, PTL DEF Spec, ImplementsPool, Pool!PoolSpec
=============================================================================
