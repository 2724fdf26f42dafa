---------------------------- MODULE MemoryProofs ----------------------------
(***************************************************************************)
(* Memory is given out once, for any size of memory: the untyped manager   *)
(* divides it without overlap or loss (UtTable), and the regions given out *)
(* by sys_brk, sys_mmap and sos_dma_malloc are apart (Arenas).             *)
(***************************************************************************)
EXTENDS UtTable, Arenas, SequenceTheorems, TLAPS

-----------------------------------------------------------------------------
(* The untyped manager (UtTable).                                          *)

(* The fields of a block.                                                  *)
LEMMA BlockShape ==
  \A b : b \in Blocks <=>
    /\ b = [page |-> b.page, lvl |-> b.lvl, off |-> b.off]
    /\ b.page \in Pages /\ b.lvl \in Levels /\ b.off \in 0 .. (2^(Top - b.lvl) - 1)
BY DEF Blocks

(* The sizes are naturals, from a single object to a page.                 *)
LEMMA LevelsInt == Levels \subseteq Nat /\ Top \in Levels /\ 0 \in Levels /\ Top \in Nat
BY UtTableAssumption DEF Levels

(* The halves of a block are blocks of the next smaller size.              *)
LEMMA HalfBlock ==
  ASSUME NEW b \in Blocks, b.lvl > 0, NEW i \in {0, 1}
  PROVE  Half(b, i) \in Blocks /\ Half(b, i).lvl = b.lvl - 1
<1> DEFINE l == b.lvl
<1>1. l \in Levels /\ l \in Nat /\ l > 0 /\ Top \in Nat /\ l <= Top
  BY BlockShape, UtTableAssumption DEF Levels
<1>2. l - 1 \in Levels /\ Top - (l - 1) \in 0 .. Top /\ Top - (l - 1) > 0 /\ (Top - (l - 1)) - 1 = Top - l
  BY <1>1 DEF Levels
<1>3. 2^(Top - (l - 1)) = 2 * 2^(Top - l)
  BY <1>2, PowersOfTwo
<1>4. Top - l \in 0 .. Top
  BY <1>1
<1>5. 2^(Top - l) \in Nat
  BY <1>4, PowersOfTwo
<1>6. b.off \in 0 .. (2^(Top - l) - 1)
  BY BlockShape
<1> DEFINE w == 2^(Top - l)
<1> HIDE DEF w
<1>7. 2 * b.off + i \in 0 .. (2 * w - 1)
  BY <1>5, <1>6 DEF w
<1>8. 2 * b.off + i \in 0 .. (2^(Top - (l - 1)) - 1)
  BY <1>3, <1>7 DEF w
<1>. QED BY <1>2, <1>8, BlockShape DEF Half

(* The two halves of a block are apart and make up the block.              *)
LEMMA CellsSplit ==
  ASSUME NEW b \in Blocks, b.lvl > 0
  PROVE  /\ Cells(b) = Cells(Half(b, 0)) \cup Cells(Half(b, 1))
         /\ Cells(Half(b, 0)) \cap Cells(Half(b, 1)) = {}
         /\ Cells(Half(b, 0)) # {} /\ Cells(Half(b, 1)) # {}
         /\ Half(b, 0) # Half(b, 1)
<1> DEFINE l == b.lvl
           w == 2^(l - 1)
           m == b.off * w
           p == b.page
<1>1. l \in 0 .. Top /\ l > 0 /\ l - 1 \in 0 .. Top /\ Top \in Nat
  BY BlockShape, UtTableAssumption DEF Levels
<1>2. w \in Nat \ {0} /\ 2^l = 2 * w
  BY <1>1, PowersOfTwo
<1>3. b.off \in Nat
  <2>1. Top - l \in 0 .. Top
    BY <1>1
  <2>2. 2^(Top - l) \in Nat
    BY <2>1, PowersOfTwo
  <2>. QED BY <2>2, BlockShape
<1>4. m \in Nat
  BY <1>2, <1>3
<1>5. Cells(b) = {p} \X ((2 * m) .. (2 * m + 2 * w - 1))
  <2> HIDE DEF w
  <2>1. b.off * (2 * w) = 2 * m /\ (b.off + 1) * (2 * w) - 1 = 2 * m + 2 * w - 1
    BY <1>2, <1>3
  <2>2. b.off * 2^l = 2 * m /\ (b.off + 1) * 2^l - 1 = 2 * m + 2 * w - 1
    BY <1>2, <2>1
  <2>3. Cells(b) = {p} \X ((b.off * 2^l) .. ((b.off + 1) * 2^l - 1))
    BY DEF Cells
  <2> HIDE DEF l, m, p
  <2>. QED BY <2>2, <2>3
<1>6. Cells(Half(b, 0)) = {p} \X ((2 * m) .. (2 * m + w - 1))
  <2>1. Half(b, 0).lvl = l - 1 /\ Half(b, 0).page = p /\ Half(b, 0).off = 2 * b.off + 0
    BY DEF Half
  <2> HIDE DEF w
  <2>2. (2 * b.off + 0) * w = 2 * m /\ (2 * b.off + 0 + 1) * w - 1 = 2 * m + w - 1
    BY <1>2, <1>3
  <2>3. Cells(Half(b, 0)) = {p} \X (((2 * b.off + 0) * w) .. ((2 * b.off + 0 + 1) * w - 1))
    BY <2>1 DEF Cells, w
  <2> HIDE DEF l, m, p
  <2>. QED BY <2>2, <2>3
<1>7. Cells(Half(b, 1)) = {p} \X ((2 * m + w) .. (2 * m + w + w - 1))
  <2>1. Half(b, 1).lvl = l - 1 /\ Half(b, 1).page = p /\ Half(b, 1).off = 2 * b.off + 1
    BY DEF Half
  <2> HIDE DEF w
  <2>2. (2 * b.off + 1) * w = 2 * m + w /\ (2 * b.off + 1 + 1) * w - 1 = 2 * m + w + w - 1
    BY <1>2, <1>3
  <2>3. Cells(Half(b, 1)) = {p} \X (((2 * b.off + 1) * w) .. ((2 * b.off + 1 + 1) * w - 1))
    BY <2>1 DEF Cells, w
  <2> HIDE DEF l, m, p
  <2>. QED BY <2>2, <2>3
<1>8. Half(b, 0) # Half(b, 1)
  BY <1>3 DEF Half
<1> HIDE DEF w, m
<1>9. /\ (2 * m) .. (2 * m + 2 * w - 1) = (2 * m) .. (2 * m + w - 1) \cup (2 * m + w) .. (2 * m + w + w - 1)
      /\ (2 * m) .. (2 * m + w - 1) \cap (2 * m + w) .. (2 * m + w + w - 1) = {}
      /\ 2 * m \in (2 * m) .. (2 * m + w - 1) /\ 2 * m + w \in (2 * m + w) .. (2 * m + w + w - 1)
  BY <1>2, <1>4
<1> DEFINE A == (2 * m) .. (2 * m + w - 1)
           B == (2 * m + w) .. (2 * m + w + w - 1)
<1>10. \A S, T : {p} \X (S \cup T) = ({p} \X S) \cup ({p} \X T)
  OBVIOUS
<1>11. \A S, T : S \cap T = {} => ({p} \X S) \cap ({p} \X T) = {}
  OBVIOUS
<1>12. \A S : \A x \in S : <<p, x>> \in {p} \X S
  OBVIOUS
<1>13. Cells(b) = {p} \X (A \cup B) /\ Cells(Half(b, 0)) = {p} \X A /\ Cells(Half(b, 1)) = {p} \X B
       /\ A \cap B = {} /\ 2 * m \in A /\ 2 * m + w \in B
  BY <1>5, <1>6, <1>7, <1>9
<1> HIDE DEF A, B
<1>14. Cells(b) = Cells(Half(b, 0)) \cup Cells(Half(b, 1))
  BY <1>10, <1>13
<1>15. Cells(Half(b, 0)) \cap Cells(Half(b, 1)) = {}
  BY <1>11, <1>13
<1>16. Cells(Half(b, 0)) # {} /\ Cells(Half(b, 1)) # {}
  BY <1>12, <1>13, Zenon
<1>. QED BY <1>8, <1>14, <1>15, <1>16

(* The free lists: blocks of the size of their list, each once.            *)
ListOK(ls) ==
  /\ ls \in [Levels -> Seq(Blocks)]
  /\ \A l \in Levels : \A i \in DOMAIN ls[l] : ls[l][i].lvl = l
  /\ \A l \in Levels : IsInjective(ls[l])

(* The blocks on the free lists.                                           *)
On(ls) == UNION {Range(ls[l]) : l \in Levels}

(* A free list of one size.                                                *)
LevelOK(l, s) ==
  s \in Seq(Blocks) /\ (\A i \in DOMAIN s : s[i].lvl = l) /\ IsInjective(s)

(* The free lists with the list of one size replaced.                      *)
Replace(ls, l, s) == [ls EXCEPT ![l] = s]

(* What replacing one list does to the blocks on the lists.                *)
LEMMA OneList ==
  ASSUME NEW ls, ListOK(ls), NEW l \in Levels, NEW s, LevelOK(l, s)
  PROVE  /\ ListOK(Replace(ls, l, s))
         /\ On(Replace(ls, l, s)) = {x \in On(ls) : x.lvl # l} \cup Range(s)
         /\ {x \in On(ls) : x.lvl = l} = Range(ls[l])
<1> DEFINE ms == Replace(ls, l, s)
<1>1. /\ ms \in [Levels -> Seq(Blocks)] /\ ms[l] = s
      /\ \A k \in Levels : k # l => ms[k] = ls[k]
  BY DEF ListOK, LevelOK, Replace
<1> HIDE DEF ms
<1>2. ListOK(ms)
  BY <1>1, Zenon DEF ListOK, LevelOK
<1>3. \A k \in Levels : \A x \in Range(ls[k]) : x.lvl = k
  BY DEF ListOK, Range
<1>4. On(ms) = {x \in On(ls) : x.lvl # l} \cup Range(s)
  BY <1>1, <1>3 DEF On
<1>5. {x \in On(ls) : x.lvl = l} = Range(ls[l])
  BY <1>3 DEF On
<1>. QED BY <1>2, <1>4, <1>5 DEF ms

(* push of a block that is on no list.                                     *)
LEMMA Pushed ==
  ASSUME NEW ls, ListOK(ls), NEW b \in Blocks, b \notin On(ls)
  PROVE  ListOK(Push(ls, b)) /\ On(Push(ls, b)) = On(ls) \cup {b}
<1> DEFINE l == b.lvl
           s == ls[l]
           t == <<b>> \o s
<1>1. l \in Levels /\ s \in Seq(Blocks)
  BY BlockShape DEF ListOK
<1>2. <<b>> \in Seq(Blocks) /\ Len(<<b>>) = 1 /\ <<b>>[1] = b
  OBVIOUS
<1>3. /\ t \in Seq(Blocks) /\ Len(t) = 1 + Len(s)
      /\ \A i \in 1 .. (1 + Len(s)) : t[i] = IF i <= 1 THEN <<b>>[i] ELSE s[i - 1]
  BY <1>1, <1>2, ConcatProperties
<1>4. Len(s) \in Nat /\ DOMAIN s = 1 .. Len(s) /\ DOMAIN t = 1 .. (1 + Len(s))
  BY <1>1, <1>3, LenProperties
<1>5. /\ t[1] = b
      /\ \A i \in 1 .. (1 + Len(s)) : i # 1 => i - 1 \in 1 .. Len(s) /\ t[i] = s[i - 1]
      /\ \A i \in 1 .. Len(s) : i + 1 \in 1 .. (1 + Len(s)) /\ t[i + 1] = s[i]
  BY <1>2, <1>3, <1>4
<1>6. Range(s) \subseteq On(ls) /\ b \notin Range(s) /\ \A i \in DOMAIN s : s[i].lvl = l /\ s[i] # b
  BY <1>1 DEF On, Range, ListOK
<1>7. \A i, j \in DOMAIN s : s[i] = s[j] => i = j
  BY <1>1 DEF ListOK, IsInjective
<1> HIDE DEF s, t
<1>8. \A i \in DOMAIN t : t[i].lvl = l
  BY <1>4, <1>5, <1>6
<1>9. IsInjective(t)
  <2> SUFFICES ASSUME NEW i \in DOMAIN t, NEW j \in DOMAIN t, t[i] = t[j] PROVE i = j
    BY DEF IsInjective
  <2>1. CASE i # 1 /\ j # 1
    <3>1. i - 1 \in DOMAIN s /\ j - 1 \in DOMAIN s /\ t[i] = s[i - 1] /\ t[j] = s[j - 1]
      BY <1>4, <1>5, <2>1
    <3>2. i - 1 = j - 1
      BY <1>7, <3>1, Zenon
    <3>. QED BY <1>4, <3>2
  <2>2. CASE i = 1 /\ j # 1
    BY <1>4, <1>5, <1>6, <2>2
  <2>3. CASE i # 1 /\ j = 1
    BY <1>4, <1>5, <1>6, <2>3
  <2>. QED BY <2>1, <2>2, <2>3
<1>10. Range(t) = {b} \cup Range(s)
  <2>1. ASSUME NEW i \in DOMAIN t PROVE t[i] \in {b} \cup Range(s)
    BY <1>4, <1>5 DEF Range
  <2>2. {b} \cup Range(s) \subseteq Range(t)
    BY <1>4, <1>5 DEF Range
  <2>. QED BY <2>1, <2>2 DEF Range
<1>11. Push(ls, b) = Replace(ls, l, t) /\ LevelOK(l, t)
  BY <1>3, <1>8, <1>9 DEF Push, s, t, Replace, LevelOK
<1>12. /\ ListOK(Push(ls, b)) /\ On(Push(ls, b)) = {x \in On(ls) : x.lvl # l} \cup Range(t)
       /\ {x \in On(ls) : x.lvl = l} = Range(s)
  <2> HIDE DEF l
  <2>. QED BY <1>1, <1>11, OneList DEF s
<1>. QED BY <1>10, <1>12

(* The free lists without the first n blocks of one size.                  *)
Rest(ls, l, n) == [ls EXCEPT ![l] = SubSeq(ls[l], n + 1, Len(ls[l]))]

(* pop, n times.                                                           *)
LEMMA Dropped ==
  ASSUME NEW ls, ListOK(ls), NEW l \in Levels, NEW n \in Nat, n <= Len(ls[l])
  PROVE  /\ ListOK(Rest(ls, l, n))
         /\ On(ls) = On(Rest(ls, l, n)) \cup {ls[l][i] : i \in 1 .. n}
         /\ On(Rest(ls, l, n)) \cap {ls[l][i] : i \in 1 .. n} = {}
<1> DEFINE t == ls[l]
           s == SubSeq(t, n + 1, Len(t))
           first == {t[i] : i \in 1 .. n}
           ms == Rest(ls, l, n)
<1>1. /\ t \in Seq(Blocks) /\ (\A i \in DOMAIN t : t[i].lvl = l)
      /\ \A i, j \in DOMAIN t : t[i] = t[j] => i = j
  BY DEF ListOK, IsInjective
<1>2. Len(t) \in Nat /\ DOMAIN t = 1 .. Len(t) /\ \A i \in 1 .. Len(t) : t[i] \in Blocks
  BY <1>1, LenProperties, ElementOfSeq
<1>n. n <= Len(t)
  OBVIOUS
<1> HIDE DEF t
<1>3. /\ s \in Seq(Blocks) /\ Len(s) = (IF n + 1 <= Len(t) THEN Len(t) - (n + 1) + 1 ELSE 0)
      /\ \A i \in 1 .. (Len(t) - (n + 1) + 1) : s[i] = t[n + 1 + i - 1]
  <2>1. n + 1 \in Int /\ Len(t) \in Int /\ \A i \in (n + 1) .. Len(t) : t[i] \in Blocks
    BY <1>2
  <2>. QED BY <2>1, SubSeqProperties
<1>m. ms = Replace(ls, l, s)
  BY DEF t, Replace, Rest
<1> HIDE DEF s, ms
<1>4. Len(s) = Len(t) - n
  <2>1. CASE n + 1 <= Len(t)
    BY <1>2, <1>3, <2>1
  <2>2. CASE ~(n + 1 <= Len(t))
    <3>1. Len(s) = 0
      BY <1>3, <2>2
    <3>2. Len(t) \in Nat
      BY <1>2
    <3>3. Len(t) - n = 0
      BY <1>n, <2>2, <3>2
    <3>. QED BY <3>1, <3>3
  <2>. QED BY <2>1, <2>2
<1>5. DOMAIN s = 1 .. (Len(t) - n)
  BY <1>3, <1>4, LenProperties
<1>6. \A i \in 1 .. (Len(t) - n) : s[i] = t[n + i] /\ n + i \in 1 .. Len(t)
  <2>1. \A i \in 1 .. (Len(t) - n) : i \in 1 .. (Len(t) - (n + 1) + 1) /\ n + 1 + i - 1 = n + i /\ n + i \in 1 .. Len(t)
    BY <1>2
  <2>. QED BY <1>3, <2>1
<1>7. \A i \in DOMAIN s : s[i].lvl = l
  BY <1>1, <1>2, <1>5, <1>6
<1>8. IsInjective(s)
  <2> SUFFICES ASSUME NEW i \in DOMAIN s, NEW j \in DOMAIN s, s[i] = s[j] PROVE i = j
    BY DEF IsInjective
  <2>1. n + i = n + j
    BY <1>1, <1>2, <1>5, <1>6
  <2>. QED BY <1>5, <2>1
<1>9. Range(t) = Range(s) \cup first
  <2>1. ASSUME NEW i \in 1 .. Len(t) PROVE t[i] \in Range(s) \cup first
    <3>1. CASE i <= n
      BY <1>2, <3>1
    <3>2. CASE ~(i <= n)
      <4>1. i - n \in 1 .. (Len(t) - n) /\ n + (i - n) = i
        BY <1>2, <3>2
      <4>. QED BY <1>5, <1>6, <4>1, Zenon DEF Range
    <3>. QED BY <3>1, <3>2
  <2>2. Range(s) \subseteq Range(t)
    BY <1>2, <1>5, <1>6 DEF Range
  <2>3. first \subseteq Range(t)
    <3>1. \A i \in 1 .. n : i \in 1 .. Len(t)
      BY <1>2, <1>n
    <3>. QED BY <1>2, <3>1 DEF Range
  <2>. QED BY <1>2, <2>1, <2>2, <2>3, Zenon DEF Range
<1>10. Range(s) \cap first = {}
  <2> SUFFICES ASSUME NEW i \in 1 .. (Len(t) - n), NEW j \in 1 .. n, s[i] = t[j] PROVE FALSE
    BY <1>5 DEF Range
  <2>1. j \in 1 .. Len(t) /\ n + i # j
    BY <1>2, <1>n
  <2>. QED BY <1>1, <1>2, <1>6, <2>1
<1>11. /\ ListOK(ms) /\ On(ms) = {x \in On(ls) : x.lvl # l} \cup Range(s)
       /\ {x \in On(ls) : x.lvl = l} = Range(t)
  <2>1. LevelOK(l, s)
    BY <1>3, <1>7, <1>8 DEF LevelOK
  <2>. QED BY <1>m, <2>1, OneList DEF t
<1>12. \A x \in first : x.lvl = l
  BY <1>9, <1>11
<1>13. On(ls) = On(ms) \cup first /\ On(ms) \cap first = {}
  <2> HIDE DEF first
  <2>. QED BY <1>9, <1>10, <1>11, <1>12
<1>. QED BY <1>11, <1>13 DEF t, ms

(* Blocks that do not overlap.                                             *)
Separate(S) == \A b, c \in S : b # c => Cells(b) \cap Cells(c) = {}
(* Blocks that make up the whole memory.                                   *)
Covers(S) == UNION {Cells(b) : b \in S} = Pages \X (0 .. (2^Top - 1))

(* The blocks that are free, in use, being split and lost: apart, and all  *)
(* the memory.                                                             *)
Division(L, O, G, H) ==
  /\ L \cap O = {} /\ G \cap (O \cup L) = {} /\ H \cap (L \cup O \cup G) = {}
  /\ Separate(L \cup O \cup G \cup H) /\ Covers(L \cup O \cup G \cup H)

(* Replacing a block by its halves keeps them apart and all the memory.    *)
LEMMA Halved ==
  ASSUME NEW U, U \subseteq Blocks, NEW b \in U, b.lvl > 0, Separate(U), Covers(U)
  PROVE  LET V == (U \ {b}) \cup {Half(b, 0), Half(b, 1)}
         IN  /\ Half(b, 0) \notin U \ {b} /\ Half(b, 1) \notin U \ {b}
             /\ Separate(V) /\ Covers(V)
<1> DEFINE V == (U \ {b}) \cup {Half(b, 0), Half(b, 1)}
           A == Cells(Half(b, 0))
           B == Cells(Half(b, 1))
<1>1. Cells(b) = A \cup B /\ A \cap B = {} /\ A # {} /\ B # {} /\ Half(b, 0) # Half(b, 1)
  BY CellsSplit
<1>2. \A c \in U \ {b} : Cells(c) \cap Cells(b) = {}
  BY DEF Separate
<1>3. \A c \in U \ {b} : Cells(c) \cap A = {} /\ Cells(c) \cap B = {}
  BY <1>1, <1>2
<1>4. Half(b, 0) \notin U \ {b} /\ Half(b, 1) \notin U \ {b}
  BY <1>1, <1>3
<1>5. Separate(V)
  <2> SUFFICES ASSUME NEW c \in V, NEW d \in V, c # d PROVE Cells(c) \cap Cells(d) = {}
    BY DEF Separate
  <2>1. CASE c \in U \ {b} /\ d \in U \ {b}
    BY <2>1 DEF Separate
  <2>2. CASE c \in U \ {b} /\ d \notin U \ {b}
    BY <1>3, <2>2
  <2>3. CASE c \notin U \ {b} /\ d \in U \ {b}
    <3>1. Cells(d) \cap Cells(c) = {}
      BY <1>3, <2>3
    <3>. QED BY <3>1
  <2>4. CASE c \notin U \ {b} /\ d \notin U \ {b}
    <3>1. (c = Half(b, 0) /\ d = Half(b, 1)) \/ (c = Half(b, 1) /\ d = Half(b, 0))
      BY <2>4
    <3>. QED BY <1>1, <3>1
  <2>. QED BY <2>1, <2>2, <2>3, <2>4
<1>6. UNION {Cells(c) : c \in V} = UNION {Cells(c) : c \in U}
  <2>1. UNION {Cells(c) : c \in V} \subseteq UNION {Cells(c) : c \in U}
    <3> SUFFICES ASSUME NEW c \in V, NEW x \in Cells(c) PROVE \E d \in U : x \in Cells(d)
      OBVIOUS
    <3>1. CASE c \in U
      BY <3>1
    <3>2. CASE c \notin U
      <4>1. x \in A \/ x \in B
        BY <3>2
      <4>. QED BY <1>1, <4>1
    <3>. QED BY <3>1, <3>2
  <2>2. UNION {Cells(c) : c \in U} \subseteq UNION {Cells(c) : c \in V}
    <3> SUFFICES ASSUME NEW c \in U, NEW x \in Cells(c) PROVE \E d \in V : x \in Cells(d)
      OBVIOUS
    <3>1. CASE c = b
      <4>1. x \in A \/ x \in B
        BY <1>1, <3>1
      <4>. QED BY <4>1
    <3>2. CASE c # b
      BY <3>2
    <3>. QED BY <3>1, <3>2
  <2>. QED BY <2>1, <2>2
<1>7. Covers(V)
  BY <1>6 DEF Covers
<1>. QED BY <1>4, <1>5, <1>7

(* Where the call in progress has come: it splits a larger block, and the  *)
(* lists from the size wanted up to that block are empty.                  *)
SplitNeeded ==
  call # NoCall => /\ call.larger.lvl > call.want
                   /\ \A k \in call.want .. (call.larger.lvl - 1) : lists[k] = <<>>

(* The inductive invariant. That the memory is divided is not enough:      *)
(* ut_alloc gives out the half of a block it has split last, so the        *)
(* invariant has to say which block the call in progress holds and why.    *)
UtIInv ==
  /\ ListOK(lists) /\ spare \in Nat /\ owned \subseteq Blocks /\ gone \subseteq Blocks
  /\ call = NoCall \/ call \in [want: Levels, larger: Blocks]
  /\ underflow \in BOOLEAN /\ ~underflow
  /\ Division(On(lists), owned, Larger, gone)
  /\ SplitNeeded

(* What is on the lists is a block.                                        *)
LEMMA OnBlocks == ASSUME NEW ls, ListOK(ls) PROVE On(ls) \subseteq Blocks
<1> SUFFICES ASSUME NEW l \in Levels, NEW i \in DOMAIN ls[l] PROVE ls[l][i] \in Blocks
  BY DEF On, Range
<1>1. ls[l] \in Seq(Blocks) /\ DOMAIN ls[l] = 1 .. Len(ls[l])
  BY LenProperties DEF ListOK
<1>. QED BY <1>1, ElementOfSeq

(* A call in progress is not none.                                         *)
LEMMA NoCallNot == \A w, b : [want |-> w, larger |-> b] # NoCall
<1> SUFFICES ASSUME NEW w, NEW b, [want |-> w, larger |-> b] = NoCall PROVE FALSE
  OBVIOUS
<1>1. DOMAIN [want |-> w, larger |-> b] = {"want", "larger"} /\ DOMAIN NoCall = {"want"}
  BY DEF NoCall
<1>. QED BY <1>1

(* ut_alloc that finds a block of the size wanted or of a larger size.     *)
LEMMA UtAllocIInv ==
  ASSUME UtIInv, NEW want \in Levels, NEW l \in Levels, UtAlloc(want, l)
  PROVE  UtIInv'
<1> DEFINE x == Head(lists[l])
<1>1. /\ call = NoCall /\ want <= l /\ lists[l] # <<>>
      /\ \A k \in want .. (l - 1) : lists[k] = <<>>
      /\ lists' = [lists EXCEPT ![l] = Tail(@)]
      /\ IF l = want THEN owned' = owned \cup {x} /\ UNCHANGED call
         ELSE call' = [want |-> want, larger |-> x] /\ UNCHANGED owned
      /\ UNCHANGED <<spare, gone, underflow>>
  BY DEF UtAlloc
<1>2. lists[l] \in Seq(Blocks) /\ ListOK(lists)
  BY DEF UtIInv, ListOK
<1>3. Len(lists[l]) \in Nat \ {0} /\ x = lists[l][1] /\ 1 <= Len(lists[l])
      /\ Tail(lists[l]) = SubSeq(lists[l], 1 + 1, Len(lists[l]))
  BY <1>1, <1>2, EmptySeq, HeadTailProperties, TailIsSubSeq
<1>4. lists' = Rest(lists, l, 1)
  BY <1>1, <1>3, Zenon DEF Rest
<1>5. {lists[l][i] : i \in 1 .. 1} = {x}
  BY <1>3
<1>6. ListOK(lists') /\ On(lists) = On(lists') \cup {x} /\ x \notin On(lists')
  <2>1. 1 \in Nat
    OBVIOUS
  <2>. QED BY <1>2, <1>3, <1>4, <1>5, <2>1, Dropped
<1>7. x \in Blocks /\ x.lvl = l
  <2>1. 1 \in DOMAIN lists[l]
    BY <1>2, <1>3, LenProperties
  <2>. QED BY <1>2, <1>3, <1>6, <2>1, OnBlocks DEF ListOK
<1> HIDE DEF x
<1>8. Division(On(lists), owned, {}, gone)
  BY <1>1 DEF UtIInv, Larger
<1>9. CASE l = want
  <2>1. owned' = owned \cup {x} /\ call' = NoCall /\ Larger' = {}
    BY <1>1, <1>9 DEF Larger
  <2>2. On(lists') \cup (owned \cup {x}) \cup {} \cup gone = On(lists) \cup owned \cup {} \cup gone
    BY <1>6
  <2>3. Division(On(lists'), owned', Larger', gone')
    BY <1>1, <1>6, <1>8, <2>1, <2>2, ZenonT(30) DEF Division
  <2>. QED BY <1>1, <1>6, <1>7, <2>1, <2>3 DEF UtIInv, SplitNeeded
<1>10. CASE l # want
  <2>1. owned' = owned /\ call' = [want |-> want, larger |-> x] /\ call' # NoCall /\ Larger' = {x}
    BY <1>1, <1>10, NoCallNot DEF Larger
  <2>2. On(lists') \cup owned \cup {x} \cup gone = On(lists) \cup owned \cup {} \cup gone
    BY <1>6
  <2>3. Division(On(lists'), owned', Larger', gone')
    BY <1>1, <1>6, <1>8, <2>1, <2>2, ZenonT(30) DEF Division
  <2>4. SplitNeeded'
    <3>1. call'.want = want /\ call'.larger = x /\ x.lvl > want
      BY <1>1, <1>7, <1>10, <2>1, LevelsInt
    <3>2. \A k \in want .. (l - 1) : lists'[k] = <<>>
      BY <1>1, <1>2, LevelsInt DEF ListOK, Levels
    <3>. QED BY <1>7, <3>1, <3>2 DEF SplitNeeded
  <2>5. call' \in [want: Levels, larger: Blocks]
    BY <1>7, <2>1
  <2>. QED BY <1>1, <1>6, <1>7, <2>1, <2>3, <2>4, <2>5 DEF UtIInv
<1>. QED BY <1>9, <1>10

(* ut_free of a block its caller holds.                                    *)
LEMMA UtFreeIInv == ASSUME UtIInv, NEW b \in owned, UtFree(b) PROVE UtIInv'
<1>1. /\ call = NoCall /\ lists' = Push(lists, b) /\ owned' = owned \ {b}
      /\ UNCHANGED <<spare, call, gone, underflow>>
  BY DEF UtFree
<1>2. b \in Blocks /\ b \notin On(lists) /\ ListOK(lists) /\ Larger = {} /\ Larger' = {}
      /\ Division(On(lists), owned, {}, gone)
  BY <1>1 DEF UtIInv, Division, Larger
<1>3. ListOK(lists') /\ On(lists') = On(lists) \cup {b}
  BY <1>1, <1>2, Pushed
<1>4. On(lists') \cup owned' \cup {} \cup gone = On(lists) \cup owned \cup {} \cup gone
  BY <1>1, <1>3
<1>5. Division(On(lists'), owned', {}, gone)
  BY <1>1, <1>2, <1>3, <1>4 DEF Division
<1>. QED BY <1>1, <1>2, <1>3, <1>5 DEF UtIInv, SplitNeeded

(* The pages that the mapping of new structures takes are off the list and *)
(* lost to it.                                                             *)
LEMMA Dropped4k ==
  ASSUME ListOK(lists), NEW n \in Nat, n <= Len(lists[Top])
  PROVE  /\ ListOK(Drop4k(lists, n))
         /\ On(lists) = On(Drop4k(lists, n)) \cup First4k(lists, n)
         /\ On(Drop4k(lists, n)) \cap First4k(lists, n) = {}
         /\ \A k \in Levels : k # Top => Drop4k(lists, n)[k] = lists[k]
<1>1. Drop4k(lists, n) = Rest(lists, Top, n) /\ First4k(lists, n) = {lists[Top][i] : i \in 1 .. n}
  BY DEF Drop4k, Rest, First4k
<1>2. Top \in Levels
  BY LevelsInt
<1>3. \A k \in Levels : k # Top => Rest(lists, Top, n)[k] = lists[k]
  BY DEF Rest, ListOK
<1>. QED BY <1>1, <1>2, <1>3, Dropped

(* A split that fails gives the block back.                                *)
LEMMA GiveUpIInv ==
  ASSUME UtIInv, call # NoCall, NEW n \in Nat, n <= Len(lists[Top]),
         gone' = gone \cup First4k(lists, n), GiveUp(Drop4k(lists, n)),
         spare' \in Nat, underflow' \in BOOLEAN, ~underflow'
  PROVE  UtIInv'
<1> DEFINE ms == Drop4k(lists, n)
           F == First4k(lists, n)
           b == call.larger
<1>1. /\ ListOK(ms) /\ On(lists) = On(ms) \cup F /\ On(ms) \cap F = {}
  BY Dropped4k DEF UtIInv
<1>2. b \in Blocks /\ Larger = {b} /\ Division(On(lists), owned, {b}, gone)
  BY DEF UtIInv, Larger
<1>3. b \notin On(lists) /\ b \notin owned /\ b \notin gone
  BY <1>2 DEF Division
<1>4. lists' = Push(ms, b) /\ call' = NoCall /\ owned' = owned /\ gone' = gone \cup F
  BY DEF GiveUp
<1>5. F \subseteq Blocks
  BY <1>1, OnBlocks DEF UtIInv
<1> HIDE DEF ms, F, b
<1>6. ListOK(lists') /\ On(lists') = On(ms) \cup {b}
  BY <1>1, <1>2, <1>3, <1>4, Pushed
<1>7. On(lists') \cup owned \cup {} \cup (gone \cup F) = On(lists) \cup owned \cup {b} \cup gone
  BY <1>1, <1>6
<1>8. Division(On(lists'), owned, {}, gone \cup F)
  BY <1>1, <1>2, <1>3, <1>6, <1>7, Zenon DEF Division
<1>9. Larger' = {} /\ SplitNeeded'
  BY <1>4 DEF Larger, SplitNeeded
<1>. QED BY <1>4, <1>5, <1>6, <1>8, <1>9, Zenon DEF UtIInv

(* A split for which there are no ut structures.                           *)
LEMMA SplitNoStructuresIInv ==
  ASSUME UtIInv, NEW g \in Grow, SplitNoStructures(g) PROVE UtIInv'
<1>1. call # NoCall /\ UNCHANGED <<spare, underflow>> /\ spare' \in Nat /\ underflow' \in BOOLEAN /\ ~underflow'
  BY DEF SplitNoStructures, UtIInv
<1>2. lists[Top] \in Seq(Blocks) /\ Len(lists[Top]) \in Nat /\ lists \in [Levels -> Seq(Blocks)]
  BY LevelsInt, LenProperties DEF UtIInv, ListOK
<1>3. CASE GiveUp(lists) /\ UNCHANGED gone
  <2>1. SubSeq(lists[Top], 0 + 1, Len(lists[Top])) = lists[Top]
    BY <1>2, SubSeqFull
  <2>2. Drop4k(lists, 0) = lists
    BY <1>2, <2>1, LevelsInt DEF Drop4k
  <2>3. First4k(lists, 0) = {}
    BY DEF First4k
  <2>. QED BY <1>1, <1>2, <1>3, <2>2, <2>3, GiveUpIInv
<1>4. CASE /\ 1 + g <= Len(lists[Top]) /\ gone' = gone \cup First4k(lists, 1 + g)
           /\ GiveUp(Drop4k(lists, 1 + g))
  <2>1. 1 + g \in Nat
    BY DEF Grow
  <2>. QED BY <1>1, <1>4, <2>1, GiveUpIInv
<1>. QED BY <1>3, <1>4 DEF SplitNoStructures

(* A split: one half goes on the list, the other is split on or given to   *)
(* the caller.                                                             *)
LEMMA SplitIInv ==
  ASSUME UtIInv, NEW g \in Grow, NEW o \in Outcomes, Split(g, o)
  PROVE  /\ UtIInv'
         /\ owned' # owned => \E b \in owned' : owned' = owned \cup {b} /\ b.lvl = call.want
<1> DEFINE more == ~Enough(spare)
           n == IF more THEN 1 + g ELSE g
           have == IF more THEN spare + StructsPerPage ELSE spare
           ms == Drop4k(lists, n)
           F == First4k(lists, n)
           b == call.larger
           one == Half(b, 0)
           two == Half(b, 1)
<1>1. /\ call # NoCall /\ n <= Len(lists[Top]) /\ gone' = gone \cup F
      /\ spare' = have - Lost(o)
      /\ underflow' = (underflow \/ have < IF o = "slot1" THEN 1 ELSE 2)
      /\ IF o # "ok" THEN GiveUp(ms)
         ELSE /\ lists' = Push(ms, one)
              /\ IF Done(two) THEN owned' = owned \cup {two} /\ call' = NoCall
                 ELSE call' = [call EXCEPT !.larger = two] /\ UNCHANGED owned
  BY DEF Split
<1>2. have \in Nat /\ have >= 2 /\ n \in Nat
  BY UtTableAssumption DEF UtIInv, Enough, Grow
<1>3. Lost(o) \in 0 .. 2
  BY DEF Lost, Outcomes
<1>4. spare' \in Nat
  BY <1>1, <1>2, <1>3
<1>5. underflow' \in BOOLEAN /\ ~underflow'
  <2>1. ~(have < IF o = "slot1" THEN 1 ELSE 2)
    BY <1>2
  <2>. QED BY <1>1, <2>1 DEF UtIInv
<1> HIDE DEF more, n, have
<1>6. CASE o # "ok"
  <2>1. UtIInv'
    BY <1>1, <1>2, <1>4, <1>5, <1>6, GiveUpIInv
  <2>2. owned' = owned
    BY <1>1, <1>6 DEF GiveUp
  <2>. QED BY <2>1, <2>2
<1>7. CASE o = "ok"
  <2>1. /\ ListOK(ms) /\ On(lists) = On(ms) \cup F /\ On(ms) \cap F = {}
        /\ \A k \in Levels : k # Top => ms[k] = lists[k]
    BY <1>1, <1>2, Dropped4k DEF UtIInv
  <2>2. /\ b \in Blocks /\ Larger = {b} /\ Division(On(lists), owned, {b}, gone)
        /\ call \in [want: Levels, larger: Blocks] /\ call.want \in Levels /\ b.lvl \in Levels
        /\ b.lvl > call.want /\ \A k \in call.want .. (b.lvl - 1) : lists[k] = <<>>
    BY <1>1, BlockShape DEF UtIInv, Larger, SplitNeeded
  <2>3. b.lvl > 0 /\ b.lvl \in Nat /\ call.want \in Nat /\ b.lvl <= Top /\ Top \in Nat
    BY <2>2, LevelsInt DEF Levels
  <2>4. one \in Blocks /\ two \in Blocks /\ one.lvl = b.lvl - 1 /\ two.lvl = b.lvl - 1 /\ one # two
    BY <2>2, <2>3, HalfBlock, CellsSplit
  <2>5. F \subseteq Blocks /\ On(lists) \subseteq Blocks
    BY <2>1, OnBlocks DEF UtIInv
  <2> HIDE DEF ms, F, b, one, two
  <2> DEFINE U == On(lists) \cup owned \cup {b} \cup gone
             V == (U \ {b}) \cup {one, two}
  <2>6. U \subseteq Blocks /\ b \in U /\ Separate(U) /\ Covers(U)
    BY <2>2, <2>5 DEF UtIInv, Division
  <2>7. one \notin U \ {b} /\ two \notin U \ {b} /\ Separate(V) /\ Covers(V)
    <3> HIDE DEF U
    <3>. QED BY <2>3, <2>6, Halved DEF one, two
  <2>8. b \notin On(lists) /\ b \notin owned /\ b \notin gone
    BY <2>2 DEF Division
  <2>9. ListOK(lists') /\ On(lists') = On(ms) \cup {one}
    <3>1. one \notin On(ms)
      BY <2>1, <2>7, <2>8
    <3>. QED BY <1>1, <1>7, <2>1, <2>4, <3>1, Pushed
  <2>10. \A k \in Levels : k < b.lvl - 1 => lists'[k] = lists[k]
    <3>1. \A k \in Levels : k # b.lvl - 1 => Push(ms, one)[k] = ms[k]
      BY <2>1, <2>4 DEF Push, ListOK
    <3>2. \A k \in Levels : k < b.lvl - 1 => k # b.lvl - 1 /\ k # Top
      BY <2>3, LevelsInt
    <3>. QED BY <1>1, <1>7, <2>1, <3>1, <3>2
  <2>13. /\ one \notin On(ms) \cup owned \cup gone \cup F /\ two \notin On(ms) \cup owned \cup gone \cup F
         /\ (On(ms) \cup F) \cap owned = {} /\ gone \cap (On(ms) \cup F \cup owned) = {}
    <3>1. On(lists) \cap owned = {} /\ gone \cap (On(lists) \cup owned \cup {b}) = {}
      BY <2>2 DEF Division
    <3>. QED BY <2>1, <2>7, <2>8, <3>1
  <2>11. CASE Done(two)
    <3>1. owned' = owned \cup {two} /\ call' = NoCall /\ Larger' = {} /\ two.lvl = call.want
      BY <1>1, <1>7, <2>11 DEF Larger, Done
    <3>2. On(lists') \cup owned' \cup {} \cup (gone \cup F) = V
      BY <2>1, <2>8, <2>9, <3>1
    <3>3. Division(On(lists'), owned', {}, gone \cup F)
      <4>1. Separate(V) /\ Covers(V)
        BY <2>7
      <4>2. On(lists') \cap owned' = {} /\ {} \cap (owned' \cup On(lists')) = {}
            /\ (gone \cup F) \cap (On(lists') \cup owned' \cup {}) = {}
        BY <2>1, <2>4, <2>9, <2>13, <3>1
      <4> HIDE DEF U, V
      <4>. QED BY <3>2, <4>1, <4>2 DEF Division
    <3>4. UtIInv'
      BY <1>1, <1>4, <1>5, <2>4, <2>5, <2>9, <3>1, <3>3 DEF UtIInv, SplitNeeded
    <3>. QED BY <3>1, <3>4
  <2>12. CASE ~Done(two)
    <3>1. owned' = owned /\ call' = [call EXCEPT !.larger = two] /\ two.lvl # call.want
      BY <1>1, <1>7, <2>12 DEF Done
    <3>2. /\ call' \in [want: Levels, larger: Blocks] /\ call'.want = call.want /\ call'.larger = two
          /\ call' # NoCall
      <4>1. call' = [want |-> call.want, larger |-> two]
        BY <2>2, <3>1
      <4>. QED BY <2>2, <2>4, <4>1, NoCallNot
    <3>3. Larger' = {two}
      BY <3>2 DEF Larger
    <3>4. On(lists') \cup owned' \cup {two} \cup (gone \cup F) = V
      BY <2>1, <2>8, <2>9, <3>1
    <3>5. Division(On(lists'), owned', {two}, gone \cup F)
      <4>1. Separate(V) /\ Covers(V)
        BY <2>7
      <4>2. On(lists') \cap owned' = {} /\ {two} \cap (owned' \cup On(lists')) = {}
            /\ (gone \cup F) \cap (On(lists') \cup owned' \cup {two}) = {}
        BY <2>1, <2>4, <2>9, <2>13, <3>1
      <4> HIDE DEF U, V
      <4>. QED BY <3>4, <4>1, <4>2 DEF Division
    <3>6. SplitNeeded'
      <4>1. two.lvl > call.want
        BY <2>2, <2>3, <2>4, <3>1
      <4>2. \A k \in call.want .. (two.lvl - 1) : k \in Levels /\ k < b.lvl - 1 /\ k \in call.want .. (b.lvl - 1)
        BY <2>3, <2>4 DEF Levels
      <4>3. \A k \in call.want .. (two.lvl - 1) : lists'[k] = <<>>
        BY <2>2, <2>10, <4>2
      <4>. QED BY <3>2, <4>1, <4>3 DEF SplitNeeded
    <3>7. UtIInv'
      BY <1>1, <1>4, <1>5, <2>5, <2>9, <3>1, <3>2, <3>3, <3>5, <3>6 DEF UtIInv
    <3>. QED BY <3>1, <3>7
  <2>. QED BY <2>11, <2>12
<1>. QED BY <1>6, <1>7

(* A step that changes nothing.                                            *)
LEMMA UtSame == ASSUME UtIInv, UNCHANGED utVars PROVE UtIInv'
BY DEF UtIInv, utVars, SplitNeeded, Larger

(* After ut_init and the untypeds of boot have been added.                 *)
LEMMA UtInitIInv == ASSUME UtInit PROVE UtIInv
<1> DEFINE s == [i \in 1 .. NumPages |-> Page(NumPages + 1 - i)]
<1>1. /\ lists = [l \in Levels |-> IF l = Top THEN s ELSE <<>>]
      /\ spare = 0 /\ owned = {} /\ call = NoCall /\ gone = {} /\ underflow = FALSE
  BY DEF UtInit
<1>2. NumPages \in Nat /\ Top \in Levels /\ Top - Top = 0 /\ 2^0 = 1
  BY LevelsInt, UtTableAssumption
<1>3. \A p \in Pages : Page(p) \in Blocks /\ Page(p).lvl = Top /\ Page(p).page = p /\ Page(p).off = 0
  <2>0. \A n : n = 0 => 2^n = 2^0
    OBVIOUS
  <2>1. 2^(Top - Top) - 1 = 0
    BY <1>2, <2>0
  <2>2. 0 \in 0 .. (2^(Top - Top) - 1)
    BY <2>1
  <2>. QED BY <1>2, <2>2, BlockShape DEF Page
<1>4. \A i \in 1 .. NumPages : NumPages + 1 - i \in Pages
  BY <1>2 DEF Pages
<1>5. s \in Seq(Blocks) /\ Len(s) = NumPages /\ DOMAIN s = 1 .. NumPages
  <2>1. \A i \in 1 .. NumPages : s[i] \in Blocks
    BY <1>3, <1>4
  <2>2. s \in [1 .. NumPages -> Blocks]
    BY <2>1
  <2> HIDE DEF s
  <2>. QED BY <1>2, <2>2
<1>6. \A i \in 1 .. NumPages : s[i] = Page(NumPages + 1 - i)
  OBVIOUS
<1> HIDE DEF s
<1>7. LevelOK(Top, s)
  <2>1. \A i \in DOMAIN s : s[i].lvl = Top
    BY <1>3, <1>4, <1>5, <1>6
  <2>2. IsInjective(s)
    <3> SUFFICES ASSUME NEW i \in 1 .. NumPages, NEW j \in 1 .. NumPages, s[i] = s[j] PROVE i = j
      BY <1>5 DEF IsInjective
    <3>1. s[i].page = NumPages + 1 - i /\ s[j].page = NumPages + 1 - j
      BY <1>3, <1>4, <1>6
    <3>. QED BY <1>2, <3>1
  <2>. QED BY <1>5, <2>1, <2>2 DEF LevelOK
<1>8. ListOK(lists)
  <2>1. <<>> \in Seq(Blocks) /\ DOMAIN <<>> = {} /\ IsInjective(<<>>)
    BY EmptySeq DEF IsInjective
  <2>. QED BY <1>1, <1>7, <2>1 DEF ListOK, LevelOK
<1>9. On(lists) = {Page(p) : p \in Pages}
  <2>1. On(lists) = Range(s)
    <3>1. Range(<<>>) = {}
      BY DEF Range
    <3>2. \A l \in Levels : lists[l] = IF l = Top THEN s ELSE <<>>
      BY <1>1
    <3>. QED BY <1>2, <3>1, <3>2 DEF On
  <2>2. \A p \in Pages : NumPages + 1 - p \in 1 .. NumPages /\ NumPages + 1 - (NumPages + 1 - p) = p
    BY <1>2 DEF Pages
  <2>3. Range(s) \subseteq {Page(p) : p \in Pages}
    BY <1>4, <1>5, <1>6 DEF Range
  <2>4. ASSUME NEW p \in Pages PROVE Page(p) \in Range(s)
    <3>1. s[NumPages + 1 - p] = Page(p)
      BY <1>6, <2>2
    <3>. QED BY <1>5, <2>2, <3>1 DEF Range
  <2>. QED BY <2>1, <2>3, <2>4
<1>10. \A p \in Pages : Cells(Page(p)) = {p} \X (0 .. (2^Top - 1))
  <2>1. 2^Top \in Nat
    BY PowersOfTwo, LevelsInt DEF Levels
  <2>2. 0 * 2^Top = 0 /\ (0 + 1) * 2^Top - 1 = 2^Top - 1
    BY <2>1
  <2>. QED BY <1>3, <2>2 DEF Cells
<1>11. Separate(On(lists))
  <2> SUFFICES ASSUME NEW p \in Pages, NEW q \in Pages, Page(p) # Page(q)
               PROVE  Cells(Page(p)) \cap Cells(Page(q)) = {}
    BY <1>9 DEF Separate
  <2>1. p # q
    OBVIOUS
  <2>. QED BY <1>10, <2>1
<1>12. Covers(On(lists))
  <2>1. UNION {Cells(b) : b \in On(lists)} = UNION {Cells(Page(p)) : p \in Pages}
    BY <1>9
  <2>2. UNION {Cells(Page(p)) : p \in Pages} = Pages \X (0 .. (2^Top - 1))
    BY <1>10
  <2>. QED BY <2>1, <2>2 DEF Covers
<1>13. Division(On(lists), owned, Larger, gone)
  <2>1. On(lists) \cup {} \cup {} \cup {} = On(lists) /\ Larger = {}
    BY <1>1 DEF Larger
  <2>. QED BY <1>1, <1>11, <1>12, <2>1 DEF Division
<1>. QED BY <1>1, <1>8, <1>13, Zenon DEF UtIInv, SplitNeeded

(* Every step of the untyped manager keeps the invariant, and what a call  *)
(* gives out has the size that was asked for.                              *)
LEMMA UtStep ==
  ASSUME UtIInv, [UtNext]_utVars
  PROVE  /\ UtIInv'
         /\ call # NoCall /\ owned' # owned =>
              \E b \in owned' : owned' = owned \cup {b} /\ b.lvl = call.want
<1>1. ASSUME NEW want \in Levels, NEW l \in Levels, UtAlloc(want, l) PROVE UtIInv' /\ call = NoCall
  BY <1>1, UtAllocIInv, Zenon DEF UtAlloc
<1>2. ASSUME NEW want \in Levels, UtAllocFails(want) PROVE UtIInv' /\ call = NoCall
  BY <1>2, UtSame DEF UtAllocFails
<1>3. ASSUME NEW g \in Grow, SplitNoStructures(g) PROVE UtIInv' /\ owned' = owned
  BY <1>3, SplitNoStructuresIInv DEF SplitNoStructures, GiveUp
<1>4. ASSUME NEW b \in owned, UtFree(b) PROVE UtIInv' /\ call = NoCall
  BY <1>4, UtFreeIInv DEF UtFree
<1>5. CASE UNCHANGED utVars
  BY <1>5, UtSame DEF utVars
<1>. QED BY <1>1, <1>2, <1>3, <1>4, <1>5, SplitIInv DEF UtNext, InCall

(* The invariant of the untyped manager.                                   *)
THEOREM UtInductive == UtSpec => []UtIInv
BY UtInitIInv, UtStep, PTL DEF UtSpec

(* For any number of pages and any page size: the blocks on the free       *)
(* lists, in the hands of callers, in the middle of a split and lost to    *)
(* page tables never overlap and are all the memory there is, whichever    *)
(* step of an allocation fails.                                            *)
THEOREM MemoryStaysPartitioned == UtSpec => []MemoryPartitioned
<1>1. UtIInv => MemoryPartitioned
  <2> SUFFICES ASSUME UtIInv PROVE MemoryPartitioned
    OBVIOUS
  <2>1. UtTypeOK
    BY DEF UtIInv, UtTypeOK, ListOK
  <2>2. Listed = On(lists)
    BY DEF Listed, On
  <2>3. NoOverlap
    BY <2>2 DEF UtIInv, NoOverlap, Division, Separate, ListOK
  <2>4. MemoryConserved
    BY <2>2 DEF UtIInv, MemoryConserved, Division, Covers
  <2>. QED BY <2>1, <2>3, <2>4 DEF UtIInv, MemoryPartitioned, StructuresReady
<1>. QED BY <1>1, UtInductive, PTL

(* For any number of pages and any page size: ut_alloc splits a block only *)
(* when no block of the sizes below it is free, and gives out a block of   *)
(* the size asked for.                                                     *)
THEOREM UtSplitsOnlyIfNeeded == UtSpec => SplitsOnlyIfNeeded
<1>1. UtIInv => (call # NoCall => \A k \in call.want .. (call.larger.lvl - 1) : lists[k] = <<>>)
  BY DEF UtIInv, SplitNeeded
<1>2. UtIInv /\ [UtNext]_utVars =>
        [call # NoCall /\ owned' # owned =>
          \E b \in owned' : owned' = owned \cup {b} /\ b.lvl = call.want]_utVars
  BY UtStep
<1>. QED BY <1>1, <1>2, UtInductive, PTL DEF UtSpec, SplitsOnlyIfNeeded

-----------------------------------------------------------------------------
(* The regions of memory and the DMA buffers (Arenas).                     *)

(* ROUND_UP gives a multiple of the alignment, at or above the number.     *)
LEMMA RoundUpProps ==
  ASSUME NEW n \in Nat, NEW b \in Nat \ {0}
  PROVE  RoundUp(n, b) \in Nat /\ n <= RoundUp(n, b) /\ RoundUp(n, b) % b = 0
<1>1. n = b * (n \div b) + (n % b) /\ n % b \in 0 .. b - 1 /\ n \div b \in Nat
  OBVIOUS
<1>2. CASE n % b = 0
  BY <1>1, <1>2 DEF RoundUp
<1>3. CASE n % b # 0
  <2>1. RoundUp(n, b) = b * (n \div b) + b
    BY <1>1, <1>3 DEF RoundUp
  <2>2. RoundUp(n, b) = b * (n \div b + 1)
    BY <1>1, <2>1
  <2>3. (b * (n \div b + 1)) % b = 0
    BY <1>1
  <2>. QED BY <1>1, <1>3, <2>1, <2>2, <2>3
<1>. QED BY <1>2, <1>3

(* A multiple of a multiple of c is a multiple of c.                       *)
LEMMA ModTrans ==
  ASSUME NEW n \in Nat, NEW a \in Nat \ {0}, NEW c \in Nat \ {0}, n % a = 0, a % c = 0
  PROVE  n % c = 0
<1> DEFINE x == n \div a  y == a \div c
<1>1. n = a * x /\ a = c * y /\ x \in Nat /\ y \in Nat
  OBVIOUS
<1> HIDE DEF x, y
<1>2. n = c * (y * x)
  BY <1>1
<1>3. y * x \in Nat
  BY <1>1
<1> DEFINE z == y * x
<1> HIDE DEF z
<1>4. n = c * z /\ z \in Nat
  BY <1>2, <1>3 DEF z
<1>. QED BY <1>4

(* The cache line of the last byte below e is before the line of an        *)
(* address f at or above e that starts a line.                             *)
LEMMA LinesApart ==
  ASSUME NEW e \in Nat \ {0}, NEW f \in Nat, NEW c \in Nat \ {0}, e <= f, f % c = 0
  PROVE  (e - 1) \div c + 1 <= f \div c
<1>1. e - 1 = c * ((e - 1) \div c) + ((e - 1) % c) /\ (e - 1) % c \in 0 .. c - 1
      /\ (e - 1) \div c \in Nat
  OBVIOUS
<1>2. f = c * (f \div c) /\ f \div c \in Nat
  OBVIOUS
<1> DEFINE p == (e - 1) \div c  q == f \div c
<1> SUFFICES ASSUME q <= p PROVE FALSE
  BY <1>1, <1>2
<1>3. c * q <= c * p
  BY <1>1, <1>2
<1>. QED BY <1>1, <1>2, <1>3

(* Ranges of addresses: first byte, and the byte behind the last.          *)
Ranges == Nat \X Nat

(* The inductive invariant. ArenasApart alone is not one: that two new     *)
(* ranges do not meet follows from where the old ones lie, below pnext for *)
(* DMA buffers and above morecore_top for mappings.                        *)
ArenaIInv ==
  /\ morecore_base \in Nat /\ morecore_top \in Nat /\ pnext \in Nat
  /\ morecore_base <= morecore_top /\ morecore_top <= AreaEnd
  /\ mappings \subseteq Ranges /\ buffers \subseteq Ranges
  /\ \A m \in mappings : morecore_top <= m[1] /\ m[1] <= m[2] /\ m[2] <= AreaEnd
  /\ \A m, n \in mappings : n # m => Apart(m, n)
  /\ DmaStart <= pnext
  /\ \A b \in buffers :
       /\ DmaStart <= b[1] /\ b[1] < b[2] /\ b[2] <= pnext /\ b[2] <= DmaEnd
       /\ b[1] % CacheLine = 0
  /\ \A b, c \in buffers : c # b => b[2] <= c[1] \/ c[2] <= b[1]

(* sos_dma_malloc: the new buffer starts at or above pnext, on a line of   *)
(* its own.                                                                *)
LEMMA MallocIInv ==
  ASSUME ArenaIInv, NEW size \in Sizes, NEW align \in Aligns, sos_dma_malloc(size, align)
  PROVE  ArenaIInv'
<1> DEFINE from == Aligned(align)
<1>0. size \in Nat \ {0} /\ align \in Nat \ {0} /\ align % CacheLine = 0
      /\ CacheLine \in Nat \ {0} /\ DMA_ALIGN_BITS \in Nat \ {0}
      /\ DmaStart \in Nat /\ DmaEnd \in Nat
  BY ArenasAssumption DEF DmaEnd
<1>1. pnext \in Nat /\ DmaStart <= pnext
  BY DEF ArenaIInv
<1>2. from \in Nat /\ pnext <= from /\ from % CacheLine = 0
  <2> DEFINE half == RoundUp(pnext, DMA_ALIGN_BITS)
  <2>1. half \in Nat /\ pnext <= half
    BY <1>0, <1>1, RoundUpProps
  <2> HIDE DEF half
  <2>2. RoundUp(half, align) \in Nat /\ half <= RoundUp(half, align)
        /\ RoundUp(half, align) % align = 0
    BY <1>0, <2>1, RoundUpProps
  <2>3. RoundUp(half, align) % CacheLine = 0
    BY <1>0, <2>2, ModTrans
  <2>. QED BY <1>1, <2>1, <2>2, <2>3 DEF Aligned, half
<1>3. /\ UNCHANGED <<morecore_base, morecore_top, mappings>>
      /\ IF from + size >= DmaEnd
         THEN pnext' = from /\ UNCHANGED buffers
         ELSE pnext' = from + size /\ buffers' = buffers \cup {<<from, from + size>>}
  BY DEF sos_dma_malloc
<1> HIDE DEF from
<1>4. CASE from + size >= DmaEnd
  BY <1>0, <1>1, <1>2, <1>3, <1>4 DEF ArenaIInv, Ranges
<1>5. CASE ~(from + size >= DmaEnd)
  <2>1. buffers' \subseteq Ranges
    BY <1>0, <1>2, <1>3, <1>5 DEF ArenaIInv, Ranges
  <2>2. \A b \in buffers' :
          /\ DmaStart <= b[1] /\ b[1] < b[2] /\ b[2] <= pnext' /\ b[2] <= DmaEnd
          /\ b[1] % CacheLine = 0
    BY <1>0, <1>1, <1>2, <1>3, <1>5 DEF ArenaIInv, Ranges
  <2>3. \A b, c \in buffers' : c # b => b[2] <= c[1] \/ c[2] <= b[1]
    BY <1>0, <1>1, <1>2, <1>3, <1>5 DEF ArenaIInv, Ranges
  <2>. QED BY <1>0, <1>1, <1>2, <1>3, <1>5, <2>1, <2>2, <2>3 DEF ArenaIInv
<1>. QED BY <1>4, <1>5

(* The invariant holds in every state of sys_brk, sys_mmap and             *)
(* sos_dma_malloc.                                                         *)
THEOREM RegionsInductive == ArenaSpec => []ArenaIInv
<1>1. ArenaInit => ArenaIInv
  BY ArenasAssumption DEF ArenaInit, ArenaIInv, AreaEnd, Ranges
<1>2. ArenaIInv /\ [ArenaNext]_arenaVars => ArenaIInv'
  <2> SUFFICES ASSUME ArenaIInv, [ArenaNext]_arenaVars PROVE ArenaIInv'
    OBVIOUS
  <2>0. AreaStart \in Nat /\ AreaEnd \in Nat
    BY ArenasAssumption DEF AreaEnd
  <2>1. ASSUME NEW newbrk \in AreaStart .. AreaEnd, sys_brk(newbrk) PROVE ArenaIInv'
    BY <2>0, <2>1 DEF sys_brk, ArenaIInv, Ranges
  <2>2. ASSUME NEW length \in Sizes, sys_mmap(length) PROVE ArenaIInv'
    <3>0. length \in Nat
      BY ArenasAssumption
    <3>1. /\ length <= morecore_top - morecore_base
          /\ morecore_top' = morecore_top - length
          /\ mappings' = mappings \cup {<<morecore_top', morecore_top>>}
          /\ UNCHANGED <<morecore_base, pnext, buffers>>
      BY <2>2 DEF sys_mmap, Room
    <3>2. \A m, n \in mappings' : n # m => Apart(m, n)
      BY <2>0, <3>0, <3>1 DEF ArenaIInv, Apart, Ranges
    <3>. QED BY <2>0, <3>0, <3>1, <3>2 DEF ArenaIInv, Ranges
  <2>3. ASSUME NEW size \in Sizes, NEW align \in Aligns, sos_dma_malloc(size, align)
        PROVE  ArenaIInv'
    BY <2>3, MallocIInv
  <2>4. CASE UNCHANGED arenaVars
    BY <2>4 DEF arenaVars, ArenaIInv
  <2>. QED BY <2>1, <2>2, <2>3, <2>4 DEF ArenaNext
<1>. QED BY <1>1, <1>2, PTL DEF ArenaSpec

(* Whatever the sizes and alignments asked for, the heap, the mappings and *)
(* the DMA buffers never overlap, and no two DMA buffers share a cache     *)
(* line.                                                                   *)
THEOREM RegionsApart == ArenaSpec => []ArenasApart
<1>1. ArenaIInv => ArenasApart
  <2> SUFFICES ASSUME ArenaIInv PROVE ArenasApart
    OBVIOUS
  <2>1. ASSUME NEW m \in mappings
        PROVE  /\ morecore_base <= m[1] /\ m[2] <= AreaEnd
               /\ \A n \in mappings : n # m => Apart(m, n)
    BY ArenasAssumption DEF ArenaIInv, AreaEnd, Ranges
  <2>2. ASSUME NEW b \in buffers, NEW c \in buffers, c # b
        PROVE  Apart(<<b[1] \div CacheLine, (b[2] - 1) \div CacheLine + 1>>,
                     <<c[1] \div CacheLine, (c[2] - 1) \div CacheLine + 1>>)
    <3>1. /\ b[1] \in Nat /\ b[2] \in Nat /\ c[1] \in Nat /\ c[2] \in Nat
          /\ b[2] # 0 /\ c[2] # 0 /\ b[1] % CacheLine = 0 /\ c[1] % CacheLine = 0
          /\ (b[2] <= c[1] \/ c[2] <= b[1])
      BY <2>2 DEF ArenaIInv, Ranges
    <3>2. CacheLine \in Nat \ {0}
      BY ArenasAssumption
    <3>3. \/ (b[2] - 1) \div CacheLine + 1 <= c[1] \div CacheLine
          \/ (c[2] - 1) \div CacheLine + 1 <= b[1] \div CacheLine
      BY <3>1, <3>2, LinesApart
    <3>. QED BY <3>3 DEF Apart
  <2>3. \A b \in buffers : DmaStart <= b[1] /\ b[2] <= DmaEnd
    BY DEF ArenaIInv
  <2>. QED BY <2>1, <2>2, <2>3 DEF ArenasApart
<1>. QED BY <1>1, RegionsInductive, PTL
=============================================================================
