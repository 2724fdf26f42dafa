---------------------------- MODULE DriverProofs ----------------------------
(***************************************************************************)
(* The drivers, for a ring of any length and a counter of any width:       *)
(* packets cross the descriptor rings in order and unharmed, whatever the  *)
(* cache does (EthernetRing), and the timestamp is one the counter had     *)
(* during the call (Timestamp).                                            *)
(***************************************************************************)
EXTENDS EthernetRing, Timestamp, SequenceTheorems, TLAPS

-----------------------------------------------------------------------------
(* The descriptor rings (EthernetRing).                                    *)

(* What a buffer can hold.                                                 *)
Content == Packets \cup {NoPacket}
(* The descriptors: who owns them, and the length, by the packet it        *)
(* belongs to.                                                             *)
Descriptors == [own: BOOLEAN, len: Content]

(* How far ahead of b index i is, around the ring.                         *)
Ahead(b, i) == IF i >= b THEN i - b ELSE i - b + DescrNum
(* Index i is the one m places ahead of b.                                 *)
At(i, b, m) == i = IF b + m < DescrNum THEN b + m ELSE b + m - DescrNum

(* Counting from index b in ring R: h descriptors that the other side has  *)
(* finished with, then the descriptors of the packets q in order, each     *)
(* with its packet in its buffer, all with ownership "own", and the rest   *)
(* with the other.                                                         *)
Handed(R, q, b, h, own) ==
  /\ Len(q) + h <= DescrNum
  /\ \A i \in Ring : R[Desc(i)].own = (IF Ahead(b, i) < Len(q) + h THEN own ELSE ~own)
  /\ \A i \in Ring : h <= Ahead(b, i) /\ Ahead(b, i) < Len(q) + h =>
        /\ R[Desc(i)].len = q[Ahead(b, i) - h + 1]
        /\ R[Buf(i)] = q[Ahead(b, i) - h + 1]

(* Every descriptor and every buffer has a line of its own.                *)
LEMMA LineNames ==
  ASSUME NEW i \in Ring, NEW j \in Ring
  PROVE  /\ Desc(i) \in Lines /\ Buf(i) \in Lines /\ Desc(i) # Buf(j)
         /\ Desc(i) = Desc(j) => i = j
         /\ Buf(i) = Buf(j) => i = j
<1>1. Desc(i) \in Lines /\ Buf(i) \in Lines
  BY DEF Lines
<1>2. Desc(i) # Buf(j) /\ (Desc(i) = Desc(j) => i = j) /\ (Buf(i) = Buf(j) => i = j)
  BY DEF Desc, Buf
<1>. QED BY <1>1, <1>2

(* Arithmetic around the ring.                                             *)
LEMMA Positions ==
  ASSUME NEW b \in Ring
  PROVE  /\ Succ(b) \in Ring /\ Ahead(b, b) = 0 /\ Ahead(Succ(b), b) = DescrNum - 1
         /\ \A i \in Ring : /\ Ahead(b, i) \in 0 .. (DescrNum - 1)
                            /\ i # b => Ahead(b, i) > 0 /\ Ahead(Succ(b), i) = Ahead(b, i) - 1
         /\ \A i \in Ring, m \in 0 .. (DescrNum - 1) : At(i, b, m) <=> Ahead(b, i) = m
         /\ \A i \in Ring, m \in 0 .. (DescrNum - 1) : At(i, b, m) => At(Succ(i), b, m + 1)
         /\ \A i \in Ring, m \in 1 .. DescrNum : At(i, b, m) => At(i, Succ(b), m - 1)
         /\ At(b, b, 0) /\ At(b, b, DescrNum)
         /\ \A i \in Ring : At(i, b, DescrNum) => i = b
BY EthernetRingAssumption DEF Ring, Succ, Ahead, At

(* The index m places ahead.                                               *)
LEMMA AtIs ==
  ASSUME NEW b \in Ring, NEW i \in Ring, NEW m \in 0 .. (DescrNum - 1), At(i, b, m)
  PROVE  Ahead(b, i) = m
BY Positions

(* The ring has a descriptor.                                              *)
LEMMA DescrNumNat == DescrNum \in Nat \ {0}
BY EthernetRingAssumption

(* Filling the next descriptor and giving it to the other side appends its *)
(* packet.                                                                 *)
LEMMA HandOver ==
  ASSUME NEW R, R = [l \in Lines |-> R[l]], NEW q \in Seq(Packets), NEW b \in Ring, NEW h \in {0, 1},
         NEW own \in BOOLEAN, Handed(R, q, b, h, own),
         NEW i \in Ring, At(i, b, Len(q) + h), Len(q) + h < DescrNum,
         NEW p \in Packets, R[Buf(i)] = p, NEW d, d.own = own, d.len = p
  PROVE  /\ Handed([R EXCEPT ![Desc(i)] = d], Append(q, p), b, h, own)
         /\ At(Succ(i), b, Len(Append(q, p)) + h)
<1> DEFINE S == [R EXCEPT ![Desc(i)] = d]
           r == Append(q, p)
           m == Len(q) + h
<1>1. Len(q) \in Nat /\ m \in 0 .. (DescrNum - 1) /\ m \in Nat
  BY LenProperties, DescrNumNat
<1>2. r \in Seq(Packets) /\ Len(r) = Len(q) + 1 /\ (\A k \in 1 .. Len(q) : r[k] = q[k]) /\ r[Len(q) + 1] = p
  BY AppendProperties
<1>3. S[Desc(i)] = d /\ \A l \in Lines : l # Desc(i) => S[l] = R[l]
  BY LineNames
<1>4. Ahead(b, i) = m /\ \A j \in Ring : j # i => Ahead(b, j) # m
  <2>1. At(i, b, m)
    OBVIOUS
  <2> HIDE DEF m
  <2>2. Ahead(b, i) = m
    BY <1>1, <2>1, Positions, ZenonT(30)
  <2>3. \A j \in Ring : Ahead(b, j) = m => At(j, b, m)
    BY <1>1, Positions, Zenon
  <2>. QED BY <2>1, <2>2, <2>3 DEF At
<1>5. \A j \in Ring : Ahead(b, j) \in 0 .. (DescrNum - 1)
  BY Positions
<1>6. \A j \in Ring : j # i => S[Desc(j)] = R[Desc(j)]
  BY <1>3, LineNames
<1>7. \A j \in Ring : S[Buf(j)] = R[Buf(j)]
  BY <1>3, LineNames
<1>8. /\ \A j \in Ring : R[Desc(j)].own = (IF Ahead(b, j) < m THEN own ELSE ~own)
      /\ \A j \in Ring : h <= Ahead(b, j) /\ Ahead(b, j) < m =>
           R[Desc(j)].len = q[Ahead(b, j) - h + 1] /\ R[Buf(j)] = q[Ahead(b, j) - h + 1]
  BY Zenon DEF Handed
<1>9. At(Succ(i), b, Len(r) + h)
  <2>1. Len(r) + h = m + 1
    BY <1>1, <1>2
  <2> HIDE DEF m, r
  <2>2. At(i, b, m)
    BY DEF m
  <2>. QED BY <1>1, <2>1, <2>2, Positions
<1>10. Len(r) + h = m + 1
  BY <1>1, <1>2
<1> HIDE DEF S, r, m
<1>11. ASSUME NEW j \in Ring PROVE S[Desc(j)].own = (IF Ahead(b, j) < Len(r) + h THEN own ELSE ~own)
  <2>1. CASE j = i
    BY <1>1, <1>3, <1>4, <1>10, <2>1
  <2>2. CASE j # i
    <3>1. Ahead(b, j) < m <=> Ahead(b, j) < m + 1
      BY <1>1, <1>4, <1>5, <2>2
    <3>. QED BY <1>6, <1>8, <1>10, <2>2, <3>1, Zenon
  <2>. QED BY <2>1, <2>2
<1>12. ASSUME NEW j \in Ring, h <= Ahead(b, j), Ahead(b, j) < Len(r) + h
       PROVE  S[Desc(j)].len = r[Ahead(b, j) - h + 1] /\ S[Buf(j)] = r[Ahead(b, j) - h + 1]
  <2>1. CASE j = i
    <3>1. Ahead(b, j) - h + 1 = Len(q) + 1
      BY <1>1, <1>4, <2>1 DEF m
    <3>. QED BY <1>2, <1>3, <1>7, <2>1, <3>1, Zenon DEF r
  <2>2. CASE j # i
    <3>1. Ahead(b, j) < m /\ Ahead(b, j) - h + 1 \in 1 .. Len(q)
      BY <1>1, <1>4, <1>5, <1>10, <1>12, <2>2 DEF m
    <3>2. r[Ahead(b, j) - h + 1] = q[Ahead(b, j) - h + 1]
      BY <1>2, <3>1 DEF r
    <3>. QED BY <1>6, <1>7, <1>8, <1>12, <2>2, <3>1, <3>2, Zenon
  <2>. QED BY <2>1, <2>2
<1>13. Len(r) + h <= DescrNum
  BY <1>1, <1>10, DescrNumNat
<1>. QED BY <1>9, <1>11, <1>12, <1>13, Zenon DEF Handed, S, r

(* Taking the first packet leaves its descriptor finished with.            *)
LEMMA TakeFirst ==
  ASSUME NEW R, NEW q \in Seq(Packets), q # <<>>, NEW b \in Ring, NEW own \in BOOLEAN, Handed(R, q, b, 0, own)
  PROVE  Handed(R, Tail(q), b, 1, own) /\ Len(Tail(q)) + 1 = Len(q) /\ Tail(q) \in Seq(Packets)
<1>1. Len(q) \in Nat \ {0} /\ Tail(q) \in Seq(Packets) /\ Len(Tail(q)) = Len(q) - 1
      /\ \A k \in 1 .. (Len(q) - 1) : Tail(q)[k] = q[k + 1]
  BY HeadTailProperties, EmptySeq
<1>2. Len(Tail(q)) + 1 = Len(q)
  BY <1>1
<1>3. \A j \in Ring : Ahead(b, j) \in 0 .. (DescrNum - 1)
  BY Positions, Zenon
<1>4. /\ \A j \in Ring : R[Desc(j)].own = (IF Ahead(b, j) < Len(q) + 0 THEN own ELSE ~own)
      /\ \A j \in Ring : 0 <= Ahead(b, j) /\ Ahead(b, j) < Len(q) + 0 =>
           R[Desc(j)].len = q[Ahead(b, j) - 0 + 1] /\ R[Buf(j)] = q[Ahead(b, j) - 0 + 1]
      /\ Len(q) + 0 <= DescrNum
  BY DEF Handed
<1>5. ASSUME NEW j \in Ring, 1 <= Ahead(b, j), Ahead(b, j) < Len(Tail(q)) + 1
      PROVE  R[Desc(j)].len = Tail(q)[Ahead(b, j) - 1 + 1] /\ R[Buf(j)] = Tail(q)[Ahead(b, j) - 1 + 1]
  <2>1. Ahead(b, j) \in 1 .. (Len(q) - 1) /\ Ahead(b, j) - 1 + 1 = Ahead(b, j)
        /\ Ahead(b, j) - 0 + 1 = Ahead(b, j) + 1
        /\ 0 <= Ahead(b, j) /\ Ahead(b, j) < Len(q) + 0
    BY <1>1, <1>2, <1>3, <1>5
  <2>2. Tail(q)[Ahead(b, j)] = q[Ahead(b, j) + 1]
    BY <1>1, <2>1
  <2>. QED BY <1>4, <2>1, <2>2
<1>6. \A j \in Ring : R[Desc(j)].own = (IF Ahead(b, j) < Len(Tail(q)) + 1 THEN own ELSE ~own)
  <2>1. Len(q) + 0 = Len(Tail(q)) + 1
    BY <1>1
  <2>. QED BY <1>4, <2>1
<1>7. Len(Tail(q)) + 1 <= DescrNum
  BY <1>1, <1>4, DescrNumNat
<1>. QED BY <1>1, <1>2, <1>5, <1>6, <1>7, Zenon DEF Handed

(* Giving back a descriptor that is finished with moves the start of the   *)
(* ring.                                                                   *)
LEMMA Release ==
  ASSUME NEW R, R = [l \in Lines |-> R[l]], NEW q \in Seq(Packets), NEW b \in Ring,
         NEW own \in BOOLEAN, Handed(R, q, b, 1, own), NEW d, d.own = ~own
  PROVE  /\ Handed([R EXCEPT ![Desc(b)] = d], q, Succ(b), 0, own)
         /\ \A i \in Ring : At(i, b, Len(q) + 1) => At(i, Succ(b), Len(q) + 0)
<1> DEFINE S == [R EXCEPT ![Desc(b)] = d]
<1>1. Len(q) \in Nat /\ Len(q) + 1 <= DescrNum /\ Len(q) + 1 \in 1 .. DescrNum
  BY LenProperties, DescrNumNat DEF Handed
<1>2. S[Desc(b)] = d /\ \A l \in Lines : l # Desc(b) => S[l] = R[l]
  BY LineNames
<1>3. \A j \in Ring : S[Buf(j)] = R[Buf(j)] /\ (j # b => S[Desc(j)] = R[Desc(j)])
  BY <1>2, LineNames
<1>4. /\ Succ(b) \in Ring /\ Ahead(b, b) = 0 /\ Ahead(Succ(b), b) = DescrNum - 1
      /\ \A i \in Ring : /\ Ahead(b, i) \in 0 .. (DescrNum - 1)
                         /\ i # b => Ahead(b, i) > 0 /\ Ahead(Succ(b), i) = Ahead(b, i) - 1
      /\ \A i \in Ring, m \in 1 .. DescrNum : At(i, b, m) => At(i, Succ(b), m - 1)
  BY Positions, Zenon
<1>5. /\ \A j \in Ring : R[Desc(j)].own = (IF Ahead(b, j) < Len(q) + 1 THEN own ELSE ~own)
      /\ \A j \in Ring : 1 <= Ahead(b, j) /\ Ahead(b, j) < Len(q) + 1 =>
           R[Desc(j)].len = q[Ahead(b, j) - 1 + 1] /\ R[Buf(j)] = q[Ahead(b, j) - 1 + 1]
  BY Zenon DEF Handed
<1> HIDE DEF S
<1>6. ASSUME NEW j \in Ring PROVE S[Desc(j)].own = (IF Ahead(Succ(b), j) < Len(q) + 0 THEN own ELSE ~own)
  <2>1. CASE j = b
    BY <1>1, <1>2, <1>4, <2>1, DescrNumNat
  <2>2. CASE j # b
    <3>1. Ahead(b, j) < Len(q) + 1 <=> Ahead(Succ(b), j) < Len(q) + 0
      BY <1>1, <1>4, <2>2
    <3>. QED BY <1>3, <1>5, <2>2, <3>1, Zenon
  <2>. QED BY <2>1, <2>2
<1>7. ASSUME NEW j \in Ring, 0 <= Ahead(Succ(b), j), Ahead(Succ(b), j) < Len(q) + 0
      PROVE  S[Desc(j)].len = q[Ahead(Succ(b), j) - 0 + 1] /\ S[Buf(j)] = q[Ahead(Succ(b), j) - 0 + 1]
  <2>1. j # b
    BY <1>1, <1>4, <1>7, DescrNumNat
  <2>2. 1 <= Ahead(b, j) /\ Ahead(b, j) < Len(q) + 1 /\ Ahead(b, j) - 1 + 1 = Ahead(Succ(b), j) - 0 + 1
    BY <1>1, <1>4, <1>7, <2>1
  <2>. QED BY <1>3, <1>5, <2>1, <2>2, Zenon
<1>8. Len(q) + 0 <= DescrNum /\ (Len(q) + 1) - 1 = Len(q) + 0
  BY <1>1, DescrNumNat
<1>9. \A i \in Ring : At(i, b, Len(q) + 1) => At(i, Succ(b), Len(q) + 0)
  BY <1>1, <1>4, <1>8
<1>. QED BY <1>6, <1>7, <1>8, <1>9 DEF Handed, S

(* What is written to a descriptor or a buffer that is not handed over     *)
(* does not matter.                                                        *)
LEMMA OtherLine ==
  ASSUME NEW R, R = [l \in Lines |-> R[l]], NEW q \in Seq(Packets), NEW b \in Ring, NEW h \in {0, 1},
         NEW own \in BOOLEAN, Handed(R, q, b, h, own),
         NEW i \in Ring, ~(Ahead(b, i) < Len(q) + h)
  PROVE  /\ \A v : Handed([R EXCEPT ![Buf(i)] = v], q, b, h, own)
         /\ \A d : d.own = ~own => Handed([R EXCEPT ![Desc(i)] = d], q, b, h, own)
<1>1. /\ Len(q) + h <= DescrNum
      /\ \A j \in Ring : R[Desc(j)].own = (IF Ahead(b, j) < Len(q) + h THEN own ELSE ~own)
      /\ \A j \in Ring : h <= Ahead(b, j) /\ Ahead(b, j) < Len(q) + h =>
           R[Desc(j)].len = q[Ahead(b, j) - h + 1] /\ R[Buf(j)] = q[Ahead(b, j) - h + 1]
  BY Zenon DEF Handed
<1>2. ASSUME NEW v PROVE Handed([R EXCEPT ![Buf(i)] = v], q, b, h, own)
  <2> DEFINE S == [R EXCEPT ![Buf(i)] = v]
  <2>1. \A j \in Ring : S[Desc(j)] = R[Desc(j)] /\ (j # i => S[Buf(j)] = R[Buf(j)])
    BY LineNames
  <2> HIDE DEF S
  <2>2. Handed(S, q, b, h, own)
    BY <1>1, <2>1, Zenon DEF Handed
  <2>. QED BY <2>2 DEF S
<1>3. ASSUME NEW d, d.own = ~own PROVE Handed([R EXCEPT ![Desc(i)] = d], q, b, h, own)
  <2> DEFINE S == [R EXCEPT ![Desc(i)] = d]
  <2>1. S[Desc(i)] = d /\ \A j \in Ring : S[Buf(j)] = R[Buf(j)] /\ (j # i => S[Desc(j)] = R[Desc(j)])
    BY LineNames
  <2> HIDE DEF S
  <2>2. Handed(S, q, b, h, own)
    BY <1>1, <1>3, <2>1, Zenon DEF Handed
  <2>. QED BY <2>2 DEF S
<1>. QED BY <1>2, <1>3, Zenon

(* A value that a line can hold.                                           *)
Fits(l, v) ==
  /\ (\E i \in Ring : l = Desc(i)) => v \in Descriptors
  /\ (\E i \in Ring : l = Buf(i)) => v \in Content

(* Lines hold descriptors or buffers, in memory and in the cache.          *)
MemoryOK ==
  /\ ram = [l \in Lines |-> ram[l]]
  /\ dirty \subseteq DOMAIN cached /\ DOMAIN cached \subseteq Lines
  /\ \A l \in Lines : Fits(l, ram[l])
  /\ \A l \in DOMAIN cached : Fits(l, cached[l])

(* What fits a descriptor, and a buffer.                                   *)
LEMMA FitsIs ==
  ASSUME NEW i \in Ring, NEW v
  PROVE  (Fits(Desc(i), v) <=> v \in Descriptors) /\ (Fits(Buf(i), v) <=> v \in Content)
BY LineNames DEF Fits

(* The cache with a line changed.                                          *)
LEMMA WithIs ==
  ASSUME NEW l, NEW v
  PROVE  /\ DOMAIN With(l, v) = DOMAIN cached \cup {l}
         /\ With(l, v)[l] = v
         /\ \A x \in DOMAIN cached : x # l => With(l, v)[x] = cached[x]
BY DEF With

(* That is what it is.                                                     *)
LEMMA WithoutIs ==
  ASSUME NEW l
  PROVE  /\ DOMAIN Without(l) = DOMAIN cached \ {l}
         /\ \A x \in DOMAIN cached : x # l => Without(l)[x] = cached[x]
BY DEF Without

(* A load gives what fits the line.                                        *)
LEMMA LoadFits ==
  ASSUME MemoryOK, NEW l \in Lines
  PROVE  Fits(l, Load(l))
BY DEF MemoryOK, Load

(* Invalidating a line drops it.                                           *)
LEMMA InvalidateIs ==
  ASSUME MemoryOK, NEW l \in Lines, Invalidate(l)
  PROVE  /\ MemoryOK'
         /\ ram' = ram /\ dirty' = dirty \ {l} /\ DOMAIN cached' = DOMAIN cached \ {l}
         /\ \A x \in DOMAIN cached' : cached'[x] = cached[x]
<1>1. /\ ram' = ram /\ dirty' = dirty \ {l} /\ DOMAIN cached' = DOMAIN cached \ {l}
      /\ \A x \in DOMAIN cached' : cached'[x] = cached[x]
  BY WithoutIs, Zenon DEF Invalidate
<1>. QED BY <1>1 DEF MemoryOK

(* A store leaves the line dirty in the cache.                             *)
LEMMA StoreIs ==
  ASSUME MemoryOK, NEW l \in Lines, NEW v, Fits(l, v), Store(l, v)
  PROVE  /\ MemoryOK'
         /\ ram' = ram /\ dirty' = dirty \cup {l} /\ DOMAIN cached' = DOMAIN cached \cup {l}
         /\ cached'[l] = v
         /\ \A x \in DOMAIN cached : x # l => cached'[x] = cached[x]
<1>1. /\ ram' = ram /\ dirty' = dirty \cup {l} /\ DOMAIN cached' = DOMAIN cached \cup {l}
      /\ cached'[l] = v
      /\ \A x \in DOMAIN cached : x # l => cached'[x] = cached[x]
  <2>1. cached' = With(l, v) /\ ram' = ram /\ dirty' = dirty \cup {l}
    BY DEF Store
  <2>2. /\ DOMAIN With(l, v) = DOMAIN cached \cup {l}
        /\ With(l, v)[l] = v
        /\ \A x \in DOMAIN cached : x # l => With(l, v)[x] = cached[x]
    BY DEF With
  <2>. QED BY <2>1, <2>2
<1>. QED BY <1>1 DEF MemoryOK

(* Flushing a line writes it back if it is dirty, and drops it.            *)
LEMMA FlushIs ==
  ASSUME MemoryOK, NEW l \in Lines, Flush(l)
  PROVE  /\ MemoryOK'
         /\ l \in dirty => ram' = [ram EXCEPT ![l] = cached[l]]
         /\ l \notin dirty => ram' = ram
         /\ dirty' = dirty \ {l} /\ DOMAIN cached' = DOMAIN cached \ {l}
         /\ \A x \in DOMAIN cached' : cached'[x] = cached[x]
         /\ \A x \in Lines : x # l => ram'[x] = ram[x]
         /\ l \in dirty => ram'[l] = cached[l]
<1>1. /\ l \in dirty => ram' = [ram EXCEPT ![l] = cached[l]]
      /\ l \notin dirty => ram' = ram
      /\ dirty' = dirty \ {l} /\ DOMAIN cached' = DOMAIN cached \ {l}
      /\ \A x \in DOMAIN cached' : cached'[x] = cached[x]
  BY WithoutIs, Zenon DEF Flush
<1>2. /\ \A x \in Lines : x # l => ram'[x] = ram[x]
      /\ l \in dirty => ram'[l] = cached[l]
      /\ ram' = [x \in Lines |-> ram'[x]]
  BY <1>1 DEF MemoryOK
<1>3. \A x \in Lines : Fits(x, ram'[x])
  BY <1>1, <1>2 DEF MemoryOK
<1>. QED BY <1>1, <1>2, <1>3 DEF MemoryOK

(* A line the CPU fetches ahead is clean and as in memory.                 *)
LEMMA FetchIs ==
  ASSUME MemoryOK, NEW l \in Lines, Fetch(l)
  PROVE  /\ MemoryOK'
         /\ ram' = ram /\ dirty' = dirty /\ DOMAIN cached' = DOMAIN cached \cup {l}
         /\ l \notin dirty /\ l \notin DOMAIN cached
         /\ cached'[l] = ram[l]
         /\ \A x \in DOMAIN cached : cached'[x] = cached[x]
<1>1. /\ ram' = ram /\ dirty' = dirty /\ DOMAIN cached' = DOMAIN cached \cup {l}
      /\ l \notin DOMAIN cached
      /\ cached'[l] = ram[l]
      /\ \A x \in DOMAIN cached : cached'[x] = cached[x]
  <2>1. cached' = With(l, ram[l]) /\ ram' = ram /\ dirty' = dirty /\ l \notin DOMAIN cached
    BY DEF Fetch
  <2>2. /\ DOMAIN With(l, ram[l]) = DOMAIN cached \cup {l}
        /\ With(l, ram[l])[l] = ram[l]
        /\ \A x \in DOMAIN cached : x # l => With(l, ram[l])[x] = cached[x]
    BY WithIs, ZenonT(30)
  <2>. QED BY <2>1, <2>2
<1>. QED BY <1>1 DEF MemoryOK

(* The device writes to memory, past the cache.                            *)
LEMMA DeviceStores ==
  ASSUME MemoryOK, NEW l \in Lines, NEW v, Fits(l, v), ram' = [ram EXCEPT ![l] = v], UNCHANGED <<cached, dirty>>
  PROVE  /\ MemoryOK'
         /\ ram'[l] = v
         /\ \A x \in Lines : x # l => ram'[x] = ram[x]
<1>1. ram'[l] = v /\ (\A x \in Lines : x # l => ram'[x] = ram[x]) /\ ram' = [x \in Lines |-> ram'[x]]
  BY DEF MemoryOK
<1>. QED BY <1>1 DEF MemoryOK

(* The two ends of the ring are indices, and the packets under way are     *)
(* packets.                                                                *)
Positioned ==
  /\ curr \in Ring /\ dmapos \in Ring
  /\ packet \in Content /\ queue \in Seq(Packets)

(* What the cache has of a line is what is in memory.                      *)
Coherent(l) == l \in DOMAIN cached => cached[l] = ram[l]
(* The descriptor of the driver has been written, and not written back.    *)
Stored == Desc(curr) \in dirty
(* Where the received packets start. A descriptor being given back is      *)
(* passed over when the line that gives it back reaches memory, be it by   *)
(* the flush or by an eviction before it.                                  *)
RxBase == IF step = "flush" /\ ~Stored THEN Succ(curr) ELSE curr
(* Whether the descriptor there has been processed.                        *)
RxDone == IF step = "free" \/ (step = "flush" /\ Stored) THEN 1 ELSE 0

(* The state of the receive side.                                          *)
RxTypes ==
  /\ Positioned
  /\ step \in {"idle", "status", "data", "process", "free", "flush"}
  /\ dmastate \in Packets \cup {"listening"}

(* The packets in flight are those that the device has handed over and the *)
(* driver has not processed.                                               *)
RxHanded ==
  /\ Handed(ram, queue, RxBase, RxDone, FALSE)
  /\ At(dmapos, RxBase, Len(queue) + RxDone)

(* The packet the device has written and not handed over.                  *)
RxDevice ==
  dmastate # "listening" => Len(queue) + RxDone < DescrNum /\ ram[Buf(dmapos)] = dmastate

(* What the driver has in the cache: at each step, what it is about to     *)
(* read is what the device wrote.                                          *)
RxDriver ==
  /\ dirty \subseteq {Desc(curr)}
  /\ step # "flush" => dirty = {}
  /\ step = "status" /\ Desc(curr) \in DOMAIN cached =>
       cached[Desc(curr)].own \/ cached[Desc(curr)] = ram[Desc(curr)]
  /\ step \in {"data", "process", "free"} => Coherent(Desc(curr))
  /\ step \in {"data", "process"} => queue # <<>> /\ packet = Head(queue)
  /\ step = "process" => Coherent(Buf(curr))
  /\ Stored => cached[Desc(curr)].own

(* The inductive invariant of the receive ring. RxInOrder says what each   *)
(* processed packet is; the invariant says where the packets yet to be     *)
(* processed are.                                                          *)
RxIInv == MemoryOK /\ RxTypes /\ RxHanded /\ RxDevice /\ RxDriver

(* eth_recv invalidates the descriptor.                                    *)
LEMMA RecvInvalidateIInv == RxIInv /\ RecvInvalidate => RxIInv'
<1> SUFFICES ASSUME RxIInv, RecvInvalidate PROVE RxIInv'
  OBVIOUS
<1>1. /\ step = "idle" /\ step' = "status" /\ Invalidate(Desc(curr))
      /\ UNCHANGED <<curr, packet, dmapos, dmastate, queue>>
  BY DEF RecvInvalidate, RxStep, deviceVars
<1>2. Desc(curr) \in Lines
  BY LineNames DEF RxIInv, RxTypes, Positioned
<1>3. /\ MemoryOK'
      /\ ram' = ram /\ dirty' = dirty \ {Desc(curr)} /\ DOMAIN cached' = DOMAIN cached \ {Desc(curr)}
      /\ \A x \in DOMAIN cached' : cached'[x] = cached[x]
  BY <1>1, <1>2, InvalidateIs, Zenon DEF RxIInv
<1>4. RxTypes'
  BY <1>1 DEF RxIInv, RxTypes, Positioned
<1>5. RxHanded' /\ RxDevice'
  BY <1>1, <1>3, Zenon DEF RxIInv, RxHanded, RxDevice, RxBase, RxDone
<1>6. RxDriver'
  BY <1>1, <1>3 DEF RxIInv, RxDriver, Stored
<1>. QED BY <1>3, <1>4, <1>5, <1>6 DEF RxIInv

(* eth_recv looks at the ownership.                                        *)
LEMMA RecvStatusIInv == RxIInv /\ RecvStatus => RxIInv'
<1> SUFFICES ASSUME RxIInv, RecvStatus PROVE RxIInv'
  OBVIOUS
<1> DEFINE d == Load(Desc(curr))
<1>1. /\ step = "status" /\ UNCHANGED <<ram, cached, dirty, curr, dmapos, dmastate, queue>>
      /\ d.own => step' = "idle" /\ packet' = packet
      /\ ~d.own => step' = "data" /\ packet' = d.len
  BY DEF RecvStatus, deviceVars, cacheVars
<1>2. Desc(curr) \in Lines /\ curr \in Ring /\ queue \in Seq(Packets)
  BY LineNames DEF RxIInv, RxTypes, Positioned
<1>3. d \in Descriptors
  BY <1>2, LoadFits, FitsIs DEF RxIInv, RxTypes, Positioned
<1>4. MemoryOK'
  BY <1>1 DEF RxIInv, MemoryOK
<1>5. step' \in {"idle", "data"}
  BY <1>1
<1>6. RxTypes'
  BY <1>1, <1>3, <1>5 DEF RxIInv, RxTypes, Positioned, Descriptors
<1>7. RxHanded' /\ RxDevice'
  BY <1>1, <1>5, Zenon DEF RxIInv, RxHanded, RxDevice, RxBase, RxDone
<1>8. ~d.own => d = ram[Desc(curr)]
  BY <1>1 DEF RxIInv, RxDriver, Load
<1>9. ~d.own => queue # <<>> /\ d.len = Head(queue)
  <2> SUFFICES ASSUME ~d.own PROVE queue # <<>> /\ d.len = Head(queue)
    OBVIOUS
  <2>1. Handed(ram, queue, curr, 0, FALSE)
    BY <1>1, Zenon DEF RxIInv, RxHanded, RxBase, RxDone
  <2>2. Ahead(curr, curr) = 0 /\ Len(queue) \in Nat
    BY <1>2, Positions, LenProperties
  <2>3. Ahead(curr, curr) < Len(queue) + 0
    BY <1>2, <1>8, <2>1, Zenon DEF Handed
  <2>4. queue # <<>> /\ Head(queue) = queue[1]
    BY <1>2, <2>2, <2>3, EmptySeq, HeadTailProperties
  <2>5. ram[Desc(curr)].len = queue[Ahead(curr, curr) - 0 + 1]
    BY <1>2, <2>1, <2>2, <2>3 DEF Handed
  <2>6. Ahead(curr, curr) - 0 + 1 = 1
    BY <2>2
  <2>. QED BY <1>8, <2>4, <2>5, <2>6
<1> HIDE DEF d
<1>10. d.own => RxDriver'
  BY <1>1 DEF RxIInv, RxDriver, Stored
<1>11. ~d.own => Coherent(Desc(curr))
  BY <1>8 DEF Coherent, Load, d
<1>12. ~d.own => RxDriver'
  BY <1>1, <1>9, <1>11 DEF RxIInv, RxDriver, Stored, Coherent
<1>. QED BY <1>4, <1>6, <1>7, <1>10, <1>12 DEF RxIInv

(* eth_recv invalidates the buffer.                                        *)
LEMMA RecvDataIInv == RxIInv /\ RecvData => RxIInv'
<1> SUFFICES ASSUME RxIInv, RecvData PROVE RxIInv'
  OBVIOUS
<1>1. /\ step = "data" /\ step' = "process" /\ Invalidate(Buf(curr))
      /\ UNCHANGED <<curr, packet, dmapos, dmastate, queue>>
  BY DEF RecvData, RxStep, deviceVars
<1>2. Buf(curr) \in Lines
  BY LineNames DEF RxIInv, RxTypes, Positioned
<1>3. /\ MemoryOK'
      /\ ram' = ram /\ dirty' = dirty \ {Buf(curr)} /\ DOMAIN cached' = DOMAIN cached \ {Buf(curr)}
      /\ \A x \in DOMAIN cached' : cached'[x] = cached[x]
  BY <1>1, <1>2, InvalidateIs, Zenon DEF RxIInv
<1>4. RxTypes'
  BY <1>1 DEF RxIInv, RxTypes, Positioned
<1>5. RxHanded' /\ RxDevice'
  BY <1>1, <1>3, Zenon DEF RxIInv, RxHanded, RxDevice, RxBase, RxDone
<1>6. RxDriver'
  BY <1>1, <1>3 DEF RxIInv, RxDriver, Stored, Coherent
<1>. QED BY <1>3, <1>4, <1>5, <1>6 DEF RxIInv

(* The packet is processed.                                                *)
LEMMA ProcessIInv == RxIInv /\ Process => RxIInv'
<1> SUFFICES ASSUME RxIInv, Process PROVE RxIInv'
  OBVIOUS
<1>1. /\ step = "process" /\ step' = "free" /\ queue' = Tail(queue)
      /\ UNCHANGED <<ram, cached, dirty, curr, packet, dmapos, dmastate>>
  BY DEF Process, RxStep, deviceVars, cacheVars
<1>2. curr \in Ring /\ queue \in Seq(Packets) /\ queue # <<>>
  BY <1>1 DEF RxIInv, RxTypes, Positioned, RxDriver
<1>3. MemoryOK'
  BY <1>1 DEF RxIInv, MemoryOK
<1>4. Handed(ram, queue, curr, 0, FALSE) /\ At(dmapos, curr, Len(queue) + 0)
  BY <1>1, Zenon DEF RxIInv, RxHanded, RxBase, RxDone
<1>5. /\ Handed(ram, Tail(queue), curr, 1, FALSE)
      /\ Len(Tail(queue)) + 1 = Len(queue) /\ Tail(queue) \in Seq(Packets)
  BY <1>2, <1>4, TakeFirst, Zenon
<1>6. RxTypes'
  BY <1>1, <1>5 DEF RxIInv, RxTypes, Positioned
<1>7. Len(queue) + 0 = Len(Tail(queue)) + 1
  BY <1>2, <1>5, LenProperties
<1>8. RxHanded'
  BY <1>1, <1>4, <1>5, <1>7, Zenon DEF RxHanded, RxBase, RxDone
<1>9. RxDevice'
  BY <1>1, <1>7, Zenon DEF RxIInv, RxDevice, RxDone
<1>10. RxDriver'
  BY <1>1 DEF RxIInv, RxDriver, Stored, Coherent
<1>. QED BY <1>3, <1>6, <1>8, <1>9, <1>10 DEF RxIInv

(* free_pkt gives the descriptor back, in the cache.                       *)
LEMMA FreeOwnIInv == RxIInv /\ FreeOwn => RxIInv'
<1> SUFFICES ASSUME RxIInv, FreeOwn PROVE RxIInv'
  OBVIOUS
<1> DEFINE d == [Load(Desc(curr)) EXCEPT !.own = TRUE]
<1>1. /\ step = "free" /\ step' = "flush" /\ Store(Desc(curr), d)
      /\ UNCHANGED <<curr, packet, dmapos, dmastate, queue>>
  BY DEF FreeOwn, RxStep, deviceVars
<1>2. Desc(curr) \in Lines /\ curr \in Ring
  BY LineNames DEF RxIInv, RxTypes, Positioned
<1>3. Load(Desc(curr)) \in Descriptors
  BY <1>2, LoadFits, FitsIs DEF RxIInv
<1>4. d \in Descriptors /\ d.own
  BY <1>3, Zenon DEF Descriptors
<1>5. Fits(Desc(curr), d)
  BY <1>2, <1>4, FitsIs
<1> HIDE DEF d
<1>6. /\ MemoryOK'
      /\ ram' = ram /\ dirty' = dirty \cup {Desc(curr)} /\ DOMAIN cached' = DOMAIN cached \cup {Desc(curr)}
      /\ cached'[Desc(curr)] = d
      /\ \A x \in DOMAIN cached : x # Desc(curr) => cached'[x] = cached[x]
  BY <1>1, <1>2, <1>5, StoreIs DEF RxIInv
<1>7. RxTypes'
  BY <1>1 DEF RxIInv, RxTypes, Positioned
<1>8. RxBase' = RxBase /\ RxDone' = RxDone
  BY <1>1, <1>6 DEF RxBase, RxDone, Stored
<1>9. RxHanded' /\ RxDevice'
  BY <1>1, <1>6, <1>8, Zenon DEF RxIInv, RxHanded, RxDevice
<1>10. RxDriver'
  BY <1>1, <1>4, <1>6 DEF RxIInv, RxDriver, Stored
<1>. QED BY <1>6, <1>7, <1>9, <1>10 DEF RxIInv

(* The line that gives it back reaches memory.                             *)
LEMMA RxReleased ==
  ASSUME MemoryOK, Positioned, Handed(ram, queue, curr, 1, FALSE), At(dmapos, curr, Len(queue) + 1),
         dirty \subseteq DOMAIN cached, Stored, cached[Desc(curr)].own,
         ram' = [ram EXCEPT ![Desc(curr)] = cached[Desc(curr)]]
  PROVE  Handed(ram', queue, Succ(curr), 0, FALSE) /\ At(dmapos, Succ(curr), Len(queue) + 0)
<1>1. curr \in Ring /\ dmapos \in Ring /\ queue \in Seq(Packets)
  BY DEF Positioned
<1>2. cached[Desc(curr)] \in Descriptors
  BY <1>1, FitsIs DEF MemoryOK, Stored
<1>3. cached[Desc(curr)].own = ~FALSE
  BY <1>2, Zenon DEF Descriptors
<1>4. ram = [l \in Lines |-> ram[l]]
  BY DEF MemoryOK
<1>. QED BY <1>1, <1>3, <1>4, Release, Zenon

(* free_pkt flushes the line and moves on.                                 *)
LEMMA FreeFlushIInv == RxIInv /\ FreeFlush => RxIInv'
<1> SUFFICES ASSUME RxIInv, FreeFlush PROVE RxIInv'
  OBVIOUS
<1>1. /\ step = "flush" /\ step' = "idle" /\ Flush(Desc(curr)) /\ curr' = Succ(curr) /\ packet' = NoPacket
      /\ UNCHANGED <<dmapos, dmastate, queue>>
  BY DEF FreeFlush, RxStep, deviceVars
<1>2. /\ Desc(curr) \in Lines /\ curr \in Ring /\ dmapos \in Ring
      /\ Buf(dmapos) \in Lines /\ Buf(dmapos) # Desc(curr) /\ queue \in Seq(Packets)
  BY LineNames DEF RxIInv, RxTypes, Positioned
<1>3. /\ MemoryOK'
      /\ Stored => ram' = [ram EXCEPT ![Desc(curr)] = cached[Desc(curr)]]
      /\ ~Stored => ram' = ram
      /\ dirty' = dirty \ {Desc(curr)} /\ DOMAIN cached' = DOMAIN cached \ {Desc(curr)}
      /\ \A x \in DOMAIN cached' : cached'[x] = cached[x]
      /\ \A x \in Lines : x # Desc(curr) => ram'[x] = ram[x]
  BY <1>1, <1>2, FlushIs, Zenon DEF RxIInv, Stored
<1>4. RxTypes'
  BY <1>1, <1>2, Positions DEF RxIInv, RxTypes, Positioned, Content
<1>5. RxBase' = Succ(curr) /\ RxDone' = 0
  BY <1>1 DEF RxBase, RxDone
<1>6. Handed(ram', queue, Succ(curr), 0, FALSE) /\ At(dmapos, Succ(curr), Len(queue) + 0)
  <2>1. CASE Stored
    <3>1. Handed(ram, queue, curr, 1, FALSE) /\ At(dmapos, curr, Len(queue) + 1)
      BY <1>1, <2>1, Zenon DEF RxIInv, RxHanded, RxBase, RxDone
    <3>. QED BY <1>3, <2>1, <3>1, RxReleased, Zenon DEF RxIInv, RxTypes, RxDriver, MemoryOK
  <2>2. CASE ~Stored
    BY <1>1, <1>3, <2>2, Zenon DEF RxIInv, RxHanded, RxBase, RxDone
  <2>. QED BY <2>1, <2>2, Zenon
<1>7. RxHanded'
  BY <1>1, <1>5, <1>6, Zenon DEF RxHanded
<1>8. RxDevice'
  <2>1. Len(queue) \in Nat /\ DescrNum \in Nat /\ RxDone \in {0, 1}
    BY <1>2, DescrNumNat, LenProperties DEF RxDone
  <2>2. Len(queue) + RxDone < DescrNum => Len(queue) + 0 < DescrNum
    BY <2>1
  <2>. QED BY <1>1, <1>2, <1>3, <1>5, <2>2 DEF RxIInv, RxDevice
<1>9. RxDriver'
  BY <1>1, <1>3 DEF RxIInv, RxDriver, Stored
<1>. QED BY <1>3, <1>4, <1>7, <1>8, <1>9 DEF RxIInv

(* Where the packets start is an index.                                    *)
LEMMA RxBaseIs == RxIInv => RxBase \in Ring /\ RxDone \in {0, 1} /\ (step # "flush" => RxBase = curr)
BY Positions DEF RxIInv, RxTypes, Positioned, RxBase, RxDone

(* The device writes a packet to the buffer of the descriptor it is at.    *)
LEMMA DeviceWritesIInv ==
  ASSUME NEW p \in Packets
  PROVE  RxIInv /\ DeviceWrites(p) => RxIInv'
<1> SUFFICES ASSUME RxIInv, DeviceWrites(p) PROVE RxIInv'
  OBVIOUS
<1>1. /\ dmastate = "listening" /\ ram[Desc(dmapos)].own /\ dmastate' = p
      /\ ram' = [ram EXCEPT ![Buf(dmapos)] = p]
      /\ UNCHANGED <<cached, dirty, curr, step, packet, dmapos, queue>>
  BY DEF DeviceWrites, driverVars
<1>2. /\ Buf(dmapos) \in Lines /\ curr \in Ring /\ dmapos \in Ring /\ queue \in Seq(Packets)
      /\ \A i \in Ring : Desc(i) # Buf(dmapos)
      /\ \A i \in Ring : i # dmapos => Buf(i) # Buf(dmapos)
      /\ \A i \in Ring : Desc(i) \in Lines /\ Buf(i) \in Lines
  BY LineNames DEF RxIInv, RxTypes, Positioned
<1>3. Fits(Buf(dmapos), p)
  BY <1>2, FitsIs DEF Content
<1>4. /\ MemoryOK'
      /\ ram'[Buf(dmapos)] = p
      /\ \A x \in Lines : x # Buf(dmapos) => ram'[x] = ram[x]
  BY <1>1, <1>2, <1>3, DeviceStores, Zenon DEF RxIInv
<1>5. RxTypes'
  BY <1>1 DEF RxIInv, RxTypes, Positioned
<1>6. RxBase' = RxBase /\ RxDone' = RxDone
  BY <1>1 DEF RxBase, RxDone, Stored
<1>7. ~(Ahead(RxBase, dmapos) < Len(queue) + RxDone)
  BY <1>1, <1>2, Zenon DEF RxIInv, RxHanded, Handed
<1>8. Handed([ram EXCEPT ![Buf(dmapos)] = p], queue, RxBase, RxDone, FALSE)
  BY <1>2, <1>7, RxBaseIs, OtherLine, ZenonT(30) DEF RxIInv, RxHanded, MemoryOK
<1>9. RxHanded'
  BY <1>1, <1>6, <1>8, Zenon DEF RxIInv, RxHanded
<1>10. Len(queue) + RxDone < DescrNum
  <2>1. /\ Ahead(RxBase, dmapos) \in 0 .. (DescrNum - 1) /\ Len(queue) \in Nat /\ DescrNum \in Nat
        /\ RxDone \in {0, 1}
    BY <1>2, RxBaseIs, Positions, DescrNumNat, LenProperties, Zenon
  <2>. QED BY <1>7, <2>1
<1>11. RxDevice'
  BY <1>1, <1>4, <1>6, <1>10 DEF RxDevice
<1>12. step = "process" => dmapos # curr
  <2> SUFFICES ASSUME step = "process" PROVE dmapos # curr
    OBVIOUS
  <2>1. Ahead(curr, curr) = 0 /\ Len(queue) \in Nat /\ Len(queue) # 0
    BY <1>2, Positions, LenProperties, EmptySeq DEF RxIInv, RxDriver
  <2>2. RxBase = curr /\ RxDone = 0
    BY DEF RxBase, RxDone
  <2>. QED BY <1>7, <2>1, <2>2
<1>13. RxDriver'
  BY <1>1, <1>2, <1>4, <1>12 DEF RxIInv, RxDriver, Stored, Coherent
<1>. QED BY <1>4, <1>5, <1>9, <1>11, <1>13 DEF RxIInv

(* The device hands the descriptor over.                                   *)
LEMMA DeviceHandsOverIInv == RxIInv /\ DeviceHandsOver => RxIInv'
<1> SUFFICES ASSUME RxIInv, DeviceHandsOver PROVE RxIInv'
  OBVIOUS
<1> DEFINE d == Descr(FALSE, dmastate)
<1>1. /\ dmastate # "listening" /\ dmastate' = "listening"
      /\ ram' = [ram EXCEPT ![Desc(dmapos)] = d]
      /\ queue' = Append(queue, dmastate) /\ dmapos' = Succ(dmapos)
      /\ UNCHANGED <<cached, dirty, curr, step, packet>>
  BY DEF DeviceHandsOver, driverVars
<1>2. /\ Desc(dmapos) \in Lines /\ curr \in Ring /\ dmapos \in Ring /\ queue \in Seq(Packets)
      /\ \A i \in Ring : Buf(i) # Desc(dmapos)
      /\ \A i \in Ring : i # dmapos => Desc(i) # Desc(dmapos)
      /\ \A i \in Ring : Desc(i) \in Lines /\ Buf(i) \in Lines
      /\ dmastate \in Packets
  BY <1>1, LineNames DEF RxIInv, RxTypes, Positioned
<1>3. d \in Descriptors /\ d.own = FALSE /\ d.len = dmastate
  BY <1>2 DEF Descriptors, Content, Descr
<1>4. Fits(Desc(dmapos), d)
  BY <1>2, <1>3, FitsIs, Zenon
<1> HIDE DEF d
<1>5. /\ MemoryOK'
      /\ ram'[Desc(dmapos)] = d
      /\ \A x \in Lines : x # Desc(dmapos) => ram'[x] = ram[x]
  BY <1>1, <1>2, <1>4, DeviceStores, Zenon DEF RxIInv
<1>6. RxTypes'
  BY <1>1, <1>2, Positions, AppendProperties DEF RxIInv, RxTypes, Positioned
<1>7. RxBase' = RxBase /\ RxDone' = RxDone
  BY <1>1 DEF RxBase, RxDone, Stored
<1>8. /\ Handed([ram EXCEPT ![Desc(dmapos)] = d], Append(queue, dmastate), RxBase, RxDone, FALSE)
      /\ At(Succ(dmapos), RxBase, Len(Append(queue, dmastate)) + RxDone)
  <2>1. /\ Len(queue) + RxDone < DescrNum /\ ram[Buf(dmapos)] = dmastate
        /\ Handed(ram, queue, RxBase, RxDone, FALSE) /\ At(dmapos, RxBase, Len(queue) + RxDone)
        /\ ram = [l \in Lines |-> ram[l]]
    BY <1>1, Zenon DEF RxIInv, RxDevice, RxHanded, MemoryOK
  <2>. QED BY <1>2, <1>3, <2>1, RxBaseIs, HandOver, ZenonT(30)
<1>9. RxHanded'
  BY <1>1, <1>7, <1>8, Zenon DEF RxHanded
<1>10. RxDevice'
  BY <1>1 DEF RxDevice
<1>11. ram[Desc(dmapos)].own
  <2>1. /\ Len(queue) + RxDone < DescrNum /\ At(dmapos, RxBase, Len(queue) + RxDone)
    BY <1>1 DEF RxIInv, RxDevice, RxHanded
  <2>2. Len(queue) \in Nat /\ RxDone \in {0, 1} /\ DescrNum \in Nat /\ RxBase \in Ring
    BY <1>2, RxBaseIs, LenProperties, DescrNumNat
  <2>3. Len(queue) + RxDone \in 0 .. (DescrNum - 1)
    BY <2>1, <2>2
  <2>4. Ahead(RxBase, dmapos) = Len(queue) + RxDone
    BY <1>2, <2>1, <2>2, <2>3, AtIs
  <2>5. ~(Ahead(RxBase, dmapos) < Len(queue) + RxDone)
    BY <2>2, <2>4
  <2>. QED BY <1>2, <2>5, Zenon DEF RxIInv, RxHanded, Handed
<1>12. ASSUME queue # <<>>
       PROVE  queue' # <<>> /\ Head(queue') = Head(queue)
  <2>1. Len(queue) \in Nat \ {0}
    BY <1>2, <1>12, EmptySeq, LenProperties
  <2>2. queue' \in Seq(Packets) /\ Len(queue') = Len(queue) + 1 /\ queue'[1] = queue[1]
    BY <1>1, <1>2, <2>1, AppendProperties
  <2>3. queue' # <<>>
    BY <2>1, <2>2, EmptySeq
  <2>. QED BY <1>2, <1>12, <2>2, <2>3, HeadTailProperties
<1>13. step \in {"data", "process", "free"} => dmapos # curr
  <2> SUFFICES ASSUME step \in {"data", "process", "free"}, dmapos = curr PROVE FALSE
    OBVIOUS
  <2>1. Len(queue) + RxDone < DescrNum /\ At(dmapos, curr, Len(queue) + RxDone)
    BY <1>1 DEF RxIInv, RxDevice, RxHanded, RxBase
  <2>2. Len(queue) \in Nat /\ RxDone \in {0, 1} /\ DescrNum \in Nat
    BY <1>2, RxBaseIs, LenProperties, DescrNumNat
  <2>3. Len(queue) + RxDone > 0
    <3>1. CASE step = "free"
      BY <2>2, <3>1 DEF RxDone
    <3>2. CASE step \in {"data", "process"}
      <4>1. Len(queue) # 0
        BY <1>2, <3>2, EmptySeq DEF RxIInv, RxDriver
      <4>. QED BY <2>2, <4>1
    <3>. QED BY <3>1, <3>2
  <2>4. Ahead(curr, dmapos) = Len(queue) + RxDone
    <3>1. Len(queue) + RxDone \in 0 .. (DescrNum - 1)
      BY <2>1, <2>2
    <3>. QED BY <1>2, <2>1, <3>1, Positions
  <2>5. Ahead(curr, curr) = 0
    BY <1>2, Positions
  <2>. QED BY <2>3, <2>4, <2>5, <2>2
<1>14. RxDriver'
  <2>1. dirty' \subseteq {Desc(curr')} /\ (step' # "flush" => dirty' = {}) /\ (Stored' => cached'[Desc(curr')].own)
    BY <1>1 DEF RxIInv, RxDriver, Stored
  <2>2. step' \in {"data", "process", "free"} => Coherent(Desc(curr))'
    BY <1>1, <1>2, <1>5, <1>13 DEF RxIInv, RxDriver, Coherent
  <2>3. step' = "process" => Coherent(Buf(curr))'
    BY <1>1, <1>2, <1>5 DEF RxIInv, RxDriver, Coherent
  <2>4. step' \in {"data", "process"} => queue' # <<>> /\ packet' = Head(queue')
    BY <1>1, <1>12 DEF RxIInv, RxDriver
  <2>5. step' = "status" /\ Desc(curr') \in DOMAIN cached' =>
          cached'[Desc(curr')].own \/ cached'[Desc(curr')] = ram'[Desc(curr')]
    BY <1>1, <1>2, <1>5, <1>11 DEF RxIInv, RxDriver
  <2>. QED BY <2>1, <2>2, <2>3, <2>4, <2>5 DEF RxDriver
<1>. QED BY <1>5, <1>6, <1>9, <1>10, <1>14 DEF RxIInv

(* The CPU fetches or evicts any line at any time.                         *)
LEMMA RxCacheMovesIInv == RxIInv /\ CacheMoves => RxIInv'
<1> SUFFICES ASSUME RxIInv, NEW l \in Lines, Fetch(l) \/ Evict(l) PROVE RxIInv'
  BY DEF CacheMoves
<1>1. /\ Desc(curr) \in Lines /\ Buf(dmapos) \in Lines /\ Buf(dmapos) # Desc(curr)
      /\ curr \in Ring /\ dmapos \in Ring /\ queue \in Seq(Packets)
  BY LineNames DEF RxIInv, RxTypes, Positioned
<1>2. CASE Fetch(l)
  <2>1. UNCHANGED <<curr, step, packet, dmapos, dmastate, queue>>
    BY <1>2 DEF Fetch
  <2>2. /\ MemoryOK'
        /\ ram' = ram /\ dirty' = dirty /\ DOMAIN cached' = DOMAIN cached \cup {l}
        /\ l \notin dirty /\ l \notin DOMAIN cached
        /\ cached'[l] = ram[l]
        /\ \A x \in DOMAIN cached : cached'[x] = cached[x]
    BY <1>2, FetchIs, Zenon DEF RxIInv
  <2>3. RxTypes'
    BY <2>1 DEF RxIInv, RxTypes, Positioned
  <2>4. RxHanded' /\ RxDevice'
    BY <2>1, <2>2, Zenon DEF RxIInv, RxHanded, RxDevice, RxBase, RxDone, Stored
  <2>5. RxDriver'
    <3>1. \A x : Coherent(x) => Coherent(x)'
      BY <2>2 DEF Coherent
    <3>2. Coherent(Desc(curr)) => Coherent(Desc(curr))'
      BY <2>1, <2>2 DEF Coherent
    <3>3. Coherent(Buf(curr)) => Coherent(Buf(curr))'
      BY <2>1, <2>2 DEF Coherent
    <3>4. Stored' => cached'[Desc(curr')].own
      BY <2>1, <2>2 DEF RxIInv, RxDriver, Stored, MemoryOK
    <3>5. step' = "status" /\ Desc(curr') \in DOMAIN cached' =>
            cached'[Desc(curr')].own \/ cached'[Desc(curr')] = ram'[Desc(curr')]
      BY <2>1, <2>2 DEF RxIInv, RxDriver
    <3>. QED BY <2>1, <2>2, <3>2, <3>3, <3>4, <3>5 DEF RxIInv, RxDriver
  <2>. QED BY <2>2, <2>3, <2>4, <2>5 DEF RxIInv
<1>3. CASE Evict(l)
  <2>1. Flush(l) /\ UNCHANGED <<curr, step, packet, dmapos, dmastate, queue>>
    BY <1>3 DEF Evict
  <2>2. /\ MemoryOK'
        /\ l \in dirty => ram' = [ram EXCEPT ![l] = cached[l]]
        /\ l \notin dirty => ram' = ram
        /\ dirty' = dirty \ {l} /\ DOMAIN cached' = DOMAIN cached \ {l}
        /\ \A x \in DOMAIN cached' : cached'[x] = cached[x]
        /\ \A x \in Lines : x # l => ram'[x] = ram[x]
    BY <2>1, FlushIs, Zenon DEF RxIInv
  <2>3. RxTypes'
    BY <2>1 DEF RxIInv, RxTypes, Positioned
  <2>4. l \in dirty => l = Desc(curr) /\ Stored /\ step = "flush"
    BY DEF RxIInv, RxDriver, Stored
  <2>5. RxDriver'
    <3>1. Coherent(Desc(curr)) /\ l \notin dirty => Coherent(Desc(curr))'
      BY <2>1, <2>2 DEF Coherent
    <3>2. Coherent(Buf(curr)) /\ l \notin dirty => Coherent(Buf(curr))'
      BY <2>1, <2>2 DEF Coherent
    <3>3. Stored' => cached'[Desc(curr')].own
      BY <2>1, <2>2 DEF RxIInv, RxDriver, Stored, MemoryOK
    <3>4. step' = "status" /\ Desc(curr') \in DOMAIN cached' =>
            cached'[Desc(curr')].own \/ cached'[Desc(curr')] = ram'[Desc(curr')]
      BY <2>1, <2>2, <2>4 DEF RxIInv, RxDriver
    <3>. QED BY <2>1, <2>2, <2>4, <3>1, <3>2, <3>3, <3>4 DEF RxIInv, RxDriver
  <2>6. RxHanded' /\ RxDevice'
    <3>1. CASE l \in dirty
      <4>1. Handed(ram, queue, curr, 1, FALSE) /\ At(dmapos, curr, Len(queue) + 1) /\ RxDone = 1
        BY <2>4, <3>1, Zenon DEF RxIInv, RxHanded, RxBase, RxDone
      <4>2. Handed(ram', queue, Succ(curr), 0, FALSE) /\ At(dmapos, Succ(curr), Len(queue) + 0)
        BY <2>2, <2>4, <3>1, <4>1, RxReleased, Zenon DEF RxIInv, RxTypes, RxDriver, MemoryOK
      <4>3. RxBase' = Succ(curr) /\ RxDone' = 0
        BY <2>1, <2>2, <2>4, <3>1 DEF RxBase, RxDone, Stored
      <4>4. RxHanded'
        BY <2>1, <4>2, <4>3, Zenon DEF RxHanded
      <4>5. Len(queue) + 1 < DescrNum => Len(queue) + 0 < DescrNum
        BY <1>1, DescrNumNat, LenProperties
      <4>6. RxDevice'
        BY <1>1, <2>1, <2>2, <2>4, <3>1, <4>1, <4>3, <4>5 DEF RxIInv, RxDevice
      <4>. QED BY <4>4, <4>6
    <3>2. CASE l \notin dirty
      BY <2>1, <2>2, <3>2, Zenon DEF RxIInv, RxHanded, RxDevice, RxBase, RxDone, Stored
    <3>. QED BY <3>1, <3>2
  <2>. QED BY <2>2, <2>3, <2>5, <2>6 DEF RxIInv
<1>. QED BY <1>2, <1>3

(* The ring after init.                                                    *)
LEMMA RingInitIs ==
  ASSUME NEW own \in BOOLEAN, NEW idle, RingInit(own, idle)
  PROVE  MemoryOK /\ Positioned /\ Handed(ram, queue, 0, 0, ~own) /\ At(0, 0, Len(queue) + 0)
<1>1. ram = [l \in Lines |-> IF l[1] = "desc" THEN Descr(own, NoPacket) ELSE NoPacket]
  BY DEF RingInit
<1>2. \A i \in Ring : Desc(i)[1] = "desc" /\ Buf(i)[1] = "buf"
  BY DEF Desc, Buf
<1>3. \A i \in Ring : ram[Desc(i)] = Descr(own, NoPacket) /\ ram[Buf(i)] = NoPacket
  BY <1>1, <1>2, LineNames
<1>4. Descr(own, NoPacket) \in Descriptors /\ Descr(own, NoPacket).own = own /\ NoPacket \in Content
  BY DEF Descr, Descriptors, Content
<1>5. \A l \in Lines : Fits(l, ram[l])
  BY <1>3, <1>4, FitsIs DEF Lines
<1>6. cached = << >> /\ dirty = {} /\ DOMAIN cached = {}
  BY DEF RingInit
<1>7. MemoryOK
  BY <1>1, <1>5, <1>6 DEF MemoryOK
<1>8. 0 \in Ring
  BY EthernetRingAssumption DEF Ring
<1>9. queue = <<>> /\ queue \in Seq(Packets) /\ Len(queue) = 0
  BY EmptySeq DEF RingInit
<1>10. Positioned
  BY <1>4, <1>8, <1>9 DEF RingInit, Positioned
<1>11. \A i \in Ring : ~(Ahead(0, i) < Len(queue) + 0)
  BY <1>8, <1>9, Positions
<1>12. Len(queue) + 0 <= DescrNum /\ Len(queue) + 0 = 0
  BY <1>9, DescrNumNat
<1>13. Handed(ram, queue, 0, 0, ~own)
  BY <1>3, <1>4, <1>11, <1>12 DEF Handed
<1>14. At(0, 0, Len(queue) + 0)
  BY <1>8, <1>12, Positions
<1>. QED BY <1>7, <1>10, <1>13, <1>14

(* The invariant of the receive ring.                                      *)
THEOREM RxInductive == RxSpec => []RxIInv
<1>1. RxInit => RxIInv
  <2> SUFFICES ASSUME RxInit PROVE RxIInv
    OBVIOUS
  <2>1. RingInit(TRUE, "listening") /\ step = "idle" /\ dirty = {} /\ curr = 0 /\ dmapos = 0 /\ dmastate = "listening"
    BY DEF RxInit, RingInit
  <2>2. MemoryOK /\ Positioned /\ Handed(ram, queue, 0, 0, FALSE) /\ At(0, 0, Len(queue) + 0)
    BY <2>1, RingInitIs, Zenon
  <2>3. RxBase = 0 /\ RxDone = 0
    BY <2>1 DEF RxBase, RxDone
  <2>. QED BY <2>1, <2>2, <2>3, Zenon DEF RxIInv, RxTypes, RxHanded, RxDevice, RxDriver, Stored
<1>2. RxIInv /\ [RxNext]_ringVars => RxIInv'
  <2>1. RxIInv /\ UNCHANGED ringVars => RxIInv'
    BY Zenon DEF ringVars, RxIInv, MemoryOK, RxTypes, Positioned, RxHanded, RxDevice, RxDriver, RxBase, RxDone, Stored, Coherent
  <2>. QED BY <2>1, RecvInvalidateIInv, RecvStatusIInv, RecvDataIInv, ProcessIInv, FreeOwnIInv, FreeFlushIInv,
           DeviceWritesIInv, DeviceHandsOverIInv, RxCacheMovesIInv DEF RxNext, Recv
<1>. QED BY <1>1, <1>2, PTL DEF RxSpec

(* For a ring of any length: the driver processes the packets that the     *)
(* device has received in their order, each once and with its own data,    *)
(* whatever lines the cache fetches and evicts in between.                 *)
THEOREM PacketsReceivedInOrder == RxSpec => []RxInOrder
<1>1. RxIInv => RxInOrder
  <2> SUFFICES ASSUME RxIInv, step = "process"
               PROVE  queue # <<>> /\ packet = Head(queue) /\ Load(Buf(curr)) = Head(queue)
    BY DEF RxInOrder
  <2>1. queue # <<>> /\ packet = Head(queue) /\ Coherent(Buf(curr)) /\ curr \in Ring /\ queue \in Seq(Packets)
    BY DEF RxIInv, RxDriver, RxTypes, Positioned
  <2>2. Handed(ram, queue, curr, 0, FALSE)
    BY Zenon DEF RxIInv, RxHanded, RxBase, RxDone
  <2>3. Ahead(curr, curr) = 0 /\ Len(queue) \in Nat \ {0} /\ Head(queue) = queue[1]
    BY <2>1, Positions, LenProperties, EmptySeq, HeadTailProperties
  <2>4. 0 <= Ahead(curr, curr) /\ Ahead(curr, curr) < Len(queue) + 0 /\ Ahead(curr, curr) - 0 + 1 = 1
    BY <2>3
  <2>5. ram[Buf(curr)] = queue[1]
    BY <2>1, <2>2, <2>4 DEF Handed
  <2>6. Load(Buf(curr)) = ram[Buf(curr)]
    BY <2>1 DEF Coherent, Load
  <2>. QED BY <2>1, <2>3, <2>5, <2>6
<1>. QED BY <1>1, RxInductive, PTL

(* The descriptor has been given to the device in the cache, and not in    *)
(* memory.                                                                 *)
Pending == step = "flush" /\ Stored
(* Whether the device has sent the packet it is at.                        *)
TxDone == IF dmastate = "sent" THEN 1 ELSE 0
(* The index behind the packets given to the device in memory.             *)
TxEnd == IF step = "flush" /\ ~Stored THEN Succ(curr) ELSE curr
(* The driver is filling the descriptor it is at.                          *)
Filling == step \in {"copy", "clean", "length", "own"} \/ Pending

(* The state of the transmit side.                                         *)
TxTypes ==
  /\ Positioned
  /\ step \in {"idle", "status", "copy", "clean", "length", "own", "flush", "poll"}
  /\ dmastate \in {"ready", "suspended", "sent"}
  /\ step \notin {"idle", "poll"} => packet \in Packets

(* The packets q are given to the device in memory; one more can be on its *)
(* way in the cache.                                                       *)
TxHanded(q) ==
  /\ queue = IF Pending THEN Append(q, packet) ELSE q
  /\ Handed(ram, q, dmapos, TxDone, TRUE)
  /\ At(TxEnd, dmapos, Len(q) + TxDone)
  /\ Filling => Len(q) + TxDone < DescrNum

(* What the driver has in the cache: at each step, what will be written    *)
(* back is what it means to send.                                          *)
TxDriver ==
  /\ dirty \subseteq (IF step = "clean" THEN {Buf(curr)}
                      ELSE IF step \in {"own", "flush"} THEN {Desc(curr)} ELSE {})
  /\ step = "status" /\ Desc(curr) \in DOMAIN cached =>
       cached[Desc(curr)].own \/ cached[Desc(curr)] = ram[Desc(curr)]
  /\ step \in {"copy", "clean", "length"} => Coherent(Desc(curr))
  /\ step = "clean" => /\ Buf(curr) \in dirty => cached[Buf(curr)] = packet
                       /\ Buf(curr) \notin dirty => ram[Buf(curr)] = packet
  /\ step \in {"length", "own"} \/ Pending => ram[Buf(curr)] = packet
  /\ step = "own" => /\ Load(Desc(curr)) = Descr(FALSE, packet)
                     /\ ~Stored => ram[Desc(curr)] = Descr(FALSE, packet)
  /\ Pending => cached[Desc(curr)] = Descr(TRUE, packet)

(* The inductive invariant of the transmit ring.                           *)
TxIInv == MemoryOK /\ TxTypes /\ TxDriver /\ \E q \in Seq(Packets) : TxHanded(q)

(* A descriptor with a field changed.                                      *)
LEMMA DescrSet ==
  ASSUME NEW r \in Descriptors, NEW p, NEW o
  PROVE  /\ [r EXCEPT !.len = p] = Descr(r.own, p)
         /\ [r EXCEPT !.own = o] = Descr(o, r.len)
BY DEF Descriptors, Descr

(* The lines the two sides are at.                                         *)
LEMMA TxLines ==
  ASSUME TxTypes
  PROVE  /\ Desc(curr) \in Lines /\ Buf(curr) \in Lines /\ curr \in Ring /\ dmapos \in Ring
         /\ Desc(dmapos) \in Lines /\ Buf(curr) # Desc(curr) /\ Buf(curr) # Desc(dmapos)
         /\ curr # dmapos => Desc(curr) # Desc(dmapos)
         /\ TxDone \in {0, 1}
BY LineNames DEF TxTypes, Positioned, TxDone

(* The descriptor the driver is filling is not one that the device has     *)
(* been given.                                                             *)
LEMMA TxFilling ==
  ASSUME TxTypes, NEW q \in Seq(Packets), TxHanded(q), Filling
  PROVE  /\ Ahead(dmapos, curr) = Len(q) + TxDone
         /\ ~(Ahead(dmapos, curr) < Len(q) + TxDone)
         /\ At(curr, dmapos, Len(q) + TxDone)
         /\ ram[Desc(curr)].own = FALSE
         /\ dmastate = "sent" => curr # dmapos
<1>1. curr \in Ring /\ dmapos \in Ring /\ TxDone \in {0, 1}
  BY TxLines
<1>2. TxEnd = curr /\ At(curr, dmapos, Len(q) + TxDone)
  BY DEF TxHanded, Filling, TxEnd, Pending
<1>3. Len(q) \in Nat /\ DescrNum \in Nat
  BY LenProperties, DescrNumNat
<1>4. Len(q) + TxDone \in 0 .. (DescrNum - 1)
  BY <1>1, <1>3 DEF TxHanded
<1>5. Ahead(dmapos, curr) = Len(q) + TxDone
  BY <1>1, <1>2, <1>4, AtIs
<1>6. ~(Ahead(dmapos, curr) < Len(q) + TxDone)
  BY <1>4, <1>5
<1>7. ram[Desc(curr)].own = FALSE
  BY <1>1, <1>6, Zenon DEF TxHanded, Handed
<1>8. dmastate = "sent" => curr # dmapos
  <2> SUFFICES ASSUME dmastate = "sent", curr = dmapos PROVE FALSE
    OBVIOUS
  <2>1. TxDone = 1
    BY DEF TxDone
  <2>2. Ahead(dmapos, curr) = 0
    BY <1>1, Positions
  <2>. QED BY <1>3, <1>5, <2>1, <2>2
<1>. QED BY <1>2, <1>5, <1>6, <1>7, <1>8

(* eth_send invalidates the descriptor.                                    *)
LEMMA SendInvalidateIInv ==
  ASSUME NEW p \in Packets
  PROVE  TxIInv /\ SendInvalidate(p) => TxIInv'
<1> SUFFICES ASSUME TxIInv, SendInvalidate(p) PROVE TxIInv'
  OBVIOUS
<1>1. /\ step = "idle" /\ step' = "status" /\ packet' = p /\ Invalidate(Desc(curr))
      /\ UNCHANGED <<curr, dmapos, dmastate, queue>>
  BY DEF SendInvalidate, deviceVars
<1>2. Desc(curr) \in Lines
  BY TxLines DEF TxIInv
<1>3. /\ MemoryOK'
      /\ ram' = ram /\ dirty' = dirty \ {Desc(curr)} /\ DOMAIN cached' = DOMAIN cached \ {Desc(curr)}
      /\ \A x \in DOMAIN cached' : cached'[x] = cached[x]
  BY <1>1, <1>2, InvalidateIs, Zenon DEF TxIInv
<1>4. TxTypes'
  BY <1>1 DEF TxIInv, TxTypes, Positioned, Content
<1>5. \A q : TxHanded(q) => TxHanded(q)'
  BY <1>1, <1>3, Zenon DEF TxHanded, Pending, Filling, TxDone, TxEnd
<1>6. TxDriver'
  BY <1>1, <1>3 DEF TxIInv, TxDriver, Pending
<1>. QED BY <1>3, <1>4, <1>5, <1>6 DEF TxIInv

(* eth_send looks at the ownership.                                        *)
LEMMA SendStatusIInv == TxIInv /\ SendStatus => TxIInv'
<1> SUFFICES ASSUME TxIInv, SendStatus PROVE TxIInv'
  OBVIOUS
<1> DEFINE d == Load(Desc(curr))
<1>1. /\ step = "status" /\ UNCHANGED <<ram, cached, dirty, curr, dmapos, dmastate, queue>>
      /\ d.own => step' = "idle" /\ packet' = NoPacket
      /\ ~d.own => step' = "copy" /\ packet' = packet
  BY DEF SendStatus, deviceVars, cacheVars
<1>2. /\ Desc(curr) \in Lines /\ curr \in Ring /\ dmapos \in Ring /\ TxDone \in {0, 1}
      /\ step' \in {"idle", "copy"}
  BY <1>1, TxLines DEF TxIInv
<1>3. MemoryOK'
  BY <1>1 DEF TxIInv, MemoryOK
<1>4. TxTypes'
  BY <1>1, <1>2 DEF TxIInv, TxTypes, Positioned, Content
<1>5. ~d.own => d = ram[Desc(curr)]
  BY <1>1 DEF TxIInv, TxDriver, Load
<1> HIDE DEF d
<1>6. ASSUME NEW q \in Seq(Packets), TxHanded(q) PROVE TxHanded(q)'
  <2>1. ~Pending /\ ~Pending' /\ TxEnd = curr /\ TxEnd' = curr /\ TxDone' = TxDone
    BY <1>1, <1>2 DEF Pending, TxEnd, TxDone
  <2>2. ~d.own => Len(q) + TxDone < DescrNum
    <3> SUFFICES ASSUME ~d.own PROVE Len(q) + TxDone < DescrNum
      OBVIOUS
    <3>1. ~(Ahead(dmapos, curr) < Len(q) + TxDone)
      BY <1>2, <1>5, <1>6, Zenon DEF TxHanded, Handed
    <3>2. Ahead(dmapos, curr) \in 0 .. (DescrNum - 1) /\ Len(q) \in Nat /\ DescrNum \in Nat
      BY <1>2, Positions, LenProperties, DescrNumNat, Zenon
    <3>. QED BY <1>2, <3>1, <3>2
  <2>3. Filling' => ~d.own
    BY <1>1, <2>1 DEF Filling
  <2>. QED BY <1>1, <1>6, <2>1, <2>2, <2>3, Zenon DEF TxHanded
<1>7. ~d.own => Coherent(Desc(curr))
  BY <1>5 DEF Coherent, Load, d
<1>8. TxDriver'
  BY <1>1, <1>2, <1>7, Zenon DEF TxIInv, TxDriver, Pending, Coherent
<1>. QED BY <1>3, <1>4, <1>6, <1>8 DEF TxIInv

(* eth_send copies the packet into the buffer.                             *)
LEMMA SendCopyIInv == TxIInv /\ SendCopy => TxIInv'
<1> SUFFICES ASSUME TxIInv, SendCopy PROVE TxIInv'
  OBVIOUS
<1>1. /\ step = "copy" /\ step' = "clean" /\ Store(Buf(curr), packet)
      /\ UNCHANGED <<curr, packet, dmapos, dmastate, queue>>
  BY DEF SendCopy, deviceVars
<1>2. Buf(curr) \in Lines /\ Buf(curr) # Desc(curr) /\ Desc(curr) \in Lines /\ curr \in Ring
  BY TxLines DEF TxIInv
<1>3. Fits(Buf(curr), packet)
  BY <1>2, FitsIs DEF TxIInv, TxTypes, Positioned
<1>4. /\ MemoryOK'
      /\ ram' = ram /\ dirty' = dirty \cup {Buf(curr)} /\ DOMAIN cached' = DOMAIN cached \cup {Buf(curr)}
      /\ cached'[Buf(curr)] = packet
      /\ \A x \in DOMAIN cached : x # Buf(curr) => cached'[x] = cached[x]
  BY <1>1, <1>2, <1>3, StoreIs, Zenon DEF TxIInv
<1>5. TxTypes'
  BY <1>1 DEF TxIInv, TxTypes, Positioned
<1>6. \A q : TxHanded(q) => TxHanded(q)'
  BY <1>1, <1>4, Zenon DEF TxHanded, Pending, Filling, TxDone, TxEnd
<1>7. TxDriver'
  BY <1>1, <1>2, <1>4 DEF TxIInv, TxDriver, Pending, Coherent
<1>. QED BY <1>4, <1>5, <1>6, <1>7 DEF TxIInv

(* eth_send sets the length.                                               *)
LEMMA SendLengthIInv == TxIInv /\ SendLength => TxIInv'
<1> SUFFICES ASSUME TxIInv, SendLength PROVE TxIInv'
  OBVIOUS
<1> DEFINE d == [Load(Desc(curr)) EXCEPT !.len = packet]
<1>1. /\ step = "length" /\ step' = "own" /\ Store(Desc(curr), d)
      /\ UNCHANGED <<curr, packet, dmapos, dmastate, queue>>
  BY DEF SendLength, deviceVars
<1>2. Desc(curr) \in Lines /\ curr \in Ring /\ packet \in Content
  BY TxLines DEF TxIInv, TxTypes, Positioned
<1>3. Load(Desc(curr)) \in Descriptors /\ Load(Desc(curr)) = ram[Desc(curr)]
  BY <1>1, <1>2, LoadFits, FitsIs DEF TxIInv, TxDriver, Coherent, Load
<1>4. ram[Desc(curr)].own = FALSE
  <2>1. Filling
    BY <1>1 DEF Filling
  <2>. QED BY <2>1, TxFilling, Zenon DEF TxIInv
<1>5. d = Descr(FALSE, packet)
  <2>1. d = Descr(Load(Desc(curr)).own, packet)
    BY <1>3, DescrSet, Zenon
  <2>2. Load(Desc(curr)).own = FALSE
    BY <1>3, <1>4
  <2>. QED BY <2>1, <2>2, Zenon
<1>6. Fits(Desc(curr), d)
  BY <1>2, <1>5, FitsIs, Zenon DEF Descriptors, Descr
<1> HIDE DEF d
<1>7. /\ MemoryOK'
      /\ ram' = ram /\ dirty' = dirty \cup {Desc(curr)} /\ DOMAIN cached' = DOMAIN cached \cup {Desc(curr)}
      /\ cached'[Desc(curr)] = d
  BY <1>1, <1>2, <1>6, StoreIs, Zenon DEF TxIInv
<1>8. TxTypes'
  BY <1>1 DEF TxIInv, TxTypes, Positioned
<1>9. \A q : TxHanded(q) => TxHanded(q)'
  BY <1>1, <1>7, Zenon DEF TxHanded, Pending, Filling, TxDone, TxEnd
<1>10. TxDriver'
  <2>1. Load(Desc(curr))' = Descr(FALSE, packet)
    BY <1>1, <1>5, <1>7 DEF Load
  <2>2. Stored' /\ ~Pending'
    BY <1>1, <1>7 DEF Stored, Pending
  <2>. QED BY <1>1, <1>7, <2>1, <2>2, Zenon DEF TxIInv, TxDriver
<1>. QED BY <1>7, <1>8, <1>9, <1>10 DEF TxIInv

(* eth_send gives the descriptor to the device, in the cache.              *)
LEMMA SendOwnIInv == TxIInv /\ SendOwn => TxIInv'
<1> SUFFICES ASSUME TxIInv, SendOwn PROVE TxIInv'
  OBVIOUS
<1> DEFINE d == [Load(Desc(curr)) EXCEPT !.own = TRUE]
<1>1. /\ step = "own" /\ step' = "flush" /\ Store(Desc(curr), d) /\ queue' = Append(queue, packet)
      /\ UNCHANGED <<curr, packet, dmapos, dmastate>>
  BY DEF SendOwn, deviceVars
<1>2. Desc(curr) \in Lines /\ curr \in Ring /\ packet \in Packets
  BY <1>1, TxLines DEF TxIInv, TxTypes
<1>3. d = Descr(TRUE, packet)
  <2>1. Load(Desc(curr)) = Descr(FALSE, packet)
    BY <1>1 DEF TxIInv, TxDriver
  <2>2. Load(Desc(curr)) \in Descriptors
    BY <1>2, LoadFits, FitsIs DEF TxIInv
  <2>3. Load(Desc(curr)).len = packet
    BY <2>1 DEF Descr
  <2>. QED BY <2>2, <2>3, DescrSet, Zenon
<1>4. Fits(Desc(curr), d)
  BY <1>2, <1>3, FitsIs, Zenon DEF Descriptors, Descr, Content
<1> HIDE DEF d
<1>5. /\ MemoryOK'
      /\ ram' = ram /\ dirty' = dirty \cup {Desc(curr)} /\ DOMAIN cached' = DOMAIN cached \cup {Desc(curr)}
      /\ cached'[Desc(curr)] = d
  BY <1>1, <1>2, <1>4, StoreIs, Zenon DEF TxIInv
<1>6. TxTypes'
  BY <1>1, <1>2, AppendProperties DEF TxIInv, TxTypes, Positioned
<1>7. Stored' /\ Pending' /\ ~Pending
  BY <1>1, <1>5 DEF Stored, Pending
<1>8. \A q : TxHanded(q) => TxHanded(q)'
  BY <1>1, <1>5, <1>7, Zenon DEF TxHanded, Filling, TxDone, TxEnd
<1>9. TxDriver'
  BY <1>1, <1>3, <1>5 DEF TxIInv, TxDriver, Pending
<1>. QED BY <1>5, <1>6, <1>8, <1>9 DEF TxIInv

(* A line is written back, by the driver or by an eviction: the only one   *)
(* that matters is the descriptor given to the device.                     *)
LEMMA TxWriteBack ==
  ASSUME TxIInv, NEW l \in Lines, Flush(l), UNCHANGED <<dmapos, dmastate>>,
         NEW q \in Seq(Packets), TxHanded(q)
  PROVE  /\ l \in dirty => Filling /\ l = (IF step = "clean" THEN Buf(curr) ELSE Desc(curr))
         /\ ~(l \in dirty /\ Pending) => Handed(ram', q, dmapos, TxDone, TRUE)
         /\ l \in dirty /\ Pending => /\ Handed(ram', Append(q, packet), dmapos, TxDone, TRUE)
                                      /\ At(Succ(curr), dmapos, Len(Append(q, packet)) + TxDone)
<1>1. MemoryOK /\ TxTypes /\ TxDriver /\ ram = [x \in Lines |-> ram[x]]
  BY DEF TxIInv, MemoryOK
<1>2. /\ Desc(curr) \in Lines /\ Buf(curr) \in Lines /\ curr \in Ring /\ dmapos \in Ring
      /\ TxDone \in {0, 1}
  BY <1>1, TxLines
<1>3. /\ l \in dirty => ram' = [ram EXCEPT ![l] = cached[l]]
      /\ l \notin dirty => ram' = ram
  BY <1>1, FlushIs, Zenon
<1>4. l \in dirty => /\ step \in {"clean", "own", "flush"}
                     /\ l = (IF step = "clean" THEN Buf(curr) ELSE Desc(curr))
  BY <1>1 DEF TxDriver
<1>5. l \in dirty => Filling
  BY <1>4 DEF Filling, Pending, Stored
<1>6. Handed(ram, q, dmapos, TxDone, TRUE)
  BY Zenon DEF TxHanded
<1> DEFINE v == cached[l]
<1>7. CASE l \notin dirty
  BY <1>3, <1>6, <1>7, Zenon
<1>8. CASE l \in dirty /\ step = "clean"
  <2>1. ~(Ahead(dmapos, curr) < Len(q) + TxDone) /\ l = Buf(curr)
    BY <1>1, <1>4, <1>5, <1>8, TxFilling, Zenon
  <2> HIDE DEF v
  <2>2. Handed([ram EXCEPT ![Buf(curr)] = v], q, dmapos, TxDone, TRUE)
    BY <1>1, <1>2, <1>6, <2>1, OtherLine, ZenonT(30)
  <2>. QED BY <1>3, <1>4, <1>5, <1>8, <2>1, <2>2, Zenon DEF Pending, v
<1>9. CASE l \in dirty /\ step = "own"
  <2>1. ~(Ahead(dmapos, curr) < Len(q) + TxDone) /\ l = Desc(curr)
    BY <1>1, <1>4, <1>5, <1>9, TxFilling, Zenon
  <2>2. l \in DOMAIN cached
    BY <1>1, <1>9 DEF MemoryOK
  <2>3. cached[l] = Descr(FALSE, packet)
    BY <1>1, <1>9, <2>1, <2>2 DEF TxDriver, Load
  <2>4. v.own = FALSE
    BY <2>3 DEF Descr
  <2> HIDE DEF v
  <2>5. Handed([ram EXCEPT ![Desc(curr)] = v], q, dmapos, TxDone, TRUE)
    BY <1>1, <1>2, <1>6, <2>1, <2>4, OtherLine, ZenonT(30)
  <2>. QED BY <1>3, <1>4, <1>5, <1>9, <2>1, <2>5, Zenon DEF Pending, v
<1>10. CASE l \in dirty /\ step = "flush"
  <2>1. l = Desc(curr) /\ Pending /\ packet \in Packets
    BY <1>1, <1>4, <1>10 DEF Pending, Stored, TxTypes
  <2>2. /\ Len(q) + TxDone < DescrNum /\ At(curr, dmapos, Len(q) + TxDone) /\ ram[Buf(curr)] = packet
        /\ cached[l] = Descr(TRUE, packet)
    BY <1>1, <1>5, <1>10, <2>1, TxFilling, Zenon DEF TxHanded, TxDriver
  <2>3. v.own = TRUE /\ v.len = packet
    BY <2>2 DEF Descr
  <2> HIDE DEF v
  <2>4. /\ Handed([ram EXCEPT ![Desc(curr)] = v], Append(q, packet), dmapos, TxDone, TRUE)
        /\ At(Succ(curr), dmapos, Len(Append(q, packet)) + TxDone)
    <3> DEFINE own == TRUE
    <3>1. /\ own \in BOOLEAN /\ v.own = own /\ v.len = packet /\ Handed(ram, q, dmapos, TxDone, own)
          /\ packet \in Packets /\ ram = [x \in Lines |-> ram[x]]
      BY <1>1, <1>6, <2>1, <2>3, Zenon
    <3> HIDE DEF own
    <3>2. /\ Handed([ram EXCEPT ![Desc(curr)] = v], Append(q, packet), dmapos, TxDone, own)
          /\ At(Succ(curr), dmapos, Len(Append(q, packet)) + TxDone)
      BY <1>2, <2>2, <3>1, HandOver
    <3>. QED BY <3>2, Zenon DEF own
  <2>. QED BY <1>3, <1>5, <1>10, <2>1, <2>4, Zenon DEF v
<1>. QED BY <1>4, <1>7, <1>8, <1>9, <1>10, Zenon

(* eth_send flushes the buffer.                                            *)
LEMMA SendCleanIInv == TxIInv /\ SendClean => TxIInv'
<1> SUFFICES ASSUME TxIInv, SendClean PROVE TxIInv'
  OBVIOUS
<1>1. /\ step = "clean" /\ step' = "length" /\ Flush(Buf(curr))
      /\ UNCHANGED <<curr, packet, dmapos, dmastate, queue>>
  BY DEF SendClean, deviceVars
<1>2. Buf(curr) \in Lines /\ Desc(curr) \in Lines /\ curr \in Ring /\ Buf(curr) # Desc(curr)
  BY TxLines DEF TxIInv
<1>3. /\ MemoryOK'
      /\ Buf(curr) \notin dirty => ram' = ram
      /\ dirty' = dirty \ {Buf(curr)} /\ DOMAIN cached' = DOMAIN cached \ {Buf(curr)}
      /\ \A x \in DOMAIN cached' : cached'[x] = cached[x]
      /\ \A x \in Lines : x # Buf(curr) => ram'[x] = ram[x]
      /\ Buf(curr) \in dirty => ram'[Buf(curr)] = cached[Buf(curr)]
  BY <1>1, <1>2, FlushIs, Zenon DEF TxIInv
<1>4. TxTypes'
  BY <1>1 DEF TxIInv, TxTypes, Positioned
<1>5. ASSUME NEW q \in Seq(Packets), TxHanded(q) PROVE TxHanded(q)'
  <2>1. ~Pending /\ ~Pending' /\ TxEnd' = TxEnd /\ TxDone' = TxDone /\ Filling
    BY <1>1 DEF Pending, TxEnd, TxDone, Filling
  <2>2. Handed(ram', q, dmapos, TxDone, TRUE)
    BY <1>1, <1>2, <1>5, <2>1, TxWriteBack, Zenon
  <2>. QED BY <1>1, <1>5, <2>1, <2>2, Zenon DEF TxHanded
<1>6. TxDriver'
  BY <1>1, <1>2, <1>3 DEF TxIInv, TxDriver, Pending, Coherent
<1>. QED BY <1>3, <1>4, <1>5, <1>6 DEF TxIInv

(* eth_send flushes the descriptor and moves on.                           *)
LEMMA SendFlushIInv == TxIInv /\ SendFlush => TxIInv'
<1> SUFFICES ASSUME TxIInv, SendFlush PROVE TxIInv'
  OBVIOUS
<1>1. /\ step = "flush" /\ step' = "poll" /\ Flush(Desc(curr)) /\ curr' = Succ(curr)
      /\ UNCHANGED <<packet, dmapos, dmastate, queue>>
  BY DEF SendFlush, deviceVars
<1>2. Desc(curr) \in Lines /\ curr \in Ring
  BY TxLines DEF TxIInv
<1>3. MemoryOK' /\ dirty' = dirty \ {Desc(curr)} /\ (~Stored => ram' = ram)
  BY <1>1, <1>2, FlushIs, Zenon DEF TxIInv, Stored
<1>4. TxTypes'
  BY <1>1, <1>2, Positions DEF TxIInv, TxTypes, Positioned
<1>5. TxDriver'
  BY <1>1, <1>3 DEF TxIInv, TxDriver, Pending
<1>6. PICK q \in Seq(Packets) : TxHanded(q)
  BY DEF TxIInv
<1>7. ~Pending' /\ TxEnd' = Succ(curr) /\ TxDone' = TxDone /\ ~Filling'
  BY <1>1 DEF Pending, TxEnd, TxDone, Filling
<1>8. CASE Stored
  <2>1. Pending /\ packet \in Packets
    BY <1>1, <1>8 DEF Pending, TxIInv, TxTypes
  <2>2. /\ Handed(ram', Append(q, packet), dmapos, TxDone, TRUE)
        /\ At(Succ(curr), dmapos, Len(Append(q, packet)) + TxDone)
    BY <1>1, <1>2, <1>6, <1>8, <2>1, TxWriteBack, Zenon DEF Stored
  <2>3. Append(q, packet) \in Seq(Packets) /\ queue = Append(q, packet)
    BY <1>6, <2>1, AppendProperties DEF TxHanded
  <2>4. PICK r \in Seq(Packets) : r = Append(q, packet)
    BY <2>3
  <2>5. TxHanded(r)'
    BY <1>1, <1>7, <2>2, <2>3, <2>4, Zenon DEF TxHanded
  <2>. QED BY <1>3, <1>4, <1>5, <2>5 DEF TxIInv
<1>9. CASE ~Stored
  <2>1. ~Pending /\ TxEnd = Succ(curr)
    BY <1>1, <1>9 DEF Pending, TxEnd
  <2>2. TxHanded(q)'
    BY <1>1, <1>3, <1>6, <1>7, <1>9, <2>1, Zenon DEF TxHanded
  <2>. QED BY <1>3, <1>4, <1>5, <2>2 DEF TxIInv
<1>. QED BY <1>8, <1>9

(* eth_send tells the device to look at its ring.                          *)
LEMMA SendPollIInv == TxIInv /\ SendPoll => TxIInv'
<1> SUFFICES ASSUME TxIInv, SendPoll PROVE TxIInv'
  OBVIOUS
<1>1. /\ step = "poll" /\ step' = "idle" /\ packet' = NoPacket
      /\ dmastate' = IF dmastate = "suspended" THEN "ready" ELSE dmastate
      /\ UNCHANGED <<ram, cached, dirty, curr, dmapos, queue>>
  BY DEF SendPoll, cacheVars
<1>2. MemoryOK'
  BY <1>1 DEF TxIInv, MemoryOK
<1>3. TxTypes'
  BY <1>1 DEF TxIInv, TxTypes, Positioned, Content
<1>4. TxDone' = TxDone
  BY <1>1 DEF TxDone
<1>5. \A q : TxHanded(q) => TxHanded(q)'
  BY <1>1, <1>4, Zenon DEF TxHanded, Pending, Filling, TxEnd
<1>6. TxDriver'
  BY <1>1 DEF TxIInv, TxDriver, Pending
<1>. QED BY <1>2, <1>3, <1>5, <1>6 DEF TxIInv

(* Taking the first of a queue and appending to it commute.                *)
LEMMA TailAppend ==
  ASSUME NEW q \in Seq(Packets), q # <<>>, NEW p \in Packets
  PROVE  Tail(Append(q, p)) = Append(Tail(q), p)
<1> DEFINE a == Append(q, p)
           t == Tail(q)
<1>1. /\ Len(q) \in Nat \ {0} /\ t \in Seq(Packets) /\ Len(t) = Len(q) - 1
      /\ \A k \in 1 .. (Len(q) - 1) : t[k] = q[k + 1]
  BY HeadTailProperties, EmptySeq, LenProperties
<1>2. a \in Seq(Packets) /\ Len(a) = Len(q) + 1 /\ a[Len(q) + 1] = p /\ \A k \in 1 .. Len(q) : a[k] = q[k]
  BY AppendProperties
<1>3. a # <<>>
  BY <1>1, <1>2, EmptySeq
<1> HIDE DEF a, t
<1>4. /\ Tail(a) \in Seq(Packets) /\ Len(Tail(a)) = Len(q)
      /\ \A k \in 1 .. Len(q) : Tail(a)[k] = a[k + 1]
  BY <1>1, <1>2, <1>3, HeadTailProperties
<1>5. /\ Append(t, p) \in Seq(Packets) /\ Len(Append(t, p)) = Len(q) /\ Append(t, p)[Len(q)] = p
      /\ \A k \in 1 .. (Len(q) - 1) : Append(t, p)[k] = t[k]
  BY <1>1, AppendProperties
<1>6. ASSUME NEW k \in 1 .. Len(q) PROVE Tail(a)[k] = Append(t, p)[k]
  <2>1. CASE k = Len(q)
    BY <1>1, <1>2, <1>4, <1>5, <2>1
  <2>2. CASE k # Len(q)
    BY <1>1, <1>2, <1>4, <1>5, <2>2
  <2>. QED BY <2>1, <2>2, ZenonT(30)
<1>7. Tail(a) = Append(t, p)
  BY <1>4, <1>5, <1>6, SeqEqual
<1>. QED BY <1>7 DEF a, t

(* The device reads the descriptor it is at, and sends its packet if it is *)
(* its own.                                                                *)
LEMMA DeviceReadsIInv == TxIInv /\ DeviceReads => TxIInv'
<1> SUFFICES ASSUME TxIInv, DeviceReads PROVE TxIInv'
  OBVIOUS
<1>1. /\ dmastate = "ready" /\ UNCHANGED <<ram, cached, dirty, curr, step, packet, dmapos>>
      /\ ram[Desc(dmapos)].own => dmastate' = "sent" /\ queue' = Tail(queue)
      /\ ~ram[Desc(dmapos)].own => dmastate' = "suspended" /\ queue' = queue
  BY DEF DeviceReads, cacheVars, driverVars
<1>2. MemoryOK'
  BY <1>1 DEF TxIInv, MemoryOK
<1>3. TxDriver'
  BY <1>1, Zenon DEF TxIInv, TxDriver, Pending, Stored, Coherent, Load
<1>4. PICK q \in Seq(Packets) : TxHanded(q)
  BY DEF TxIInv
<1>5. TxDone = 0 /\ Pending' = Pending /\ Filling' = Filling /\ TxEnd' = TxEnd
  BY <1>1 DEF TxDone, Pending, Filling, TxEnd, Stored
<1>6. dmapos \in Ring /\ Len(q) \in Nat /\ Ahead(dmapos, dmapos) = 0
  BY LenProperties, Positions DEF TxIInv, TxTypes, Positioned
<1>7. CASE ram[Desc(dmapos)].own
  <2>1. TxDone' = 1
    BY <1>1, <1>7 DEF TxDone
  <2>2. Handed(ram, q, dmapos, 0, TRUE)
    BY <1>4, <1>5, Zenon DEF TxHanded
  <2>3. q # <<>>
    <3>1. Ahead(dmapos, dmapos) < Len(q) + 0
      BY <1>6, <1>7, <2>2, Zenon DEF Handed
    <3>2. Len(q) # 0
      BY <1>6, <3>1
    <3>. QED BY <3>2, EmptySeq
  <2>4. Handed(ram, Tail(q), dmapos, 1, TRUE) /\ Len(Tail(q)) + 1 = Len(q) /\ Tail(q) \in Seq(Packets)
    BY <1>6, <2>2, <2>3, TakeFirst, Zenon
  <2>5. Len(Tail(q)) + 1 = Len(q) + 0
    BY <1>6, <2>4
  <2>6. Pending => Tail(queue) = Append(Tail(q), packet)
    BY <1>4, <2>3, TailAppend DEF TxHanded, Pending, TxIInv, TxTypes
  <2>7. ~Pending => Tail(queue) = Tail(q)
    BY <1>4 DEF TxHanded
  <2>8. TxHanded(Tail(q))'
    BY <1>1, <1>4, <1>5, <1>7, <2>1, <2>4, <2>5, <2>6, <2>7, Zenon DEF TxHanded
  <2>9. queue' \in Seq(Packets)
    <3>1. Append(Tail(q), packet) \in Seq(Packets) \/ ~Pending
      BY <2>4, AppendProperties DEF Pending, TxIInv, TxTypes
    <3>. QED BY <1>1, <1>7, <2>4, <2>6, <2>7, <3>1, Zenon
  <2>10. TxTypes'
    BY <1>1, <1>7, <2>9 DEF TxIInv, TxTypes, Positioned
  <2>. QED BY <1>2, <1>3, <2>4, <2>8, <2>10, Zenon DEF TxIInv
<1>8. CASE ~ram[Desc(dmapos)].own
  <2>1. TxDone' = 0
    BY <1>1, <1>8 DEF TxDone
  <2>2. TxHanded(q)'
    BY <1>1, <1>4, <1>5, <1>8, <2>1, Zenon DEF TxHanded
  <2>3. TxTypes'
    BY <1>1, <1>8 DEF TxIInv, TxTypes, Positioned
  <2>. QED BY <1>2, <1>3, <2>2, <2>3 DEF TxIInv
<1>. QED BY <1>7, <1>8

(* The device gives the descriptor back.                                   *)
LEMMA DeviceGivesBackIInv == TxIInv /\ DeviceGivesBack => TxIInv'
<1> SUFFICES ASSUME TxIInv, DeviceGivesBack PROVE TxIInv'
  OBVIOUS
<1> DEFINE d == [ram[Desc(dmapos)] EXCEPT !.own = FALSE]
<1>1. /\ dmastate = "sent" /\ dmastate' = "ready" /\ dmapos' = Succ(dmapos)
      /\ UNCHANGED <<cached, dirty, curr, step, packet, queue>>
  BY DEF DeviceGivesBack, driverVars
<1>2. /\ Desc(curr) \in Lines /\ Buf(curr) \in Lines /\ curr \in Ring /\ dmapos \in Ring
      /\ Desc(dmapos) \in Lines /\ Buf(curr) # Desc(curr) /\ Buf(curr) # Desc(dmapos)
      /\ (curr # dmapos => Desc(curr) # Desc(dmapos))
  BY TxLines DEF TxIInv
<1>3. ram = [x \in Lines |-> ram[x]] /\ ram[Desc(dmapos)] \in Descriptors
  BY <1>2, FitsIs DEF TxIInv, MemoryOK
<1>4. ram' = [ram EXCEPT ![Desc(dmapos)] = d]
  BY <1>2, <1>3 DEF DeviceGivesBack
<1>5. d \in Descriptors /\ d.own = FALSE
  BY <1>3, Zenon DEF Descriptors
<1> HIDE DEF d
<1>6. /\ MemoryOK'
      /\ ram'[Desc(dmapos)] = d
      /\ \A x \in Lines : x # Desc(dmapos) => ram'[x] = ram[x]
  <2>1. Fits(Desc(dmapos), d)
    BY <1>2, <1>5, FitsIs
  <2>. QED BY <1>1, <1>2, <1>4, <2>1, DeviceStores, Zenon DEF TxIInv
<1>7. TxTypes'
  BY <1>1, <1>2, Positions DEF TxIInv, TxTypes, Positioned
<1>8. PICK q \in Seq(Packets) : TxHanded(q)
  BY DEF TxIInv
<1>9. TxDone = 1 /\ TxDone' = 0 /\ Pending' = Pending /\ Filling' = Filling /\ TxEnd' = TxEnd
  BY <1>1 DEF TxDone, Pending, Filling, TxEnd, Stored
<1>10. Handed(ram, q, dmapos, 1, TRUE) /\ At(TxEnd, dmapos, Len(q) + 1) /\ TxEnd \in Ring
  BY <1>2, <1>8, <1>9, Positions, Zenon DEF TxHanded, TxEnd
<1>11. /\ Handed([ram EXCEPT ![Desc(dmapos)] = d], q, Succ(dmapos), 0, TRUE)
       /\ At(TxEnd, Succ(dmapos), Len(q) + 0)
  BY <1>2, <1>3, <1>5, <1>10, Release, Zenon
<1>12. Len(q) + 1 < DescrNum => Len(q) + 0 < DescrNum
  BY LenProperties, DescrNumNat
<1>13. TxHanded(q)'
  BY <1>1, <1>4, <1>8, <1>9, <1>11, <1>12, Zenon DEF TxHanded
<1>14. ram[Desc(dmapos)].own
  <2>1. Ahead(dmapos, dmapos) = 0 /\ Len(q) \in Nat
    BY <1>2, Positions, LenProperties
  <2>2. Ahead(dmapos, dmapos) < Len(q) + 1
    BY <2>1
  <2>. QED BY <1>2, <1>10, <2>2, Zenon DEF Handed
<1>15. Filling => curr # dmapos
  BY <1>1, <1>8, TxFilling, Zenon DEF TxIInv
<1>16. TxDriver'
  <2>1. /\ dirty' \subseteq (IF step' = "clean" THEN {Buf(curr')}
                      ELSE IF step' \in {"own", "flush"} THEN {Desc(curr')} ELSE {})
        /\ step' = "clean" => /\ Buf(curr') \in dirty' => cached'[Buf(curr')] = packet'
                              /\ Buf(curr') \notin dirty' => ram'[Buf(curr')] = packet'
        /\ step' \in {"length", "own"} \/ Pending' => ram'[Buf(curr')] = packet'
        /\ Pending' => cached'[Desc(curr')] = Descr(TRUE, packet')
    BY <1>1, <1>2, <1>6, <1>9, ZenonT(30) DEF TxIInv, TxDriver
  <2>2. step' = "status" /\ Desc(curr') \in DOMAIN cached' =>
          cached'[Desc(curr')].own \/ cached'[Desc(curr')] = ram'[Desc(curr')]
    BY <1>1, <1>2, <1>6, <1>14, Zenon DEF TxIInv, TxDriver
  <2>3. step' \in {"copy", "clean", "length"} => Coherent(Desc(curr))'
    BY <1>1, <1>2, <1>6, <1>15, ZenonT(30) DEF TxIInv, TxDriver, Coherent, Filling
  <2>4. step' = "own" => /\ Load(Desc(curr))' = Descr(FALSE, packet')
                         /\ ~Stored' => ram'[Desc(curr')] = Descr(FALSE, packet')
    BY <1>1, <1>2, <1>6, <1>15, Zenon DEF TxIInv, TxDriver, Load, Stored, Filling
  <2>. QED BY <2>1, <2>2, <2>3, <2>4, Zenon DEF TxDriver
<1>. QED BY <1>6, <1>7, <1>13, <1>16 DEF TxIInv

(* The CPU fetches any line at any time.                                   *)
LEMMA TxFetchIInv ==
  ASSUME NEW l \in Lines
  PROVE  TxIInv /\ Fetch(l) => TxIInv'
<1> SUFFICES ASSUME TxIInv, Fetch(l) PROVE TxIInv'
  OBVIOUS
<1>1. UNCHANGED <<curr, step, packet, dmapos, dmastate, queue>>
  BY DEF Fetch
<1>2. /\ MemoryOK'
      /\ ram' = ram /\ dirty' = dirty /\ DOMAIN cached' = DOMAIN cached \cup {l}
      /\ l \notin dirty /\ l \notin DOMAIN cached
      /\ cached'[l] = ram[l]
      /\ \A x \in DOMAIN cached : cached'[x] = cached[x]
  BY FetchIs, Zenon DEF TxIInv
<1>3. TxTypes'
  BY <1>1 DEF TxIInv, TxTypes, Positioned
<1>4. \A q : TxHanded(q) => TxHanded(q)'
  BY <1>1, <1>2, ZenonT(30) DEF TxHanded, Pending, Filling, TxDone, TxEnd, Stored
<1>5. Pending' = Pending /\ Stored' = Stored
  BY <1>1, <1>2 DEF Pending, Stored
<1>6. dirty \subseteq DOMAIN cached
  BY DEF TxIInv, MemoryOK
<1>7. Coherent(Desc(curr)) => Coherent(Desc(curr))'
  BY <1>1, <1>2 DEF Coherent
<1>8. Load(Desc(curr))' = Load(Desc(curr))
  BY <1>1, <1>2 DEF Load
<1>9. step' = "status" /\ Desc(curr') \in DOMAIN cached' =>
          cached'[Desc(curr')].own \/ cached'[Desc(curr')] = ram'[Desc(curr')]
  BY <1>1, <1>2 DEF TxIInv, TxDriver
<1>10. Pending => Desc(curr) \in DOMAIN cached
  BY <1>6 DEF Pending, Stored
<1>11. TxDriver'
  BY <1>1, <1>2, <1>5, <1>6, <1>7, <1>8, <1>9, <1>10, Zenon DEF TxIInv, TxDriver
<1>. QED BY <1>2, <1>3, <1>4, <1>11 DEF TxIInv

(* The CPU evicts any line at any time.                                    *)
LEMMA TxEvictIInv ==
  ASSUME NEW l \in Lines
  PROVE  TxIInv /\ Evict(l) => TxIInv'
<1> SUFFICES ASSUME TxIInv, Evict(l) PROVE TxIInv'
  OBVIOUS
<1>1. Flush(l) /\ UNCHANGED <<curr, step, packet, dmapos, dmastate, queue>>
  BY DEF Evict
<1>2. /\ MemoryOK'
      /\ l \notin dirty => ram' = ram
      /\ dirty' = dirty \ {l} /\ DOMAIN cached' = DOMAIN cached \ {l}
      /\ \A x \in DOMAIN cached' : cached'[x] = cached[x]
      /\ \A x \in Lines : x # l => ram'[x] = ram[x]
      /\ l \in dirty => ram'[l] = cached[l]
  BY <1>1, FlushIs, Zenon DEF TxIInv
<1>3. TxTypes'
  BY <1>1 DEF TxIInv, TxTypes, Positioned
<1>4. /\ Desc(curr) \in Lines /\ Buf(curr) \in Lines /\ Buf(curr) # Desc(curr)
  BY TxLines DEF TxIInv
<1>5. dirty \subseteq DOMAIN cached
  BY DEF TxIInv, MemoryOK
<1>6. PICK q \in Seq(Packets) : TxHanded(q)
  BY DEF TxIInv
<1>7. /\ l \in dirty => Filling /\ l = (IF step = "clean" THEN Buf(curr) ELSE Desc(curr))
      /\ ~(l \in dirty /\ Pending) => Handed(ram', q, dmapos, TxDone, TRUE)
      /\ l \in dirty /\ Pending => /\ Handed(ram', Append(q, packet), dmapos, TxDone, TRUE)
                                   /\ At(Succ(curr), dmapos, Len(Append(q, packet)) + TxDone)
  BY <1>1, <1>6, TxWriteBack, ZenonT(30)
<1>8. TxDone' = TxDone
  BY <1>1 DEF TxDone
<1>9. TxDriver'
  <2>1. dirty' \subseteq (IF step' = "clean" THEN {Buf(curr')}
                      ELSE IF step' \in {"own", "flush"} THEN {Desc(curr')} ELSE {})
    BY <1>1, <1>2, ZenonT(30) DEF TxIInv, TxDriver
  <2>2. step' = "clean" => /\ Buf(curr') \in dirty' => cached'[Buf(curr')] = packet'
                           /\ Buf(curr') \notin dirty' => ram'[Buf(curr')] = packet'
    BY <1>1, <1>2, <1>4, <1>5, ZenonT(30) DEF TxIInv, TxDriver
  <2>3. Pending' => Pending /\ l # Desc(curr)
    BY <1>1, <1>2, ZenonT(30) DEF Pending, Stored
  <2>4. step' \in {"length", "own"} \/ Pending' => ram'[Buf(curr')] = packet'
    <3>1. step # "clean" => l # Buf(curr) \/ l \notin dirty
      BY <1>4, <1>7
    <3>. QED BY <1>1, <1>2, <1>4, <2>3, <3>1, Zenon DEF TxIInv, TxDriver, Pending
  <2>5. Pending' => cached'[Desc(curr')] = Descr(TRUE, packet')
    <3>1. Pending => Desc(curr) \in DOMAIN cached
      BY <1>5 DEF Pending, Stored
    <3>. QED BY <1>1, <1>2, <2>3, <3>1, Zenon DEF TxIInv, TxDriver
  <2>6. step' = "status" /\ Desc(curr') \in DOMAIN cached' =>
          cached'[Desc(curr')].own \/ cached'[Desc(curr')] = ram'[Desc(curr')]
    BY <1>1, <1>2, <1>4, ZenonT(30) DEF TxIInv, TxDriver
  <2>7. step' \in {"copy", "clean", "length"} => Coherent(Desc(curr))'
    BY <1>1, <1>2, <1>4, Zenon DEF TxIInv, TxDriver, Coherent
  <2>8. step' = "own" => /\ Load(Desc(curr))' = Descr(FALSE, packet')
                         /\ ~Stored' => ram'[Desc(curr')] = Descr(FALSE, packet')
    <3> SUFFICES ASSUME step = "own"
                 PROVE  Load(Desc(curr))' = Descr(FALSE, packet)
                        /\ (~Stored' => ram'[Desc(curr)] = Descr(FALSE, packet))
      BY <1>1, Zenon
    <3>1. Load(Desc(curr)) = Descr(FALSE, packet) /\ (~Stored => ram[Desc(curr)] = Descr(FALSE, packet))
      BY Zenon DEF TxIInv, TxDriver
    <3>2. CASE l = Desc(curr)
      <4>1. ram'[Desc(curr)] = Descr(FALSE, packet)
        BY <1>2, <1>5, <3>1, <3>2, Zenon DEF Stored, Load
      <4>2. Desc(curr) \notin DOMAIN cached'
        BY <1>2, <3>2
      <4>. QED BY <1>1, <4>1, <4>2 DEF Load
    <3>3. CASE l # Desc(curr)
      BY <1>1, <1>2, <1>4, <3>1, <3>3, Zenon DEF Stored, Load
    <3>. QED BY <3>2, <3>3, Zenon
  <2>. QED BY <2>1, <2>2, <2>4, <2>5, <2>6, <2>7, <2>8, Zenon DEF TxDriver
<1>10. CASE l \in dirty /\ Pending
  <2>1. l = Desc(curr) /\ step = "flush" /\ packet \in Packets /\ queue = Append(q, packet)
    BY <1>6, <1>7, <1>10 DEF Pending, TxIInv, TxTypes, TxHanded
  <2>2. ~Pending' /\ TxEnd' = Succ(curr) /\ ~Filling'
    BY <1>1, <1>2, <2>1 DEF Pending, TxEnd, Filling, Stored
  <2>3. PICK r \in Seq(Packets) : r = Append(q, packet)
    BY <2>1, AppendProperties
  <2>4. TxHanded(r)'
    BY <1>1, <1>7, <1>8, <1>10, <2>1, <2>2, <2>3, Zenon DEF TxHanded
  <2>. QED BY <1>2, <1>3, <1>9, <2>4, Zenon DEF TxIInv
<1>11. CASE ~(l \in dirty /\ Pending)
  <2>1. Pending' = Pending /\ Filling' = Filling /\ TxEnd' = TxEnd
    BY <1>1, <1>2, <1>11 DEF Pending, TxEnd, Filling, Stored
  <2>2. TxHanded(q)'
    BY <1>1, <1>6, <1>7, <1>8, <1>11, <2>1, Zenon DEF TxHanded
  <2>. QED BY <1>2, <1>3, <1>9, <2>2 DEF TxIInv
<1>. QED BY <1>10, <1>11

(* The invariant of the transmit ring.                                     *)
THEOREM TxInductive == TxSpec => []TxIInv
<1>1. TxInit => TxIInv
  <2> SUFFICES ASSUME TxInit PROVE TxIInv
    OBVIOUS
  <2>1. RingInit(FALSE, "suspended") /\ step = "idle" /\ dirty = {} /\ curr = 0 /\ dmapos = 0 /\ dmastate = "suspended"
    BY DEF TxInit, RingInit
  <2>2. MemoryOK /\ Positioned /\ Handed(ram, queue, 0, 0, TRUE) /\ At(0, 0, Len(queue) + 0)
    BY <2>1, RingInitIs, Zenon
  <2>3. TxEnd = 0 /\ TxDone = 0 /\ ~Pending /\ ~Filling
    BY <2>1 DEF TxEnd, TxDone, Pending, Filling
  <2>4. queue \in Seq(Packets) /\ TxHanded(queue)
    BY <2>1, <2>2, <2>3, Zenon DEF TxHanded, Positioned
  <2>. QED BY <2>1, <2>2, <2>3, <2>4, Zenon DEF TxIInv, TxTypes, TxDriver
<1>2. TxIInv /\ [TxNext]_ringVars => TxIInv'
  <2>1. TxIInv /\ UNCHANGED ringVars => TxIInv'
    BY Zenon DEF ringVars, TxIInv, MemoryOK, TxTypes, Positioned, TxHanded, TxDriver, TxEnd, TxDone, Pending, Filling,
           Stored, Coherent, Load
  <2>2. TxIInv /\ CacheMoves => TxIInv'
    BY TxFetchIInv, TxEvictIInv DEF CacheMoves
  <2>. QED BY <2>1, <2>2, SendInvalidateIInv, SendStatusIInv, SendCopyIInv, SendCleanIInv, SendLengthIInv, SendOwnIInv,
           SendFlushIInv, SendPollIInv, DeviceReadsIInv, DeviceGivesBackIInv DEF TxNext, Sending, TxDevice
<1>. QED BY <1>1, <1>2, PTL DEF TxSpec

(* For a ring of any length: the device sends the packets that the driver  *)
(* has been given in their order, each once and with its own data,         *)
(* whatever lines the cache fetches and evicts in between.                 *)
THEOREM PacketsSentInOrder == TxSpec => []TxInOrder
<1>1. TxIInv => TxInOrder
  <2> SUFFICES ASSUME TxIInv, dmastate \in {"ready", "suspended"}, ram[Desc(dmapos)].own
               PROVE  /\ queue # <<>> /\ ram[Desc(dmapos)].len = Head(queue)
                      /\ ram[Buf(dmapos)] = Head(queue)
    BY DEF TxInOrder
  <2>1. PICK q \in Seq(Packets) : TxHanded(q)
    BY DEF TxIInv
  <2>2. TxDone = 0
    BY DEF TxDone
  <2>3. Handed(ram, q, dmapos, 0, TRUE)
    BY <2>1, <2>2, Zenon DEF TxHanded
  <2>4. dmapos \in Ring /\ Ahead(dmapos, dmapos) = 0 /\ Len(q) \in Nat
    BY Positions, LenProperties DEF TxIInv, TxTypes, Positioned
  <2>5. Ahead(dmapos, dmapos) < Len(q) + 0
    BY <2>3, <2>4, Zenon DEF Handed
  <2>6. Len(q) > 0 /\ 0 <= Ahead(dmapos, dmapos) /\ Ahead(dmapos, dmapos) - 0 + 1 = 1
    BY <2>4, <2>5
  <2>7. ram[Desc(dmapos)].len = q[1] /\ ram[Buf(dmapos)] = q[1]
    BY <2>3, <2>4, <2>5, <2>6 DEF Handed
  <2>8. queue \in Seq(Packets) /\ Len(queue) > 0 /\ queue[1] = q[1]
    <3>1. CASE Pending
      <4>1. queue = Append(q, packet) /\ packet \in Packets
        BY <2>1, <3>1 DEF TxHanded, Pending, TxIInv, TxTypes
      <4>. QED BY <2>4, <2>6, <4>1, AppendProperties
    <3>2. CASE ~Pending
      BY <2>1, <2>6, <3>2 DEF TxHanded
    <3>. QED BY <3>1, <3>2
  <2>9. queue # <<>> /\ Head(queue) = queue[1]
    BY <2>8, HeadTailProperties, EmptySeq
  <2>. QED BY <2>7, <2>8, <2>9
<1>. QED BY <1>1, TxInductive, PTL

-----------------------------------------------------------------------------
(* The timestamp (Timestamp).                                              *)

(* The values a half of the counter can hold.                              *)
Half == 2 ^ HalfBits

(* There is at least one.                                                  *)
LEMMA HalfType == Half \in Nat \ {0}
BY TimestampAssumption DEF Half

(* What read_timestamp knows by each of its steps, in terms of the counter *)
(* when the call began and of the counter now.                             *)
ReadSoFar ==
  /\ reading = "lo" => begun <= time /\ time <= count
  /\ reading \in {"hi", "new_lo"} => lo = begun % Half
  /\ reading = "new_lo" => begun \div Half <= hi /\ hi <= count \div Half
  /\ reading = "hi_again" => lo < Half /\ (begun \div Half + 1) * Half + lo <= count
  /\ reading = "compose" => begun <= hi * Half + lo /\ hi * Half + lo <= count

(* The inductive invariant. TimestampTrue speaks of the finished call      *)
(* only; the invariant adds what the halves read so far are halves of.     *)
TimeIInv ==
  /\ count \in Nat /\ begun \in Nat /\ lo \in Nat /\ hi \in Nat /\ time \in Nat
  /\ reading \in {"lo", "hi", "new_lo", "hi_again", "compose"}
  /\ begun <= count
  /\ reading # "lo" => count - begun < Half /\ time <= begun
  /\ ReadSoFar

(* A counter that has advanced by less than a wrap of its low half:        *)
(* comparing the low halves tells whether the high half has advanced.      *)
LEMMA Wrapped ==
  ASSUME NEW b \in Nat, NEW c \in Nat, b <= c, c - b < Half
  PROVE  /\ c % Half >= b % Half => c \div Half = b \div Half
         /\ c % Half < b % Half => c \div Half = b \div Half + 1
<1>1. /\ b = Half * (b \div Half) + (b % Half) /\ b % Half \in 0 .. Half - 1 /\ b \div Half \in Nat
      /\ c = Half * (c \div Half) + (c % Half) /\ c % Half \in 0 .. Half - 1 /\ c \div Half \in Nat
  BY HalfType
<1> DEFINE q == c \div Half  p == b \div Half
<1>2. p <= q
  BY HalfType
<1>3. q <= p + 1
  <2> SUFFICES ASSUME q >= p + 2 PROVE FALSE
    BY <1>1
  <2>1. Half * q >= Half * (p + 2)
    BY <1>1, HalfType
  <2>2. Half * (p + 2) = Half * p + 2 * Half
    BY <1>1, HalfType
  <2>. QED BY <1>1, <2>1, <2>2, HalfType
<1>4. ASSUME q = p + 1 PROVE c % Half < b % Half
  <2>1. Half * q = Half * p + Half
    BY <1>1, <1>4, HalfType
  <2>. QED BY <1>1, <2>1, HalfType
<1>5. ASSUME q = p PROVE c % Half >= b % Half
  BY <1>1, <1>5, HalfType
<1>. QED BY <1>1, <1>2, <1>3, <1>4, <1>5

(* The counter runs on while the call is in progress.                      *)
LEMMA CountIInv == ASSUME TimeIInv, Count PROVE TimeIInv'
<1>1. /\ count' = count + 1 /\ UNCHANGED <<reading, lo, hi, begun, time>>
      /\ reading # "lo" => count - begun < Half - 1
  BY DEF Count, Half
<1>2. count \in Nat /\ begun \in Nat /\ begun <= count
  BY DEF TimeIInv
<1>3. count \div Half <= count' \div Half
  BY <1>1, <1>2, HalfType
<1>4. count \div Half \in Nat /\ count' \div Half \in Nat /\ begun \div Half \in Nat
  BY <1>1, <1>2, HalfType
<1>5. (begun \div Half + 1) * Half \in Nat /\ hi * Half \in Nat
  BY <1>4, HalfType DEF TimeIInv
<1>6. ReadSoFar'
  BY <1>1, <1>2, <1>3, <1>4, <1>5, HalfType DEF TimeIInv, ReadSoFar
<1>. QED BY <1>1, <1>2, <1>6, HalfType DEF TimeIInv

(* The invariant holds in every state of a timestamp read.                 *)
THEOREM TimestampSound == TimeSpec => []TimeIInv
<1>1. TimeInit => TimeIInv
  BY HalfType, TimestampAssumption DEF TimeInit, TimeIInv, ReadSoFar
<1>2. TimeIInv /\ [TimeNext]_timeVars => TimeIInv'
  <2> SUFFICES ASSUME TimeIInv, [TimeNext]_timeVars PROVE TimeIInv'
    OBVIOUS
  <2>0. /\ count \in Nat /\ begun \in Nat /\ lo \in Nat /\ hi \in Nat /\ time \in Nat
        /\ begun <= count
    BY DEF TimeIInv
  <2>h. /\ begun = Half * (begun \div Half) + (begun % Half) /\ begun % Half \in 0 .. Half - 1
        /\ count = Half * (count \div Half) + (count % Half) /\ count % Half \in 0 .. Half - 1
        /\ begun \div Half \in Nat /\ count \div Half \in Nat
        /\ begun \div Half <= count \div Half
    BY <2>0, HalfType
  <2>1. CASE Count
    BY <2>1, CountIInv
  <2>2. CASE ReadLo
    <3>1. /\ reading = "lo" /\ reading' = "hi" /\ lo' = count % Half /\ begun' = count
          /\ UNCHANGED <<count, hi, time>>
      BY <2>2 DEF ReadLo, timer_e, Half
    <3>. QED BY <2>0, <2>h, <3>1, HalfType DEF TimeIInv, ReadSoFar
  <2>3. CASE ReadHi
    BY <2>3, <2>0, <2>h, HalfType DEF ReadHi, TimeIInv, ReadSoFar, timer_e_hi, Half
  <2>4. CASE ReadNewLo
    <3>0. count - begun < Half /\ lo = begun % Half /\ reading = "new_lo"
          /\ begun \div Half <= hi /\ hi <= count \div Half
      BY <2>4 DEF ReadNewLo, TimeIInv, ReadSoFar
    <3>1. CASE count % Half < lo
      <4>1. count \div Half = begun \div Half + 1
        BY <2>0, <3>0, <3>1, Wrapped
      <4>2. (begun \div Half + 1) * Half + (count % Half) <= count
        BY <2>h, <4>1, HalfType
      <4>3. /\ lo' = count % Half /\ reading' = "hi_again" /\ count' = count
            /\ hi' = hi /\ begun' = begun /\ time' = time
        BY <2>4, <3>1 DEF ReadNewLo, timer_e, Half
      <4>. QED BY <2>0, <2>h, <3>0, <4>2, <4>3, HalfType DEF TimeIInv, ReadSoFar
    <3>2. CASE ~(count % Half < lo)
      <4>1. count \div Half = begun \div Half
        BY <2>0, <2>h, <3>0, <3>2, Wrapped
      <4>2. hi = begun \div Half
        BY <2>0, <2>h, <3>0, <4>1
      <4>3. hi * Half + lo = begun
        BY <2>h, <3>0, <4>2, HalfType
      <4>4. /\ lo' = lo /\ reading' = "compose" /\ count' = count
            /\ hi' = hi /\ begun' = begun /\ time' = time
        BY <2>4, <3>2 DEF ReadNewLo, timer_e, Half
      <4>. QED BY <2>0, <2>h, <3>0, <4>3, <4>4, HalfType DEF TimeIInv, ReadSoFar
    <3>. QED BY <3>1, <3>2
  <2>5. CASE ReadHiAgain
    <3>0. count - begun < Half /\ lo < Half /\ (begun \div Half + 1) * Half + lo <= count
          /\ reading = "hi_again"
      BY <2>5 DEF ReadHiAgain, TimeIInv, ReadSoFar
    <3>1. (begun \div Half + 1) * Half = Half * (begun \div Half) + Half
      BY <2>h, HalfType
    <3>2. count \div Half = begun \div Half + 1
      <4>1. count \div Half # begun \div Half
        BY <2>0, <2>h, <3>0, <3>1, HalfType
      <4>. QED BY <2>0, <2>h, <3>0, <4>1, Wrapped
    <3>3. begun <= (count \div Half) * Half + lo /\ (count \div Half) * Half + lo <= count
      BY <2>0, <2>h, <3>0, <3>1, <3>2, HalfType
    <3>4. /\ hi' = count \div Half /\ reading' = "compose" /\ count' = count
          /\ lo' = lo /\ begun' = begun /\ time' = time
      BY <2>5 DEF ReadHiAgain, timer_e_hi, Half
    <3>. QED BY <2>0, <2>h, <3>0, <3>3, <3>4, HalfType DEF TimeIInv, ReadSoFar
  <2>6. CASE Compose
    BY <2>6, <2>0, HalfType DEF Compose, TimeIInv, ReadSoFar, Half
  <2>7. CASE UNCHANGED timeVars
    BY <2>7 DEF timeVars, TimeIInv, ReadSoFar
  <2>. QED BY <2>1, <2>2, <2>3, <2>4, <2>5, <2>6, <2>7 DEF TimeNext
<1>. QED BY <1>1, <1>2, PTL DEF TimeSpec

(* For halves of any width: what timestamp_get_timestamp reads is never    *)
(* before the call began and never after it ended, however the counter     *)
(* advances between the reads of its registers.                            *)
THEOREM TimestampReads == TimeSpec => []TimestampTrue
<1>1. TimeIInv => TimestampTrue
  BY DEF TimeIInv, ReadSoFar, TimestampTrue
<1>. QED BY <1>1, TimestampSound, PTL

(* For halves of any width: the times that successive calls return never   *)
(* go back.                                                                *)
THEOREM TimesGrow == TimeSpec => [][time <= time']_timeVars
<1>1. TimeIInv /\ [TimeNext]_timeVars => [time <= time']_timeVars
  BY HalfType DEF TimeIInv, ReadSoFar, TimeNext, timeVars, Count, ReadLo, ReadHi, ReadNewLo, ReadHiAgain, Compose, Half
<1>. QED BY <1>1, TimestampSound, PTL DEF TimeSpec
=============================================================================
