------------------------- MODULE ProcessStartProofs -------------------------
(***************************************************************************)
(* Starting the first process, for any programs, frames and paging         *)
(* structures (ProcessStart): frames are mapped once, a process is started *)
(* only when all of it is in place, and its image is the one of the ELF    *)
(* file.                                                                   *)
(***************************************************************************)
EXTENDS ProcessStart, FiniteSetTheorems, SequenceTheorems, WellFoundedInduction, TLAPS

(* A nonempty set of naturals has a least element: a proof by induction    *)
(* becomes one about the least counterexample.                             *)
LEMMA NatMin ==
  ASSUME NEW S, S \subseteq Nat, S # {}
  PROVE  \E n \in S : \A m \in S : n <= m
<1> DEFINE R == {ss \in Nat \X Nat : ss[1] < ss[2]}
<1>1. IsWellFoundedOn(R, Nat)
  BY NatLessThanWellFounded DEF OpToRel
<1>2. PICK n \in S : \A m \in S : ~(<<m, n>> \in R)
  BY <1>1, WFMin
<1>3. \A m \in S : m \in Nat /\ n \in Nat /\ ~(m < n)
  <2> SUFFICES ASSUME NEW m \in S PROVE m \in Nat /\ n \in Nat /\ ~(m < n)
    OBVIOUS
  <2>1. m \in Nat /\ n \in Nat /\ <<m, n>> \in Nat \X Nat
    OBVIOUS
  <2>2. m < n => <<m, n>> \in R
    BY <2>1
  <2>. QED BY <1>2, <2>1, <2>2
<1>. QED BY <1>3

(* The stages of start_first_process.                                      *)
Pcs == {"prepare", "parse", "stack", "load", "start", "done", "stopped"}

(* The inductive invariant of the mappings: a page is mapped to one frame, *)
(* and what is mapped is not in the pool.  It also says which pages are    *)
(* mapped by each stage.                                                   *)
MapIInv ==
  /\ pc \in Pcs
  /\ pool \subseteq Frames
  /\ \A p \in DOMAIN page : page[p] \in Frames \cup Own /\ page[p] \notin pool
  /\ \A p, q \in DOMAIN page : page[q] = page[p] => q = p
  /\ pc \in {"prepare", "parse", "stack"} => DOMAIN page = {}
  /\ pc = "load" => \A p \in DOMAIN page : page[p] # -2
  /\ pc = "start" \/ started => IpcPage \in DOMAIN page /\ page[IpcPage] = -2
  /\ sp => StackPage \in DOMAIN page /\ page[StackPage] = -1
  /\ started => pc = "done"

(* map_frame: a mapping is added on success only, and a page that is       *)
(* mapped is not mapped again.                                             *)
LEMMA MapFrame ==
  ASSUME NEW p, NEW f, NEW n, map_frame(p, f, n)
  PROVE  /\ err' = "ok" => /\ p \notin DOMAIN page /\ DOMAIN page' = DOMAIN page \cup {p}
                           /\ page'[p] = f /\ \A q \in DOMAIN page : page'[q] = page[q]
         /\ err' = "DeleteFirst" => p \in DOMAIN page
         /\ err' # "ok" => page' = page
<1>1. err' = "ok" => p \notin DOMAIN page
  BY DEF map_frame, MapResult
<1>2. err' = "DeleteFirst" => p \in DOMAIN page
  BY DEF map_frame, MapResult
<1>3. err' # "ok" => page' = page
  BY DEF map_frame
<1>4. err' = "ok" => page' = [q \in DOMAIN page \cup {p} |-> IF q = p THEN f ELSE page[q]]
  BY DEF map_frame
<1>. QED BY <1>1, <1>2, <1>3, <1>4

(* The stack and the IPC buffer are not frames of the pool.                *)
LEMMA OwnNot == \A f \in Own : f \notin Frames
BY DEF Own, Frames

(* Every step keeps the mappings.                                          *)
LEMMA MapStep == MapIInv /\ [PsNext]_psVars => MapIInv'
<1> SUFFICES ASSUME MapIInv, [PsNext]_psVars PROVE MapIInv'
  OBVIOUS
<1> USE DEF MapIInv, Pcs
<1>1. CASE \E ok \in BOOLEAN : Prepare(ok)
  BY <1>1 DEF Prepare, Return
<1>2. CASE \E valid \in BOOLEAN : Parse(valid)
  BY <1>2 DEF Parse, Return
<1>3. CASE StackFails
  BY <1>3 DEF StackFails
<1>4. ASSUME NEW n \in Supply, NEW local \in BOOLEAN, InitStack(n, local) PROVE MapIInv'
  <2>1. /\ pc = "stack" /\ pc' = "load" /\ map_frame(StackPage, -1, n)
        /\ sp' = (err' = "ok" /\ local)
        /\ UNCHANGED <<prog, seg, pos, mem, pool, started, result>>
    BY <1>4 DEF InitStack
  <2>2. CASE err' = "ok"
    <3>1. DOMAIN page' = {StackPage} /\ page'[StackPage] = -1
      BY <2>1, <2>2, MapFrame, Zenon
    <3>2. -1 \in Own /\ -1 \notin Frames /\ -1 # -2
      BY OwnNot DEF Own
    <3>. QED BY <2>1, <3>1, <3>2
  <2>3. CASE err' # "ok"
    <3>1. page' = page /\ sp' = FALSE
      BY <2>1, <2>3, MapFrame, Zenon
    <3>. QED BY <2>1, <3>1
  <2>. QED BY <2>2, <2>3
<1>5. CASE LoadFails
  BY <1>5 DEF LoadFails, Return, Loading
<1>6. ASSUME NEW n \in Supply, LoadPage(n) PROVE MapIInv'
  <2>1. PICK f \in pool :
          /\ map_frame(PageOf(Dst), f, n)
          /\ pool' = (pool \ {f}) \cup Back(f, err')
          /\ IF err' \in {"ok", "DeleteFirst"} THEN UNCHANGED <<pc, result>> ELSE Return("false")
    BY <1>6 DEF LoadPage
  <2>2. pc = "load" /\ UNCHANGED <<prog, seg, sp, started>>
    BY <1>6 DEF LoadPage, Loading
  <2>3. f \in Frames
    BY <2>1
  <2>4. CASE err' = "ok"
    <3>1. /\ PageOf(Dst) \notin DOMAIN page /\ DOMAIN page' = DOMAIN page \cup {PageOf(Dst)}
          /\ page'[PageOf(Dst)] = f /\ \A q \in DOMAIN page : page'[q] = page[q]
      BY <2>1, <2>4, MapFrame, Zenon
    <3>2. pool' = pool \ {f}
      BY <2>1, <2>4 DEF Back
    <3>3. f # -2
      BY <2>3, OwnNot DEF Own
    <3>. QED BY <2>1, <2>2, <2>3, <2>4, <3>1, <3>2, <3>3
  <2>5. CASE err' # "ok"
    <3>1. page' = page
      BY <2>1, <2>5, MapFrame, Zenon
    <3>2. pool' \subseteq pool
      BY <2>1 DEF Back
    <3>. QED BY <2>1, <2>2, <3>1, <3>2 DEF Return
  <2>. QED BY <2>4, <2>5
<1>7. CASE NextSegment
  BY <1>7 DEF NextSegment
<1>8. ASSUME NEW n \in Supply, MapIpcBuffer(n) PROVE MapIInv'
  <2>1. /\ pc = "load" /\ map_frame(IpcPage, -2, n) /\ UNCHANGED <<prog, seg, pos, mem, pool, sp, started>>
        /\ IF err' = "ok" THEN pc' = "start" /\ UNCHANGED result ELSE Return("false")
    BY <1>8 DEF MapIpcBuffer
  <2>2. CASE err' = "ok"
    <3>1. /\ IpcPage \notin DOMAIN page /\ DOMAIN page' = DOMAIN page \cup {IpcPage}
          /\ page'[IpcPage] = -2 /\ \A q \in DOMAIN page : page'[q] = page[q]
      BY <2>1, <2>2, MapFrame, Zenon
    <3>2. -2 \in Own /\ -2 \notin Frames
      BY OwnNot DEF Own
    <3>. QED BY <2>1, <2>2, <3>1, <3>2
  <2>3. CASE err' # "ok"
    <3>1. page' = page
      BY <2>1, <2>3, MapFrame, Zenon
    <3>. QED BY <2>1, <2>3, <3>1 DEF Return
  <2>. QED BY <2>2, <2>3
<1>9. CASE \E ok \in BOOLEAN : Start(ok)
  BY <1>9 DEF Start, Return
<1>10. CASE NoFrame
  BY <1>10 DEF NoFrame, Loading
<1>11. CASE UNCHANGED psVars
  BY <1>11 DEF psVars
<1>. QED BY <1>1, <1>2, <1>3, <1>4, <1>5, <1>6, <1>7, <1>8, <1>9, <1>10, <1>11 DEF PsNext

(* The invariant of the mappings.                                          *)
THEOREM MapInductive == PsSpec => []MapIInv
<1>1. PsInit => MapIInv
  BY DEF PsInit, MapIInv, Pcs
<1>. QED BY <1>1, MapStep, PTL DEF PsSpec

(* For any programs, frames and paging structures: a frame mapped in the   *)
(* process is not in the pool, where it could be given out again, and is   *)
(* mapped at one page.                                                     *)
THEOREM MappedFramesStayKept == PsSpec => []MappedFramesKept
<1>1. MapIInv => MappedFramesKept
  BY DEF MapIInv, MappedFramesKept
<1>. QED BY <1>1, MapInductive, PTL

(* A page has at most PagingLevels structures above it.                    *)
LEMMA FewStructures ==
  ASSUME NEW p
  PROVE  Cardinality(Structures(p) \ tables) \in 0 .. PagingLevels
<1> DEFINE L == 1 .. PagingLevels
           g == [l \in L |-> <<l, p \div (TableFan ^ l)>>]
<1>1. PagingLevels \in Nat /\ IsFiniteSet(L) /\ Cardinality(L) = PagingLevels
  <2>1. PagingLevels \in Nat /\ PagingLevels \in Int /\ 1 \in Int
    BY ProcessStartAssumption
  <2>2. IsFiniteSet(L) /\ Cardinality(L) = IF 1 > PagingLevels THEN 0 ELSE PagingLevels - 1 + 1
    BY <2>1, FS_Interval
  <2>. QED BY <2>1, <2>2
<1>2. Structures(p) = {g[l] : l \in L}
  BY DEF Structures
<1>3. IsFiniteSet(Structures(p)) /\ Cardinality(Structures(p)) <= PagingLevels
  <2>1. g \in Surjection(L, Structures(p))
    BY <1>2 DEF Surjection
  <2>. QED BY <1>1, <2>1, FS_Surjection
<1>4. IsFiniteSet(Structures(p) \ tables) /\ Cardinality(Structures(p) \ tables) <= Cardinality(Structures(p))
  BY <1>3, FS_Subset
<1>5. Cardinality(Structures(p) \ tables) \in Nat /\ Cardinality(Structures(p)) \in Nat
  BY <1>3, <1>4, FS_CardinalityType
<1>. QED BY <1>1, <1>3, <1>4, <1>5

(* With a slot for each of them, map_frame never runs out of slots.        *)
LEMMA MapNotShort ==
  ASSUME PagingLevels <= MAPPING_SLOTS, NEW p, NEW f, NEW n, map_frame(p, f, n)
  PROVE  err' # "FailedLookup"
<1>1. Cardinality(Structures(p) \ tables) \in 0 .. PagingLevels /\ MAPPING_SLOTS \in Nat /\ PagingLevels \in Nat
  BY FewStructures, ProcessStartAssumption
<1>2. ~(Cardinality(Structures(p) \ tables) > MAPPING_SLOTS)
  BY <1>1
<1>. QED BY <1>2 DEF map_frame, MapResult

(* Where map_frame retries as often as there are paging levels, whatever   *)
(* the programs: start_first_process gives up no page for want of retries, *)
(* and a thread it starts has its IPC buffer and, unless the stack failed, *)
(* its stack where it expects them.                                        *)
THEOREM StartStaysSound == PagingLevels <= MAPPING_SLOTS => (PsSpec => []StartSound)
<1> SUFFICES ASSUME PagingLevels <= MAPPING_SLOTS PROVE PsSpec => []StartSound
  OBVIOUS
<1>1. PsInit => RetriesEnough
  BY DEF PsInit, RetriesEnough
<1>2. RetriesEnough /\ [PsNext]_psVars => RetriesEnough'
  <2> SUFFICES ASSUME RetriesEnough, [PsNext]_psVars, err' # err PROVE err' # "FailedLookup"
    BY DEF RetriesEnough
  <2>1. \E p, f, n : map_frame(p, f, n)
    BY DEF PsNext, psVars, Prepare, Parse, StackFails, InitStack, LoadFails, NoFrame,
       LoadPage, NextSegment, MapIpcBuffer, Start
  <2>. QED BY <2>1, MapNotShort
<1>3. MapIInv /\ RetriesEnough => StartSound
  BY DEF MapIInv, StartSound
<1>. QED BY <1>1, <1>2, <1>3, MapInductive, PTL DEF PsSpec

(* No program has a word on the page of the stack.                         *)
StackClear ==
  \A q \in Programs : \A i \in DOMAIN q : \A w \in Nat :
    q[i].vaddr <= w /\ w < q[i].vaddr + q[i].msize => PageOf(w) # StackPage

(* The page of an address, and the addresses of a page.                    *)
LEMMA Pages ==
  ASSUME NEW d \in Nat
  PROVE  /\ PageOf(d) \in Nat /\ (d % PageWords) \in 0 .. (PageWords - 1)
         /\ d = PageOf(d) * PageWords + (d % PageWords)
         /\ ((d + PageWords - (d % PageWords)) % PageWords) = 0
         /\ \A w \in Nat : /\ d <= w /\ w < d + PageWords - (d % PageWords) => PageOf(w) = PageOf(d)
                           /\ PageOf(w) = PageOf(d) => w - (w % PageWords) = d - (d % PageWords)
<1>0. PageWords \in Nat \ {0}
  BY ProcessStartAssumption
<1>1. \A x \in Nat : /\ PageOf(x) \in Nat /\ (x % PageWords) \in 0 .. (PageWords - 1)
                     /\ x = PageOf(x) * PageWords + (x % PageWords)
  BY <1>0 DEF PageOf
<1>2. \A t \in Nat, i \in 0 .. (PageWords - 1) :
        PageOf(t * PageWords + i) = t /\ ((t * PageWords + i) % PageWords) = i
  BY <1>0 DEF PageOf
<1> DEFINE P == PageOf(d)
           B == P * PageWords
           f == (d % PageWords)
<1>3. P \in Nat /\ B \in Nat /\ f \in 0 .. (PageWords - 1) /\ d = B + f
  <2>1. P \in Nat /\ f \in 0 .. (PageWords - 1) /\ d = B + f
    BY <1>1
  <2> HIDE DEF P
  <2>2. B \in Nat
    BY <1>0, <2>1
  <2>. QED BY <2>1, <2>2
<1>4. ((d + PageWords - f) % PageWords) = 0
  <2>1. d + PageWords - f = B + PageWords
    <3> HIDE DEF B, f
    <3>. QED BY <1>0, <1>3
  <2>2. B + PageWords = (P + 1) * PageWords + 0
    BY <1>0, <1>3
  <2>3. P + 1 \in Nat /\ 0 \in 0 .. (PageWords - 1)
    BY <1>0, <1>3
  <2> HIDE DEF P, B, f
  <2>. QED BY <1>2, <2>1, <2>2, <2>3
<1>5. ASSUME NEW w \in Nat, d <= w, w < d + PageWords - f PROVE PageOf(w) = P
  <2>1. w - B \in 0 .. (PageWords - 1) /\ w = B + (w - B)
    BY <1>0, <1>3, <1>5
  <2>. QED BY <1>2, <1>3, <2>1
<1>6. ASSUME NEW w \in Nat, PageOf(w) = P PROVE w - (w % PageWords) = d - f
  <2>1. w = B + (w % PageWords) /\ (w % PageWords) \in 0 .. (PageWords - 1)
    BY <1>1, <1>6
  <2>. QED BY <1>0, <1>3, <2>1
<1>. QED BY <1>1, <1>4, <1>5, <1>6

(* A segment covers the page of each of its words.                         *)
LEMMA CoversPage ==
  ASSUME NEW s, NEW w \in Nat, Within(s, w)
  PROVE  Covers(s, PageOf(w))
<1>1. PageWords \in Nat \ {0} /\ PageOf(w) \in Nat /\ (w % PageWords) \in 0 .. (PageWords - 1)
      /\ w = PageOf(w) * PageWords + (w % PageWords)
  BY Pages, ProcessStartAssumption
<1>2. PageOf(w) * PageWords \in Nat
  BY <1>1
<1>3. w \in PageOf(w) * PageWords .. (PageOf(w) * PageWords + PageWords - 1)
  BY <1>1, <1>2
<1>. QED BY <1>3 DEF Covers

(* The first segment that covers a page.                                   *)
LEMMA FirstOnIs ==
  ASSUME prog \in Seq([vaddr: Nat, msize: Nat, fsize: Nat]), NEW p, NEW s \in DOMAIN prog, Covers(s, p)
  PROVE  FirstOn(p) \in DOMAIN prog /\ \A r \in 1 .. (FirstOn(p) - 1) : ~Covers(r, p)
<1> DEFINE S == {r \in DOMAIN prog : Covers(r, p)}
<1>1. DOMAIN prog = 1 .. Len(prog) /\ Len(prog) \in Nat
  OBVIOUS
<1>2. S \subseteq Nat /\ S # {}
  BY <1>1
<1>3. PICK n \in S : \A m \in S : n <= m
  BY <1>2, NatMin, Zenon
<1>4. n \in DOMAIN prog /\ Covers(n, p) /\ \A r \in 1 .. (n - 1) : ~Covers(r, p)
  <2>1. n \in DOMAIN prog /\ Covers(n, p) /\ n \in Nat /\ n <= Len(prog)
    BY <1>1, <1>3
  <2>2. ASSUME NEW r \in 1 .. (n - 1), Covers(r, p) PROVE FALSE
    <3>1. r \in DOMAIN prog /\ r \in Nat /\ r < n
      <4>1. r \in Nat /\ 1 <= r /\ r < n
        BY <2>1
      <4>2. r <= Len(prog)
        BY <1>1, <2>1, <4>1
      <4>. QED BY <1>1, <4>1, <4>2
    <3>2. r \in S
      BY <2>2, <3>1
    <3>. QED BY <1>3, <2>1, <3>1, <3>2
  <2>. QED BY <2>1, <2>2
<1>. QED BY <1>4, Zenon DEF FirstOn

(* The words of segment s below n are on pages pg with contents m: mapped, *)
(* and as in the file if s is the first segment on the page.               *)
Loaded(pg, m, s, n) ==
  \A w \in Nat : Within(s, w) /\ w < n =>
    /\ PageOf(w) \in DOMAIN pg
    /\ FirstOn(PageOf(w)) = s => /\ pg[PageOf(w)] \in Frames
                                 /\ m[pg[PageOf(w)]][w % PageWords] = Word(s, w)

(* Why the loader has mapped a page: it was given a word of a segment on   *)
(* it.                                                                     *)
MappedFor(p) ==
  \E s \in DOMAIN prog, w \in Nat :
    Within(s, w) /\ PageOf(w) = p /\ (s < seg \/ (s = seg /\ w < Dst))

(* The inductive invariant of the image: what has been loaded when the     *)
(* loader is at address Dst of segment seg.                                *)
ImageIInv ==
  /\ prog \in Programs
  /\ seg \in Nat \ {0} /\ pos \in Nat
  /\ DOMAIN mem = Frames /\ mem = [f \in Frames |-> mem[f]]
  /\ pc \in {"prepare", "parse", "stack"} => seg = 1 /\ pos = 0
  /\ seg \in DOMAIN prog => pos = 0 \/ (Dst % PageWords) = 0
  /\ \A s \in DOMAIN prog : s < seg => Loaded(page, mem, s, prog[s].vaddr + prog[s].msize)
  /\ seg \in DOMAIN prog => Loaded(page, mem, seg, Dst)
  /\ \A p \in DOMAIN page : /\ page[p] \in Frames => MappedFor(p)
                            /\ page[p] = -1 => p = StackPage
  /\ pc = "start" \/ started => seg > Len(prog)

(* The segments of a program.                                              *)
LEMMA Segments ==
  ASSUME prog \in Programs
  PROVE  /\ prog \in Seq([vaddr: Nat, msize: Nat, fsize: Nat])
         /\ Len(prog) \in Nat /\ DOMAIN prog = 1 .. Len(prog)
         /\ \A s \in DOMAIN prog : prog[s].vaddr \in Nat /\ prog[s].msize \in Nat /\ prog[s].fsize \in Nat
<1>1. prog \in Seq([vaddr: Nat, msize: Nat, fsize: Nat])
  BY ProcessStartAssumption
<1>2. Len(prog) \in Nat /\ DOMAIN prog = 1 .. Len(prog)
  BY <1>1, LenProperties
<1>3. \A s \in DOMAIN prog : prog[s] \in [vaddr: Nat, msize: Nat, fsize: Nat]
  BY <1>1, <1>2, ElementOfSeq, Zenon
<1>. QED BY <1>1, <1>2, <1>3

(* What depends on the program only.                                       *)
LEMMA ProgSame ==
  ASSUME prog' = prog
  PROVE  /\ \A s, w : Within(s, w)' = Within(s, w) /\ Word(s, w)' = Word(s, w)
         /\ \A p : FirstOn(p)' = FirstOn(p)
         /\ \A s, n : Loaded(page', mem', s, n) <=> Loaded(page, mem, s, n)'
<1>1. \A s, w : Within(s, w)' = Within(s, w) /\ Word(s, w)' = Word(s, w)
  BY DEF Within, Word
<1>2. \A p : FirstOn(p)' = FirstOn(p)
  BY DEF FirstOn, Covers, Within
<1>3. \A s, n : Loaded(page', mem', s, n) <=> Loaded(page, mem, s, n)'
  BY <1>1, <1>2 DEF Loaded
<1>. QED BY <1>1, <1>2, <1>3

(* What is loaded stays so when pages are added.                           *)
LEMMA StillLoaded ==
  ASSUME NEW pg, NEW m, NEW pg2, NEW m2, NEW s, NEW n, Loaded(pg, m, s, n),
         \A q \in DOMAIN pg : q \in DOMAIN pg2 /\ pg2[q] = pg[q] /\ (pg[q] \in Frames => m2[pg[q]] = m[pg[q]])
  PROVE  Loaded(pg2, m2, s, n)
BY DEF Loaded

(* load_segment_into_vspace, one page.                                     *)
LEMMA LoadPageImage ==
  ASSUME StackClear, MapIInv, ImageIInv, NEW n \in Supply, LoadPage(n)
  PROVE  ImageIInv'
<1> DEFINE first == (Dst % PageWords)
           g == prog[seg]
<1>0. PICK p : p = PageOf(Dst)
  OBVIOUS
<1>1. PICK f \in pool :
        /\ map_frame(p, f, n)
        /\ IF err' \in {"ok", "DeleteFirst"}
           THEN mem' = [mem EXCEPT ![f] = Written] /\ pos' = pos + PageWords - first /\ UNCHANGED <<pc, result>>
           ELSE Return("false") /\ UNCHANGED <<mem, pos>>
  BY <1>0 DEF LoadPage
<1>2. pc = "load" /\ seg <= Len(prog) /\ pos < g.msize /\ UNCHANGED <<prog, seg, sp, started>>
  BY DEF LoadPage, Loading
<1>3. prog \in Programs /\ prog \in Seq([vaddr: Nat, msize: Nat, fsize: Nat]) /\ seg \in DOMAIN prog
      /\ g.vaddr \in Nat /\ g.msize \in Nat /\ g.fsize \in Nat /\ pos \in Nat /\ Dst \in Nat
      /\ PageWords \in Nat \ {0} /\ Len(prog) \in Nat /\ seg \in Nat \ {0} /\ DOMAIN prog = 1 .. Len(prog)
  <2>1. prog \in Programs /\ pos \in Nat /\ seg \in Nat \ {0} /\ PageWords \in Nat \ {0}
    BY ProcessStartAssumption DEF ImageIInv
  <2>2. /\ prog \in Seq([vaddr: Nat, msize: Nat, fsize: Nat])
        /\ Len(prog) \in Nat /\ DOMAIN prog = 1 .. Len(prog)
        /\ \A s \in DOMAIN prog : prog[s].vaddr \in Nat /\ prog[s].msize \in Nat /\ prog[s].fsize \in Nat
    BY <2>1, Segments
  <2>3. seg \in DOMAIN prog
    BY <1>2, <2>1, <2>2
  <2>4. g.vaddr \in Nat /\ g.msize \in Nat /\ g.fsize \in Nat
    BY <2>2, <2>3
  <2>5. Dst \in Nat
    BY <2>1, <2>4 DEF Dst
  <2>. QED BY <2>1, <2>2, <2>3, <2>4, <2>5
<1>4. first \in 0 .. (PageWords - 1) /\ p \in Nat
  BY <1>0, <1>3, Pages
<1>5. Within(seg, Dst) /\ p # StackPage
  <2>1. Within(seg, Dst)
    BY <1>2, <1>3, SMTT(30) DEF Within, Dst
  <2>. QED BY <1>0, <1>3, <2>1 DEF StackClear, Within
<1>6. f \in Frames /\ \A q \in DOMAIN page : page[q] # f
  BY <1>1 DEF MapIInv
<1>7. ~started
  BY <1>2 DEF MapIInv
<1>8. CASE err' \notin {"ok", "DeleteFirst"}
  <2>1. page' = page /\ mem' = mem /\ pos' = pos /\ pc' = "done"
    BY <1>1, <1>8, MapFrame, Zenon DEF Return
  <2>2. \A s : Loaded(page, mem, s, prog[s].vaddr + prog[s].msize)' <=> Loaded(page, mem, s, prog[s].vaddr + prog[s].msize)
    BY <1>2, <2>1 DEF Loaded, Within, FirstOn, Covers, Word
  <2>3. Loaded(page, mem, seg, Dst)' <=> Loaded(page, mem, seg, Dst)
    BY <1>2, <2>1 DEF Loaded, Within, FirstOn, Covers, Word, Dst
  <2>4. \A q : MappedFor(q)' <=> MappedFor(q)
    BY <1>2, <2>1 DEF MappedFor, Within, Dst
  <2>5. Dst' = Dst
    BY <1>2, <2>1 DEF Dst
  <2>. QED BY <1>2, <1>7, <2>1, <2>2, <2>3, <2>4, <2>5 DEF ImageIInv
<1>9. CASE err' \in {"ok", "DeleteFirst"}
  <2>1. mem' = [mem EXCEPT ![f] = Written] /\ pos' = pos + PageWords - first /\ UNCHANGED <<pc, result>>
    BY <1>1, <1>9
  <2>2. /\ DOMAIN mem' = Frames /\ mem' = [x \in Frames |-> mem'[x]]
        /\ mem'[f] = Written /\ \A x \in Frames : x # f => mem'[x] = mem[x]
    BY <1>6, <2>1 DEF ImageIInv
  <2>3. /\ Dst' = Dst + PageWords - first /\ pos' \in Nat /\ Dst' \in Nat /\ Dst < Dst'
        /\ (Dst' % PageWords) = 0
    <3>1. Dst' = Dst + PageWords - first
      <4>1. Dst = g.vaddr + pos /\ Dst' = g.vaddr + pos'
        BY <1>2 DEF Dst
      <4> HIDE DEF first, g
      <4>2. g.vaddr \in Nat /\ pos \in Nat /\ PageWords \in Nat /\ first \in Int
        BY <1>3, <1>4
      <4>. QED BY <2>1, <4>1, <4>2
    <3>2. ((Dst + PageWords - first) % PageWords) = 0
      BY <1>3, Pages, Zenon
    <3> HIDE DEF first
    <3>3. pos' \in Nat /\ Dst + PageWords - first \in Nat /\ Dst < Dst + PageWords - first
      <4>1. pos' = pos + PageWords - first
        BY <2>1
      <4>2. pos \in Nat /\ Dst \in Nat /\ PageWords \in Nat
        BY <1>3
      <4>3. first \in 0 .. (PageWords - 1)
        BY <1>4
      <4> DEFINE d == Dst
      <4> HIDE DEF d
      <4>4. d \in Nat
        BY <4>2 DEF d
      <4>5. pos' \in Nat /\ d + PageWords - first \in Nat /\ d < d + PageWords - first
        BY <4>1, <4>2, <4>3, <4>4
      <4>. QED BY <4>5 DEF d
    <3>. QED BY <3>1, <3>2, <3>3
  <2>4. \A q \in DOMAIN page : q \in DOMAIN page' /\ page'[q] = page[q] /\ (page[q] \in Frames => mem'[page[q]] = mem[page[q]])
    BY <1>1, <1>6, <1>9, <2>2, MapFrame, Zenon
  <2>5. \A s, k : Loaded(page, mem, s, k) => Loaded(page', mem', s, k)
    BY <2>4, StillLoaded
  <2>6. p \in DOMAIN page'
    BY <1>1, <1>9, <2>4, MapFrame, Zenon
  <2>7. \A w \in Nat : Within(seg, w) /\ PageOf(w) = p => Dst <= w
    <3> SUFFICES ASSUME NEW w \in Nat, Within(seg, w), PageOf(w) = p, w < Dst PROVE FALSE
      BY <1>3
    <3>1. (w % PageWords) \in 0 .. (PageWords - 1) /\ w - (w % PageWords) = Dst - first
      BY <1>0, <1>3, Pages, Zenon
    <3>2. pos = 0 => Dst <= w
      BY <1>3 DEF Within, Dst
    <3>3. first = 0
      BY <1>3, <3>2 DEF ImageIInv
    <3>. QED BY <1>3, <3>1, <3>3
  <2>8. FirstOn(p) = seg => p \notin DOMAIN page
    <3> SUFFICES ASSUME FirstOn(p) = seg, p \in DOMAIN page PROVE FALSE
      OBVIOUS
    <3>1. page[p] \in Frames
      BY <1>2, <1>5 DEF MapIInv, ImageIInv, Own
    <3>2. PICK s \in DOMAIN prog, w \in Nat : Within(s, w) /\ PageOf(w) = p /\ (s < seg \/ (s = seg /\ w < Dst))
      BY <3>1 DEF ImageIInv, MappedFor
    <3>3. Covers(s, p)
      BY <3>2, CoversPage
    <3>4. \A r \in 1 .. (seg - 1) : ~Covers(r, p)
      BY <1>3, <3>3, FirstOnIs
    <3>5. ~(s < seg)
      BY <1>3, <3>3, <3>4
    <3>. QED BY <1>3, <2>7, <3>2, <3>5
  <2>9. FirstOn(p) = seg => err' = "ok" /\ page'[p] = f
    BY <1>1, <1>9, <2>8, MapFrame, Zenon
  <2>10. ASSUME NEW w \in Nat, Within(seg, w), PageOf(w) = p PROVE Written[w % PageWords] = Word(seg, w)
    <3>1. Dst <= w /\ (w % PageWords) \in 0 .. (PageWords - 1) /\ w - (w % PageWords) = Dst - first
      BY <1>0, <1>3, <2>7, <2>10, Pages, Zenon
    <3> DEFINE i == (w % PageWords)
    <3>2. i \in 0 .. (PageWords - 1) /\ i - first = w - Dst /\ ~(i < first)
      <4> HIDE DEF i, first
      <4>1. i \in 0 .. (PageWords - 1) /\ w - i = Dst - first /\ Dst <= w
        BY <3>1 DEF i
      <4>. QED BY <1>3, <1>4, <4>1
    <3>3. Written[i] = IF i < first \/ i - first >= g.fsize - pos THEN Zero ELSE <<seg, pos + i - first>>
      BY <3>2 DEF Written
    <3>7. Dst = g.vaddr + pos
      BY DEF Dst
    <3> HIDE DEF i, first, g
    <3>8. /\ g.vaddr \in Nat /\ g.fsize \in Nat /\ pos \in Nat /\ first \in Int /\ i \in Int
          /\ i - first = w - (g.vaddr + pos)
      BY <1>3, <1>4, <3>2, <3>7
    <3>4. (i - first >= g.fsize - pos) <=> ~(w - g.vaddr < g.fsize)
      BY <3>8
    <3>5. pos + i - first = w - g.vaddr
      BY <3>8
    <3>6. Written[i] = Word(seg, w)
      BY <3>2, <3>3, <3>4, <3>5 DEF Word, g
    <3>. QED BY <3>6 DEF i
  <2>11. Loaded(page', mem', seg, Dst')
    <3> SUFFICES ASSUME NEW w \in Nat, Within(seg, w), w < Dst'
                 PROVE  /\ PageOf(w) \in DOMAIN page'
                        /\ FirstOn(PageOf(w)) = seg => /\ page'[PageOf(w)] \in Frames
                                                       /\ mem'[page'[PageOf(w)]][w % PageWords] = Word(seg, w)
      BY DEF Loaded
    <3>1. CASE w < Dst
      <4>1. Loaded(page', mem', seg, Dst)
        BY <1>3, <2>5 DEF ImageIInv
      <4>. QED BY <3>1, <4>1 DEF Loaded
    <3>2. CASE ~(w < Dst)
      <4>1. PageOf(w) = p
        <5>1. Dst <= w /\ w < Dst + PageWords - first
          BY <1>3, <2>3, <3>2
        <5>. QED BY <1>0, <1>3, <5>1, Pages, Zenon
      <4>. QED BY <1>6, <2>2, <2>6, <2>9, <2>10, <4>1
    <3>. QED BY <3>1, <3>2
  <2>12. \A s : Loaded(page', mem', s, prog[s].vaddr + prog[s].msize) => Loaded(page, mem, s, prog[s].vaddr + prog[s].msize)'
    BY <1>2, ProgSame
  <2>13. Loaded(page, mem, seg, Dst)'
    BY <1>2, <2>11, ProgSame
  <2>14. \A q : MappedFor(q) => MappedFor(q)'
    <3>1. \A w \in Nat : w < Dst => w < Dst'
      BY <1>3, <2>3
    <3>. QED BY <1>2, <3>1 DEF MappedFor, Within
  <2>15. MappedFor(p)'
    BY <1>0, <1>2, <1>3, <1>5, <2>3, ProgSame, SMTT(30) DEF MappedFor
  <2>16. \A q \in DOMAIN page' : (page'[q] \in Frames => MappedFor(q)') /\ (page'[q] = -1 => q = StackPage)
    <3>1. \A q \in DOMAIN page' : q \in DOMAIN page \/ (q = p /\ page'[p] = f)
      BY <1>1, <1>9, MapFrame, ZenonT(30)
    <3>2. f # -1
      BY <1>6, OwnNot DEF Own
    <3>. QED BY <2>4, <2>14, <2>15, <3>1, <3>2, Zenon DEF ImageIInv
  <2>17. \A s \in DOMAIN prog : s < seg => Loaded(page, mem, s, prog[s].vaddr + prog[s].msize)'
    BY <2>5, <2>12 DEF ImageIInv
  <2>. QED BY <1>2, <1>3, <1>7, <2>1, <2>2, <2>3, <2>13, <2>16, <2>17, SMTT(30) DEF ImageIInv
<1>. QED BY <1>8, <1>9

(* A step that leaves the loader alone.                                    *)
LEMMA ImageKept ==
  ASSUME ImageIInv, UNCHANGED <<prog, seg, pos, mem>>,
         \A q \in DOMAIN page : q \in DOMAIN page' /\ page'[q] = page[q],
         \A q \in DOMAIN page' : q \notin DOMAIN page => page'[q] \notin Frames /\ (page'[q] = -1 => q = StackPage),
         pc' \in {"prepare", "parse", "stack"} => pc \in {"prepare", "parse", "stack"},
         pc' = "start" \/ started' => seg > Len(prog)
  PROVE  ImageIInv'
<1>1. \A q \in DOMAIN page : q \in DOMAIN page' /\ page'[q] = page[q] /\ (page[q] \in Frames => mem'[page[q]] = mem[page[q]])
  OBVIOUS
<1>2. \A s, k : Loaded(page, mem, s, k) => Loaded(page', mem', s, k)
  BY <1>1, StillLoaded
<1>3. \A s, k : Loaded(page', mem', s, k) <=> Loaded(page, mem, s, k)'
  BY ProgSame
<1>4. \A s : Loaded(page, mem, s, prog[s].vaddr + prog[s].msize) => Loaded(page, mem, s, prog[s].vaddr + prog[s].msize)'
  BY <1>2, <1>3
<1>5. Dst' = Dst
  BY DEF Dst
<1>6. Loaded(page, mem, seg, Dst) => Loaded(page, mem, seg, Dst)'
  BY <1>2, <1>3, <1>5
<1>7. \A q : MappedFor(q) => MappedFor(q)'
  BY <1>5, ProgSame DEF MappedFor
<1>8. \A q \in DOMAIN page' : (page'[q] \in Frames => MappedFor(q)') /\ (page'[q] = -1 => q = StackPage)
  BY <1>7 DEF ImageIInv
<1>. QED BY <1>4, <1>5, <1>6, <1>8 DEF ImageIInv

(* The loader goes on to the next segment.                                 *)
LEMMA NextSegmentImage ==
  ASSUME MapIInv, ImageIInv, NextSegment
  PROVE  ImageIInv'
<1>1. /\ pc = "load" /\ seg <= Len(prog) /\ pos >= prog[seg].msize /\ seg' = seg + 1 /\ pos' = 0
      /\ UNCHANGED <<pc, prog, page, mem, started>>
  BY DEF NextSegment
<1>2. prog \in Programs /\ pos \in Nat /\ seg \in Nat \ {0}
  BY DEF ImageIInv
<1>3. /\ Len(prog) \in Nat /\ DOMAIN prog = 1 .. Len(prog)
      /\ \A s \in DOMAIN prog : prog[s].vaddr \in Nat /\ prog[s].msize \in Nat /\ prog[s].fsize \in Nat
  BY <1>2, Segments
<1>4. seg \in DOMAIN prog
  BY <1>1, <1>2, <1>3
<1>5. Dst \in Nat /\ Dst >= prog[seg].vaddr + prog[seg].msize /\ prog[seg].vaddr + prog[seg].msize \in Nat
  BY <1>1, <1>2, <1>3, <1>4 DEF Dst
<1>6. Loaded(page, mem, seg, prog[seg].vaddr + prog[seg].msize)
  <2>1. Loaded(page, mem, seg, Dst)
    BY <1>4 DEF ImageIInv
  <2>2. \A w \in Nat : w < prog[seg].vaddr + prog[seg].msize => w < Dst
    BY <1>5
  <2>. QED BY <2>1, <2>2 DEF Loaded
<1>7. \A s \in DOMAIN prog : s < seg' => s < seg \/ s = seg
  BY <1>1, <1>2, <1>3
<1>8. \A s \in DOMAIN prog : s < seg' => Loaded(page, mem, s, prog[s].vaddr + prog[s].msize)
  BY <1>6, <1>7, SMTT(30) DEF ImageIInv
<1>9. \A s, k : Loaded(page, mem, s, k) <=> Loaded(page, mem, s, k)'
  BY <1>1, ProgSame
<1>10. \A s \in DOMAIN prog : s < seg' => Loaded(page, mem, s, prog[s].vaddr + prog[s].msize)'
  BY <1>1, <1>8, <1>9
<1>11. seg' \in DOMAIN prog => Loaded(page, mem, seg, Dst)'
  <2> SUFFICES ASSUME seg' \in DOMAIN prog PROVE Loaded(page, mem, seg, Dst)'
    OBVIOUS
  <2>1. Dst' = prog[seg'].vaddr
    BY <1>1, <1>3 DEF Dst
  <2>2. \A w \in Nat : Within(seg', w) => ~(w < Dst')
    BY <1>3, <2>1 DEF Within
  <2>3. Loaded(page, mem, seg', Dst')
    BY <2>2 DEF Loaded
  <2>. QED BY <1>9, <2>3
<1>12. \A q : MappedFor(q) => MappedFor(q)'
  <2> SUFFICES ASSUME NEW q, MappedFor(q) PROVE MappedFor(q)'
    OBVIOUS
  <2>1. PICK s \in DOMAIN prog, w \in Nat :
          Within(s, w) /\ PageOf(w) = q /\ (s < seg \/ (s = seg /\ w < Dst))
    BY DEF MappedFor
  <2>2. s < seg' /\ Within(s, w)' /\ s \in DOMAIN prog'
    BY <1>1, <1>2, <1>3, <2>1, ProgSame
  <2>. QED BY <2>1, <2>2 DEF MappedFor
<1>13. seg' \in Nat \ {0} /\ (seg > Len(prog) => seg' > Len(prog))
  BY <1>1, <1>2, <1>3
<1>14. ~started /\ ~started' /\ pc' = "load"
  BY <1>1 DEF MapIInv
<1>. QED BY <1>1, <1>10, <1>11, <1>12, <1>13, <1>14, SMTT(30) DEF ImageIInv

(* Every step keeps the invariant of the image.                            *)
LEMMA ImageStep ==
  ASSUME StackClear, MapIInv, ImageIInv, [PsNext]_psVars
  PROVE  ImageIInv'
<1>1. ASSUME NEW ok \in BOOLEAN, Prepare(ok) PROVE ImageIInv'
  <2>1. UNCHANGED <<prog, seg, pos, mem, page, started>> /\ pc' \in {"parse", "done"} /\ pc = "prepare"
    BY <1>1 DEF Prepare, Return
  <2>. QED BY <2>1, ImageKept DEF ImageIInv
<1>2. ASSUME NEW valid \in BOOLEAN, Parse(valid) PROVE ImageIInv'
  <2>1. UNCHANGED <<prog, seg, pos, mem, page, started>> /\ pc' \in {"stack", "done"} /\ pc = "parse"
    BY <1>2 DEF Parse, Return
  <2>. QED BY <2>1, ImageKept DEF ImageIInv
<1>3. CASE StackFails
  <2>1. UNCHANGED <<prog, seg, pos, mem, page, started>> /\ pc' \in {"load", "stopped"}
    BY <1>3 DEF StackFails
  <2>. QED BY <2>1, ImageKept DEF ImageIInv
<1>4. ASSUME NEW n \in Supply, NEW local \in BOOLEAN, InitStack(n, local) PROVE ImageIInv'
  <2>1. UNCHANGED <<prog, seg, pos, mem, started>> /\ pc' = "load" /\ map_frame(StackPage, -1, n)
    BY <1>4 DEF InitStack
  <2>2. /\ \A q \in DOMAIN page : q \in DOMAIN page' /\ page'[q] = page[q]
        /\ \A q \in DOMAIN page' : q \notin DOMAIN page => q = StackPage /\ page'[q] = -1
    BY <2>1, MapFrame, Zenon
  <2>3. -1 \notin Frames
    BY OwnNot DEF Own
  <2>. QED BY <2>1, <2>2, <2>3, ImageKept DEF ImageIInv
<1>5. CASE LoadFails \/ NoFrame
  <2>1. UNCHANGED <<prog, seg, pos, mem, page, started>> /\ pc' \in {"done", "stopped"}
    BY <1>5 DEF LoadFails, NoFrame, Return
  <2>. QED BY <2>1, ImageKept DEF ImageIInv
<1>6. ASSUME NEW n \in Supply, MapIpcBuffer(n) PROVE ImageIInv'
  <2>1. /\ UNCHANGED <<prog, seg, pos, mem, started>> /\ pc' \in {"start", "done"} /\ map_frame(IpcPage, -2, n)
        /\ seg > Len(prog)
    BY <1>6 DEF MapIpcBuffer, Return
  <2>2. /\ \A q \in DOMAIN page : q \in DOMAIN page' /\ page'[q] = page[q]
        /\ \A q \in DOMAIN page' : q \notin DOMAIN page => page'[q] = -2
    BY <2>1, MapFrame, ZenonT(30)
  <2>3. -2 \notin Frames /\ -2 # -1
    BY OwnNot DEF Own
  <2>. QED BY <2>1, <2>2, <2>3, ImageKept
<1>7. ASSUME NEW ok \in BOOLEAN, Start(ok) PROVE ImageIInv'
  <2>1. /\ UNCHANGED <<prog, seg, pos, mem, page>> /\ pc' = "done" /\ pc = "start"
    BY <1>7, SMTT(30) DEF Start, Return
  <2>. QED BY <2>1, ImageKept DEF ImageIInv
<1>8. CASE UNCHANGED psVars
  <2>1. UNCHANGED <<prog, seg, pos, mem, page, started, pc>>
    BY <1>8 DEF psVars
  <2>. QED BY <2>1, ImageKept DEF ImageIInv
<1>. QED BY <1>1, <1>2, <1>3, <1>4, <1>5, <1>6, <1>7, <1>8, LoadPageImage, NextSegmentImage, SMTT(30) DEF PsNext

(* For any programs that leave the page of the stack alone: in a process   *)
(* that runs, each word of a segment has the value of the file (zero       *)
(* beyond it) on every page where that segment is the first.               *)
THEOREM ImageStaysInPlace == StackClear => (PsSpec => []ImageInPlace)
<1> SUFFICES ASSUME StackClear PROVE PsSpec => []ImageInPlace
  BY SMTT(30)
<1>1. PsInit => ImageIInv
  <2> SUFFICES ASSUME PsInit PROVE ImageIInv
    OBVIOUS
  <2>1. /\ prog \in Programs /\ pc = "prepare" /\ seg = 1 /\ pos = 0 /\ page = << >> /\ started = FALSE
        /\ mem = [f \in Frames |-> [i \in 0 .. PageWords - 1 |-> Unset]]
    BY DEF PsInit
  <2>2. \A s \in DOMAIN prog : ~(s < seg) /\ (s = seg => Dst = prog[s].vaddr /\ prog[s].vaddr \in Nat)
    BY <2>1, Segments DEF Dst
  <2>3. seg \in DOMAIN prog => Loaded(page, mem, seg, Dst)
    BY <2>2 DEF Loaded, Within
  <2>. QED BY <2>1, <2>2, <2>3 DEF ImageIInv
<1>2. MapIInv /\ ImageIInv /\ [PsNext]_psVars => ImageIInv'
  BY ImageStep
<1>3. ImageIInv => ImageInPlace
  <2> SUFFICES ASSUME ImageIInv, started, NEW s \in DOMAIN prog,
                      NEW w \in prog[s].vaddr .. (prog[s].vaddr + prog[s].msize - 1), FirstOn(PageOf(w)) = s
               PROVE  At(w) = Word(s, w)
    BY DEF ImageInPlace
  <2>1. prog[s].vaddr \in Nat /\ prog[s].msize \in Nat /\ seg \in Nat /\ Len(prog) \in Nat
        /\ s \in 1 .. Len(prog) /\ seg > Len(prog)
    BY Segments DEF ImageIInv
  <2>2. w \in Nat /\ Within(s, w) /\ w < prog[s].vaddr + prog[s].msize /\ s < seg
    BY <2>1 DEF Within
  <2>3. Loaded(page, mem, s, prog[s].vaddr + prog[s].msize)
    BY <2>2 DEF ImageIInv
  <2>. QED BY <2>2, <2>3 DEF Loaded, At
<1>. QED BY <1>1, <1>2, <1>3, MapInductive, PTL DEF PsSpec
=============================================================================
