---------------------------- MODULE ProcessStart ----------------------------
(***************************************************************************)
(* How SOS starts its first process: start_first_process and               *)
(* init_process_stack (sos/src/main.c), the ELF loader (sos/src/elf.c) and *)
(* map_frame (sos/src/mapping.c), which adds the paging structures that a  *)
(* mapping lacks.  Every step may fail for want of memory or of slots.     *)
(*                                                                         *)
(* Memory is a sequence of words; a page has PageWords of them.  A segment *)
(* is loaded one page a time, each such iteration being one action.        *)
(***************************************************************************)
EXTENDS Integers, Sequences, FiniteSets

CONSTANTS
  Programs,     \* executables: sequences of loadable segments
  PageWords,    \* PAGE_SIZE_4K
  MAPPING_SLOTS, \* 3
  PagingLevels, \* levels of paging structure below the global directory, 3
  TableFan,     \* entries of a paging structure
  NumFrames,    \* frames of the frame table
  StackPage, IpcPage  \* pages of the stack and of the IPC buffer

ASSUME ProcessStartAssumption ==
  /\ PageWords \in Nat \ {0} /\ TableFan \in Nat \ {0, 1}
  /\ MAPPING_SLOTS \in Nat /\ PagingLevels \in Nat /\ NumFrames \in Nat
  /\ StackPage \in Nat /\ IpcPage \in Nat /\ StackPage # IpcPage
  /\ \A p \in Programs : /\ p \in Seq([vaddr: Nat, msize: Nat, fsize: Nat])
                         /\ \A i \in DOMAIN p : p[i].fsize <= p[i].msize

VARIABLES
  pc,       \* the next step of start_first_process; "stopped": SOS has crashed
  prog,     \* the program to start
  seg,      \* the segment that is being loaded
  pos,      \* pos of load_segment_into_vspace
  tables,   \* paging structures of the new address space
  page,     \* page number -> frame mapped there, for the pages that are
  mem,      \* frame -> its words
  pool,     \* free frames of the frame table
  err,      \* what the last map_frame returned
  sp,       \* TRUE if init_process_stack returned a stack, not 0
  started,  \* TRUE once the thread has its registers and runs
  result    \* what start_first_process returned

psVars == <<pc, prog, seg, pos, tables, page, mem, pool, err, sp, started, result>>

Frames == 1 .. NumFrames
Own == {-1, -2}    \* the frames of the stack and the IPC buffer, from ut_alloc
Zero == <<0, 0>>
Unset == <<0, 1>>  \* what the memory held before
Word(s, w) ==      \* word w of the address space as segment s has it
  LET g == prog[s] IN IF w - g.vaddr < g.fsize THEN <<s, w - g.vaddr>> ELSE Zero
PageOf(w) == w \div PageWords
Within(s, w) == prog[s].vaddr <= w /\ w < prog[s].vaddr + prog[s].msize
Covers(s, p) == \E w \in p * PageWords .. (p * PageWords + PageWords - 1) : Within(s, w)

-----------------------------------------------------------------------------
PsInit ==
  /\ prog \in Programs
  /\ pc = "prepare" /\ seg = 1 /\ pos = 0
  /\ tables = {} /\ page = << >> /\ pool = Frames
  /\ mem = [f \in Frames |-> [i \in 0 .. PageWords - 1 |-> Unset]]
  /\ err = "ok" /\ sp = FALSE /\ started = FALSE /\ result = "none"

Return(r) == pc' = "done" /\ result' = r

\* The paging structures that cover page p, as <<level, index>>.
Structures(p) == {<<l, p \div (TableFan ^ l)>> : l \in 1 .. PagingLevels}

\* Of those, the n that the kernel misses first, from the largest level down.
Topmost(p, n) ==
  {t \in Structures(p) \ tables :
     Cardinality({u \in Structures(p) \ tables : u[1] > t[1]}) < n}

\* mutant: the loop runs once less.
MapResultShort(p, enough) ==
  LET missing == Cardinality(Structures(p) \ tables)
  IN  IF p \in DOMAIN page THEN "DeleteFirst"
      ELSE IF enough < missing /\ enough < MAPPING_SLOTS - 1 THEN "NoMemory"
      ELSE IF missing > MAPPING_SLOTS - 1 THEN "FailedLookup" ELSE "ok"

\* map_frame_impl: how it ends when there is memory and a slot for at most
\* enough paging structures.
MapResult(p, enough) ==
  LET missing == Cardinality(Structures(p) \ tables)
  IN  IF p \in DOMAIN page THEN "DeleteFirst"
      ELSE IF enough < missing /\ enough < MAPPING_SLOTS THEN "NoMemory"
      ELSE IF missing > MAPPING_SLOTS THEN "FailedLookup" ELSE "ok"

\* ... and what it leaves behind, whether it succeeds or not.
map_frame(p, f, enough) ==
  /\ err' = MapResult(p, enough)
  /\ tables' = tables \cup Topmost(p, IF enough < MAPPING_SLOTS THEN enough ELSE MAPPING_SLOTS)
  /\ page' = IF err' = "ok" THEN [q \in DOMAIN page \cup {p} |-> IF q = p THEN f ELSE page[q]]
             ELSE page

Supply == 0 .. PagingLevels

\* Address space, ASID, cspace, IPC buffer, endpoint, TCB, priority, cpio archive:
\* every one of them has its error return.
Prepare(ok) ==
  /\ pc = "prepare"
  /\ IF ok THEN pc' = "parse" /\ UNCHANGED result ELSE Return("false")
  /\ UNCHANGED <<prog, seg, pos, tables, page, mem, pool, err, sp, started>>

\* mutant: an executable that is not one is taken for loaded.
ParseAnyway(valid) ==
  /\ pc = "parse"
  /\ pc' = "start"
  /\ UNCHANGED <<prog, seg, pos, tables, page, mem, pool, err, sp, started, result>>

\* elf_newFile; return -1 from a function of type bool returns true.
Parse(valid) ==
  /\ pc = "parse"
  /\ IF valid THEN pc' = "stack" /\ UNCHANGED result ELSE Return("true")
  /\ UNCHANGED <<prog, seg, pos, tables, page, mem, pool, err, sp, started>>

\* init_process_stack without a frame or with an empty system call table goes on;
\* without the section of the table it reads through the null pointer.
StackFails ==
  /\ pc = "stack" /\ pc' \in {"load", "stopped"}
  /\ UNCHANGED <<prog, seg, pos, tables, page, mem, pool, err, sp, started, result>>

\* init_process_stack: the frame is mapped in the process, then in SOS, where it
\* may fail (local), to be written.
InitStack(enough, local) ==
  /\ pc = "stack" /\ pc' = "load"
  /\ map_frame(StackPage, -1, enough)
  /\ sp' = (err' = "ok" /\ local)
  /\ UNCHANGED <<prog, seg, pos, mem, pool, started, result>>

-----------------------------------------------------------------------------
(* load_segment_into_vspace, one iteration *)

Dst == prog[seg].vaddr + pos
Loading == pc = "load" /\ seg <= Len(prog) /\ pos < prog[seg].msize

\* mutant: file content is not cut off at the end of the file.
WrittenPast ==
  LET first == Dst % PageWords
  IN  [i \in 0 .. PageWords - 1 |-> IF i < first THEN Zero ELSE <<seg, pos + i - first>>]

\* What the iteration writes in the frame: zeroes before dst, then the file up to
\* its size or the end of the page, then zeroes.
Written ==
  LET first == Dst % PageWords
      left == prog[seg].fsize - pos
  IN  [i \in 0 .. PageWords - 1 |->
         IF i < first \/ i - first >= left THEN Zero ELSE <<seg, pos + i - first>>]

\* No slot, or no copy of the frame's capability: the frame is not given back.
LoadFails ==
  /\ Loading
  /\ Return("false")
  /\ \/ UNCHANGED pool
     \/ \E f \in pool : pool' = pool \ {f}
  /\ UNCHANGED <<prog, seg, pos, tables, page, mem, err, sp, started>>

\* No frame: alloc_frame asserts that there is one.
NoFrame ==
  /\ Loading
  /\ pc' = "stopped"
  /\ UNCHANGED <<prog, seg, pos, tables, page, mem, pool, err, sp, started, result>>

\* mutant: the frame goes back to the frame table though it is mapped.
BackMapped(f, e) == {f}

\* The frame goes back to the frame table if there is one mapped already.
Back(f, e) == IF e = "DeleteFirst" THEN {f} ELSE {}

LoadPage(enough) ==
  /\ Loading
  /\ \E f \in pool :
       /\ map_frame(PageOf(Dst), f, enough)
       /\ pool' = (pool \ {f}) \cup Back(f, err')
       /\ IF err' \in {"ok", "DeleteFirst"}
          THEN /\ mem' = [mem EXCEPT ![f] = Written]
               /\ pos' = pos + PageWords - (Dst % PageWords)
               /\ UNCHANGED <<pc, result>>
          ELSE Return("false") /\ UNCHANGED <<mem, pos>>
  /\ UNCHANGED <<prog, seg, sp, started>>

NextSegment ==
  /\ pc = "load" /\ seg <= Len(prog) /\ pos >= prog[seg].msize
  /\ seg' = seg + 1 /\ pos' = 0
  /\ UNCHANGED <<pc, prog, tables, page, mem, pool, err, sp, started, result>>

\* The IPC buffer is mapped once the image is.
MapIpcBuffer(enough) ==
  /\ pc = "load" /\ seg > Len(prog)
  /\ map_frame(IpcPage, -2, enough)
  /\ IF err' = "ok" THEN pc' = "start" /\ UNCHANGED result ELSE Return("false")
  /\ UNCHANGED <<prog, seg, pos, mem, pool, sp, started>>

Start(ok) ==
  /\ pc = "start"
  /\ started' = ok /\ Return(IF ok THEN "true" ELSE "false")
  /\ UNCHANGED <<prog, seg, pos, tables, page, mem, pool, err, sp>>

PsNext ==
  \/ \E ok \in BOOLEAN : Prepare(ok)
  \/ \E valid \in BOOLEAN : Parse(valid)
  \/ StackFails
  \/ \E n \in Supply, local \in BOOLEAN : InitStack(n, local)
  \/ LoadFails
  \/ NoFrame
  \/ \E n \in Supply : LoadPage(n)
  \/ NextSegment
  \/ \E n \in Supply : MapIpcBuffer(n)
  \/ \E ok \in BOOLEAN : Start(ok)

PsSpec == PsInit /\ [][PsNext]_psVars

-----------------------------------------------------------------------------
\* The word at address w of the new process.
At(w) == IF PageOf(w) \in DOMAIN page /\ page[PageOf(w)] \in Frames
         THEN mem[page[PageOf(w)]][w % PageWords] ELSE Unset

\* The first segment that has a word on a page.
FirstOn(p) == CHOOSE s \in DOMAIN prog : Covers(s, p) /\ \A r \in 1 .. s - 1 : ~Covers(r, p)

\* A process that runs has its whole image, up to pages that segments share: each
\* page is the first segment's that lies on it, its words in place, those beyond the
\* file zero, wherever the segment begins and ends in a page.
ImageInPlace ==
  started => \A s \in DOMAIN prog :
               \A w \in prog[s].vaddr .. (prog[s].vaddr + prog[s].msize - 1) :
                 FirstOn(PageOf(w)) = s => At(w) = Word(s, w)

\* "This occurs when segments overlap in the same frame, which is permitted by the
\* standard. That's fine as we leave all the frames mapped in [...] continue on to do
\* the write." (sos/src/elf.c:112-115): every segment is in place, shared pages too.
SharedPagesLoaded ==
  started => \A s \in DOMAIN prog :
               \A w \in prog[s].vaddr .. (prog[s].vaddr + prog[s].msize - 1) :
                 At(w) = Word(s, w)

\* The process never has a frame the frame table will give out again, nor one frame
\* in two places, whichever iteration found its page taken or failed: free_frame is
\* called only for frames that are nowhere mapped.
MappedFramesKept ==
  \A p \in DOMAIN page :
    /\ page[p] \notin pool
    /\ \A q \in DOMAIN page : page[q] = page[p] => q = p

\* map_frame is not left short of a level of paging structures: MAPPING_SLOTS
\* retries are enough for a mapping in an empty address space, where the last retry
\* is the one that maps the page.
RetriesEnough == err # "FailedLookup"

\* A thread is started only with its IPC buffer where its TCB has it and, if
\* init_process_stack came to its end, its stack: the image, loaded between the two,
\* has taken neither's place, and no mapping was given up for want of retries.
StartSound ==
  /\ RetriesEnough
  /\ started => /\ IpcPage \in DOMAIN page /\ page[IpcPage] = -2
                /\ sp => StackPage \in DOMAIN page /\ page[StackPage] = -1

\* "Start the first process, and return true if successful" (sos/src/main.c:247): a
\* process runs then, and has a stack.
TrueIfSuccessful == result = "true" => started /\ sp
=============================================================================
