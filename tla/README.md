# Verification of SOS, the seL4 root server in projects/aos, and of its kernel

SOS is a single-threaded operating-system personality that runs as the root
server of seL4.  It owns all memory and all capabilities of the machine, boots
itself an allocator for each, starts a first process and then serves system
calls and interrupts from one event loop.  Paths below are relative to
`src/projects/aos/`, those of the kernel to `src/kernel/`.

The project models the bookkeeping of SOS and its loop, the drivers where they
share state with a device, and the three parts of the kernel that SOS leans on
with every call.

| part | code | module | modelled | proved in |
|---|---|---|---|---|
| frame table | `sos/src/frame_table.c` | `FrameTable`, `FramePool`, `FrameTableImpl` | all | `FrameTableProofs`, `FramePoolProofs` |
| cspace slot allocator | `libsel4cspace/src/cspace.c` | `CSpace` | allocation and freeing | `CSpaceProofs` |
| untyped manager | `sos/src/ut.c` | `UtTable` | all | `MemoryProofs` |
| fixed memory regions | `sos/src/sys/morecore.c`, `sos/src/dma.c` | `Arenas` | all | `MemoryProofs` |
| interrupt dispatch | `sos/src/irq.c` | `IrqDispatch` | all | `EventLoopProofs` |
| event loop, system calls | `sos/rusos/src/lib.rs` | `EventLoop` | all | `EventLoopProofs` |
| network glue, watchdog | `sos/src/network.c`, `libclock/include/clock/watchdog.h` | `EventLoop` | as the loop runs it | `EventLoopProofs` |
| start of the first process | `sos/src/main.c`, `elf.c`, `mapping.c` | `ProcessStart` | from `start_first_process` on | `ProcessStartProofs` |
| Ethernet descriptor rings | `libethernet/src/uboot/designware.c` | `EthernetRing` | send, receive, free | `DriverProofs` |
| time stamp | `libclock/src/device.c` | `Timestamp` | all | `DriverProofs` |
| kernel: threads and IPC | `src/object/{endpoint,notification,tcb,interrupt}.c`, `src/kernel/thread.c`, `src/api/syscall.c` | `KernelIpc` | without message contents | - |
| kernel: capabilities | `src/object/{cnode,untyped,objecttype}.c` | `KernelCaps` | three kinds of object | - |
| kernel: address spaces | `src/arch/arm/64/kernel/vspace.c` | `KernelVSpace` | without cache operations | - |

## Inventory

**Memory.**  The untyped manager (`ut.c`) keeps a free list per object size.
`ut_alloc` takes the smallest block that is large enough and halves it by
recursion.  Each half needs a `ut_t` structure and a cslot, so an allocation
may itself take 4K untypeds, for a page of structures and for the cspace.  The
frame table (`frame_table.c`) turns 4K untypeds into mapped frames.  A frame is
an array entry on one of two doubly linked lists; the array grows by a mapped
page at a time.  Hard behaviours: failures half way, exhaustion, long mixes of
allocations and frees.

**Capability slots.**  `cspace.c` allocates slots of a two-level cspace with a
bitfield over the second-level cnodes and one per cnode.  Bookkeeping for new
cnodes lives in frames that have to be mapped, which needs slots when there are
none.  A *watermark* of spare slots breaks the circle, and is refilled by a
nested `cspace_alloc_slot`.  Hard behaviours: the nesting, exhaustion of
untypeds or spare slots on the way, the last slot of a cnode.

**Interrupts.**  `irq.c` gives every line a bit of the badge of one
notification.  `sos_handle_irq_notification` runs a callback per bit; a line
stays masked until its callback acknowledges it.  Hard behaviours: interrupts
between receiving and acknowledging, callbacks that fail.

**Event loop.**  `syscall_loop` in `rusos` waits in `seL4_Recv` for a badge.  A
notification goes to `irq.c`, a system call to `handle_syscall`, which saves
the reply cap in a fresh slot, and a fault stops SOS.  The callbacks of the
network device and of the watchdog drive the IP stack.  Hard behaviours: lost
wake-ups, starvation of clients, message registers overwritten by nested kernel
calls, reply slots running out.

**Start-up.**  `bootstrap.c` sizes, steals and wires up the memory of the first
cnodes and of the untyped table; `main.c` brings up the devices and loads the
first process with `elf.c`, `mapping.c` and the frame table.  `dma.c` and
`sys/morecore.c` are bump allocators.

**Drivers and libraries.**  `libethernet` (descriptor rings from U-Boot, shared
with the device through cached memory), `libserial` (a UDP socket), `libclock`
(stubs and a time stamp read in two halves), `libsosapi` (stubs), client
programs, Rust support crates.  picotcp, libnfs, libelf, libcpio and musl are
external.

**Kernel.**  A kernel entry is atomic, but what it leaves behind is met by every
later one: threads in queues and reply caps in slots, capabilities in one
derivation list that revocation and deletion rely on, and mapping information
that is kept twice, in capabilities and in tables.  Long operations return at
preemption points and are restarted on whatever the others have made of the
state.  Hard behaviours: woken threads pushing each other out of the scheduler,
stale reply caps, CNodes that contain each other, capabilities that outlive
what they record, ASIDs used again.

## Modules

Each action is one call of the C function from its first line to its return,
nested calls included: SOS has one thread.  The exceptions are in `UtTable`,
where each return of the recursion is a step, and in `IrqDispatch`,
`EventLoop`, `EthernetRing` and `Timestamp`, where devices and the kernel act
between the steps of the code.  In the modules of the kernel an action is a
kernel entry.
Definitions whose comment starts with *mutant* are deliberately wrong versions
of the definition below them; they are not part of the specifications and show
that the properties can fail.

### FrameTable and FramePool

The record `ft` is the C struct together with the `prev`, `next` and `list_id`
fields of the array.  `PushFront`, `PushBack`, `PopFront` and `RemoveFrame` map
a table to a table; the asserts each one runs are a predicate beside it.
`alloc_frame` is split by how it ends: `AllocFree` (an entry of the free list),
`AllocFresh` (a new entry, after `bump_capacity` if the array is full),
`AllocNoRoom` (the array cannot grow) and `AllocNoFrame` (the page of the entry
cannot be mapped, and `used` is taken back).  `FreeFrame` is `free_frame`.
`UtTraffic` is the rest of SOS taking and returning untypeds.  A mapping is its
outcome and the untypeds it sinks in page tables and cnodes, at most `MaxSide`.

`FramePool` is what callers are promised: a frame is given to one holder, a
freed frame is the next one reused, new frames appear in order.
`ImplementsPool`, in `FrameTableImpl`, states that the table implements it when
its lists are read off along their links.

### CSpace

`bits` are the bits set in the cnodes' bitfields, `full` those of `top_bf`,
`nodes` and `cnodes` the counters, `watermark` the spare slots.  The initial
state is the end of `sos_bootstrap`, with its quirk: of the cnodes filled at
boot it records, in the bitfields, only the first of each node, because the
inner loop shadows the variable that names the cnode.  `cspace_alloc_slot` is
split by what it finds: a cnode with room (`AllocSlot`), a missing cnode
(`AllocNewCnode`), a missing node (`AllocNewNode(p)`, whose mapping lacks `p`
paging structures), the failures of the retypes and the mapping
(`CnodeRetypeFails`, `NodeRetypeFails`, `NodeMapFails`, and `NodeWithoutCnode(p)`,
where the node is made and its first cnode is not), no untyped (`NoUntyped`) and
no cnode left (`AllocFull`).  A call that fails leaves without the refill, so
that the slots it used stay used.  `UtsChange` is the rest of SOS.

### UtTable

A block is a page, a level and an offset, so overlap is visible.  `UtAlloc`
descends to the smallest size with a free block; `Split(grow, outcome)` is one
return of the recursion, ending in one of five ways; `SplitNoStructures` is the
failure of `ensure_new_structures`.  `gone` holds the pages that left for good.

### IrqDispatch

`handler` and `allocated` are the table and the bitfield; `latched`, `masked`
and `word` are the kernel's and the device's side of a line: interrupt pending,
waiting for an acknowledgement, bits of the notification (`Deliver` and
`AckLine` are the kernel's `handleInterrupt` and `invokeIRQHandler_AckIRQ`).
`Register` and `RegisterFails` are `sos_register_irq_handler`; `RecvIrq` starts
the handling of a notification and `CallbackAcks`, `CallbackReturns` and
`CallbackFails` are the steps of the loop over its bits.  With all bits given
out `bf_first_free` reads the word behind the bitfield and asserts that it is not
all ones: `RegisterFails` then either returns or ends in the stage `assert`.

### EventLoop

Extends `IrqDispatch` with the callbacks of `network.c` in place of the general
ones, the watchdog, the receive ring of the device, and the clients.
`network_irq` is three steps (`NetClear`, `NetAck`, `NetTick`) and
`network_tick` two (`WdogTick`, `WdogAck`), since packets and interrupts come
between them.  `RecvSyscall(lookupFailed)` is `handle_syscall`: the system call
number is read from the message registers after `cspace_alloc_slot`, which may
have made kernel calls of its own and leaves 0 there when its last failed
lookup was reported.

### ProcessStart

`start_first_process` from its first line to its return, in steps: the
preparations (`Prepare`), `elf_newFile` (`Parse`), `init_process_stack`
(`InitStack`, `StackFails`), one `LoadPage` per iteration of
`load_segment_into_vspace` (`LoadFails` without a slot or a copy, `NoFrame` where
`alloc_frame` stops SOS), the IPC buffer and the registers (`Start`).  `result`
is what the caller sees, with the -1 of `main.c:340` as the true it becomes.
`map_frame` is what it leaves behind when there is memory and a slot for at
most `enough` paging structures: those it added stay, also when it fails.
Memory is words that name where in the file they come from, so that a property
can say that the image is in place.

### EthernetRing

One specification for each ring, over the same variables: `ram` is what the
device sees, `cached` and `dirty` what the processor's cache holds.  The steps of
`_dw_eth_recv`, `_dw_free_pkt` and `_dw_eth_send` invalidate, read, write and
flush; between any two of them the device acts and the cache fetches (`Fetch`)
or evicts (`Evict`) any line.  `queue` is what one side has handed over and the
other not yet taken.  Device and cache are external.

### Arenas and Timestamp

`Arenas` has the two regions that are only ever taken from: the morecore area,
from both ends (`sys_brk`, `sys_mmap`), and the DMA region (`sos_dma_malloc`).
`Timestamp` is `read_timestamp` with the counter running between its reads.

### KernelIpc

The state is one record, and an operator named as a C function maps the state
to the one the function leaves.  An action is an entry: a system call
(`SysSend`, `SysCall`, `SysRecv`, `SysReply`, `SysReplyRecv`, `SysWait`,
`SysYield`, `SysSignal`), an invocation on a TCB, an interrupt line, an endpoint
or a saved reply cap, a fault, an interrupt or a timer tick; each ends in
`Exit`: `schedule` and `activateThread`.  The badge of a message is its sender.

### KernelCaps

Addresses are numbers, so that objects lie in the memory of their untyped and
CNodes have their slots there.  The state holds the capability of every slot and
the derivation list.  Operators that reach a preemption point return the set of
their outcomes; a preempted operation leaves its state to the others and may or
may not be called again.  `dirty` is a ghost: memory written since it was
cleared.

### KernelVSpace

Tables and pages by level, capabilities with the ASID and address they record
(the address is taken for 0 where the ASID is none), the ASID table, the TLB
and the translation root.  Which slot a capability is in does not matter here,
so that they form a bag; the one in the VTable of the running thread is apart.
The code that is the same for each level is one definition.  `Remap` writes a
page again at the place its capability records, whatever is there by now.  `Walk`
is the processor filling its TLB (external); `Switch` runs another thread.

## Runs

| run | checks | shows |
|---|---|---|
| `frame_table_null` | `AllocFailureReturns` | violated: without memory `alloc_frame` stops SOS in an assert instead of returning NULL |
| `sos_parts`, frame table | `AssertsHold`, `ListsWellFormed`, `HeldAreAllocated`, `FramesAccounted`, `ImplementsPool` | the lists stay sound through all mixes of allocations, frees and failures, and behave as a pool |
| `sos_parts`, cspace | `SlotsAccounted`, `CnodesConsistent`, `ReusesBeforeGrowing` | a slot has one owner, the two levels agree, no cnode is made while one offers a slot |
| `sos_parts`, untypeds | `MemoryPartitioned`, `SplitsOnlyIfNeeded` | blocks never overlap and none disappears, whatever fails; splits make the size asked for |
| `sos_parts`, interrupts | `IrqsKept`, `EveryIrqHandled` | interrupts of lines before a failing one are never forgotten and are handled |
| `sos_parts`, first process | `ImageInPlace`, `MappedFramesKept`, `StartSound` | pages hold what the first segment on them has, no mapped frame is given out again, three retries are enough for IPC buffer and stack |
| `sos_parts`, regions, time | `ArenasApart`, `TimestampTrue` | no memory is given out twice, no two DMA buffers share a cache line; a time stamp is one the counter had |
| `cspace_watermark` | `WatermarkFree` | violated: `refill_watermark` refills one slot of those used |
| `irq_dispatch_failing` | `AllBitsChecked` | violated: a callback that returns an error leaves higher bits unchecked and their lines masked |
| `start_true` | `TrueIfSuccessful` | violated: `start_first_process` returns true for an executable it could not parse |
| `elf_shared_page` | `SharedPagesLoaded` | violated: what a second segment has on a shared page is written to a freed frame |
| `network`, event loop | `WakeupsKept`, `RepliesRight`, `RingDrains`, `CallsReceived` | no wake-up is lost, full rings drain, replies reach their callers while there are reply slots, calls are received |
| `network`, rings | `RxInOrder`, `TxInOrder`, `RingsMove` | packets pass in order and whole, whatever the cache does, and do not get stuck |
| `event_loop_one` | `NoReplyToOne` | violated: a call with number 1 can be answered |
| `kernel_ipc` | `NoKernelFailure`, `QueuesMatchThreads`, `SchedulerRight`, `ReplyCapsValid`, `NoSignalLost`, `RoundRobin` | no assertion of the kernel fails, queues and threads agree, no runnable thread is lost, reply caps name waiting callers, signals are kept, round robin is fair |
| `kernel_stale_fault` | `SendsAreNotFaults` | violated: a fault whose message was cancelled turns a later send into a fault message |
| `kernel_caps` | `NoCapFailure`, `MdbWellFormed`, `RevokeReaches`, `FinalExact`, `MemoryOneUse`, `FreeIsClean`, `PreemptedProgress` | revocation and deletion find every capability, memory has one use at a time, and restarted operations come to an end |
| `kernel_vspace` | `WalksReachOwned`, `TranslationsCurrent`, `NoStrayUnmap` | a walk ends only in memory somebody holds and recorded, nothing stale is cached or run on (but for Remap over a table, below), a stale capability takes no mapping from others |

`sos_parts` (module `MCSos`) puts the parts of SOS that share no variables side
by side: the initial state chooses the part, and a behaviour is one of that part.
`network` (module `MCNetwork`) does so with the event loop and the two rings.
Several properties are conjunctions named for what they say together; their
conjuncts are defined above them, and the type invariant of a module is one of
them.

**Bounds.**  Frame table: a page of three entries and a limit of seven, so
that the array grows twice and ends at a limit that is no multiple of the page;
ten untypeds, so that memory also runs out first.  Cspace: cnodes of four
slots (the fewest in which the last slot, the slot asked for and the refill
differ), two cnodes per node, seven cnodes (one node half used), boot ending in
the third cnode, two spare slots for mappings, so that a mapping may use none,
some or all of them, and at most four untypeds at a time.  Untypeds: three
sizes, so that the recursion has a middle, and three structures per page, so that one is left over
when two are needed.  Interrupts: three lines and bits, one callback that
fails.  First process: pages of two words and executables of one or two
segments that begin and end anywhere in a page, with and without a shared page;
a paging structure has two entries, so that stack, image and IPC buffer share
some levels.  Rings: two descriptors (one is in use while the other is handed
over, and indices wrap) and two packets, which is enough to tell a stale one.
Regions: cache lines of four, sizes below and above a line, a fixed alignment
of three that is no power of two, as 7 is none.  Time stamp: halves of two bits,
every starting value up to four wrap-arounds.  `network`: a ring
of two with one packet to a tick, so that a tick leaves a packet behind, and three clients with one reply slot, so that
slots run out, slot 0 is used and a third client still calls.  `kernel_ipc`: the
root server and two clients, two priorities in one bitmap word, one object of
each kind, one slot for a saved reply cap.  `kernel_caps`: an untyped of four
slots, three slots outside it and four capabilities at a time, enough for a
CNode that holds a capability to itself or to the next; a larger instance was
checked once (454,723 states).  `kernel_vspace`: three levels, an ASID pool of
three and three machines, each with what it takes for a capability to outlive
what it records: two roots and a large page (the ASID and the directory go to
another root), two page tables (the place in the directory goes to another
table), two frames (the address goes to another frame); up to six capabilities
besides the running thread's.  Together 423,609 states.  None of them has both a
page table and a large page, which is what a Remap that is not flushed needs.

**Fairness.**  The kernel delivers a pending interrupt of an unmasked line, and
the watchdog counts down (weak fairness).  SOS is the thread of highest
priority and its handlers do not block, so the loop goes on (weak fairness).
`seL4_Recv` returns a waiting caller when no notification is pending; the
notification comes and goes, so this is strong fairness.  It prefers the
notification, so under a storm of interrupts clients can starve:
`CallsReceived` assumes that the loop finds no notification again and again.
In the rings the driver finishes a call it has begun and the stack polls for
received packets again and again (`RingDrains` is about that), and the device
goes through its descriptors while it is not suspended; nothing is assumed of
new packets or of the cache.  In the kernel the timer keeps ticking; nothing is
assumed of any thread.

**Deadlock** is checked in every run that passes; `Stopped` names the ends that
a part of SOS may come to (an assert failed, a client's fault made it abort, the
first process runs, a region is used up).

## Proofs

TLC checks the instances above; the theorems hold for every value of the
constants that the named assumptions allow.  Every safety property of SOS
and its drivers that the passing runs check is proved.

| module | theorems | for every |
|---|---|---|
| `FrameTableProofs` | `NoAssertFails`, `ListsStayWellFormed`, `NoFrameHeldTwice`, `FramesBacked` | number of untypeds, page size, limit but 1 |
| `FramePoolProofs` | `TableImplementsPool` | the same |
| `CSpaceProofs` | `SlotsStayAccounted`, `CnodesStayConsistent`, `SlotsAreReused` | size of cnodes and nodes, number of cnodes, boot slots |
| `MemoryProofs` | `MemoryStaysPartitioned`, `UtSplitsOnlyIfNeeded` | number of pages and sizes |
| | `RegionsApart` | regions, sizes and alignments that are multiples of a cache line |
| `EventLoopProofs` | `IrqsStayKept` | lines, bits, failing callbacks |
| | `WakeupsStayKept`, `RepliesStayRight` | ring, packets to a tick, clients, reply slots |
| `ProcessStartProofs` | `MappedFramesStayKept`, `StartStaysSound`, `ImageStaysInPlace` | programs, page size, frames |
| `DriverProofs` | `PacketsReceivedInOrder`, `PacketsSentInOrder` | number of descriptors, packets |
| | `TimestampReads`, `TimesGrow` | width of the halves |

**Assumptions.**  Each module of the system names what it assumes of its
constants (`FrameTableAssumption`, `CSpaceAssumption`, ...), and TLC
evaluates the assumptions in every run.  Beyond types and distinctness they say:
a page of the frame table holds at least two entries; cnodes have at least four
slots, and the boot slots end with room for a refill in their cnode; alignments
asked of `sos_dma_malloc` are multiples of a cache line; a segment has no more
bytes in the file than in memory.
`PowersOfTwo` and a conjunct of `TimestampAssumption` state arithmetic of
exponents that the provers do not know.  Some theorems have a hypothesis:

- `FrameLimit # 1` for the frame table: with a limit of one the array holds the
  sentinel only, and the first allocation claims an entry beyond it.
- `PagingLevels <= MAPPING_SLOTS` for `StartStaysSound`: `map_frame` retries
  `MAPPING_SLOTS` times, 3 in `cspace.h:37`, one for each level below the top.
- `StackClear` for `ImageStaysInPlace`: no program has a word on the page of
  the stack, which is mapped before the program is loaded.

### The arguments

Each component has an inductive invariant, one lemma per action that the action
keeps it, and theorems that combine them.  What the invariants add to the
properties is the reason for which the properties hold.

- **FrameTable** (`IInv`).  Removing from the middle of a list keeps it acyclic
  and counted only if every entry's neighbours point back at it, if the ends of
  a list have no neighbour outside, if every entry with a list id is below
  `used`, and if loose entries have no links; `WellFormed` says so.  Acyclicity
  is stated without paths: every nonempty set of entries has one whose
  successor lies outside it.  Each list operation changes the successor of at
  most two entries, so a set without such an entry after it would give one
  before it.
- **FramePool**.  The mapping walks a list from `first` along `next`.  From
  `WellFormed` it follows that the walk meets the entries of the list and each
  once (a set left out would have no entry whose successor is outside it), and
  what each list operation does to the walk: one entry in front, at the end or
  taken out.  Every step of the table is then a step of the pool or a stutter.
- **CSpace** (`CSpaceIInv`).  The slot that `cspace_alloc_slot` takes is free
  because no bit is set for it; that it is inside its cnode, and that the slot
  after it exists for a refill, needs `LastUnused` (a cnode counts as full one
  slot early) and `BootMade` (the cnodes of the boot slots exist).
- **UtTable** (`UtIInv`).  Free lists, blocks held, the block being split and
  blocks gone are a division of the memory; `SplitNeeded` says which block the
  recursion is at and that the lists below it are empty.
- **Arenas** (`ArenaIInv`).  Where the old ranges lie, below `pnext` and above
  `morecore_top`.
- **IrqDispatch** (`DispatchIInv`).  Only registered lines are masked, and a
  line that fires again between its acknowledgement and the end of its callback
  has its bit in the word once more.
- **EventLoop** (`NetIInv`, `IpcIInv`).  `StatusSeen` and `WdogRestarted` say why
  the next wake-up is on its way at the points inside a callback where neither
  line is latched; `Callers` that a caller is in the endpoint once.
- **ProcessStart** (`MapIInv`, `ImageIInv`).  What is mapped at each stage and
  why (`MappedFor`), and what has been loaded when the loader is at an address
  of a segment (`Loaded`).
- **EthernetRing** (`RxIInv`, `TxIInv`).  Where in the ring the packets handed
  over are, and what the cache has of the lines that the driver is about to
  read or has written.  An eviction may hand a descriptor over before the flush
  does; `RxBase`, `TxEnd` and `Pending` say on which side of that moment one is.
- **Timestamp** (`TimeIInv`).  What the halves read so far are halves of.

### Only model-checked

- Liveness (`EveryIrqHandled`, `RingsMove`, `RingDrains`, `CallsReceived`,
  `RoundRobin`, `PreemptedProgress`): temporal properties under fairness are out
  of the prover's reach.
- `KernelIpc`: an entry is one action but many C functions over one record, and
  its invariants hold only at the end of an entry; a proof would need a weaker
  one for every call in between.
- `KernelCaps`: revocation, deletion and the zombies of CNodes are recursive
  operators over sets of outcomes, and the prover has neither recursive
  operators nor induction over what they compute.
- `KernelVSpace`: `WalksReachOwned`, `TranslationsCurrent` and `NoStrayUnmap` are
  about bags of capabilities and walks of any depth, whose cardinalities and
  paths would need induction again.
- The properties that the code violates.

## Disagreements with comments and headers

Shown by a run: the seven violated properties above.  Plain from the code and
without a run of their own:

- The last slot of each cnode made after boot is never handed out: `cspace.c:358`
  marks a cnode full when one slot is left, while the comment above it asks for
  "any free slots left" and `cspace.h:162` counts every slot.
  `ReusesBeforeGrowing` takes full as the code marks it, and the proof of the
  cspace has the unused slot as a conjunct of its invariant (`LastUnused`).
- `bootstrap.c:142` dereferences the untyped before `cspace.c` can check it for
  NULL, while `cspace.h:203` lets the callback return NULL (`NoUntyped`).
- `irq.c:90` tests the first slot again after allocating the second, so that
  the notification can be minted into slot 0, which `bootstrap.c:274-275` wants
  empty (`nullcap` in `IrqDispatch`).
- `rusos/src/lib.rs:78` uses the slot without a check: with none left the reply
  cap goes to slot 0 (`null` in `EventLoop`).

- `dma.c:29`: `DMA_ALIGN_BITS` is 7, "128", but `ROUND_UP` takes a multiple and
  not a number of bits, so that `DMA_ALIGN` rounds to a multiple of 7.
  `ArenasApart` holds because every caller asks for a cache line.
- `vspace.c:1509` and `1526` decide whether Remap has to flush the TLB by the
  page bit of the entry alone.  A large page that is remapped over a page table,
  mapped there since, leaves the small pages of the table in the TLB.
  `TranslationsCurrent` says so and is checked without that combination.

## Not modelled

What the project covers is a small share of the repository's lines, and most of
the rest is out of its reach or has nothing in it to check:

- **Vendored libraries**: musl, picotcp, libnfs, libelf, libcpio, and the
  libraries of the seL4 distribution.  They are most of the repository.  SOS uses
  them through a handful of calls, and those appear in the models by what they do.
- **Other builds of the kernel**: the code for x86, RISC-V and 32-bit ARM, for
  several cores, for hypervisors, for other boards; boot code; the elfloader;
  generated bit-field code; build tools.  SOS runs on one core of one aarch64 board.
- **In the kernel that SOS runs on**: the fastpath (an optimisation of calls and
  replies that `KernelIpc` has in their slow form), message contents and the
  transfer of capabilities, registers, domains, debugging; cache
  operations, access rights and attributes; device untypeds (the branch of
  `resetUntypedCap` that does not clear them included), and TCBs as containers
  of slots.
- **In SOS**: creation and destruction of cspaces (`cspace.c:158-327`), a
  straight line whose error returns leak what came before them; the arithmetic
  of `bootstrap.c`, which runs once on one memory map; `serial_send`, whose
  result the IP stack decides; initialisation of MAC and PHY; console output;
  `main_continued`, which runs the initialisers in order.
- **Without state or behaviour**: the stubs of `libsosapi` and `clock.c`, client
  programs, printing, headers, Rust support crates.
