------------------------------- MODULE Arenas -------------------------------
(***************************************************************************)
(* The two fixed regions SOS allocates from and never extends: the         *)
(* morecore area of its C library, taken from both ends by sys_brk and     *)
(* sys_mmap (sos/src/sys/morecore.c), and the DMA region, whose buffers    *)
(* the Ethernet driver shares with the device (sos/src/dma.c).             *)
(***************************************************************************)
EXTENDS Integers

CONSTANTS
  AreaStart, AreaSize,  \* morecore_area
  DmaStart, DmaSize,    \* pstart, and the large page behind it
  DMA_ALIGN_BITS,       \* 7
  CacheLine,            \* ARCH_DMA_MINALIGN
  Sizes, Aligns         \* what callers ask for

ASSUME ArenasAssumption ==
  /\ AreaStart \in Nat \ {0} /\ AreaSize \in Nat
  /\ DmaStart \in Nat \ {0} /\ DmaSize \in Nat /\ DmaStart % CacheLine = 0
  /\ DMA_ALIGN_BITS \in Nat \ {0} /\ CacheLine \in Nat \ {0}
  /\ Sizes \subseteq Nat \ {0}
  /\ \A a \in Aligns : a \in Nat \ {0} /\ a % CacheLine = 0

VARIABLES
  morecore_base, morecore_top,
  mappings,  \* what sys_mmap has given out: [from, to) pairs
  pnext,     \* dma.pnext
  buffers    \* what sos_dma_malloc has given out, likewise

arenaVars == <<morecore_base, morecore_top, mappings, pnext, buffers>>

AreaEnd == AreaStart + AreaSize
DmaEnd == DmaStart + DmaSize
RoundUp(n, b) == n + (IF n % b = 0 THEN 0 ELSE b - (n % b))

ArenaInit ==
  /\ morecore_base = AreaStart /\ morecore_top = AreaEnd
  /\ mappings = {}
  /\ pnext = DmaStart /\ buffers = {}

(* sys_brk; the break is also lowered, and refused changes nothing         *)
sys_brk(newbrk) ==
  /\ newbrk < morecore_top /\ newbrk > AreaStart
  /\ morecore_base' = newbrk
  /\ UNCHANGED <<morecore_top, mappings, pnext, buffers>>

(* mutant: the room is measured from the start of the area                 *)
RoomFromStart == morecore_top - AreaStart

Room == morecore_top - morecore_base

sys_mmap(length) ==
  /\ length <= Room
  /\ morecore_top' = morecore_top - length
  /\ mappings' = mappings \cup {<<morecore_top', morecore_top>>}
  /\ UNCHANGED <<morecore_base, pnext, buffers>>

(* mutant: only the fixed alignment is applied                             *)
AlignedAnyhow(align) == RoundUp(pnext, DMA_ALIGN_BITS)

Aligned(align) == RoundUp(RoundUp(pnext, DMA_ALIGN_BITS), align)

(* sos_dma_malloc; pnext stays aligned when the region is exhausted        *)
sos_dma_malloc(size, align) ==
  LET from == Aligned(align) IN
  /\ IF from + size >= DmaEnd
     THEN pnext' = from /\ UNCHANGED buffers
     ELSE pnext' = from + size /\ buffers' = buffers \cup {<<from, from + size>>}
  /\ UNCHANGED <<morecore_base, morecore_top, mappings>>

ArenaNext ==
  \/ \E newbrk \in AreaStart .. AreaEnd : sys_brk(newbrk)
  \/ \E length \in Sizes : sys_mmap(length)
  \/ pnext <= DmaEnd /\ \E size \in Sizes, align \in Aligns : sos_dma_malloc(size, align)

ArenaSpec == ArenaInit /\ [][ArenaNext]_arenaVars

-----------------------------------------------------------------------------
Apart(r, s) == r[2] <= s[1] \/ s[2] <= r[1]

(* No memory is given out twice, whatever the order of sys_brk, up or down,*)
(* and sys_mmap: the heap and the mappings lie apart, inside the area.     *)
(* DMA buffers lie inside their region and no two of them share a cache    *)
(* line, so that invalidating one never drops what was written to another. *)
ArenasApart ==
  /\ \A m \in mappings :
       /\ morecore_base <= m[1] /\ m[2] <= AreaEnd
       /\ \A n \in mappings : n # m => Apart(m, n)
  /\ \A b \in buffers :
       /\ DmaStart <= b[1] /\ b[2] <= DmaEnd
       /\ \A c \in buffers :
            c # b => Apart(<<b[1] \div CacheLine, (b[2] - 1) \div CacheLine + 1>>,
                           <<c[1] \div CacheLine, (c[2] - 1) \div CacheLine + 1>>)
=============================================================================
