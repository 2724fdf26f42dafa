--------------------------- MODULE MCKernelVSpace ---------------------------
(***************************************************************************)
(* The address spaces for TLC: one ASID pool on one of three machines, the *)
(* initial state choosing which.  On each the ASIDs, places in tables and  *)
(* addresses that a capability records can be given to others: to another  *)
(* root, to another page table, to another frame.                          *)
(***************************************************************************)
EXTENDS KernelVSpace, TLC

CONSTANTS root1, root2, dir1, tab1, tab2, frame1, frame2, large1

MCKind == [o \in Objects |->
             CASE o = BootPool           -> [kind |-> "pool", level |-> 0]
               [] o \in {root1, root2}    -> [kind |-> "table", level |-> Depth]
               [] o = dir1               -> [kind |-> "table", level |-> 2]
               [] o \in {tab1, tab2}      -> [kind |-> "table", level |-> 1]
               [] o \in {frame1, frame2}  -> [kind |-> "frame", level |-> 1]
               [] o = large1             -> [kind |-> "frame", level |-> 2]]

VARIABLE machine   \* the memory there is and the slots for its capabilities

Machines ==
  {[memory |-> {BootPool, root1, root2, dir1, large1}, slots |-> 4],
   [memory |-> {BootPool, root1, dir1, tab1, tab2, frame1}, slots |-> 6],
   [memory |-> {BootPool, root1, dir1, tab1, frame1, frame2}, slots |-> 6]}

Fits ==
  /\ \A c \in Held \cup {vtable} : c = NoCap \/ c.obj \in machine.memory
  /\ BagCardinality(caps) <= machine.slots

MCInit == Init /\ machine \in Machines /\ Fits

On(A) == A /\ UNCHANGED machine /\ Fits'

MCNext ==
  \/ On(RetypeAny) \/ On(MakeAnyPool) \/ On(AssignAny) \/ On(MapAnyTable)
  \/ On(MapAnyFrame) \/ On(RemapAny) \/ On(UnmapAnyTable) \/ On(UnmapAnyFrame)
  \/ On(CopyAny) \/ On(DeleteAny) \/ On(DeleteVTable) \/ On(SwitchAny) \/ On(WalkAny)

MCSpec == MCInit /\ [][MCNext]_<<vars, machine>>
=============================================================================
