--------------------------- MODULE FrameTableImpl ---------------------------
(***************************************************************************)
(* The lists of the frame table read off as sequences, to show that the    *)
(* table implements FramePool.                                             *)
(***************************************************************************)
EXTENDS FrameTable, Sequences

(* the frames of list l of table t, from first along next                  *)
ListSeq(t, l) ==
  LET walk[n \in 1 .. t.length[l]] ==
        IF n = 1 THEN t.first[l] ELSE t.next[walk[n - 1]]
  IN  walk

Pool == INSTANCE FramePool
  WITH free <- ListSeq(ft, FREE_LIST),
       live <- ListSeq(ft, ALLOCATED_LIST),
       made <- Cardinality(mapped)

(* The table, its lists walked from first along next, is a frame pool:     *)
(* last-freed-first-reused, allocated frames in order of allocation.       *)
ImplementsPool == Pool!PoolSpec
=============================================================================
