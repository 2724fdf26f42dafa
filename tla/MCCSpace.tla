------------------------------ MODULE MCCSpace ------------------------------
(***************************************************************************)
(* The slot allocator for TLC: one spare slot for mappings, cnodes of few  *)
(* slots, and as many cnodes as let every kind of growth happen twice.     *)
(***************************************************************************)
EXTENDS CSpace
=============================================================================
