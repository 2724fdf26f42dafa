---------------------------- MODULE MCKernelCaps ----------------------------
(* Three slots in the root CNode, which are interchangeable, and four      *)
(* units of memory.                                                        *)
EXTENDS KernelCaps, TLC
RootSymmetry == Permutations(Root)
=============================================================================
