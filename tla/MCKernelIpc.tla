---------------------------- MODULE MCKernelIpc -----------------------------
(* The root server and two clients.                                        *)
EXTENDS KernelIpc
CONSTANTS root, a, b, e1
MCFaultEp == [t \in Threads |-> IF t = b THEN e1 ELSE None]
=============================================================================
