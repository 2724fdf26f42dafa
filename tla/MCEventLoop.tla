---------------------------- MODULE MCEventLoop -----------------------------
(***************************************************************************)
(* The event loop for TLC.                                                 *)
(***************************************************************************)
EXTENDS EventLoop
=============================================================================
