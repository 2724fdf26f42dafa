--------------------------- MODULE MCIrqDispatch ----------------------------
(***************************************************************************)
(* Interrupt dispatch for TLC.                                             *)
(***************************************************************************)
EXTENDS IrqDispatch
=============================================================================
