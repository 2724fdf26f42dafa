---------------------------- MODULE MCFrameTable ----------------------------
(* The frame table and its refinement mapping, for TLC.                    *)
EXTENDS FrameTableImpl
=============================================================================
