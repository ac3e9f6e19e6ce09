----------------------------- MODULE MCFrameLoop -----------------------------
(***************************************************************************)
(* Three devices, one after the other, and four functions waiting.         *)
(***************************************************************************)
EXTENDS FrameLoop
=============================================================================
