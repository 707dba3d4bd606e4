---------------------------- MODULE MCBurnPaste ----------------------------
(* One note on a short clock: two failures lock it, for 1, 2, 2, ... seconds. *)
EXTENDS BurnPaste
=============================================================================
