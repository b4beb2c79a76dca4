---------------------------- MODULE MCMultiTask -----------------------------
(* The instance of MultiTask for TLC is given by its constants. *)
EXTENDS MultiTask
=============================================================================
