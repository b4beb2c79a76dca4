----------------------------- MODULE MCWindows -----------------------------
(* The instance of WindowsThreads for TLC is given by its constants. *)
EXTENDS WindowsThreads
=============================================================================
