----------------------------- MODULE MCThreads -----------------------------
(* Instances of LinuxThreads for TLC: what pthread_create passes to clone,  *)
(* and a clone without a TLS.                                               *)
EXTENDS LinuxThreads

MCFlagSets == {{"SETTLS", "SETTID", "CHILD_CLEARTID"}, {}}

MCPthread == {{"SETTLS", "SETTID", "CHILD_CLEARTID"}}

MCAny == {Bits}
=============================================================================
