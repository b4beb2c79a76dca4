------------------------------ MODULE MCPosix ------------------------------
(* Instances of PosixMemory for TLC. *)
EXTENDS PosixMemory

MCProts == {{"r", "exec"}}

(* An anonymous mapping, a file's, a fixed one of each kind, and an         *)
(* anonymous one that must not replace.                                     *)
MCFlags == {{"ANONYMOUS"}, {}, {"FIXED", "ANONYMOUS"}, {"FIXED", "SHARED"},
            {"NOREPLACE", "ANONYMOUS"}}

MCModes == {{"r"}}
=============================================================================
