------------------------------ MODULE MCHooks ------------------------------
(* Instances of CoreHooks for TLC.  The configuration picks the hooks; this *)
(* is what each of them is.                                                 *)
EXTENDS CoreHooks

MCKind ==
    [k \in Keys |-> CASE k = "intr" -> "intr"
                      [] k = "syscall" -> "insn"
                      [] k = "code" -> "trace"
                      [] k = "read" -> "mem"
                      [] k = "read_unmapped" -> "fault"]

(* The hook "reads" is registered with UC_HOOK_MEM_READ |                   *)
(* UC_HOOK_MEM_READ_UNMAPPED and so is on two lists.                        *)
MCKeysOf ==
    [h \in Hooks |-> CASE h \in {"code", "code2", "code3"} -> {"code"}
                       [] h = "intno3" -> {"intr"}
                       [] h = "insn" -> {"syscall"}
                       [] h = "reads" -> {"read", "read_unmapped"}]

(* code2 and reads watch address 1 only, the others everything (begin = 1,  *)
(* end = 0).                                                                *)
MCBegin == [h \in Hooks |-> 1]

MCEnd == [h \in Hooks |-> IF h \in {"code2", "reads"} THEN 1 ELSE 0]

MCNoIntno == -2

MCIntno == [h \in Hooks |-> IF h = "intno3" THEN 3 ELSE MCNoIntno]

(* An access of one byte outside address 1, and one of it. *)
MCEvents == {[addr |-> 0, size |-> 1, intno |-> 3],
             [addr |-> 1, size |-> 1, intno |-> 4]}
=============================================================================
