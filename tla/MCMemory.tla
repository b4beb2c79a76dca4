------------------------------ MODULE MCMemory ------------------------------
(* An instance of MemoryManager for TLC: an address space of two pages of   *)
(* two bytes, so that ranges may be unaligned.                              *)
EXTENDS MemoryManager

(* A plain mask and one with a bit Unicorn does not know (PROT_GROWSDOWN). *)
MCProts == {UC_PROT_ALL, {"r", "g"}}

(* A range with a callback for writes only, which Unicorn lets the guest    *)
(* read as well.                                                            *)
MCCallbacks == {{"w"}}
=============================================================================
