----------------------------- MODULE MCCortexM ------------------------------
(* Two external interrupts, one of them in the low bits that disabling an   *)
(* interrupt takes for its mask.                                            *)
EXTENDS CortexM

MCExceptions == {SVCALL, HARD_FAULT}
=============================================================================
