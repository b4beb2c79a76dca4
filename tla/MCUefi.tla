------------------------------- MODULE MCUefi -------------------------------
(* A DXE module and an SMM module after it. *)
EXTENDS UefiEvents
CONSTANTS dxe, smm

MCModuleList == <<dxe, smm>>
=============================================================================
