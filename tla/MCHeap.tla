------------------------------- MODULE MCHeap -------------------------------
(* Instances of MemoryHeap for TLC: pages of four bytes, a heap of three or *)
(* four pages and the page of somebody else right behind it.                *)
EXTENDS MemoryHeap

MCForeign == EndAddress .. (EndAddress + 3)

MCNobody == {}
=============================================================================
