----------------------------- MODULE Allocator -----------------------------
(***************************************************************************)
(* What callers of a heap rely on (the malloc, HeapAlloc and AllocatePool  *)
(* handlers that hand its addresses to the emulated program): a block is   *)
(* large enough and shares no byte with another live block, and freeing    *)
(* ends one live block and disturbs no other.                              *)
(***************************************************************************)
EXTENDS Integers

CONSTANT Sizes     \* the sizes callers ask for

VARIABLE live      \* the blocks handed out and not freed

Block == [address : Nat, size : Nat]

Apart(b, c) ==
    b.address + b.size <= c.address \/ c.address + c.size <= b.address

Allocate(n) ==
    \E b \in live' :
        /\ b \in Block
        /\ b.size >= n
        /\ \A c \in live : Apart(b, c)
        /\ live' = live \cup {b}

Release(b) == live' = live \ {b}

Init == live = {}

Next == (\E n \in Sizes : Allocate(n)) \/ (\E b \in live : Release(b))

Spec == Init /\ [][Next]_live
=============================================================================
