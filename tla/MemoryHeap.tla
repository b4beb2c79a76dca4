----------------------------- MODULE MemoryHeap -----------------------------
(***************************************************************************)
(* QlMemoryHeap (qiling/os/memory.py): the bump allocator with recycling   *)
(* that the Windows, UEFI, macOS and blob loaders give to the emulated     *)
(* program.  The memory manager is reduced to the set of mapped addresses, *)
(* some of which belong to others (Foreign).                               *)
(***************************************************************************)
EXTENDS Integers, Sequences

CONSTANTS
    PageSize,       \* ql.mem.pagesize
    StartAddress,   \* self.start_address
    EndAddress,     \* self.end_address
    Foreign,        \* addresses mapped by others
    Sizes,          \* the sizes callers ask for
    MaxChunks       \* bound on the number of chunks

ASSUME HeapAssumption ==
    /\ PageSize \in Nat \ {0}
    /\ StartAddress \in Nat /\ EndAddress \in Nat
    /\ StartAddress % PageSize = 0
    /\ Foreign \subseteq Nat
    /\ Sizes \subseteq Nat
    /\ MaxChunks \in Nat

VARIABLES
    chunks,         \* self.chunks, in order of creation
    current_alloc,  \* bytes mapped for the heap
    current_use,    \* bytes used for chunks
    mem_alloc,      \* self.mem_alloc: the regions mapped for the heap
    mapped,         \* the addresses mapped in ql.mem
    saved,          \* the last saved state, {} before the first save
    ret             \* what the last call returned: an address, True (1),
                    \* False (0), or that it raised

vars == <<chunks, current_alloc, current_use, mem_alloc, mapped, saved, ret>>

Chunk == [address : Nat, size : Nat, inuse : BOOLEAN]

(* QlMemoryMappedError was raised. *)
MappedError == -1

Bytes(a, n) == a .. (a + n - 1)

align_up(v) == ((v + PageSize - 1) \div PageSize) * PageSize

-----------------------------------------------------------------------------
(* Mutant: any free chunk may be recycled. *)
AnyFree(n) == {i \in DOMAIN chunks : ~ chunks[i].inuse}

Recyclable(n) == {i \in DOMAIN chunks : ~ chunks[i].inuse /\ chunks[i].size >= n}

(* min over the list by size: the first of the smallest. *)
BestFit(n) ==
    {i \in Recyclable(n) :
        \A j \in Recyclable(n) :
            \/ chunks[i].size < chunks[j].size
            \/ chunks[i].size = chunks[j].size /\ i <= j}

Recycle(n) ==
    \E i \in BestFit(n) :
        /\ chunks' = [chunks EXCEPT ![i].inuse = TRUE]
        /\ ret' = chunks[i].address
        /\ UNCHANGED <<current_alloc, current_use, mem_alloc, mapped>>

(* Mutant: the chunk is not counted in the memory in use. *)
AppendUncounted(n) ==
    /\ chunks' = Append(chunks, [address |-> StartAddress + current_use,
                                 size |-> n, inuse |-> TRUE])
    /\ ret' = StartAddress + current_use
    /\ UNCHANGED current_use

AppendChunk(n) ==
    /\ chunks' = Append(chunks, [address |-> StartAddress + current_use,
                                 size |-> n, inuse |-> TRUE])
    /\ current_use' = current_use + n
    /\ ret' = StartAddress + current_use

(* Mutant: the size of the request is left out of the test. *)
ExceedsIgnoringSize(n) == current_use > current_alloc

Exceeds(n) == current_use + n > current_alloc

(* The upper bound is tested against the memory in use, the new region is   *)
(* placed after the memory allocated.                                       *)
Grow(n) ==
    LET real == align_up(n)
        base == StartAddress + current_alloc
    IN  \/ /\ StartAddress + current_use + real > EndAddress
           /\ ret' = 0
           /\ UNCHANGED <<chunks, current_alloc, current_use, mem_alloc, mapped>>
        \/ /\ StartAddress + current_use + real <= EndAddress
           /\ Bytes(base, real) \cap mapped # {}
           /\ ret' = MappedError
           /\ UNCHANGED <<chunks, current_alloc, current_use, mem_alloc, mapped>>
        \/ /\ StartAddress + current_use + real <= EndAddress
           /\ Bytes(base, real) \cap mapped = {}
           /\ mapped' = mapped \cup Bytes(base, real)
           /\ mem_alloc' = Append(mem_alloc, [address |-> base, size |-> real])
           /\ current_alloc' = current_alloc + real
           /\ AppendChunk(n)

alloc(n) ==
    /\ \/ Recycle(n)
       \/ /\ Recyclable(n) = {}
          /\ Len(chunks) < MaxChunks
          /\ Exceeds(n)
          /\ Grow(n)
       \/ /\ Recyclable(n) = {}
          /\ Len(chunks) < MaxChunks
          /\ ~ Exceeds(n)
          /\ AppendChunk(n)
          /\ UNCHANGED <<current_alloc, mem_alloc, mapped>>
    /\ UNCHANGED saved

-----------------------------------------------------------------------------
(* _find(addr, inuse=True): the first chunk in use at the address. *)
Find(a) ==
    {i \in DOMAIN chunks :
        /\ chunks[i].address = a /\ chunks[i].inuse
        /\ \A j \in 1 .. i - 1 : ~ (chunks[j].address = a /\ chunks[j].inuse)}

free(a) ==
    /\ \/ /\ Find(a) = {}
          /\ ret' = 0
          /\ UNCHANGED chunks
       \/ \E i \in Find(a) :
             /\ chunks' = [chunks EXCEPT ![i].inuse = FALSE]
             /\ ret' = 1
    /\ UNCHANGED <<current_alloc, current_use, mem_alloc, mapped, saved>>

(* The addresses freed: those handed out, or one of no chunk. *)
FreeAddresses == {chunks[i].address : i \in DOMAIN chunks} \cup {StartAddress}

-----------------------------------------------------------------------------
(* Mutant: the regions given back stay noted. *)
ClearKeepsRegions ==
    /\ chunks' = [i \in DOMAIN chunks |-> [chunks[i] EXCEPT !.inuse = FALSE]]
    /\ mapped' = mapped \ UNION {Bytes(mem_alloc[i].address, mem_alloc[i].size) :
                                    i \in DOMAIN mem_alloc}
    /\ current_alloc' = 0
    /\ current_use' = 0
    /\ ret' = 1
    /\ UNCHANGED <<saved, mem_alloc>>

(* clear gives the memory back but keeps the list of chunks. *)
clear ==
    /\ chunks' = [i \in DOMAIN chunks |-> [chunks[i] EXCEPT !.inuse = FALSE]]
    /\ mapped' = mapped \ UNION {Bytes(mem_alloc[i].address, mem_alloc[i].size) :
                                    i \in DOMAIN mem_alloc}
    /\ mem_alloc' = <<>>
    /\ current_alloc' = 0
    /\ current_use' = 0
    /\ ret' = 1
    /\ UNCHANGED saved

(* The saved state holds the two lists themselves, not copies of them: they *)
(* go on changing with the heap, and only the counters are kept.            *)
save ==
    /\ saved' = {[current_alloc |-> current_alloc, current_use |-> current_use]}
    /\ ret' = 1
    /\ UNCHANGED <<chunks, current_alloc, current_use, mem_alloc, mapped>>

restore ==
    \E s \in saved :
        /\ current_alloc' = s.current_alloc
        /\ current_use' = s.current_use
        /\ ret' = 1
        /\ UNCHANGED <<chunks, mem_alloc, mapped, saved>>

-----------------------------------------------------------------------------
Init ==
    /\ chunks = <<>>
    /\ current_alloc = 0
    /\ current_use = 0
    /\ mem_alloc = <<>>
    /\ mapped = Foreign
    /\ saved = {}
    /\ ret = 1

NextHeap ==
    \/ \E n \in Sizes : alloc(n)
    \/ \E a \in FreeAddresses : free(a)

(* The heap as the handlers of the emulated program use it. *)
SpecHeap == Init /\ [][NextHeap]_vars

(* The heap of a session that is also cleared, saved and restored. *)
Next == NextHeap \/ clear \/ save \/ restore

Spec == Init /\ [][Next]_vars

-----------------------------------------------------------------------------
(* The state of the heap is well formed. *)
TypeOK ==
    /\ chunks \in Seq(Chunk)
    /\ current_alloc \in Nat /\ current_use \in Nat
    /\ mem_alloc \in Seq([address : Nat, size : Nat \ {0}])
    /\ mapped \subseteq Nat
    /\ ret \in Int
    /\ saved \subseteq [current_alloc : Nat, current_use : Nat]

(* "invariant: current_use never exceeds current_alloc", also for a state   *)
(* restored long after it was saved.                                        *)
UseWithinAlloc == current_use <= current_alloc

(* "invariant: current_alloc is aligned to memory page size". *)
AllocAligned == current_alloc % PageSize = 0

(* The regions noted for the heap are mapped and apart, so that clear can   *)
(* unmap each of them without an exception.                                 *)
RegionsMapped ==
    \A i \in DOMAIN mem_alloc :
        LET r == mem_alloc[i] IN
        /\ Bytes(r.address, r.size) \subseteq mapped \ Foreign
        /\ \A j \in 1 .. i - 1 :
              Bytes(r.address, r.size)
                 \cap Bytes(mem_alloc[j].address, mem_alloc[j].size) = {}

(* The counters keep the invariants the constructor states, and clear finds *)
(* every noted region mapped, however old the state is that was restored.   *)
SessionSound == UseWithinAlloc /\ AllocAligned /\ RegionsMapped

(* Every byte of a chunk handed out is mapped, and for the heap. *)
InUseMapped ==
    \A i \in DOMAIN chunks : chunks[i].inuse =>
        Bytes(chunks[i].address, chunks[i].size) \subseteq mapped \ Foreign

(* The heap of a program is well formed, and every chunk in use lies in     *)
(* memory that is the heap's, after any history of allocations and frees.   *)
HeapSound == TypeOK /\ InUseMapped

(* The chunks in use, as the blocks of an allocator. *)
Live == {[address |-> chunks[i].address, size |-> chunks[i].size] :
            i \in {j \in DOMAIN chunks : chunks[j].inuse}}

AbstractHeap == INSTANCE Allocator WITH live <- Live

(* The heap keeps the promise of an allocator: an allocation adds one chunk *)
(* that shares no byte with those in use, freeing ends one and no other.    *)
ImplementsAllocator == AbstractHeap!Spec

(* Whatever was freed before and is handed out again, the chunk at the      *)
(* address alloc returns is as large as the caller asked for.               *)
LargeEnough ==
    [][\A n \in Sizes : alloc(n) =>
         \A i \in DOMAIN chunks' :
            (chunks'[i].inuse /\ (i \in DOMAIN chunks => ~ chunks[i].inuse)) =>
                chunks'[i].size >= n /\ ret' = chunks'[i].address]_vars

=============================================================================
