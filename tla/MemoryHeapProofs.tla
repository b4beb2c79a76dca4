-------------------------- MODULE MemoryHeapProofs --------------------------
(***************************************************************************)
(* Proofs about MemoryHeap, for every page size, heap range and set of     *)
(* request sizes: the heap implements an allocator.                        *)
(***************************************************************************)
EXTENDS MemoryHeap, TLAPS

-----------------------------------------------------------------------------
(* What is mapped for a request is at least the request (align_up). *)
LEMMA AlignUpCovers ==
    ASSUME NEW v \in Nat
    PROVE  align_up(v) \in Nat /\ align_up(v) >= v
BY HeapAssumption, SMT DEF align_up

(* Chunks lie one after the other, in the memory in use. *)
Consecutive ==
    /\ \A i, j \in DOMAIN chunks :
          i < j => chunks[i].address + chunks[i].size <= chunks[j].address
    /\ \A i \in DOMAIN chunks :
          /\ StartAddress <= chunks[i].address
          /\ chunks[i].address + chunks[i].size <= StartAddress + current_use

(* The memory allocated for the heap is mapped, and not by others. *)
HeapMapped ==
    /\ Foreign \subseteq mapped
    /\ Bytes(StartAddress, current_alloc) \subseteq mapped \ Foreign

HeapTypes ==
    /\ chunks \in Seq(Chunk)
    /\ current_alloc \in Nat /\ current_use \in Nat

IInv == HeapTypes /\ Consecutive /\ UseWithinAlloc /\ HeapMapped

(* The list holds chunks. *)
LEMMA ChunkFields ==
    ASSUME HeapTypes, NEW i \in DOMAIN chunks
    PROVE  /\ chunks[i] \in Chunk
           /\ chunks[i].address \in Nat /\ chunks[i].size \in Nat
<1>1. chunks[i] \in Chunk
  BY DEF HeapTypes
<1> QED BY <1>1 DEF Chunk

(* A new chunk follows all others. *)
LEMMA AppendStep ==
    ASSUME HeapTypes, Consecutive, NEW n \in Nat, AppendChunk(n)
    PROVE  /\ chunks' \in Seq(Chunk) /\ current_use' \in Nat
           /\ Consecutive'
           /\ AbstractHeap!Allocate(n)
<1> DEFINE new == [address |-> StartAddress + current_use,
                   size |-> n, inuse |-> TRUE]
           k == Len(chunks) + 1
           b == [address |-> new.address, size |-> new.size]
<1>1. new \in Chunk /\ StartAddress \in Nat
  BY HeapAssumption DEF HeapTypes, Chunk
<1>2. /\ chunks' = Append(chunks, new) /\ current_use' = current_use + n
      /\ chunks' \in Seq(Chunk) /\ current_use' \in Nat
  BY <1>1 DEF AppendChunk, HeapTypes
<1>3. /\ DOMAIN chunks = 1 .. Len(chunks) /\ Len(chunks) \in Nat
      /\ DOMAIN chunks' = 1 .. k
      /\ chunks'[k] = new /\ \A i \in DOMAIN chunks : chunks'[i] = chunks[i]
  BY <1>1, <1>2 DEF HeapTypes
<1>4. \A i \in DOMAIN chunks : chunks[i] \in Chunk
  BY <1>3 DEF HeapTypes
<1>5. /\ new.address = StartAddress + current_use /\ new.size = n /\ new.inuse
      /\ b \in AbstractHeap!Block /\ b.size = n /\ b.address = new.address
  BY <1>1 DEF AbstractHeap!Block, HeapTypes
<1> HIDE DEF new, b
<1>6. Consecutive'
  <2>1. ASSUME NEW i \in DOMAIN chunks', NEW j \in DOMAIN chunks', i < j
        PROVE  chunks'[i].address + chunks'[i].size <= chunks'[j].address
    <3>1. i \in DOMAIN chunks
      BY <1>3, <2>1
    <3>2. CASE j = k
      BY <1>3, <1>5, <3>1, <3>2 DEF Consecutive
    <3>3. CASE j \in DOMAIN chunks
      BY <1>3, <2>1, <3>1, <3>3 DEF Consecutive
    <3> QED BY <1>3, <3>2, <3>3
  <2>2. ASSUME NEW i \in DOMAIN chunks'
        PROVE  /\ StartAddress <= chunks'[i].address
               /\ chunks'[i].address + chunks'[i].size
                     <= StartAddress + current_use'
    <3>1. CASE i = k
      BY <1>1, <1>2, <1>3, <1>5, <3>1 DEF HeapTypes
    <3>2. CASE i \in DOMAIN chunks
      BY <1>1, <1>2, <1>3, <1>4, <3>2 DEF HeapTypes, Chunk, Consecutive
    <3> QED BY <1>3, <3>1, <3>2
  <2> QED BY <2>1, <2>2 DEF Consecutive
<1>7. Live' = Live \cup {b}
  BY <1>3, <1>5 DEF Live, b
<1>8. \A c \in Live : AbstractHeap!Apart(b, c)
  BY <1>1, <1>4, <1>5 DEF Live, AbstractHeap!Apart, Consecutive, Chunk, HeapTypes
<1>9. AbstractHeap!Allocate(n)
  BY <1>5, <1>7, <1>8 DEF AbstractHeap!Allocate
<1> QED BY <1>2, <1>6, <1>9

(* Changing the mark of one chunk moves no chunk. *)
LEMMA MarkStep ==
    ASSUME HeapTypes, Consecutive, UNCHANGED current_use,
           NEW i \in DOMAIN chunks, NEW m \in BOOLEAN,
           chunks' = [chunks EXCEPT ![i].inuse = m]
    PROVE  /\ chunks' \in Seq(Chunk) /\ Consecutive'
           /\ DOMAIN chunks' = DOMAIN chunks
           /\ chunks'[i].inuse = m
           /\ \A j \in DOMAIN chunks :
                 /\ chunks'[j].address = chunks[j].address
                 /\ chunks'[j].size = chunks[j].size
                 /\ j # i => chunks'[j].inuse = chunks[j].inuse
<1>1. \A j \in DOMAIN chunks : chunks[j] \in Chunk
  BY DEF HeapTypes
<1>2. chunks' \in Seq(Chunk) /\ DOMAIN chunks' = DOMAIN chunks
  <2>1. [chunks[i] EXCEPT !.inuse = m] \in Chunk
    BY <1>1 DEF Chunk
  <2>2. chunks' = [chunks EXCEPT ![i] = [chunks[i] EXCEPT !.inuse = m]]
    OBVIOUS
  <2> QED BY <2>1, <2>2 DEF HeapTypes
<1>3. \A j \in DOMAIN chunks :
          /\ chunks'[j].address = chunks[j].address
          /\ chunks'[j].size = chunks[j].size
          /\ j # i => chunks'[j].inuse = chunks[j].inuse
  BY <1>1 DEF HeapTypes, Chunk
<1>4. chunks'[i].inuse = m
  BY <1>1 DEF HeapTypes, Chunk
<1>5. Consecutive'
  BY <1>2, <1>3 DEF Consecutive
<1> QED BY <1>2, <1>3, <1>4, <1>5

(* Two different chunks share no byte. *)
LEMMA ChunksApart ==
    ASSUME HeapTypes, Consecutive, NEW i \in DOMAIN chunks,
           NEW j \in DOMAIN chunks, i # j
    PROVE  AbstractHeap!Apart(chunks[i], chunks[j])
<1>1. i \in Nat /\ j \in Nat
  BY DEF HeapTypes
<1> QED BY <1>1 DEF Consecutive, AbstractHeap!Apart

(* A recycled chunk is a new block. *)
LEMMA RecycleStep ==
    ASSUME HeapTypes, Consecutive, NEW n \in Nat, Recycle(n)
    PROVE  /\ chunks' \in Seq(Chunk) /\ Consecutive'
           /\ AbstractHeap!Allocate(n)
<1>1. PICK i \in DOMAIN chunks :
          /\ ~ chunks[i].inuse /\ chunks[i].size >= n
          /\ chunks' = [chunks EXCEPT ![i].inuse = TRUE]
          /\ UNCHANGED current_use
  BY DEF Recycle, BestFit, Recyclable
<1>2. /\ chunks' \in Seq(Chunk) /\ Consecutive'
      /\ DOMAIN chunks' = DOMAIN chunks /\ chunks'[i].inuse
      /\ \A j \in DOMAIN chunks :
            /\ chunks'[j].address = chunks[j].address
            /\ chunks'[j].size = chunks[j].size
            /\ j # i => chunks'[j].inuse = chunks[j].inuse
  BY <1>1, MarkStep
<1> DEFINE b == [address |-> chunks[i].address, size |-> chunks[i].size]
<1>3. b \in AbstractHeap!Block /\ b.size = chunks[i].size
      /\ b.address = chunks[i].address
  BY ChunkFields DEF AbstractHeap!Block
<1>4. Live' = Live \cup {b}
  BY <1>1, <1>2 DEF Live
<1>5. ASSUME NEW c \in Live PROVE AbstractHeap!Apart(b, c)
  <2>1. PICK j \in DOMAIN chunks :
            /\ chunks[j].inuse
            /\ c = [address |-> chunks[j].address, size |-> chunks[j].size]
    BY DEF Live
  <2>2. AbstractHeap!Apart(chunks[i], chunks[j])
    BY <1>1, <2>1, ChunksApart
  <2> QED BY <1>3, <2>1, <2>2 DEF AbstractHeap!Apart
<1>6. b.size >= n /\ b \in Live'
  BY <1>1, <1>3, <1>4
<1> HIDE DEF b
<1>7. AbstractHeap!Allocate(n)
  BY <1>3, <1>4, <1>5, <1>6 DEF AbstractHeap!Allocate
<1> QED BY <1>2, <1>7

(* A chunk freed ends one block, or none when another chunk in use shares   *)
(* its address and size.                                                    *)
LEMMA FreeStep ==
    ASSUME HeapTypes, Consecutive, NEW i \in DOMAIN chunks, chunks[i].inuse,
           chunks' = [chunks EXCEPT ![i].inuse = FALSE], UNCHANGED current_use
    PROVE  /\ chunks' \in Seq(Chunk) /\ Consecutive'
           /\ (\E b \in Live : Live' = Live \ {b}) \/ Live' = Live
<1>1. /\ chunks' \in Seq(Chunk) /\ Consecutive'
      /\ DOMAIN chunks' = DOMAIN chunks /\ ~ chunks'[i].inuse
      /\ \A j \in DOMAIN chunks :
            /\ chunks'[j].address = chunks[j].address
            /\ chunks'[j].size = chunks[j].size
            /\ j # i => chunks'[j].inuse = chunks[j].inuse
  BY MarkStep
<1> DEFINE blk(j) == [address |-> chunks[j].address, size |-> chunks[j].size]
<1>2. Live = {blk(j) : j \in {k \in DOMAIN chunks : chunks[k].inuse}}
  BY DEF Live
<1>3. Live' = {blk(j) : j \in {k \in DOMAIN chunks : chunks[k].inuse /\ k # i}}
  BY <1>1 DEF Live
<1>4. blk(i) \in Live
  BY <1>2
<1> HIDE DEF blk
<1>5. CASE blk(i) \in Live'
  <2>1. Live' = Live
    BY <1>2, <1>3, <1>5
  <2> QED BY <1>1, <2>1
<1>6. CASE blk(i) \notin Live'
  <2>1. Live' = Live \ {blk(i)}
    BY <1>2, <1>3, <1>6
  <2> QED BY <1>1, <1>4, <2>1
<1> QED BY <1>1, <1>5, <1>6

-----------------------------------------------------------------------------
(* Every step of the heap keeps the invariant and is a step of the          *)
(* allocator, or none.                                                      *)
LEMMA HeapStep ==
    ASSUME IInv, [NextHeap]_vars
    PROVE  IInv' /\ [AbstractHeap!Next]_Live
<1>1. ASSUME NEW n \in Sizes, alloc(n)
      PROVE  IInv' /\ [AbstractHeap!Next]_Live
  <2>0. n \in Nat
    BY HeapAssumption
  <2>1. CASE Recycle(n)
    <3>1. AbstractHeap!Allocate(n)
      BY <2>0, <2>1, RecycleStep DEF IInv
    <3>2. AbstractHeap!Next
      BY <3>1 DEF AbstractHeap!Next
    <3>3. IInv'
      BY <2>0, <2>1, RecycleStep
         DEF IInv, Recycle, HeapTypes, UseWithinAlloc, HeapMapped
    <3> QED BY <3>2, <3>3
  <2>2. ASSUME AppendChunk(n), current_alloc' \in Nat,
               current_use + n <= current_alloc', HeapMapped'
        PROVE  IInv' /\ [AbstractHeap!Next]_Live
    <3>1. AbstractHeap!Allocate(n)
      BY <2>0, <2>2, AppendStep DEF IInv
    <3>2. AbstractHeap!Next
      BY <3>1 DEF AbstractHeap!Next
    <3>3. chunks' \in Seq(Chunk) /\ current_use' \in Nat /\ Consecutive'
      BY <2>0, <2>2, AppendStep DEF IInv
    <3>4. current_use' <= current_alloc'
      BY <2>2 DEF AppendChunk
    <3> QED BY <2>2, <3>2, <3>3, <3>4 DEF IInv, HeapTypes, UseWithinAlloc
  <2>3. CASE ~ Exceeds(n) /\ AppendChunk(n) /\ UNCHANGED <<current_alloc, mapped>>
    <3>1. current_use + n <= current_alloc
      BY <2>0, <2>3 DEF Exceeds, IInv, HeapTypes
    <3>2. HeapMapped' /\ current_alloc' \in Nat /\ current_alloc' = current_alloc
      BY <2>3 DEF HeapMapped, IInv, HeapTypes
    <3> QED BY <2>2, <2>3, <3>1, <3>2
  <2>4. CASE Grow(n)
    <3> DEFINE real == align_up(n)
               base == StartAddress + current_alloc
    <3>1. real \in Nat /\ real >= n
      BY <2>0, AlignUpCovers
    <3> HIDE DEF real
    <3>2. CASE UNCHANGED <<chunks, current_alloc, current_use, mem_alloc, mapped>>
      BY <3>2 DEF IInv, HeapTypes, Consecutive, UseWithinAlloc, HeapMapped, Live
    <3>3. CASE /\ Bytes(base, real) \cap mapped = {}
               /\ mapped' = mapped \cup Bytes(base, real)
               /\ current_alloc' = current_alloc + real
               /\ AppendChunk(n)
      <4>1. current_alloc' \in Nat /\ current_use + n <= current_alloc'
        BY <2>0, <3>1, <3>3 DEF IInv, HeapTypes, UseWithinAlloc
      <4>2. HeapMapped'
        <5>1. Bytes(StartAddress, current_alloc')
                \subseteq Bytes(StartAddress, current_alloc) \cup Bytes(base, real)
          BY <3>1, <3>3, HeapAssumption DEF Bytes, IInv, HeapTypes
        <5>2. Foreign \subseteq mapped
              /\ Bytes(StartAddress, current_alloc) \subseteq mapped \ Foreign
          BY DEF IInv, HeapMapped
        <5>3. Foreign \subseteq mapped'
              /\ Bytes(StartAddress, current_alloc') \subseteq mapped' \ Foreign
          BY <3>3, <5>1, <5>2
        <5> QED BY <5>3 DEF HeapMapped
      <4> QED BY <2>2, <3>3, <4>1, <4>2
    <3> QED BY <2>4, <3>2, <3>3 DEF Grow, real
  <2> QED BY <1>1, <2>1, <2>3, <2>4 DEF alloc
<1>2. ASSUME NEW a \in FreeAddresses, free(a)
      PROVE  IInv' /\ [AbstractHeap!Next]_Live
  <2>1. UNCHANGED <<current_alloc, current_use, mapped>>
    BY <1>2 DEF free
  <2>2. CASE UNCHANGED chunks
    BY <2>1, <2>2 DEF IInv, HeapTypes, Consecutive, UseWithinAlloc, HeapMapped,
                      Live
  <2>3. CASE \E i \in Find(a) : chunks' = [chunks EXCEPT ![i].inuse = FALSE]
    <3>1. PICK i \in DOMAIN chunks :
              /\ chunks[i].inuse
              /\ chunks' = [chunks EXCEPT ![i].inuse = FALSE]
      BY <2>3 DEF Find
    <3>2. /\ chunks' \in Seq(Chunk) /\ Consecutive'
          /\ (\E b \in Live : Live' = Live \ {b}) \/ Live' = Live
      BY <2>1, <3>1, FreeStep DEF IInv
    <3>3. [AbstractHeap!Next]_Live
      BY <3>2 DEF AbstractHeap!Next, AbstractHeap!Release
    <3>4. IInv'
      BY <2>1, <3>2 DEF IInv, HeapTypes, UseWithinAlloc, HeapMapped
    <3> QED BY <3>3, <3>4
  <2> QED BY <1>2, <2>2, <2>3 DEF free
<1>3. CASE UNCHANGED vars
  BY <1>3 DEF vars, IInv, HeapTypes, Consecutive, UseWithinAlloc, HeapMapped,
              Live
<1> QED BY <1>1, <1>2, <1>3 DEF NextHeap

(* The empty heap satisfies the invariant and is the empty allocator. *)
LEMMA HeapInit == Init => IInv /\ AbstractHeap!Init
<1>1. ASSUME Init PROVE IInv
  BY <1>1, HeapAssumption
     DEF Init, IInv, HeapTypes, Consecutive, UseWithinAlloc, HeapMapped, Bytes
<1>2. ASSUME Init PROVE Live = {}
  BY <1>2 DEF Init, Live
<1> QED BY <1>1, <1>2 DEF AbstractHeap!Init

(* The inductive invariant holds in every reachable state. *)
LEMMA HeapInductive == SpecHeap => []IInv
BY HeapInit, HeapStep, PTL DEF SpecHeap

(* alloc and free of QlMemoryHeap implement an allocator: blocks large      *)
(* enough, apart from each other, each ended only by its own free.          *)
THEOREM HeapImplementsAllocator == SpecHeap => ImplementsAllocator
BY HeapInit, HeapStep, HeapInductive, PTL
   DEF SpecHeap, ImplementsAllocator, AbstractHeap!Spec

-----------------------------------------------------------------------------
(* A session with clear, save and restore.  Restoring winds the counters    *)
(* back but not the regions, so the regions rest on nothing but Unicorn     *)
(* refusing to map what is mapped.                                          *)
Region == [address : Nat, size : Nat \ {0}]

CountInv ==
    /\ UseWithinAlloc /\ AllocAligned
    /\ \A s \in saved : s.current_use <= s.current_alloc
                       /\ s.current_alloc % PageSize = 0

SessionInv == TypeOK /\ CountInv /\ RegionsMapped /\ Foreign \subseteq mapped

(* A multiple leaves no remainder. *)
LEMMA MultipleRemainder ==
    ASSUME NEW p \in Nat \ {0}, NEW j \in Nat
    PROVE  (j * p) % p = 0
<1> DEFINE x == j * p
           q == x \div p
           r == x % p
<1>1. x \in Nat
  BY SMT
<1> HIDE DEF x
<1>2. q \in Int /\ r \in 0 .. p - 1 /\ x = p * q + r
  BY <1>1, SMT
<1> HIDE DEF q, r
<1>3. r = p * (j - q)
  BY <1>2, SMT DEF x
<1>4. \A d \in Int : (d >= 1 => p * d >= p) /\ (d <= -1 => p * d <= -p)
  BY SMT
<1>5. j - q = 0
  BY <1>2, <1>3, <1>4, SMT
<1> QED BY <1>2, <1>3, <1>5, SMT DEF r, x

(* Whole pages added to whole pages are whole pages. *)
LEMMA WholePages ==
    ASSUME NEW v \in Nat, NEW w \in Nat, w % PageSize = 0
    PROVE  (w + align_up(v)) % PageSize = 0
<1> DEFINE k == w \div PageSize
           m == (v + PageSize - 1) \div PageSize
<1>1. PageSize \in Nat \ {0}
  BY HeapAssumption
<1>2. w = PageSize * k /\ k \in Nat
  BY <1>1, SMT
<1>3. m \in Nat /\ align_up(v) = m * PageSize
  BY <1>1, SMT DEF align_up
<1> HIDE DEF k, m
<1>4. w + align_up(v) = (k + m) * PageSize
  BY <1>1, <1>2, <1>3, SMT
<1> QED BY <1>1, <1>2, <1>3, <1>4, MultipleRemainder

(* alloc, in a session. *)
LEMMA SessionAlloc ==
    ASSUME SessionInv, NEW n \in Sizes, alloc(n)
    PROVE  SessionInv'
<1>1. n \in Nat /\ align_up(n) \in Nat /\ align_up(n) >= n
  BY HeapAssumption, AlignUpCovers
<1>2. /\ UNCHANGED saved
      /\ \/ UNCHANGED <<current_alloc, current_use, mem_alloc, mapped>>
         \/ /\ ~ Exceeds(n) /\ UNCHANGED <<current_alloc, mem_alloc, mapped>>
            /\ current_use' = current_use + n
         \/ /\ Exceeds(n)
            /\ current_alloc' = current_alloc + align_up(n)
            /\ current_use' = current_use + n
            /\ Bytes(StartAddress + current_alloc, align_up(n)) \cap mapped = {}
            /\ mapped' = mapped \cup Bytes(StartAddress + current_alloc, align_up(n))
            /\ mem_alloc' = Append(mem_alloc, [address |-> StartAddress + current_alloc,
                                               size |-> align_up(n)])
  BY DEF alloc, Recycle, Grow, AppendChunk
<1>3. chunks' \in Seq(Chunk) /\ ret' \in Int
  <2>1. /\ chunks \in Seq(Chunk) /\ ret \in Int /\ StartAddress \in Nat
        /\ current_use \in Nat
    BY HeapAssumption DEF SessionInv, TypeOK
  <2>2. CASE Recycle(n)
    <3>1. PICK i \in DOMAIN chunks : /\ chunks' = [chunks EXCEPT ![i].inuse = TRUE]
                                     /\ ret' = chunks[i].address
      BY <2>2 DEF Recycle, BestFit, Recyclable
    <3>2. chunks[i] \in Chunk
      BY <2>1
    <3>3. [chunks[i] EXCEPT !.inuse = TRUE] \in Chunk /\ chunks[i].address \in Nat
      BY <3>2 DEF Chunk
    <3> QED BY <2>1, <3>1, <3>3
  <2>3. CASE AppendChunk(n)
    <3>1. [address |-> StartAddress + current_use, size |-> n, inuse |-> TRUE] \in Chunk
      BY <1>1, <2>1 DEF Chunk
    <3> QED BY <2>1, <2>3, <3>1 DEF AppendChunk
  <2>4. CASE UNCHANGED chunks /\ ret' \in {0, MappedError}
    BY <2>1, <2>4 DEF MappedError
  <2> QED BY <2>2, <2>3, <2>4 DEF alloc, Grow
<1>4. CASE UNCHANGED <<current_alloc, mem_alloc, mapped>>
  <2>1. /\ current_use' \in Nat /\ current_use' <= current_alloc
    BY <1>1, <1>2, <1>4 DEF SessionInv, TypeOK, CountInv, UseWithinAlloc, Exceeds
  <2>2. TypeOK'
    BY <1>2, <1>3, <1>4, <2>1 DEF SessionInv, TypeOK
  <2>3. CountInv' /\ RegionsMapped' /\ Foreign \subseteq mapped'
    BY <1>2, <1>4, <2>1 DEF SessionInv, CountInv, UseWithinAlloc, AllocAligned,
                            RegionsMapped
  <2> QED BY <2>2, <2>3 DEF SessionInv
<1>5. CASE /\ Exceeds(n)
           /\ current_alloc' = current_alloc + align_up(n)
           /\ current_use' = current_use + n
           /\ Bytes(StartAddress + current_alloc, align_up(n)) \cap mapped = {}
           /\ mapped' = mapped \cup Bytes(StartAddress + current_alloc, align_up(n))
           /\ mem_alloc' = Append(mem_alloc, [address |-> StartAddress + current_alloc,
                                              size |-> align_up(n)])
  <2> DEFINE base == StartAddress + current_alloc
             real == align_up(n)
             new == [address |-> base, size |-> real]
  <2>1. /\ current_alloc \in Nat /\ current_use \in Nat /\ StartAddress \in Nat
        /\ current_use <= current_alloc /\ current_alloc % PageSize = 0
        /\ mem_alloc \in Seq(Region) /\ mapped \subseteq Nat
    BY HeapAssumption DEF SessionInv, TypeOK, CountInv, UseWithinAlloc, AllocAligned,
                          Region
  <2>2. (current_alloc + align_up(n)) % PageSize = 0
    BY <1>1, <2>1, WholePages
  <2> HIDE DEF real
  <2>3. real \in Nat /\ real >= n /\ real > 0
    BY <1>1, <1>5, <2>1 DEF Exceeds, real
  <2>4. base \in Nat /\ Bytes(base, real) \subseteq Nat
    BY <2>1, <2>3 DEF Bytes
  <2>5. new \in Region /\ new.address = base /\ new.size = real
    BY <2>3, <2>4 DEF Region
  <2>6. mem_alloc' = Append(mem_alloc, new) /\ mem_alloc' \in Seq(Region)
    BY <1>5, <2>1, <2>5 DEF real
  <2>7. mapped' = mapped \cup Bytes(base, real) /\ Bytes(base, real) \cap mapped = {}
    BY <1>5 DEF real
  <2>8. TypeOK'
    <3>1. current_alloc' \in Nat /\ current_use' \in Nat
      BY <1>1, <1>5, <2>1
    <3>2. mapped' \subseteq Nat
      BY <2>1, <2>4, <2>7
    <3>3. saved' \subseteq [current_alloc : Nat, current_use : Nat]
      BY <1>2 DEF SessionInv, TypeOK
    <3> QED BY <1>3, <2>6, <3>1, <3>2, <3>3, Zenon DEF TypeOK, Region
  <2>9. CountInv' /\ Foreign \subseteq mapped'
    <3>1. UseWithinAlloc'
      BY <1>1, <1>5, <2>1 DEF UseWithinAlloc
    <3>2. AllocAligned'
      BY <1>5, <2>2 DEF AllocAligned
    <3> QED BY <1>2, <2>7, <3>1, <3>2 DEF SessionInv, CountInv
  <2> HIDE DEF new, base
  <2>10. RegionsMapped'
    <3>1. Bytes(base, real) \subseteq mapped' \ Foreign
      BY <2>7 DEF SessionInv
    <3>2. /\ Len(mem_alloc) \in Nat /\ DOMAIN mem_alloc = 1 .. Len(mem_alloc)
          /\ DOMAIN mem_alloc' = 1 .. (Len(mem_alloc) + 1)
          /\ mem_alloc'[Len(mem_alloc) + 1] = new
          /\ \A i \in DOMAIN mem_alloc : mem_alloc'[i] = mem_alloc[i]
      BY <2>1, <2>5, <2>6
    <3>3. \A i \in DOMAIN mem_alloc :
              Bytes(mem_alloc[i].address, mem_alloc[i].size) \subseteq mapped \ Foreign
      BY DEF SessionInv, RegionsMapped
    <3>4. ASSUME NEW i \in DOMAIN mem_alloc'
          PROVE  /\ Bytes(mem_alloc'[i].address, mem_alloc'[i].size)
                       \subseteq mapped' \ Foreign
                 /\ \A j \in 1 .. i - 1 :
                       Bytes(mem_alloc'[i].address, mem_alloc'[i].size)
                          \cap Bytes(mem_alloc'[j].address, mem_alloc'[j].size) = {}
      <4>1. CASE i = Len(mem_alloc) + 1
        <5>1. Bytes(mem_alloc'[i].address, mem_alloc'[i].size) = Bytes(base, real)
          BY <2>5, <3>2, <4>1
        <5>2. \A j \in 1 .. i - 1 : j \in DOMAIN mem_alloc /\ mem_alloc'[j] = mem_alloc[j]
          BY <3>2, <4>1
        <5> QED BY <2>7, <3>1, <3>3, <5>1, <5>2
      <4>2. CASE i \in DOMAIN mem_alloc
        <5>1. /\ mem_alloc'[i] = mem_alloc[i]
              /\ \A j \in 1 .. i - 1 : mem_alloc'[j] = mem_alloc[j]
          BY <3>2, <4>2
        <5>2. \A j \in 1 .. i - 1 :
                 Bytes(mem_alloc[i].address, mem_alloc[i].size)
                    \cap Bytes(mem_alloc[j].address, mem_alloc[j].size) = {}
          BY <4>2 DEF SessionInv, RegionsMapped
        <5> QED BY <2>7, <3>3, <4>2, <5>1, <5>2
      <4> QED BY <3>2, <4>1, <4>2
    <3> QED BY <3>4 DEF RegionsMapped
  <2> QED BY <2>8, <2>9, <2>10 DEF SessionInv
<1> QED BY <1>2, <1>4, <1>5

(* free, clear, save and restore. *)
LEMMA SessionOthers ==
    ASSUME SessionInv,
           \/ \E a \in FreeAddresses : free(a)
           \/ clear \/ save \/ restore \/ UNCHANGED vars
    PROVE  SessionInv'
<1>1. CASE \E a \in FreeAddresses : free(a)
  <2>1. UNCHANGED <<current_alloc, current_use, mem_alloc, mapped, saved>>
    BY <1>1 DEF free
  <2>2. chunks' \in Seq(Chunk) /\ ret' \in {0, 1}
    <3>1. chunks \in Seq(Chunk)
      BY DEF SessionInv, TypeOK
    <3>2. CASE UNCHANGED chunks /\ ret' = 0
      BY <3>1, <3>2
    <3>3. CASE ret' = 1 /\ \E i \in DOMAIN chunks :
                               chunks' = [chunks EXCEPT ![i].inuse = FALSE]
      <4>1. PICK i \in DOMAIN chunks : chunks' = [chunks EXCEPT ![i].inuse = FALSE]
        BY <3>3
      <4>2. chunks[i] \in Chunk
        BY <3>1
      <4>3. [chunks[i] EXCEPT !.inuse = FALSE] \in Chunk
        BY <4>2 DEF Chunk
      <4>4. chunks' \in Seq(Chunk)
        BY <3>1, <4>1, <4>3
      <4> QED BY <3>3, <4>4
    <3> QED BY <1>1, <3>2, <3>3 DEF free, Find
  <2>3. TypeOK'
    <3>1. ret' \in Int
      BY <2>2
    <3> QED BY <2>1, <2>2, <3>1, Zenon DEF SessionInv, TypeOK
  <2>4. CountInv' /\ RegionsMapped' /\ Foreign \subseteq mapped'
    BY <2>1 DEF SessionInv, CountInv, UseWithinAlloc, AllocAligned, RegionsMapped
  <2> QED BY <2>3, <2>4 DEF SessionInv
<1>2. CASE clear
  <2>1. chunks' \in Seq(Chunk)
    <3>1. chunks \in Seq(Chunk)
      BY DEF SessionInv, TypeOK
    <3>2. DOMAIN chunks = 1 .. Len(chunks) /\ Len(chunks) \in Nat
      BY <3>1
    <3>3. ASSUME NEW i \in 1 .. Len(chunks)
          PROVE  [chunks[i] EXCEPT !.inuse = FALSE] \in Chunk
      <4>1. chunks[i] \in Chunk
        BY <3>1, <3>2
      <4> QED BY <4>1 DEF Chunk
    <3>4. chunks' = [i \in 1 .. Len(chunks) |-> [chunks[i] EXCEPT !.inuse = FALSE]]
      BY <1>2, <3>2 DEF clear
    <3>5. chunks' \in [1 .. Len(chunks) -> Chunk]
      BY <3>3, <3>4
    <3> QED BY <3>2, <3>5
  <2>2. /\ current_alloc' = 0 /\ current_use' = 0 /\ mem_alloc' = <<>> /\ ret' = 1
        /\ saved' = saved /\ mapped' \subseteq mapped
    BY <1>2 DEF clear
  <2>3. Foreign \subseteq mapped'
    <3>1. \A i \in DOMAIN mem_alloc :
             Bytes(mem_alloc[i].address, mem_alloc[i].size) \cap Foreign = {}
      BY DEF SessionInv, RegionsMapped
    <3>2. Foreign \subseteq mapped
      BY DEF SessionInv
    <3>3. mapped' = mapped \ UNION {Bytes(mem_alloc[i].address, mem_alloc[i].size) :
                                      i \in DOMAIN mem_alloc}
      BY <1>2 DEF clear
    <3>4. \A R : (\A X \in R : X \cap Foreign = {}) => Foreign \subseteq mapped \ UNION R
      BY <3>2
    <3> QED BY <3>1, <3>3, <3>4
  <2>4. 0 % PageSize = 0
    BY HeapAssumption, SMT
  <2>5. mapped' \subseteq Nat /\ mem_alloc' \in Seq(Region)
    BY <2>2 DEF SessionInv, TypeOK
  <2>6. TypeOK'
    BY <2>1, <2>2, <2>5 DEF SessionInv, TypeOK, Region
  <2>7. CountInv' /\ RegionsMapped'
    BY <2>2, <2>4 DEF SessionInv, CountInv, UseWithinAlloc, AllocAligned, RegionsMapped
  <2> QED BY <2>3, <2>6, <2>7 DEF SessionInv
<1>3. CASE save
  <2>1. /\ UNCHANGED <<chunks, current_alloc, current_use, mem_alloc, mapped>>
        /\ saved' = {[current_alloc |-> current_alloc, current_use |-> current_use]}
        /\ ret' = 1
    BY <1>3 DEF save
  <2>2. /\ saved' \subseteq [current_alloc : Nat, current_use : Nat]
        /\ \A s \in saved' : s.current_alloc = current_alloc
                              /\ s.current_use = current_use
    BY <2>1 DEF SessionInv, TypeOK
  <2>3. TypeOK'
    BY <2>1, <2>2 DEF SessionInv, TypeOK
  <2>4. CountInv'
    BY <2>1, <2>2 DEF SessionInv, CountInv, UseWithinAlloc, AllocAligned
  <2> QED BY <2>1, <2>3, <2>4 DEF SessionInv, RegionsMapped
<1>4. CASE restore
  <2>1. PICK s \in saved : /\ current_alloc' = s.current_alloc
                           /\ current_use' = s.current_use
                           /\ ret' = 1
                           /\ UNCHANGED <<chunks, mem_alloc, mapped, saved>>
    BY <1>4 DEF restore
  <2>2. /\ s.current_alloc \in Nat /\ s.current_use \in Nat
        /\ s.current_use <= s.current_alloc /\ s.current_alloc % PageSize = 0
    BY <2>1 DEF SessionInv, TypeOK, CountInv
  <2>3. TypeOK'
    BY <2>1, <2>2 DEF SessionInv, TypeOK
  <2>4. CountInv'
    BY <2>1, <2>2 DEF SessionInv, CountInv, UseWithinAlloc, AllocAligned
  <2> QED BY <2>1, <2>3, <2>4 DEF SessionInv, RegionsMapped
<1>5. CASE UNCHANGED vars
  BY <1>5 DEF vars, SessionInv, TypeOK, CountInv, UseWithinAlloc, AllocAligned,
              RegionsMapped
<1> QED BY <1>1, <1>2, <1>3, <1>4, <1>5

(* A new heap. *)
LEMMA SessionInit == Init => SessionInv
<1> SUFFICES ASSUME Init PROVE SessionInv
  OBVIOUS
<1>1. 0 % PageSize = 0
  BY HeapAssumption, SMT
<1>2. TypeOK
  BY HeapAssumption DEF Init, TypeOK
<1>3. CountInv /\ RegionsMapped /\ Foreign \subseteq mapped
  BY <1>1 DEF Init, CountInv, UseWithinAlloc, AllocAligned, RegionsMapped
<1> QED BY <1>2, <1>3 DEF SessionInv

LEMMA SessionStep == SessionInv /\ [Next]_vars => SessionInv'
BY SessionAlloc, SessionOthers DEF Next, NextHeap

(* "invariant: current_use never exceeds current_alloc", "current_alloc is  *)
(* aligned to memory page size", and clear can give every region back,      *)
(* whatever was cleared, saved and restored before.                         *)
THEOREM SessionAlwaysSound == Spec => []SessionSound
<1>1. SessionInv => SessionSound
  BY DEF SessionInv, CountInv, SessionSound
<1> QED BY <1>1, SessionInit, SessionStep, PTL DEF Spec

(* The heap of a program stays well formed, and every byte of a chunk       *)
(* handed out is mapped, and for the heap.                                  *)
THEOREM HeapAlwaysSound == SpecHeap => []HeapSound
<1>1. IInv => InUseMapped
  <2>1. SUFFICES ASSUME IInv, NEW i \in DOMAIN chunks,
                        NEW x \in Bytes(chunks[i].address, chunks[i].size)
                 PROVE  x \in mapped \ Foreign
    BY DEF InUseMapped
  <2>2. /\ chunks[i].address \in Nat /\ chunks[i].size \in Nat
        /\ StartAddress \in Nat
    BY <2>1, ChunkFields, HeapAssumption DEF IInv
  <2>3. x \in Bytes(StartAddress, current_alloc)
    BY <2>1, <2>2 DEF IInv, HeapTypes, Consecutive, UseWithinAlloc, Bytes
  <2> QED BY <2>1, <2>3 DEF IInv, HeapMapped
<1>2. [NextHeap]_vars => [Next]_vars
  BY DEF Next
<1>3. IInv /\ SessionInv => HeapSound
  BY <1>1 DEF SessionInv, HeapSound
<1> QED BY <1>2, <1>3, HeapInductive, SessionInit, SessionStep, PTL DEF SpecHeap

-----------------------------------------------------------------------------
(* The chunk handed out. *)

(* A chunk that alloc puts into use has the size asked for or more, and its *)
(* address is what alloc returns, whether it is recycled or new.            *)
LEMMA AllocHandsOut ==
    ASSUME TypeOK, NEW n \in Sizes, alloc(n), NEW i \in DOMAIN chunks',
           chunks'[i].inuse, i \in DOMAIN chunks => ~ chunks[i].inuse
    PROVE  chunks'[i].size >= n /\ ret' = chunks'[i].address
<1>1. /\ n \in Nat /\ chunks \in Seq(Chunk)
      /\ Len(chunks) \in Nat /\ DOMAIN chunks = 1 .. Len(chunks)
  BY HeapAssumption DEF TypeOK
<1>2. CASE Recycle(n)
  <2>1. PICK j \in BestFit(n) :
              chunks' = [chunks EXCEPT ![j].inuse = TRUE] /\ ret' = chunks[j].address
    BY <1>2 DEF Recycle
  <2>2. j \in DOMAIN chunks /\ chunks[j].size >= n /\ chunks[j] \in Chunk
    BY <1>1 DEF BestFit, Recyclable
  <2>3. i = j
    BY <1>1, <2>1, <2>2
  <2> QED BY <1>1, <2>1, <2>2, <2>3 DEF Chunk
<1>3. CASE AppendChunk(n)
  <2> DEFINE new == [address |-> StartAddress + current_use, size |-> n, inuse |-> TRUE]
  <2>1. chunks' = Append(chunks, new) /\ ret' = new.address
    BY <1>3 DEF AppendChunk
  <2>2. i = Len(chunks) + 1 /\ chunks'[i] = new
    <3> HIDE DEF new
    <3> QED BY <1>1, <2>1
  <2> QED BY <1>1, <2>1, <2>2
<1>4. CASE UNCHANGED chunks
  BY <1>4
<1> QED BY <1>2, <1>3, <1>4 DEF alloc, Grow

(* Whatever was freed, cleared or restored before, the chunk alloc returns  *)
(* is as large as the caller asked for.                                     *)
THEOREM AllocatedLargeEnough == Spec => LargeEnough
<1> DEFINE Large == \A n \in Sizes : alloc(n) =>
                      \A i \in DOMAIN chunks' :
                         (chunks'[i].inuse /\ (i \in DOMAIN chunks => ~ chunks[i].inuse))
                             => chunks'[i].size >= n /\ ret' = chunks'[i].address
<1>1. SessionInv => Large
  BY AllocHandsOut DEF SessionInv
<1>2. SessionInv /\ [Next]_vars => [Large]_vars
  BY <1>1
<1> QED BY <1>2, SessionInit, SessionStep, PTL DEF Spec, LargeEnough
=============================================================================
