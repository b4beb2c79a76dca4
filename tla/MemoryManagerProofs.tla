------------------------ MODULE MemoryManagerProofs ------------------------
(***************************************************************************)
(* Proofs about MemoryManager, for every page size, address space, set of  *)
(* lengths, permission masks and callbacks, and about the system calls of  *)
(* PosixMemory, which make their changes through it.                       *)
(***************************************************************************)
EXTENDS PosixMemory, SequenceTheorems, FiniteSetTheorems, NaturalsInduction,
        WellFoundedInduction, TLAPS

-----------------------------------------------------------------------------
(* Arithmetic of pages. *)

(* align_up of an address is an address (QlMemoryManager.align_up). *)
LEMMA AlignUpNat ==
    ASSUME NEW v \in Nat
    PROVE  align_up(v, PageSize) \in Nat
BY MemoryAssumption, SMT DEF align_up

(* align of an address is an address (QlMemoryManager.align). *)
LEMMA AlignNat ==
    ASSUME NEW v \in Nat
    PROVE  align(v) \in Nat /\ v % PageSize \in Nat
BY MemoryAssumption, SMT DEF align

(* Quotient and remainder. *)
LEMMA DivBounds ==
    ASSUME NEW v \in Nat, NEW p \in Nat \ {0}
    PROVE  /\ v \div p \in Nat /\ v % p \in Nat /\ v % p < p
           /\ v = p * (v \div p) + (v % p)
<1>1. v % p \in Nat /\ v % p < p
  BY SMT
<1>2. v \div p \in Nat
  BY SMT
<1>3. v = p * (v \div p) + (v % p)
  BY SMT
<1> QED BY <1>1, <1>2, <1>3

(* Different multiples of a number are at least that number apart. *)
LEMMA MulOrder ==
    ASSUME NEW p \in Nat \ {0}, NEW q \in Nat, NEW k \in Nat, k < q
    PROVE  p * k + p <= p * q
<1>1. PICK d \in Nat : q = k + 1 + d
  <2> WITNESS q - k - 1 \in Nat
  <2> QED OBVIOUS
<1>2. p * q = p * k + p + p * d
  BY <1>1, SMT
<1>3. p * d \in Nat /\ p * k \in Nat
  BY SMT
<1> QED BY <1>2, <1>3

(* A multiple leaves no remainder. *)
LEMMA MulMod ==
    ASSUME NEW p \in Nat \ {0}, NEW q \in Nat
    PROVE  (q * p) % p = 0
<1> DEFINE v == q * p
           d == v \div p
           r == v % p
<1>1. v \in Nat /\ v = p * q
  BY SMT
<1>2. d \in Nat /\ r \in Nat /\ r < p /\ v = p * d + r
  BY <1>1, DivBounds
<1> HIDE DEF v, d, r
<1>3. p * d \in Nat /\ p * q \in Nat
  BY <1>1, <1>2, SMT
<1>4. ~ (d < q)
  <2>1. SUFFICES ASSUME d < q PROVE FALSE
    OBVIOUS
  <2>2. p * d + p <= p * q
    BY <1>2, <2>1, MulOrder
  <2> QED BY <1>1, <1>2, <1>3, <2>2
<1>5. ~ (q < d)
  <2>1. SUFFICES ASSUME q < d PROVE FALSE
    OBVIOUS
  <2>2. p * q + p <= p * d
    BY <1>2, <2>1, MulOrder
  <2> QED BY <1>1, <1>2, <1>3, <2>2
<1>6. d = q
  BY <1>2, <1>4, <1>5
<1>7. r = 0
  BY <1>1, <1>2, <1>3, <1>6
<1> QED BY <1>7 DEF v, r

(* align_up is the first page that begins at the address or after it        *)
(* (QlMemoryManager.align_up).                                              *)
LEMMA AlignUpLeast ==
    ASSUME NEW v \in Nat
    PROVE  LET u == align_up(v, PageSize)
           IN  /\ u \in Nat /\ v <= u /\ u % PageSize = 0
               /\ \A a \in Nat : a % PageSize = 0 /\ v <= a => u <= a
<1> DEFINE p == PageSize
           w == v + p - 1
           q == w \div p
           u == q * p
<1>1. p \in Nat \ {0} /\ w \in Nat
  BY MemoryAssumption
<1>2. align_up(v, PageSize) = u
  BY DEF align_up
<1>3. q \in Nat /\ w % p \in Nat /\ w % p < p /\ w = p * q + (w % p)
  BY <1>1, DivBounds
<1>4. w = v + p - 1
  OBVIOUS
<1> HIDE DEF q, w
<1>5. u = p * q /\ u \in Nat
  BY <1>1, <1>3, SMT
<1>6. u % p = 0
  BY <1>1, <1>3, MulMod
<1> HIDE DEF u
<1>7. v <= u
  BY <1>1, <1>3, <1>4, <1>5
<1>8. ASSUME NEW a \in Nat, a % p = 0, v <= a PROVE u <= a
  <2> DEFINE k == a \div p
  <2>1. k \in Nat /\ a = p * k + (a % p)
    BY <1>1, DivBounds
  <2> HIDE DEF k
  <2>2. a = p * k /\ p * k \in Nat
    <3>1. p * k \in Nat
      BY <1>1, <2>1, SMT
    <3> QED BY <1>8, <2>1, <3>1
  <2>3. ~ (k < q)
    <3>1. SUFFICES ASSUME k < q PROVE FALSE
      OBVIOUS
    <3>2. p * k + p <= p * q
      BY <1>1, <1>3, <2>1, <3>1, MulOrder
    <3>3. p * q <= v + p - 1
      BY <1>1, <1>3, <1>4, <1>5
    <3> HIDE DEF p
    <3> QED BY <1>1, <1>5, <1>8, <2>2, <3>2, <3>3
  <2>4. CASE k = q
    BY <1>5, <2>2, <2>4
  <2>5. CASE q < k
    <3>1. p * q + p <= p * k
      BY <1>1, <1>3, <2>1, <2>5, MulOrder
    <3> QED BY <1>1, <1>5, <2>2, <3>1
  <2> QED BY <1>3, <2>1, <2>3, <2>4, <2>5
<1> QED BY <1>2, <1>5, <1>6, <1>7, <1>8

(* Sums and differences of pages are pages. *)
LEMMA PageSums ==
    ASSUME NEW a \in Nat, NEW b \in Nat, a % PageSize = 0, b % PageSize = 0
    PROVE  /\ (a + b) % PageSize = 0
           /\ b <= a => (a - b) % PageSize = 0
<1> DEFINE p == PageSize
           j == a \div p
           k == b \div p
<1>1. p \in Nat \ {0}
  BY MemoryAssumption
<1>2. j \in Nat /\ a = p * j + (a % p) /\ k \in Nat /\ b = p * k + (b % p)
  BY <1>1, DivBounds
<1> HIDE DEF j, k
<1>3. p * j \in Nat /\ p * k \in Nat
  BY <1>1, <1>2, SMT
<1>4. a = p * j /\ b = p * k
  BY <1>2, <1>3
<1>5. a + b = (j + k) * p
  BY <1>1, <1>2, <1>4, SMT
<1>6. (a + b) % p = 0
  <2>1. j + k \in Nat
    BY <1>2
  <2> HIDE DEF p
  <2> QED BY <1>1, <1>5, <2>1, MulMod
<1>7. ASSUME b <= a PROVE (a - b) % p = 0
  <2>1. ~ (j < k)
    <3>1. SUFFICES ASSUME j < k PROVE FALSE
      OBVIOUS
    <3>2. p * j + p <= p * k
      BY <1>1, <1>2, <3>1, MulOrder
    <3> HIDE DEF p
    <3> QED BY <1>1, <1>3, <1>4, <1>7, <3>2
  <2>2. j - k \in Nat
    BY <1>2, <2>1
  <2>3. a - b = (j - k) * p
    BY <1>1, <1>2, <1>4, SMT
  <2> QED BY <1>1, <2>2, <2>3, MulMod
<1> QED BY <1>6, <1>7

(* align of an address is the page it lies in. *)
LEMMA AlignPage ==
    ASSUME NEW v \in Nat
    PROVE  /\ align(v) \in Nat /\ align(v) <= v /\ align(v) % PageSize = 0
           /\ v % PageSize = 0 => align(v) = v
<1> DEFINE p == PageSize
           k == v \div p
<1>1. p \in Nat \ {0}
  BY MemoryAssumption
<1>2. k \in Nat /\ v % p \in Nat /\ v = p * k + (v % p)
  BY <1>1, DivBounds
<1> HIDE DEF k
<1>3. p * k \in Nat /\ p * k = k * p
  BY <1>1, <1>2, SMT
<1>4. align(v) = p * k
  BY <1>2, <1>3 DEF align
<1>5. (k * p) % p = 0
  BY <1>1, <1>2, MulMod
<1>6. align(v) \in Nat /\ align(v) <= v
  BY <1>2, <1>3, <1>4
<1> QED BY <1>2, <1>3, <1>4, <1>5, <1>6 DEF align

-----------------------------------------------------------------------------
(* Ranges: the arithmetic shared by the list and by Unicorn. *)

Ranges(M) == M \subseteq Entry \/ M \subseteq Region

(* What del_mapinfo leaves over of an overlapped entry is a part of it on    *)
(* one side of the range.                                                   *)
LEMMA LeftoverRange ==
    ASSUME NEW M, Ranges(M), NEW s \in Nat, NEW t \in Nat,
           NEW g \in Leftovers(M, s, t)
    PROVE  \E e \in Overlapping(M, s, t) :
              \/ g = [e EXCEPT !.hi = s] /\ g.lo = e.lo /\ g.hi = s /\ e.lo < s
              \/ g = [e EXCEPT !.lo = t] /\ g.lo = t /\ g.hi = e.hi /\ t < e.hi
<1>1. CASE M \subseteq Entry
  BY <1>1 DEF Leftovers, Overlapping, Entry
<1>2. CASE M \subseteq Region
  BY <1>2 DEF Leftovers, Overlapping, Region
<1> QED BY <1>1, <1>2 DEF Ranges

(* The parts del_mapinfo splits off are entries again. *)
LEMMA LeftoverEntry ==
    ASSUME NEW M \in SUBSET Entry, NEW s \in Nat, NEW t \in Nat
    PROVE  Leftovers(M, s, t) \subseteq Entry
BY DEF Leftovers, Overlapping, Entry

(* The parts Unicorn splits off are regions again. *)
LEMMA LeftoverRegion ==
    ASSUME NEW M \in SUBSET Region, NEW s \in Nat, NEW t \in Nat
    PROVE  Leftovers(M, s, t) \subseteq Region
BY DEF Leftovers, Overlapping, Region

(* The part of an overlapped range below s, and the one from t on. *)
LEMMA LeftoverMember ==
    ASSUME NEW M, Ranges(M), NEW s \in Nat, NEW t \in Nat,
           NEW e \in Overlapping(M, s, t)
    PROVE  /\ e.lo < s => \E g \in Leftovers(M, s, t) : g.lo = e.lo /\ g.hi = s
           /\ t < e.hi => \E g \in Leftovers(M, s, t) : g.lo = t /\ g.hi = e.hi
<1>1. CASE M \subseteq Entry
  <2>1. /\ [e EXCEPT !.hi = s].lo = e.lo /\ [e EXCEPT !.hi = s].hi = s
        /\ [e EXCEPT !.lo = t].lo = t /\ [e EXCEPT !.lo = t].hi = e.hi
    BY <1>1 DEF Overlapping, Entry
  <2>2. e.lo < s => [e EXCEPT !.hi = s] \in Leftovers(M, s, t)
    BY DEF Leftovers
  <2>3. t < e.hi => [e EXCEPT !.lo = t] \in Leftovers(M, s, t)
    BY DEF Leftovers
  <2> QED BY <2>1, <2>2, <2>3
<1>2. CASE M \subseteq Region
  <2>1. /\ [e EXCEPT !.hi = s].lo = e.lo /\ [e EXCEPT !.hi = s].hi = s
        /\ [e EXCEPT !.lo = t].lo = t /\ [e EXCEPT !.lo = t].hi = e.hi
    BY <1>2 DEF Overlapping, Region
  <2>2. e.lo < s => [e EXCEPT !.hi = s] \in Leftovers(M, s, t)
    BY DEF Leftovers
  <2>3. t < e.hi => [e EXCEPT !.lo = t] \in Leftovers(M, s, t)
    BY DEF Leftovers
  <2> QED BY <2>1, <2>2, <2>3
<1> QED BY <1>1, <1>2 DEF Ranges

(* Ranges are pairs of addresses. *)
LEMMA RangeNat ==
    ASSUME NEW M, Ranges(M), NEW e \in M
    PROVE  e.lo \in Nat /\ e.hi \in Nat
BY DEF Ranges, Entry, Region

(* Subtracting [s, t) takes the addresses of [s, t) and no other. *)
LEMMA SubtractHolds ==
    ASSUME NEW M, Ranges(M), NEW s \in Nat, NEW t \in Nat, s <= t,
           NEW a \in Nat
    PROVE  Holds(Subtract(M, s, t), a) <=> Holds(M, a) /\ ~ (s <= a /\ a < t)
<1>1. ASSUME Holds(Subtract(M, s, t), a)
      PROVE  Holds(M, a) /\ ~ (s <= a /\ a < t)
  <2>1. PICK g \in Subtract(M, s, t) : g.lo <= a /\ a < g.hi
    BY <1>1 DEF Holds
  <2>2. CASE g \in M \ Overlapping(M, s, t)
    BY <2>1, <2>2, RangeNat DEF Overlapping, Holds
  <2>3. CASE g \in Leftovers(M, s, t)
    <3>1. PICK e \in Overlapping(M, s, t) :
              \/ g.lo = e.lo /\ g.hi = s /\ e.lo < s
              \/ g.lo = t /\ g.hi = e.hi /\ t < e.hi
      BY <2>3, LeftoverRange
    <3>2. e \in M /\ e.lo \in Nat /\ e.hi \in Nat /\ s < e.hi /\ t > e.lo
      BY RangeNat DEF Overlapping
    <3> QED BY <2>1, <3>1, <3>2 DEF Holds
  <2> QED BY <2>2, <2>3 DEF Subtract
<1>2. ASSUME Holds(M, a), ~ (s <= a /\ a < t)
      PROVE  Holds(Subtract(M, s, t), a)
  <2>1. PICK e \in M : e.lo <= a /\ a < e.hi
    BY <1>2 DEF Holds
  <2>2. e.lo \in Nat /\ e.hi \in Nat
    BY RangeNat
  <2>3. CASE e \notin Overlapping(M, s, t)
    BY <2>1, <2>3 DEF Subtract, Holds
  <2>4. CASE e \in Overlapping(M, s, t) /\ a < s
    <3>1. PICK g \in Leftovers(M, s, t) : g.lo = e.lo /\ g.hi = s
      BY <2>1, <2>2, <2>4, LeftoverMember
    <3> QED BY <2>1, <2>4, <3>1 DEF Subtract, Holds
  <2>5. CASE e \in Overlapping(M, s, t) /\ t <= a
    <3>1. PICK g \in Leftovers(M, s, t) : g.lo = t /\ g.hi = e.hi
      BY <2>1, <2>2, <2>5, LeftoverMember
    <3> QED BY <2>1, <2>5, <3>1 DEF Subtract, Holds
  <2> QED BY <1>2, <2>3, <2>4, <2>5
<1> QED BY <1>1, <1>2

-----------------------------------------------------------------------------
(* del_mapinfo. *)

Ordered(M) == \A e \in M : e.lo <= e.hi

(* "since map info is always sorted, we know that all overlapping rages are *)
(* consecutive": an entry that describes an address and lies between two    *)
(* overlapping ones overlaps too, so the slice deleted loses nothing.       *)
LEMMA OverlapsConsecutive ==
    ASSUME NEW M \in SUBSET Entry, Ordered(M), Disjoint(M),
           NEW s \in Nat, NEW t \in Nat,
           NEW f \in Overlapping(M, s, t), NEW g \in Overlapping(M, s, t),
           NEW e \in M, e.lo < e.hi, EntryLeq(f, e), EntryLeq(e, g)
    PROVE  e \in Overlapping(M, s, t)
<1>1. /\ e.lo \in Nat /\ e.hi \in Nat /\ f.lo \in Nat /\ f.hi \in Nat
      /\ g.lo \in Nat /\ g.hi \in Nat /\ f \in M /\ f.lo <= f.hi
  BY DEF Overlapping, Entry, Ordered
<1>2. s < f.hi /\ t > g.lo
  BY DEF Overlapping
<1>3. e = f \/ e.hi <= f.lo \/ f.hi <= e.lo \/ f.hi <= f.lo
  BY <1>1 DEF Disjoint
<1>4. s < e.hi /\ t > e.lo
  BY <1>1, <1>2, <1>3 DEF EntryLeq
<1> QED BY <1>4 DEF Overlapping

(* The slice del_mapinfo deletes holds every overlapping entry. *)
LEMMA OverlapSlice ==
    ASSUME NEW M \in SUBSET Entry, NEW s \in Nat, NEW t \in Nat,
           NEW e \in Overlapping(M, s, t)
    PROVE  \E f, g \in Overlapping(M, s, t) : EntryLeq(f, e) /\ EntryLeq(e, g)
<1>1. EntryLeq(e, e)
  BY DEF EntryLeq, Overlapping, Entry
<1> QED BY <1>1

(* del_mapinfo yields ordered entries. *)
LEMMA DelEntries ==
    ASSUME NEW M \in SUBSET Entry, Ordered(M), NEW s \in Nat, NEW t \in Nat
    PROVE  del_mapinfo(M, s, t) \in SUBSET Entry /\ Ordered(del_mapinfo(M, s, t))
<1>1. Leftovers(M, s, t) \subseteq Entry
  BY LeftoverEntry
<1>2. \A g \in Leftovers(M, s, t) : g.lo <= g.hi
  <2>1. SUFFICES ASSUME NEW g \in Leftovers(M, s, t) PROVE g.lo <= g.hi
    OBVIOUS
  <2>2. PICK e \in Overlapping(M, s, t) :
            \/ g.lo = e.lo /\ g.hi = s /\ e.lo < s
            \/ g.lo = t /\ g.hi = e.hi /\ t < e.hi
    <3>1. Ranges(M)
      BY DEF Ranges
    <3> QED BY <3>1, LeftoverRange
  <2> QED BY <2>2 DEF Overlapping, Entry
<1> QED BY <1>1, <1>2 DEF del_mapinfo, Ordered

(* del_mapinfo takes the addresses of [s, t) from the list and no other. *)
LEMMA DelHolds ==
    ASSUME NEW M \in SUBSET Entry, Ordered(M), Disjoint(M),
           NEW s \in Nat, NEW t \in Nat, s <= t, NEW a \in Nat
    PROVE  Holds(del_mapinfo(M, s, t), a)
              <=> Holds(M, a) /\ ~ (s <= a /\ a < t)
<1>1. ASSUME Holds(del_mapinfo(M, s, t), a)
      PROVE  Holds(Subtract(M, s, t), a)
  BY <1>1, OverlapSlice DEF del_mapinfo, Subtract, Holds
<1>2. ASSUME Holds(Subtract(M, s, t), a)
      PROVE  Holds(del_mapinfo(M, s, t), a)
  <2>1. PICK e \in Subtract(M, s, t) : e.lo <= a /\ a < e.hi
    BY <1>2 DEF Holds
  <2>2. CASE e \in Leftovers(M, s, t)
    BY <2>1, <2>2 DEF del_mapinfo, Holds
  <2>3. CASE e \in M \ Overlapping(M, s, t)
    <3>1. e.lo \in Nat /\ e.hi \in Nat
      BY <2>3 DEF Entry
    <3>2. ~ \E f, g \in Overlapping(M, s, t) : EntryLeq(f, e) /\ EntryLeq(e, g)
      BY <2>1, <2>3, <3>1, OverlapsConsecutive
    <3> QED BY <2>1, <2>3, <3>2 DEF del_mapinfo, Holds
  <2> QED BY <2>1, <2>2, <2>3 DEF Subtract
<1> QED BY <1>1, <1>2, SubtractHolds DEF Ranges

(* del_mapinfo keeps the entries apart, and apart from [s, t). *)
LEMMA DelDisjoint ==
    ASSUME NEW M \in SUBSET Entry, Ordered(M), Disjoint(M),
           NEW s \in Nat, NEW t \in Nat, s <= t
    PROVE  /\ Disjoint(del_mapinfo(M, s, t))
           /\ \A e \in del_mapinfo(M, s, t) : e.hi <= s \/ t <= e.lo
<1> DEFINE D == del_mapinfo(M, s, t)
<1>1. \A g \in D : \/ g \in M \ Overlapping(M, s, t)
                     \/ g \in Leftovers(M, s, t)
  BY OverlapSlice DEF del_mapinfo
<1>2. \A g \in M \ Overlapping(M, s, t) : g.hi <= s \/ t <= g.lo
  BY DEF Overlapping, Entry
<1>3. \A g \in Leftovers(M, s, t) : \E e \in Overlapping(M, s, t) :
          \/ g = [e EXCEPT !.hi = s] /\ g.lo = e.lo /\ g.hi = s /\ e.lo < s
          \/ g = [e EXCEPT !.lo = t] /\ g.lo = t /\ g.hi = e.hi /\ t < e.hi
  <2>1. Ranges(M)
    BY DEF Ranges
  <2> QED BY <2>1, LeftoverRange
<1>4. \A e \in Overlapping(M, s, t) :
          e \in M /\ e.lo \in Nat /\ e.hi \in Nat /\ s < e.hi /\ t > e.lo
  BY DEF Overlapping, Entry
<1>5. \A g \in D : g.hi <= s \/ t <= g.lo
  BY <1>1, <1>2, <1>3, <1>4
<1>6. ASSUME NEW g \in D, NEW h \in D, g # h
      PROVE  g.hi <= h.lo \/ h.hi <= g.lo \/ g.hi <= g.lo \/ h.hi <= h.lo
  <2>1. PICK e \in M : /\ e.lo <= g.lo /\ g.hi <= e.hi
                        /\ \/ g = e
                           \/ /\ g = [e EXCEPT !.hi = s] /\ g.lo = e.lo
                              /\ g.hi = s /\ e.lo < s /\ s < e.hi
                           \/ /\ g = [e EXCEPT !.lo = t] /\ g.lo = t
                              /\ g.hi = e.hi /\ t < e.hi /\ e.lo < t
    BY <1>1, <1>3, <1>4 DEF Entry
  <2>2. PICK f \in M : /\ f.lo <= h.lo /\ h.hi <= f.hi
                        /\ \/ h = f
                           \/ /\ h = [f EXCEPT !.hi = s] /\ h.lo = f.lo
                              /\ h.hi = s /\ f.lo < s /\ s < f.hi
                           \/ /\ h = [f EXCEPT !.lo = t] /\ h.lo = t
                              /\ h.hi = f.hi /\ t < f.hi /\ f.lo < t
    BY <1>1, <1>3, <1>4 DEF Entry
  <2>3. /\ e.lo \in Nat /\ e.hi \in Nat /\ f.lo \in Nat /\ f.hi \in Nat
        /\ g.lo \in Nat /\ g.hi \in Nat /\ h.lo \in Nat /\ h.hi \in Nat
    BY DelEntries DEF Entry
  <2>4. CASE e = f
    BY <1>5, <1>6, <2>1, <2>2, <2>3, <2>4
  <2>5. CASE e # f
    <3>1. e.hi <= f.lo \/ f.hi <= e.lo \/ e.hi <= e.lo \/ f.hi <= f.lo
      BY <2>5 DEF Disjoint
    <3> QED BY <2>1, <2>2, <2>3, <3>1
  <2> QED BY <2>4, <2>5
<1> QED BY <1>5, <1>6 DEF Disjoint

-----------------------------------------------------------------------------
(* Unicorn. *)

(* mem_unmap leaves regions. *)
LEMMA SubtractRegions ==
    ASSUME uc \in SUBSET Region, Ordered(uc), NEW s \in Nat, NEW t \in Nat
    PROVE  Subtract(uc, s, t) \in SUBSET Region /\ Ordered(Subtract(uc, s, t))
<1>0. Ranges(uc)
  BY DEF Ranges
<1>1. Leftovers(uc, s, t) \subseteq Region
  BY LeftoverRegion
<1>2. ASSUME NEW g \in Leftovers(uc, s, t) PROVE g.lo <= g.hi
  <2>1. PICK e \in Overlapping(uc, s, t) :
            \/ g.lo = e.lo /\ g.hi = s /\ e.lo < s
            \/ g.lo = t /\ g.hi = e.hi /\ t < e.hi
    BY <1>0, LeftoverRange
  <2> QED BY <2>1 DEF Region, Overlapping
<1> QED BY <1>1, <1>2 DEF Subtract, Ordered

(* mem_protect splits regions but maps and unmaps nothing. *)
LEMMA ProtectRegions ==
    ASSUME uc \in SUBSET Region, Ordered(uc), NEW s \in Nat, NEW t \in Nat,
           s <= t, NEW p \in SUBSET UC_PROT_ALL
    PROVE  /\ UcProtect(s, t, p) \in SUBSET Region
           /\ Ordered(UcProtect(s, t, p))
           /\ \A a \in Nat : Holds(UcProtect(s, t, p), a) <=> Holds(uc, a)
<1> DEFINE cut(r) == [r EXCEPT !.lo = IF r.lo < s THEN s ELSE r.lo,
                               !.hi = IF t < r.hi THEN t ELSE r.hi,
                               !.perms = p]
<1>0. Ranges(uc)
  BY DEF Ranges
<1>1. \A r \in Overlapping(uc, s, t) :
          /\ r \in Region /\ s < r.hi /\ t > r.lo /\ r.lo <= r.hi
          /\ cut(r) \in Region
          /\ cut(r).lo = (IF r.lo < s THEN s ELSE r.lo)
          /\ cut(r).hi = (IF t < r.hi THEN t ELSE r.hi)
  BY DEF Overlapping, Region, Ordered
<1>2. UcProtect(s, t, p) =
        Subtract(uc, s, t) \cup {cut(r) : r \in Overlapping(uc, s, t)}
  BY DEF UcProtect
<1> HIDE DEF cut
<1>3. \A r \in Overlapping(uc, s, t) : cut(r).lo <= cut(r).hi
  BY <1>1 DEF Region
<1>4. Subtract(uc, s, t) \in SUBSET Region /\ Ordered(Subtract(uc, s, t))
  BY SubtractRegions
<1>5. UcProtect(s, t, p) \in SUBSET Region /\ Ordered(UcProtect(s, t, p))
  BY <1>1, <1>2, <1>3, <1>4 DEF Ordered
<1>6. ASSUME NEW a \in Nat, Holds(UcProtect(s, t, p), a)
      PROVE  Holds(uc, a)
  <2>1. PICK g \in UcProtect(s, t, p) : g.lo <= a /\ a < g.hi
    BY <1>6 DEF Holds
  <2>2. CASE g \in Subtract(uc, s, t)
    BY <1>0, <2>1, <2>2, SubtractHolds DEF Holds
  <2>3. CASE \E r \in Overlapping(uc, s, t) : g = cut(r)
    <3>1. PICK r \in Overlapping(uc, s, t) : g = cut(r)
      BY <2>3
    <3>2. r \in uc /\ r.lo <= a /\ a < r.hi
      BY <1>1, <2>1, <3>1 DEF Region, Overlapping
    <3> QED BY <3>2 DEF Holds
  <2> QED BY <1>2, <2>1, <2>2, <2>3
<1>7. ASSUME NEW a \in Nat, Holds(uc, a)
      PROVE  Holds(UcProtect(s, t, p), a)
  <2>1. CASE ~ (s <= a /\ a < t)
    <3>1. Holds(Subtract(uc, s, t), a)
      BY <1>0, <1>7, <2>1, SubtractHolds
    <3> QED BY <1>2, <3>1 DEF Holds
  <2>2. CASE s <= a /\ a < t
    <3>1. PICK r \in uc : r.lo <= a /\ a < r.hi
      BY <1>7 DEF Holds
    <3>2. r \in Overlapping(uc, s, t)
      BY <2>2, <3>1 DEF Overlapping, Region
    <3>3. cut(r).lo <= a /\ a < cut(r).hi
      BY <1>1, <2>2, <3>1, <3>2 DEF Region
    <3> QED BY <1>2, <3>2, <3>3 DEF Holds
  <2> QED BY <2>1, <2>2
<1> QED BY <1>5, <1>6, <1>7


(* Coverage of all ranges of M, address by address. *)
LEMMA CoversPointwise ==
    ASSUME NEW M, NEW N, Ranges(M)
    PROVE  (\A e \in M : Covers(N, e.lo, e.hi))
              <=> \A a \in Nat : Holds(M, a) => Holds(N, a)
<1>1. \A e \in M : e.lo \in Nat /\ e.hi \in Nat
  BY RangeNat
<1>2. ASSUME \A e \in M : Covers(N, e.lo, e.hi), NEW a \in Nat, Holds(M, a)
      PROVE  Holds(N, a)
  <2>1. PICK e \in M : e.lo <= a /\ a < e.hi
    BY <1>2 DEF Holds
  <2>2. a \in e.lo .. (e.hi - 1)
    BY <1>1, <2>1
  <2> QED BY <1>2, <2>2 DEF Covers
<1>3. ASSUME \A a \in Nat : Holds(M, a) => Holds(N, a), NEW e \in M
      PROVE  Covers(N, e.lo, e.hi)
  <2>1. SUFFICES ASSUME NEW a \in e.lo .. (e.hi - 1) PROVE Holds(N, a)
    BY DEF Covers
  <2>2. a \in Nat /\ e.lo <= a /\ a < e.hi
    BY <1>1
  <2> QED BY <1>3, <2>2 DEF Holds
<1> QED BY <1>2, <1>3

-----------------------------------------------------------------------------
(* The inductive invariant: disjointness of the list rests on Unicorn       *)
(* refusing what it has mapped already, hence on every entry being backed.  *)

MemInv ==
    /\ map_info \in SUBSET Entry /\ Ordered(map_info)
    /\ uc \in SUBSET Region /\ Ordered(uc)
    /\ EntriesDisjoint
    /\ EntriesBacked

IInv == TypeOK /\ MemInv /\ Ordered(pend.todo)

Returned == ret' \in {"ok", "logged"}

(* What a step owes to the invariant and to the agreement of list and       *)
(* Unicorn.                                                                 *)
StepKeeps == MemInv' /\ ret' \in Outcome
             /\ ((UcDescribed /\ Returned) => UcDescribed')

(* A step that changes neither list nor Unicorn keeps all. *)
LEMMA IdleStep ==
    ASSUME MemInv, UNCHANGED <<map_info, uc>>, ret' \in Outcome
    PROVE  StepKeeps
BY DEF StepKeeps, MemInv, EntriesDisjoint, EntriesBacked, UcDescribed

(* mem_map or mmio_map followed by add_mapinfo. *)
LEMMA AddMappingStep ==
    ASSUME MemInv, NEW a \in Nat, NEW n \in Nat, NEW p \in SUBSET UC_PROT_ALL,
           NEW l \in Labels, NEW io \in BOOLEAN,
           UcMapOk(a, n), AddMapping(a, n, p, l, io), ret' = "ok"
    PROVE  StepKeeps
<1> DEFINE e == [lo |-> a, hi |-> a + n, perms |-> p, label |-> l, mmio |-> io]
           r == [lo |-> a, hi |-> a + n, perms |-> UcPerms(p, io), mmio |-> io]
<1>0. UcPerms(p, io) \in SUBSET UC_PROT_ALL
  BY Zenon DEF UcPerms, UC_PROT_ALL
<1>1. /\ e \in Entry /\ e.lo = a /\ e.hi = a + n
      /\ r \in Region /\ r.lo = a /\ r.hi = a + n
  BY <1>0 DEF Entry, Region
<1>2. map_info' = map_info \cup {e} /\ uc' = uc \cup {r}
  BY DEF AddMapping
<1> HIDE DEF e, r
<1>3. /\ map_info' \in SUBSET Entry /\ Ordered(map_info')
      /\ uc' \in SUBSET Region /\ Ordered(uc')
  BY <1>1, <1>2 DEF MemInv, Ordered
<1>4. /\ \A x \in Nat : Holds(map_info, x) => Holds(uc, x)
      /\ UcDescribed => \A x \in Nat : Holds(uc, x) => Holds(map_info, x)
  BY CoversPointwise DEF MemInv, EntriesBacked, UcDescribed, Ranges
<1>5. \A x \in Nat :
          /\ Holds(map_info', x) <=> (Holds(map_info, x) \/ (a <= x /\ x < a + n))
          /\ Holds(uc', x) <=> (Holds(uc, x) \/ (a <= x /\ x < a + n))
  BY <1>1, <1>2 DEF Holds
<1>6. EntriesBacked' /\ (UcDescribed => UcDescribed')
  BY <1>3, <1>4, <1>5, CoversPointwise DEF EntriesBacked, UcDescribed, Ranges
<1>7. ASSUME NEW f \in map_info
      PROVE  f.hi <= a \/ a + n <= f.lo \/ f.hi <= f.lo
  <2>1. f.lo \in Nat /\ f.hi \in Nat
    BY DEF MemInv, Entry
  <2>2. ASSUME NEW x \in Nat, f.lo <= x, x < f.hi, a <= x, x < a + n
        PROVE  FALSE
    <3>1. PICK q \in uc : q.lo <= x /\ x < q.hi
      BY <1>4, <2>2 DEF Holds
    <3>2. q \in Overlapping(uc, a, a + n)
      BY <2>2, <3>1 DEF Overlapping, MemInv, Region
    <3> QED BY <3>2 DEF UcMapOk
  <2>3. n > 0
    BY DEF UcMapOk
  <2>4. CASE f.lo <= a
    BY <2>1, <2>2, <2>3, <2>4
  <2>5. CASE a < f.lo
    BY <2>1, <2>2, <2>3, <2>5
  <2> QED BY <2>1, <2>4, <2>5
<1>8. EntriesDisjoint'
  BY <1>1, <1>2, <1>7 DEF EntriesDisjoint, Disjoint, MemInv
<1> QED BY <1>3, <1>6, <1>8 DEF StepKeeps, MemInv, Outcome

(* map: refused, or added to Unicorn and to the list. *)
LEMMA MapAtStep ==
    ASSUME MemInv, NEW a \in Nat, NEW n \in Nat, NEW p, NEW l \in Labels,
           MapAt(a, n, p, l)
    PROVE  StepKeeps
<1>1. CASE UNCHANGED <<map_info, uc>> /\ ret' \in Outcome
  BY <1>1, IdleStep
<1>2. CASE /\ p \in SUBSET UC_PROT_ALL /\ UcMapOk(a, n)
           /\ AddMapping(a, n, p, l, FALSE) /\ ret' = "ok"
  BY <1>2, AddMappingStep
<1> QED BY <1>1, <1>2 DEF MapAt, Outcome

(* What del_mapinfo does to the list while Unicorn stays or shrinks with it. *)
LEMMA DelStep ==
    ASSUME MemInv, NEW a \in Nat, NEW n \in Nat,
           map_info' = del_mapinfo(map_info, a, a + n)
    PROVE  /\ map_info' \in SUBSET Entry /\ Ordered(map_info')
           /\ EntriesDisjoint'
           /\ \A x \in Nat : Holds(map_info', x) <=>
                 (Holds(map_info, x) /\ ~ (a <= x /\ x < a + n))
           /\ \A x \in Nat : Holds(map_info, x) => Holds(uc, x)
<1>1. a + n \in Nat /\ a <= a + n
  OBVIOUS
<1>2. map_info' \in SUBSET Entry /\ Ordered(map_info')
  BY <1>1, DelEntries DEF MemInv
<1>3. EntriesDisjoint'
  BY <1>1, DelDisjoint DEF MemInv, EntriesDisjoint
<1>4. \A x \in Nat : Holds(map_info', x) <=>
          (Holds(map_info, x) /\ ~ (a <= x /\ x < a + n))
  BY <1>1, DelHolds DEF MemInv, EntriesDisjoint
<1>5. \A x \in Nat : Holds(map_info, x) => Holds(uc, x)
  BY CoversPointwise DEF MemInv, EntriesBacked, Ranges
<1> QED BY <1>2, <1>3, <1>4, <1>5

(* unmap: the list loses the range, Unicorn too unless it refuses. *)
LEMMA UnmapAtStep ==
    ASSUME MemInv, NEW a \in Nat, NEW n \in Nat, UnmapAt(a, n)
    PROVE  StepKeeps
<1>1. CASE UNCHANGED <<map_info, uc>> /\ ret' \in Outcome
  BY <1>1, IdleStep
<1>2. CASE /\ map_info' = del_mapinfo(map_info, a, a + n)
           /\ uc' = uc /\ ret' = "UcError"
  <2>1. EntriesBacked'
    BY <1>2, DelStep, CoversPointwise DEF EntriesBacked, Ranges
  <2> QED BY <1>2, <2>1, DelStep DEF StepKeeps, MemInv, Returned, Outcome
<1>3. CASE /\ map_info' = del_mapinfo(map_info, a, a + n)
           /\ uc' = (IF n = 0 THEN uc ELSE Subtract(uc, a, a + n))
           /\ ret' = "ok"
  <2>0. a + n \in Nat /\ a <= a + n
    OBVIOUS
  <2>1. uc' \in SUBSET Region /\ Ordered(uc')
    BY <1>3, <2>0, SubtractRegions DEF MemInv
  <2>2. \A x \in Nat : Holds(uc', x) <=>
            (Holds(uc, x) /\ ~ (a <= x /\ x < a + n))
    <3>1. Ranges(uc)
      BY DEF MemInv, Ranges
    <3>2. \A x \in Nat : Holds(Subtract(uc, a, a + n), x) <=>
              (Holds(uc, x) /\ ~ (a <= x /\ x < a + n))
      BY <2>0, <3>1, SubtractHolds
    <3>3. CASE n = 0
      BY <1>3, <3>3
    <3>4. CASE n # 0
      BY <1>3, <3>2, <3>4
    <3> QED BY <3>3, <3>4
  <2>3. EntriesBacked'
    BY <1>3, <2>2, DelStep, CoversPointwise DEF EntriesBacked, Ranges
  <2>4. ASSUME UcDescribed PROVE UcDescribed'
    <3>1. \A x \in Nat : Holds(uc, x) => Holds(map_info, x)
      BY <2>4, CoversPointwise DEF UcDescribed, MemInv, Ranges
    <3>2. \A x \in Nat : Holds(uc', x) => Holds(map_info', x)
      BY <1>3, <2>2, <3>1, DelStep
    <3> QED BY <2>1, <3>2, CoversPointwise DEF UcDescribed, Ranges
  <2> QED BY <1>3, <2>1, <2>3, <2>4, DelStep
          DEF StepKeeps, MemInv, Outcome
<1> QED BY <1>1, <1>2, <1>3 DEF UnmapAt, Outcome

(* protect: Unicorn maps what it mapped, the list has one entry for it. *)
LEMMA ProtectStep ==
    ASSUME MemInv, NEW addr \in Nat, NEW len \in Nat, NEW prot,
           Protect(addr, len, prot)
    PROVE  StepKeeps
<1> DEFINE p == SupportedPerms(prot)
           a == align(addr)
           n == align_up((addr % PageSize) + len, PageSize)
<1>1. a \in Nat /\ n \in Nat /\ p \in SUBSET UC_PROT_ALL
      /\ a + n \in Nat /\ a <= a + n
  <2>1. a \in Nat /\ addr % PageSize \in Nat
    BY AlignNat
  <2>2. n \in Nat
    BY <2>1, AlignUpNat
  <2> QED BY <2>1, <2>2 DEF SupportedPerms
<1>2. \/ UNCHANGED <<map_info, uc>> /\ ret' \in Outcome
      \/ /\ UcUnmapOk(a, n)
         /\ uc' = (IF n = 0 THEN uc ELSE UcProtect(a, a + n, p))
         /\ \/ UNCHANGED map_info /\ ret' \in Outcome
            \/ \E e \in map_info :
                  /\ map_info' = del_mapinfo(map_info, a, a + n) \cup
                       {[lo |-> a, hi |-> a + n, perms |-> p,
                         label |-> e.label, mmio |-> FALSE]}
                  /\ ret' = "ok"
  BY DEF Protect, FirstEnclosing, Enclosing, Outcome
<1> HIDE DEF p, a, n
<1>3. CASE UNCHANGED <<map_info, uc>> /\ ret' \in Outcome
  BY <1>3, IdleStep
<1>4. ASSUME UcUnmapOk(a, n),
             uc' = (IF n = 0 THEN uc ELSE UcProtect(a, a + n, p))
      PROVE  /\ uc' \in SUBSET Region /\ Ordered(uc')
             /\ \A x \in Nat : Holds(uc', x) <=> Holds(uc, x)
             /\ \A x \in Nat : (a <= x /\ x < a + n) => Holds(uc, x)
             /\ \A x \in Nat : Holds(map_info, x) => Holds(uc, x)
             /\ UcDescribed => \A x \in Nat : Holds(uc, x) => Holds(map_info, x)
  <2>1. uc' \in SUBSET Region /\ Ordered(uc')
        /\ \A x \in Nat : Holds(uc', x) <=> Holds(uc, x)
    BY <1>1, <1>4, ProtectRegions DEF MemInv
  <2>2. \A x \in Nat : (a <= x /\ x < a + n) => Holds(uc, x)
    <3>1. SUFFICES ASSUME NEW x \in Nat, a <= x, x < a + n PROVE Holds(uc, x)
      OBVIOUS
    <3>2. x \in a .. (a + n - 1) /\ n # 0
      BY <1>1, <3>1
    <3>3. Covers(uc, a, a + n)
      BY <1>4, <3>2 DEF UcUnmapOk
    <3> QED BY <1>1, <3>1, <3>3, SMT DEF Covers
  <2>3. \A x \in Nat : Holds(map_info, x) => Holds(uc, x)
    BY CoversPointwise DEF MemInv, EntriesBacked, Ranges
  <2>4. UcDescribed => \A x \in Nat : Holds(uc, x) => Holds(map_info, x)
    BY CoversPointwise DEF MemInv, UcDescribed, Ranges
  <2> QED BY <2>1, <2>2, <2>3, <2>4
<1>5. ASSUME UcUnmapOk(a, n), UNCHANGED map_info, ret' \in Outcome,
             uc' = (IF n = 0 THEN uc ELSE UcProtect(a, a + n, p))
      PROVE  StepKeeps
  <2>1. EntriesBacked'
    BY <1>4, <1>5, CoversPointwise DEF EntriesBacked, MemInv, Ranges
  <2>2. UcDescribed => UcDescribed'
    BY <1>4, <1>5, CoversPointwise DEF UcDescribed, MemInv, Ranges
  <2>3. EntriesDisjoint' /\ map_info' \in SUBSET Entry /\ Ordered(map_info')
    BY <1>5 DEF MemInv, EntriesDisjoint
  <2> QED BY <1>4, <1>5, <2>1, <2>2, <2>3 DEF StepKeeps, MemInv
<1>6. ASSUME UcUnmapOk(a, n), NEW f \in map_info, ret' = "ok",
             uc' = (IF n = 0 THEN uc ELSE UcProtect(a, a + n, p)),
             map_info' = del_mapinfo(map_info, a, a + n) \cup
                {[lo |-> a, hi |-> a + n, perms |-> p,
                  label |-> f.label, mmio |-> FALSE]}
      PROVE  StepKeeps
  <2> DEFINE e == [lo |-> a, hi |-> a + n, perms |-> p,
                   label |-> f.label, mmio |-> FALSE]
             D == del_mapinfo(map_info, a, a + n)
  <2>1. e \in Entry /\ e.lo = a /\ e.hi = a + n
    BY <1>1 DEF Entry, MemInv
  <2>2. map_info' = D \cup {e}
    BY <1>6
  <2>3. D \in SUBSET Entry /\ Ordered(D)
    BY <1>1, DelEntries DEF MemInv
  <2>4. Disjoint(D) /\ \A g \in D : g.hi <= a \/ a + n <= g.lo
    BY <1>1, DelDisjoint DEF MemInv, EntriesDisjoint
  <2>5. \A x \in Nat : Holds(D, x) <=>
            (Holds(map_info, x) /\ ~ (a <= x /\ x < a + n))
    BY <1>1, DelHolds DEF MemInv, EntriesDisjoint
  <2> HIDE DEF e, D
  <2>6. map_info' \in SUBSET Entry /\ Ordered(map_info')
    BY <1>1, <2>1, <2>2, <2>3 DEF Ordered
  <2>7. \A x \in Nat : Holds(map_info', x) <=>
            (Holds(map_info, x) \/ (a <= x /\ x < a + n))
    <3>1. \A x \in Nat : Holds(map_info', x) <=>
              (Holds(D, x) \/ (a <= x /\ x < a + n))
      BY <2>1, <2>2 DEF Holds
    <3> QED BY <2>5, <3>1
  <2>8. EntriesDisjoint'
    BY <2>1, <2>2, <2>4 DEF EntriesDisjoint, Disjoint
  <2>9. EntriesBacked' /\ (UcDescribed => UcDescribed')
    <3>1. /\ \A x \in Nat : Holds(map_info', x) => Holds(uc', x)
          /\ UcDescribed => \A x \in Nat : Holds(uc', x) => Holds(map_info', x)
      BY <1>4, <1>6, <2>7
    <3>2. Ranges(map_info') /\ Ranges(uc')
      BY <1>4, <1>6, <2>6 DEF Ranges
    <3> QED BY <3>1, <3>2, CoversPointwise DEF EntriesBacked, UcDescribed
  <2> QED BY <1>4, <1>6, <2>6, <2>8, <2>9 DEF StepKeeps, MemInv, Outcome
<1> QED BY <1>2, <1>3, <1>5, <1>6

(* change_mapinfo with a label only: one entry is renamed in place. *)
LEMMA RelabelStep ==
    ASSUME MemInv, NEW s \in Nat, NEW t \in Nat, NEW l \in Labels,
           Relabel(s, t, l)
    PROVE  StepKeeps
<1>1. CASE UNCHANGED <<map_info, uc>> /\ ret' \in Outcome
  BY <1>1, IdleStep
<1>2. ASSUME NEW e \in map_info, ret' = "ok", UNCHANGED uc,
             map_info' = (map_info \ {e}) \cup {[e EXCEPT !.label = l]}
      PROVE  StepKeeps
  <2> DEFINE f == [e EXCEPT !.label = l]
  <2>1. f \in Entry /\ f.lo = e.lo /\ f.hi = e.hi
    BY DEF MemInv, Entry
  <2>2. map_info' = (map_info \ {e}) \cup {f}
    BY <1>2
  <2> HIDE DEF f
  <2>3. map_info' \in SUBSET Entry /\ Ordered(map_info')
    BY <2>1, <2>2 DEF MemInv, Ordered
  <2>4. \A x \in Nat : Holds(map_info', x) <=> Holds(map_info, x)
    BY <2>1, <2>2 DEF Holds
  <2>5. EntriesDisjoint'
    <3>1. \A c, d \in map_info : c # d => \/ c.hi <= d.lo \/ d.hi <= c.lo
                                         \/ c.hi <= c.lo \/ d.hi <= d.lo
      BY DEF EntriesDisjoint, Disjoint, MemInv
    <3>2. \A d \in map_info \ {e} : \/ f.hi <= d.lo \/ d.hi <= f.lo
                                    \/ f.hi <= f.lo \/ d.hi <= d.lo
      BY <2>1, <3>1
    <3> QED BY <2>2, <3>1, <3>2 DEF EntriesDisjoint, Disjoint
  <2>6. EntriesBacked'
    <3>1. \A x \in Nat : Holds(map_info, x) => Holds(uc, x)
      BY CoversPointwise DEF EntriesBacked, MemInv, Ranges
    <3>2. \A x \in Nat : Holds(map_info', x) => Holds(uc, x)
      BY <2>4, <3>1
    <3>3. \A g \in map_info' : Covers(uc, g.lo, g.hi)
      BY <2>3, <3>2, CoversPointwise DEF Ranges
    <3> QED BY <1>2, <3>3 DEF EntriesBacked
  <2>7. UcDescribed => UcDescribed'
    BY <1>2, <2>3, <2>4, CoversPointwise DEF UcDescribed, MemInv, Ranges
  <2> QED BY <1>2, <2>3, <2>5, <2>6, <2>7 DEF StepKeeps, MemInv, Outcome
<1> QED BY <1>1, <1>2 DEF Relabel, FirstEnclosing, Enclosing, Outcome

-----------------------------------------------------------------------------
(* A range named by a caller is one of addresses. *)
LEMMA CallerRange ==
    ASSUME NEW a \in Addr, NEW n \in Lens
    PROVE  a \in Nat /\ n \in Nat /\ a + n \in Nat /\ a <= a + n
BY MemoryAssumption DEF Addr

(* The loop record of unmap_between and unmap_all. *)
LEMMA LoopOK ==
    ASSUME NEW op \in {"unmap_between", "unmap_all"},
           NEW T \in SUBSET [lo : Nat, hi : Nat], Ordered(T)
    PROVE  /\ Loop(op, T) \in [op : {"none", "unmap_between", "unmap_all"},
                                todo : SUBSET [lo : Nat, hi : Nat]]
           /\ Ordered(Loop(op, T).todo)
BY DEF Loop, NoLoop, Ordered

(* Every step keeps the inductive invariant, and one that returns normally  *)
(* keeps list and Unicorn in agreement.                                     *)
LEMMA InductiveStep ==
    ASSUME IInv, [Next]_vars
    PROVE  IInv' /\ ((UcDescribed /\ Returned) => UcDescribed' \/ UNCHANGED vars)
<1> DEFINE Keeps == StepKeeps /\ UNCHANGED <<mmio_cbs, pend>>
<1>0. ASSUME Keeps PROVE IInv' /\ (UcDescribed /\ Returned => UcDescribed')
  BY <1>0 DEF StepKeeps, IInv, TypeOK, MemInv
<1>1. ASSUME NEW a \in Addr, NEW n \in Lens, NEW p \in Prots, NEW l \in Labels,
             Map(a, n, p, l)
      PROVE  Keeps
  BY <1>1, CallerRange, MapAtStep DEF Map, IInv
<1>2. ASSUME NEW a \in Addr, NEW n \in Lens, NEW c \in Callbacks,
             NEW l \in Labels, MapMmio(a, n, c, l)
      PROVE  IInv' /\ (UcDescribed /\ Returned => UcDescribed')
  <2>1. a \in Nat /\ n \in Nat /\ a + n \in Nat
    BY CallerRange
  <2>2. c \in SUBSET UC_PROT_ALL
    BY MemoryAssumption DEF UC_PROT_ALL
  <2>3. StepKeeps
    <3>1. CASE UNCHANGED <<map_info, uc>> /\ ret' \in Outcome
      BY <3>1, IdleStep DEF IInv
    <3>2. CASE UcMapOk(a, n) /\ AddMapping(a, n, c, l, TRUE) /\ ret' = "ok"
      BY <2>1, <2>2, <3>2, AddMappingStep DEF IInv
    <3> QED BY <1>2, <3>1, <3>2 DEF MapMmio, Outcome
  <2>4. mmio_cbs' \in SUBSET [lo : Nat, hi : Nat, cbs : SUBSET UC_PROT_ALL]
    <3>1. [lo |-> a, hi |-> a + n, cbs |-> c]
             \in [lo : Nat, hi : Nat, cbs : SUBSET UC_PROT_ALL]
      BY <2>1, <2>2
    <3> QED BY <1>2, <3>1 DEF MapMmio, IInv, TypeOK
  <2>5. UNCHANGED pend
    BY <1>2 DEF MapMmio
  <2> QED BY <2>3, <2>4, <2>5 DEF StepKeeps, IInv, TypeOK, MemInv
<1>3. ASSUME NEW a \in Nat, NEW n \in Nat, UnmapAt(a, n)
      PROVE  /\ StepKeeps
             /\ mmio_cbs' \in SUBSET [lo : Nat, hi : Nat,
                                       cbs : SUBSET UC_PROT_ALL]
  BY <1>3, UnmapAtStep DEF UnmapAt, IInv, TypeOK
<1>4. ASSUME NEW a \in Addr, NEW n \in Lens, Unmap(a, n)
      PROVE  IInv' /\ (UcDescribed /\ Returned => UcDescribed')
  <2>1. StepKeeps /\ UNCHANGED pend
        /\ mmio_cbs' \in SUBSET [lo : Nat, hi : Nat, cbs : SUBSET UC_PROT_ALL]
    BY <1>3, <1>4, CallerRange DEF Unmap
  <2> QED BY <2>1 DEF StepKeeps, IInv, TypeOK, MemInv
<1>5. ASSUME NEW a \in Addr, NEW n \in Lens, NEW p \in Prots, Protect(a, n, p)
      PROVE  Keeps
  BY <1>5, CallerRange, ProtectStep DEF IInv, Protect
<1>6. ASSUME NEW a \in Addr, NEW n \in Lens, NEW l \in Labels,
             Relabel(a, a + n, l)
      PROVE  Keeps
  BY <1>6, CallerRange, RelabelStep DEF IInv, Relabel
<1>7. ASSUME NEW n \in Lens, NEW m \in 0 .. MemUbound - 1, NEW p \in Prots,
             NEW l \in Labels, MapAnywhere(n, m, p, l)
      PROVE  Keeps
  <2> DEFINE k == align_up(n, PageSize)
  <2>1. k \in Nat
    BY MemoryAssumption, AlignUpNat
  <2>2. \/ UNCHANGED <<map_info, uc>> /\ ret' \in Outcome
        \/ \E a \in Addr : MapAt(a, k, p, l)
    BY <1>7 DEF MapAnywhere, Outcome
  <2>3. UNCHANGED <<mmio_cbs, pend>>
    BY <1>7 DEF MapAnywhere
  <2> HIDE DEF k
  <2>4. StepKeeps
    BY <2>1, <2>2, IdleStep, MapAtStep, MemoryAssumption DEF IInv, Addr
  <2> QED BY <2>3, <2>4
<1>8. ASSUME NEW s \in Addr, NEW n \in Lens, UnmapBetween(s, s + n)
      PROVE  IInv' /\ (UcDescribed /\ Returned => UcDescribed')
  <2> DEFINE t == s + n
             T == {[lo |-> IF e.lo < s THEN s ELSE e.lo,
                    hi |-> IF t < e.hi THEN t ELSE e.hi] :
                       e \in Overlapping(map_info, s, t)}
  <2>1. s \in Nat /\ t \in Nat /\ s <= t
    BY CallerRange
  <2>2. pend' = Loop("unmap_between", T) /\ ret' = "ok"
        /\ UNCHANGED <<map_info, uc, mmio_cbs>>
    BY <1>8 DEF UnmapBetween
  <2> HIDE DEF t
  <2>3. \A e \in Overlapping(map_info, s, t) :
            e.lo \in Nat /\ e.hi \in Nat /\ e.lo <= e.hi /\ s < e.hi /\ t > e.lo
    BY DEF Overlapping, IInv, MemInv, Entry, Ordered
  <2>4. T \in SUBSET [lo : Nat, hi : Nat] /\ Ordered(T)
    BY <2>1, <2>3 DEF Ordered
  <2> HIDE DEF T
  <2>5. StepKeeps
    BY <2>2, IdleStep DEF IInv, Outcome
  <2>6. /\ pend' \in [op : {"none", "unmap_between", "unmap_all"},
                       todo : SUBSET [lo : Nat, hi : Nat]]
        /\ Ordered(pend'.todo)
    BY <2>2, <2>4, LoopOK
  <2> QED BY <2>2, <2>5, <2>6 DEF StepKeeps, IInv, TypeOK, MemInv
<1>9. ASSUME UnmapAll
      PROVE  IInv' /\ (UcDescribed /\ Returned => UcDescribed')
  <2> DEFINE T == {[lo |-> r.lo, hi |-> r.hi] : r \in uc}
  <2>1. pend' = Loop("unmap_all", T) /\ ret' = "ok"
        /\ UNCHANGED <<map_info, uc, mmio_cbs>>
    BY <1>9 DEF UnmapAll
  <2>2. T \in SUBSET [lo : Nat, hi : Nat] /\ Ordered(T)
    BY DEF IInv, MemInv, Region, Ordered
  <2> HIDE DEF T
  <2>3. StepKeeps
    BY <2>1, IdleStep DEF IInv, Outcome
  <2>4. /\ pend' \in [op : {"none", "unmap_between", "unmap_all"},
                       todo : SUBSET [lo : Nat, hi : Nat]]
        /\ Ordered(pend'.todo)
    BY <2>1, <2>2, LoopOK
  <2> QED BY <2>1, <2>3, <2>4 DEF StepKeeps, IInv, TypeOK, MemInv
<1>10. ASSUME UnmapNext
       PROVE  IInv' /\ (UcDescribed /\ Returned => UcDescribed')
  <2>1. PICK r \in pend.todo :
            /\ UnmapAt(r.lo, r.hi - r.lo)
            /\ pend' = IF ret' = "ok" THEN Loop(pend.op, pend.todo \ {r})
                                      ELSE NoLoop
    BY <1>10 DEF UnmapNext
  <2>2. r.lo \in Nat /\ r.hi - r.lo \in Nat
    BY DEF IInv, TypeOK, Ordered
  <2>3. /\ StepKeeps
        /\ mmio_cbs' \in SUBSET [lo : Nat, hi : Nat, cbs : SUBSET UC_PROT_ALL]
    BY <1>3, <2>1, <2>2
  <2>4. /\ pend' \in [op : {"none", "unmap_between", "unmap_all"},
                       todo : SUBSET [lo : Nat, hi : Nat]]
        /\ Ordered(pend'.todo)
    BY <2>1 DEF Loop, NoLoop, IInv, TypeOK, Ordered
  <2> QED BY <2>3, <2>4 DEF StepKeeps, IInv, TypeOK, MemInv
<1>11. CASE UNCHANGED vars
  BY <1>11 DEF vars, IInv, TypeOK, MemInv, EntriesDisjoint, EntriesBacked
<1> HIDE DEF Keeps
<1> QED BY <1>0, <1>1, <1>2, <1>4, <1>5, <1>6, <1>7, <1>8, <1>9, <1>10, <1>11
        DEF Next

-----------------------------------------------------------------------------
(* The empty list and the empty Unicorn satisfy the invariant. *)
LEMMA InitOK == Init => IInv
BY DEF Init, IInv, TypeOK, MemInv, Ordered, EntriesDisjoint, Disjoint,
       EntriesBacked, NoLoop, Outcome

(* The inductive invariant holds in every reachable state. *)
LEMMA Inductive == Spec => []IInv
BY InitOK, InductiveStep, PTL DEF Spec

(* "map_info is assumed to contain non-overlapping regions": it always does, *)
(* and every entry of it is mapped in Unicorn, so save and search never      *)
(* fault.                                                                    *)
THEOREM ListAlwaysSound == Spec => []ListSound
<1>1. IInv => ListSound
  BY DEF IInv, MemInv, ListSound
<1> QED BY <1>1, Inductive, PTL

(* Only an operation that raises can leave memory mapped in Unicorn that    *)
(* the list does not describe.                                              *)
THEOREM AgreementKept == Spec => OkKeepsAgreement
<1>1. IInv /\ [Next]_vars =>
         [(UcDescribed /\ ret' \in {"ok", "logged"}) => UcDescribed']_vars
  BY InductiveStep DEF Returned
<1> QED BY <1>1, Inductive, PTL DEF Spec, OkKeepsAgreement

-----------------------------------------------------------------------------
(* Permissions. *)

(* Range g has the permissions of e and is MMIO if e is. *)
SameKind(g, e) == g.perms = e.perms /\ g.mmio = e.mmio

(* Every range of N is a part of one of M and of its kind. *)
PartsOf(N, M) ==
    \A g \in N : \E e \in M : e.lo <= g.lo /\ g.hi <= e.hi /\ SameKind(g, e)

(* What is left over of a range keeps its permissions. *)
LEMMA LeftoverParts ==
    ASSUME NEW M, Ranges(M), NEW s \in Nat, NEW t \in Nat
    PROVE  PartsOf(Leftovers(M, s, t), M)
<1> SUFFICES ASSUME NEW g \in Leftovers(M, s, t)
             PROVE  \E e \in M : e.lo <= g.lo /\ g.hi <= e.hi /\ SameKind(g, e)
  BY DEF PartsOf
<1>1. PICK e \in Overlapping(M, s, t) :
         \/ g = [e EXCEPT !.hi = s] /\ g.lo = e.lo /\ g.hi = s /\ e.lo < s
         \/ g = [e EXCEPT !.lo = t] /\ g.lo = t /\ g.hi = e.hi /\ t < e.hi
  BY LeftoverRange
<1>2. e \in M /\ s < e.hi /\ t > e.lo /\ e.lo \in Nat /\ e.hi \in Nat
  BY RangeNat DEF Overlapping
<1>3. SameKind(g, e)
  BY <1>1, <1>2 DEF Ranges, Entry, Region, SameKind
<1> QED BY <1>1, <1>2, <1>3

(* Neither del_mapinfo nor mem_unmap changes the permissions of what stays. *)
LEMMA CutParts ==
    ASSUME NEW M, Ranges(M), NEW s \in Nat, NEW t \in Nat
    PROVE  PartsOf(Subtract(M, s, t), M) /\ PartsOf(del_mapinfo(M, s, t), M)
<1>1. \A e \in M : e.lo <= e.lo /\ e.hi <= e.hi
  BY RangeNat
<1>2. PartsOf(Leftovers(M, s, t), M)
  BY LeftoverParts
<1> QED BY <1>1, <1>2 DEF PartsOf, Subtract, del_mapinfo, SameKind

(* Nothing of what del_mapinfo or mem_unmap leaves lies in [s, t). *)
LEMMA CutApart ==
    ASSUME NEW M \in SUBSET Region, NEW s \in Nat, NEW t \in Nat, s <= t,
           NEW g \in Subtract(M, s, t)
    PROVE  g.hi <= s \/ t <= g.lo
<1>1. Ranges(M)
  BY DEF Ranges
<1>2. CASE g \in M \ Overlapping(M, s, t)
  BY <1>1, <1>2, RangeNat DEF Overlapping
<1>3. CASE g \in Leftovers(M, s, t)
  <2>1. g.lo = t \/ g.hi = s
    BY <1>1, <1>3, LeftoverRange
  <2> QED BY <2>1
<1> QED BY <1>2, <1>3 DEF Subtract

(* Parts of what agrees agree. *)
LEMMA PartsAgree ==
    ASSUME PermsAgree, MemInv, MemInv', NEW e \in map_info', NEW r \in uc',
           e.lo < r.hi, r.lo < e.hi, e.lo < e.hi,
           \E f \in map_info : f.lo <= e.lo /\ e.hi <= f.hi /\ SameKind(e, f),
           \E q \in uc : q.lo <= r.lo /\ r.hi <= q.hi /\ SameKind(r, q)
    PROVE  Granted(e, r)
<1>1. PICK f \in map_info : f.lo <= e.lo /\ e.hi <= f.hi /\ SameKind(e, f)
  OBVIOUS
<1>2. PICK q \in uc : q.lo <= r.lo /\ r.hi <= q.hi /\ SameKind(r, q)
  OBVIOUS
<1>3. /\ e.lo \in Nat /\ e.hi \in Nat /\ r.lo \in Nat /\ r.hi \in Nat
      /\ f.lo \in Nat /\ f.hi \in Nat /\ q.lo \in Nat /\ q.hi \in Nat
  BY DEF MemInv, Entry, Region
<1>4. f.lo < q.hi /\ q.lo < f.hi /\ f.lo < f.hi
  BY <1>1, <1>2, <1>3
<1> QED BY <1>1, <1>2, <1>4 DEF PermsAgree, Granted, SameKind

(* A step after which both hold only parts of what they held. *)
LEMMA PartsStep ==
    ASSUME PermsAgree, MemInv, MemInv',
           PartsOf(map_info', map_info), PartsOf(uc', uc)
    PROVE  PermsAgree'
<1> SUFFICES ASSUME NEW e \in map_info', NEW r \in uc',
                    e.lo < r.hi, r.lo < e.hi, e.lo < e.hi
             PROVE  Granted(e, r)
  BY DEF PermsAgree
<1>1. \E f \in map_info : f.lo <= e.lo /\ e.hi <= f.hi /\ SameKind(e, f)
  BY DEF PartsOf
<1>2. \E q \in uc : q.lo <= r.lo /\ r.hi <= q.hi /\ SameKind(r, q)
  BY DEF PartsOf
<1> QED BY <1>1, <1>2, PartsAgree

(* All of it is a part of itself. *)
LEMMA PartsSelf ==
    ASSUME NEW M, Ranges(M)
    PROVE  PartsOf(M, M)
BY RangeNat DEF PartsOf, SameKind

(* mem_map or mmio_map followed by add_mapinfo. *)
LEMMA AddMappingPerms ==
    ASSUME PermsAgree, MemInv, MemInv', NEW a \in Nat, NEW n \in Nat,
           NEW p, NEW l, NEW io, io => p \subseteq {"r", "w"},
           UcMapOk(a, n), AddMapping(a, n, p, l, io)
    PROVE  PermsAgree'
<1> DEFINE new == [lo |-> a, hi |-> a + n, perms |-> p, label |-> l, mmio |-> io]
           reg == [lo |-> a, hi |-> a + n, perms |-> UcPerms(p, io), mmio |-> io]
<1>0. p \subseteq UcPerms(p, io) /\ (io \/ UcPerms(p, io) \subseteq p)
  BY DEF UcPerms
<1>1. /\ new.lo = a /\ new.hi = a + n
      /\ reg.lo = a /\ reg.hi = a + n /\ Granted(new, reg)
  BY <1>0 DEF Granted
<1>2. map_info' = map_info \cup {new} /\ uc' = uc \cup {reg}
  BY DEF AddMapping
<1> HIDE DEF new, reg
<1>3. n > 0 /\ \A q \in uc : ~ (a < q.hi /\ a + n > q.lo)
  BY DEF UcMapOk, Overlapping
<1>4. ASSUME NEW f \in map_info PROVE f.hi <= a \/ a + n <= f.lo \/ f.hi <= f.lo
  <2>1. f.lo \in Nat /\ f.hi \in Nat
    BY DEF MemInv, Entry
  <2>2. ASSUME NEW x \in Nat, f.lo <= x, x < f.hi, a <= x, x < a + n PROVE FALSE
    <3>1. Covers(uc, f.lo, f.hi)
      BY DEF MemInv, EntriesBacked
    <3>2. PICK q \in uc : q.lo <= x /\ x < q.hi
      BY <2>1, <2>2, <3>1 DEF Covers, Holds
    <3>3. q.lo \in Nat /\ q.hi \in Nat
      BY DEF MemInv, Region
    <3> QED BY <1>3, <2>2, <3>2, <3>3
  <2>3. CASE f.lo <= a
    BY <1>3, <2>1, <2>2, <2>3
  <2>4. CASE a < f.lo
    BY <1>3, <2>1, <2>2, <2>4
  <2> QED BY <2>1, <2>3, <2>4
<1> SUFFICES ASSUME NEW e \in map_info', NEW r \in uc',
                    e.lo < r.hi, r.lo < e.hi, e.lo < e.hi
             PROVE  Granted(e, r)
  BY DEF PermsAgree
<1>5. /\ e.lo \in Nat /\ e.hi \in Nat /\ r.lo \in Nat /\ r.hi \in Nat
  BY DEF MemInv, Entry, Region
<1>6. CASE e \in map_info /\ r \in uc
  BY <1>6 DEF PermsAgree
<1>7. CASE e = new /\ r \in uc
  BY <1>1, <1>3, <1>5, <1>7
<1>8. CASE e \in map_info /\ r = reg
  BY <1>1, <1>4, <1>5, <1>8
<1>9. CASE e = new /\ r = reg
  BY <1>1, <1>9
<1> QED BY <1>2, <1>6, <1>7, <1>8, <1>9

(* unmap, as far as it goes. *)
LEMMA UnmapAtPerms ==
    ASSUME PermsAgree, MemInv, MemInv', NEW a \in Nat, NEW n \in Nat, UnmapAt(a, n)
    PROVE  PermsAgree'
<1>1. a + n \in Nat /\ Ranges(map_info) /\ Ranges(uc)
  BY DEF MemInv, Ranges
<1>2. /\ map_info' = map_info \/ map_info' = del_mapinfo(map_info, a, a + n)
      /\ uc' = uc \/ uc' = Subtract(uc, a, a + n)
  BY DEF UnmapAt
<1>3. PartsOf(map_info', map_info) /\ PartsOf(uc', uc)
  BY <1>1, <1>2, CutParts, PartsSelf
<1> QED BY <1>3, PartsStep

(* protect: the entry and the regions of the range get the same permissions. *)
LEMMA ProtectPerms ==
    ASSUME PermsAgree, MemInv, MemInv', NEW addr \in Nat, NEW len \in Nat, NEW prot,
           Protect(addr, len, prot), ret' = "ok"
    PROVE  PermsAgree'
<1> DEFINE p == SupportedPerms(prot)
           a == align(addr)
           n == align_up((addr % PageSize) + len, PageSize)
           cut(r) == [r EXCEPT !.lo = IF r.lo < a THEN a ELSE r.lo,
                               !.hi = IF a + n < r.hi THEN a + n ELSE r.hi,
                               !.perms = p]
<1>1. a \in Nat /\ n \in Nat /\ a + n \in Nat /\ a <= a + n
  <2>1. a \in Nat /\ addr % PageSize \in Nat
    BY AlignNat
  <2>2. n \in Nat
    BY <2>1, AlignUpNat
  <2> QED BY <2>1, <2>2
<1>2. PICK f \in map_info :
         map_info' = del_mapinfo(map_info, a, a + n) \cup
            {[lo |-> a, hi |-> a + n, perms |-> p, label |-> f.label, mmio |-> FALSE]}
  BY DEF Protect, FirstEnclosing, Enclosing
<1>3. uc' = IF n = 0 THEN uc ELSE UcProtect(a, a + n, p)
  BY DEF Protect
<1> DEFINE new == [lo |-> a, hi |-> a + n, perms |-> p, label |-> f.label, mmio |-> FALSE]
<1>4. new.lo = a /\ new.hi = a + n /\ new.perms = p
      /\ map_info' = del_mapinfo(map_info, a, a + n) \cup {new}
  BY <1>2
<1>5. \A r \in Overlapping(uc, a, a + n) :
         /\ cut(r).lo = (IF r.lo < a THEN a ELSE r.lo)
         /\ cut(r).hi = (IF a + n < r.hi THEN a + n ELSE r.hi)
         /\ cut(r).perms = p
         /\ r.lo \in Nat /\ r.hi \in Nat
  BY DEF Overlapping, MemInv, Region
<1>6. UcProtect(a, a + n, p) =
         Subtract(uc, a, a + n) \cup {cut(r) : r \in Overlapping(uc, a, a + n)}
  BY DEF UcProtect
<1> HIDE DEF p, a, n, cut, new
<1>7. Ranges(map_info) /\ Ranges(uc)
  BY DEF MemInv, Ranges
<1>8. /\ PartsOf(del_mapinfo(map_info, a, a + n), map_info)
      /\ PartsOf(Subtract(uc, a, a + n), uc) /\ PartsOf(uc, uc)
  BY <1>1, <1>7, CutParts, PartsSelf
<1>9. \A g \in del_mapinfo(map_info, a, a + n) : g.hi <= a \/ a + n <= g.lo
  BY <1>1, DelDisjoint DEF MemInv, EntriesDisjoint
<1> SUFFICES ASSUME NEW e \in map_info', NEW r \in uc',
                    e.lo < r.hi, r.lo < e.hi, e.lo < e.hi
             PROVE  Granted(e, r)
  BY DEF PermsAgree
<1>10. e.lo \in Nat /\ e.hi \in Nat /\ r.lo \in Nat /\ r.hi \in Nat
  BY DEF MemInv, Entry, Region
<1>11. CASE e \in del_mapinfo(map_info, a, a + n)
            /\ (r \in Subtract(uc, a, a + n) \/ r \in uc)
  BY <1>8, <1>11, PartsAgree DEF PartsOf
<1>12. CASE n # 0 /\ e = new /\ r \in Subtract(uc, a, a + n)
  <2>1. r.hi <= a \/ a + n <= r.lo
    BY <1>1, <1>12, CutApart DEF MemInv
  <2> QED BY <1>4, <1>10, <1>12, <2>1
<1>13. CASE n = 0 /\ e = new
  BY <1>1, <1>4, <1>13
<1>14. ASSUME NEW q \in Overlapping(uc, a, a + n), r = cut(q) PROVE Granted(e, r)
  <2>1. a <= r.lo /\ r.hi <= a + n /\ r.perms = p
    BY <1>1, <1>5, <1>14
  <2>2. CASE e = new
    BY <1>4, <2>1, <2>2 DEF Granted
  <2>3. CASE e \in del_mapinfo(map_info, a, a + n)
    BY <1>1, <1>9, <1>10, <2>1, <2>3
  <2> QED BY <1>4, <2>2, <2>3
<1> QED BY <1>3, <1>4, <1>6, <1>11, <1>12, <1>13, <1>14

(* The relabelling of an entry. *)
LEMMA RelabelPerms ==
    ASSUME PermsAgree, MemInv, MemInv', NEW s, NEW t, NEW l, Relabel(s, t, l)
    PROVE  PermsAgree'
<1>1. Ranges(map_info) /\ Ranges(uc)
  BY DEF MemInv, Ranges
<1>2. PartsOf(uc', uc)
  BY <1>1, PartsSelf DEF Relabel
<1>3. CASE UNCHANGED map_info
  BY <1>1, <1>2, <1>3, PartsSelf, PartsStep
<1>4. ASSUME NEW e \in map_info,
             map_info' = (map_info \ {e}) \cup {[e EXCEPT !.label = l]}
      PROVE  PermsAgree'
  <2> DEFINE f == [e EXCEPT !.label = l]
  <2>1. f.lo = e.lo /\ f.hi = e.hi /\ SameKind(f, e)
    BY DEF MemInv, Entry, SameKind
  <2>2. map_info' = (map_info \ {e}) \cup {f}
    BY <1>4
  <2> HIDE DEF f
  <2>3. \A g \in map_info : g.lo <= g.lo /\ g.hi <= g.hi
    BY <1>1, RangeNat
  <2>4. PartsOf(map_info', map_info)
    BY <2>1, <2>2, <2>3 DEF PartsOf, SameKind
  <2> QED BY <1>2, <2>4, PartsStep
<1> QED BY <1>3, <1>4 DEF Relabel, FirstEnclosing, Enclosing

(* map, as far as it goes. *)
LEMMA MapAtPerms ==
    ASSUME PermsAgree, MemInv, MemInv', NEW a \in Nat, NEW n \in Nat, NEW p, NEW l,
           MapAt(a, n, p, l)
    PROVE  PermsAgree'
<1>1. CASE UNCHANGED <<map_info, uc>>
  BY <1>1 DEF PermsAgree
<1>2. CASE UcMapOk(a, n) /\ AddMapping(a, n, p, l, FALSE)
  BY <1>2, AddMappingPerms
<1> QED BY <1>1, <1>2 DEF MapAt

(* Only a call that raises or, for protect over several entries, logs an    *)
(* error can make the list show a permission that Unicorn does not grant,   *)
(* or hide one of a range that is not MMIO, whatever the splitting of       *)
(* entries and regions and whichever callbacks an MMIO range has.           *)
THEOREM PermsKept == Spec => OkKeepsPerms
<1>1. ASSUME IInv, IInv', Next, PermsAgree, ret' = "ok" PROVE PermsAgree'
  <2> USE <1>1
  <2>0. MemInv /\ MemInv'
    BY DEF IInv
  <2>1. ASSUME NEW a \in Addr, NEW n \in Lens, NEW p \in Prots, NEW l \in Labels,
               Map(a, n, p, l)
        PROVE  PermsAgree'
    BY <2>0, <2>1, CallerRange, MapAtPerms DEF Map
  <2>2. ASSUME NEW a \in Addr, NEW n \in Lens, NEW c \in Callbacks,
               NEW l \in Labels, MapMmio(a, n, c, l)
        PROVE  PermsAgree'
    <3>1. UcMapOk(a, n) /\ AddMapping(a, n, c, l, TRUE)
      BY <2>2 DEF MapMmio
    <3>2. a \in Nat /\ n \in Nat /\ c \subseteq {"r", "w"}
      BY CallerRange, MemoryAssumption
    <3> QED BY <2>0, <3>1, <3>2, AddMappingPerms
  <2>3. ASSUME NEW a \in Addr, NEW n \in Lens, Unmap(a, n) PROVE PermsAgree'
    BY <2>0, <2>3, CallerRange, UnmapAtPerms DEF Unmap
  <2>4. ASSUME NEW a \in Addr, NEW n \in Lens, NEW p \in Prots, Protect(a, n, p)
        PROVE  PermsAgree'
    BY <2>0, <2>4, CallerRange, ProtectPerms
  <2>5. ASSUME NEW a \in Addr, NEW n \in Lens, NEW l \in Labels, Relabel(a, a + n, l)
        PROVE  PermsAgree'
    BY <2>0, <2>5, RelabelPerms
  <2>6. ASSUME NEW n \in Lens, NEW m \in 0 .. MemUbound - 1, NEW p \in Prots,
               NEW l \in Labels, MapAnywhere(n, m, p, l)
        PROVE  PermsAgree'
    <3> DEFINE k == align_up(n, PageSize)
    <3>1. k \in Nat
      BY MemoryAssumption, AlignUpNat
    <3>2. \E a \in Addr : MapAt(a, k, p, l)
      BY <2>6 DEF MapAnywhere
    <3> HIDE DEF k
    <3> QED BY <2>0, <3>1, <3>2, MapAtPerms, MemoryAssumption DEF Addr
  <2>7. ASSUME NEW r \in pend.todo, UnmapAt(r.lo, r.hi - r.lo) PROVE PermsAgree'
    <3>1. r.lo \in Nat /\ r.hi - r.lo \in Nat
      BY DEF IInv, TypeOK, Ordered
    <3> QED BY <2>0, <2>7, <3>1, UnmapAtPerms
  <2>8. CASE UNCHANGED <<map_info, uc>>
    BY <2>8 DEF PermsAgree
  <2> QED BY <2>1, <2>2, <2>3, <2>4, <2>5, <2>6, <2>7, <2>8
          DEF Next, UnmapBetween, UnmapAll, UnmapNext
<1>2. IInv /\ [Next]_vars => IInv'
  BY InductiveStep
<1>3. IInv /\ [Next]_vars => [(PermsAgree /\ ret' = "ok") => PermsAgree']_vars
  BY <1>1, <1>2
<1> QED BY <1>3, Inductive, PTL DEF Spec, OkKeepsPerms

-----------------------------------------------------------------------------
(* The queries, if no operation is given an empty range: entries are then   *)
(* not empty, and their order is that of the addresses they describe.       *)

(* Entries of at least a byte that begin in the address space, none twice. *)
Layout(M) ==
    /\ M \in SUBSET Entry /\ Disjoint(M)
    /\ \A e \in M : e.lo < e.hi /\ e.lo <= MemUbound

(* A set of numbers has a least element. *)
LEMMA LeastNumber ==
    ASSUME NEW T \in SUBSET Nat, T # {}
    PROVE  \E x \in T : \A y \in T : x <= y
<1> DEFINE R == OpToRel(<, Nat)
<1>1. \A x, y \in Nat : x < y => <<x, y>> \in R
  BY DEF OpToRel
<1>2. IsWellFoundedOn(R, Nat)
  BY NatLessThanWellFounded
<1>3. PICK x \in T : \A y \in T : ~ (<<y, x>> \in R)
  <2> HIDE DEF R
  <2> QED BY <1>2, WFMin
<1>4. \A y \in T : x <= y
  <2>1. TAKE y \in T
  <2>2. x \in Nat /\ y \in Nat /\ ~ (y < x)
    <3> HIDE DEF R
    <3> QED BY <1>1, <1>3
  <2> QED BY <2>2
<1> QED BY <1>4

(* A set of numbers up to n has a greatest element. *)
LEMMA GreatestNumber ==
    ASSUME NEW n \in Nat, NEW T \in SUBSET (0 .. n), T # {}
    PROVE  \E x \in T : \A y \in T : y <= x
<1> DEFINE U == {n - x : x \in T}
<1>1. U \in SUBSET Nat /\ U # {}
  <2>1. \A x \in T : n - x \in Nat
    OBVIOUS
  <2> QED BY <2>1
<1>2. PICK u \in U : \A y \in U : u <= y
  <2> HIDE DEF U
  <2> QED BY <1>1, LeastNumber
<1>3. PICK x \in T : u = n - x
  BY <1>2
<1>4. \A y \in T : n - x <= n - y
  BY <1>2, <1>3
<1> QED BY <1>4

(* The order of the list is the order of the addresses described. *)
LEMMA LayoutOrder ==
    ASSUME NEW M, Layout(M), NEW e \in M, NEW f \in M
    PROVE  /\ e = f \/ e.hi <= f.lo \/ f.hi <= e.lo
           /\ EntryLeq(f, e) <=> (f = e \/ f.hi <= e.lo)
BY DEF Layout, Disjoint, Entry, EntryLeq

(* A layout is finite: its entries begin at different addresses. *)
LEMMA LayoutFinite ==
    ASSUME NEW M, Layout(M)
    PROVE  IsFiniteSet(M)
<1> DEFINE first == [e \in M |-> e.lo]
<1>1. \A e \in M : e.lo \in 0 .. MemUbound
  BY MemoryAssumption DEF Layout, Entry
<1>2. \A e, f \in M : e.lo = f.lo => e = f
  BY LayoutOrder DEF Layout, Entry
<1>3. first \in Injection(M, 0 .. MemUbound)
  BY <1>1, <1>2 DEF Injection, IsInjective
<1>4. IsFiniteSet(0 .. MemUbound)
  BY MemoryAssumption, FS_Interval
<1> QED BY <1>3, <1>4, FS_Injection

(* The entries up to e in the list. *)
UpTo(M, e) == {f \in M : EntryLeq(f, e)}

Rank(M, e) == Cardinality(UpTo(M, e))

(* Entries have different ranks, in the order of their addresses. *)
LEMMA RankOrder ==
    ASSUME NEW M, Layout(M), NEW e \in M, NEW f \in M
    PROVE  /\ Rank(M, e) \in 1 .. Cardinality(M)
           /\ e.hi <= f.lo => Rank(M, e) < Rank(M, f)
<1>1. IsFiniteSet(M) /\ UpTo(M, e) \subseteq M /\ UpTo(M, f) \subseteq M
  BY LayoutFinite DEF UpTo
<1>2. /\ IsFiniteSet(UpTo(M, e)) /\ IsFiniteSet(UpTo(M, f))
      /\ Cardinality(UpTo(M, e)) <= Cardinality(M)
  BY <1>1, FS_Subset
<1>3. Cardinality(UpTo(M, e)) \in Nat /\ Cardinality(UpTo(M, f)) \in Nat
      /\ Cardinality(M) \in Nat
  BY <1>1, <1>2, FS_CardinalityType
<1>4. e \in UpTo(M, e)
  BY LayoutOrder DEF UpTo
<1>5. Cardinality(UpTo(M, e)) # 0
  BY <1>2, <1>4, FS_EmptySet
<1>6. ASSUME e.hi <= f.lo PROVE Cardinality(UpTo(M, e)) < Cardinality(UpTo(M, f))
  <2>1. UpTo(M, e) \subseteq UpTo(M, f)
    <3>1. SUFFICES ASSUME NEW g \in UpTo(M, e) PROVE EntryLeq(g, f)
      BY DEF UpTo
    <3>2. g \in M /\ (g = e \/ g.hi <= e.lo)
      BY LayoutOrder DEF UpTo
    <3>3. g.hi <= f.lo
      BY <1>6, <3>2 DEF Layout, Entry
    <3> QED BY <3>2, <3>3, LayoutOrder
  <2>2. f \in UpTo(M, f)
    BY LayoutOrder DEF UpTo
  <2>3. f \notin UpTo(M, e)
    BY <1>6, LayoutOrder DEF UpTo, Layout, Entry
  <2>4. UpTo(M, e) # UpTo(M, f)
    BY <2>2, <2>3
  <2> QED BY <1>2, <1>3, <2>1, <2>4, FS_Subset
<1> QED BY <1>2, <1>3, <1>5, <1>6 DEF Rank

(* L is the list of the n entries of M, in order. *)
ListOf(L, n, M) ==
    /\ n \in Nat /\ DOMAIN L = 1 .. n
    /\ \A i \in 1 .. n : L[i] \in M
    /\ \A e \in M : \E i \in 1 .. n : L[i] = e
    /\ \A i, j \in 1 .. n : i < j => L[i].hi <= L[j].lo

(* The list has every entry once, in the order of the addresses. *)
LEMMA ListInOrder ==
    ASSUME Layout(map_info)
    PROVE  ListOf(MapInfoList, Cardinality(map_info), map_info)
<1> DEFINE M == map_info
           n == Cardinality(M)
           rank == [e \in M |-> Rank(M, e)]
           L == MapInfoList
<1>1. IsFiniteSet(M) /\ n \in Nat
  BY LayoutFinite, FS_CardinalityType
<1>2. \A e \in M : Rank(M, e) \in 1 .. n
  BY RankOrder
<1>3. \A e, f \in M : Rank(M, e) = Rank(M, f) => e = f
  <2>1. SUFFICES ASSUME NEW e \in M, NEW f \in M, Rank(M, e) = Rank(M, f), e # f
                 PROVE  FALSE
    OBVIOUS
  <2>2. Rank(M, e) \in Nat /\ Rank(M, f) \in Nat
    BY <1>1, <1>2
  <2>3. e.hi <= f.lo \/ f.hi <= e.lo
    BY <2>1, LayoutOrder
  <2>4. Rank(M, e) < Rank(M, f) \/ Rank(M, f) < Rank(M, e)
    BY <2>3, RankOrder
  <2> QED BY <2>1, <2>2, <2>4
<1>4. rank \in Surjection(M, 1 .. n)
  <2>1. rank \in Injection(M, 1 .. n)
    BY <1>2, <1>3 DEF Injection, IsInjective
  <2>2. IsFiniteSet(1 .. n) /\ Cardinality(1 .. n) = n
    BY <1>1, FS_Interval
  <2> HIDE DEF rank, M, n
  <2> QED BY <1>1, <2>1, <2>2, FS_Injection DEF n
<1>5. \A i \in 1 .. n : \E e \in M : Rank(M, e) = i
  BY <1>4 DEF Surjection
<1>6. \A i \in 1 .. n : L[i] = CHOOSE e \in M : Rank(M, e) = i
  BY DEF MapInfoList, Rank, UpTo
<1>7. \A i \in 1 .. n : L[i] \in M /\ Rank(M, L[i]) = i
  BY <1>5, <1>6
<1>8. DOMAIN L = 1 .. n
  BY DEF MapInfoList
<1>9. \A e \in M : \E i \in 1 .. n : L[i] = e
  BY <1>2, <1>3, <1>7
<1>10. \A i, j \in 1 .. n : i < j => L[i].hi <= L[j].lo
  <2>1. SUFFICES ASSUME NEW i \in 1 .. n, NEW j \in 1 .. n, i < j,
                        ~ (L[i].hi <= L[j].lo)
                 PROVE  FALSE
    OBVIOUS
  <2>2. /\ L[i] \in M /\ L[j] \in M
        /\ Rank(M, L[i]) = i /\ Rank(M, L[j]) = j
    BY <1>7
  <2>3. L[i] # L[j]
    BY <1>1, <2>1, <2>2
  <2>4. L[j].hi <= L[i].lo
    BY <2>1, <2>2, <2>3, LayoutOrder
  <2>5. j < i
    BY <2>2, <2>4, RankOrder
  <2> QED BY <1>1, <2>1, <2>5
<1> QED BY <1>1, <1>7, <1>8, <1>9, <1>10 DEF ListOf

(* Bounds of the entries of a list. *)
LEMMA ListBounds ==
    ASSUME NEW M, Layout(M), NEW L, NEW n, ListOf(L, n, M)
    PROVE  /\ n \in Nat
           /\ \A i \in 1 .. n : /\ L[i].lo \in Nat /\ L[i].hi \in Nat
                                /\ L[i].lo < L[i].hi
           /\ \A i, j \in 1 .. n : i < j => L[i].hi <= L[j].lo
BY DEF Layout, ListOf, Entry

(* Between the ends of a run every address is described. *)
LEMMA RunHolds ==
    ASSUME NEW M, Layout(M), NEW L, NEW n, ListOf(L, n, M),
           NEW i \in 1 .. n, NEW j \in 1 .. n,
           \A k \in i .. j - 1 : Adjacent(L, k),
           NEW x \in Nat, L[i].lo <= x, x < L[j].hi, i <= j
    PROVE  Holds(M, x)
<1> DEFINE T == {k \in i .. j : x < L[k].hi}
<1>1. n \in Nat /\ i \in Nat /\ j \in Nat
  BY ListBounds
<1>2. T \in SUBSET Nat /\ j \in T
  BY <1>1
<1>3. PICK k \in T : \A m \in T : k <= m
  <2> HIDE DEF T
  <2> QED BY <1>2, LeastNumber
<1>4. k \in 1 .. n /\ x < L[k].hi /\ k \in i .. j
  BY <1>1, <1>3
<1>5. L[k].lo <= x
  <2>1. CASE k = i
    BY <2>1
  <2>2. CASE k # i
    <3>1. k - 1 \in i .. j - 1 /\ k - 1 \in 1 .. n /\ k - 1 < k
      BY <1>1, <1>4, <2>2
    <3>2. k - 1 \notin T
      BY <1>1, <1>3, <1>4, <3>1
    <3>3. L[k - 1].hi \in Nat /\ ~ (x < L[k - 1].hi)
      BY <1>1, <3>1, <3>2, ListBounds
    <3>4. L[k - 1].hi = L[(k - 1) + 1].lo /\ (k - 1) + 1 = k
      BY <1>1, <1>4, <3>1 DEF Adjacent
    <3> QED BY <3>3, <3>4
  <2> QED BY <2>1, <2>2
<1>6. L[k] \in M
  BY <1>4 DEF ListOf
<1> QED BY <1>4, <1>5, <1>6 DEF Holds

(* Every place of the list is in a run. *)
LEMMA InRun ==
    ASSUME NEW L, NEW n \in Nat, DOMAIN L = 1 .. n, NEW k \in 1 .. n
    PROVE  \E p \in Runs(L) : p[1] <= k /\ k <= p[2]
<1> DEFINE S == {i \in 1 .. k : \A q \in i .. k - 1 : Adjacent(L, q)}
           T == {j \in k .. n : \A q \in k .. j - 1 : Adjacent(L, q)}
<1>1. S \in SUBSET Nat /\ T \in SUBSET (0 .. n) /\ k \in S /\ k \in T
  OBVIOUS
<1>2. PICK i \in S : \A m \in S : i <= m
  <2> HIDE DEF S
  <2> QED BY <1>1, LeastNumber
<1>3. PICK j \in T : \A m \in T : m <= j
  <2> HIDE DEF T
  <2> QED BY <1>1, GreatestNumber
<1>4. i \in 1 .. k /\ \A q \in i .. k - 1 : Adjacent(L, q)
  BY <1>2
<1>5. j \in k .. n /\ \A q \in k .. j - 1 : Adjacent(L, q)
  BY <1>3
<1>6. \A q \in i .. j - 1 : Adjacent(L, q)
  <2>1. \A q \in i .. j - 1 : q \in i .. k - 1 \/ q \in k .. j - 1
    BY <1>4, <1>5
  <2> QED BY <1>4, <1>5, <2>1
<1>7. ~ Adjacent(L, i - 1)
  <2>1. SUFFICES ASSUME Adjacent(L, i - 1) PROVE FALSE
    OBVIOUS
  <2>2. i - 1 \in 1 .. k
    BY <1>4, <2>1 DEF Adjacent
  <2>3. \A q \in i - 1 .. k - 1 : q = i - 1 \/ q \in i .. k - 1
    BY <1>4
  <2>4. i - 1 \in S
    BY <1>4, <2>1, <2>2, <2>3
  <2> QED BY <1>2, <1>4, <2>4
<1>8. ~ Adjacent(L, j)
  <2>1. SUFFICES ASSUME Adjacent(L, j) PROVE FALSE
    OBVIOUS
  <2>2. j + 1 \in k .. n
    BY <1>5, <2>1 DEF Adjacent
  <2>3. \A q \in k .. (j + 1) - 1 : q = j \/ q \in k .. j - 1
    BY <1>5
  <2>4. j + 1 \in T
    BY <1>5, <2>1, <2>2, <2>3
  <2> QED BY <1>3, <1>5, <2>4
<1>9. <<i, j>> \in (1 .. n) \X (1 .. n) /\ i <= j
  BY <1>4, <1>5
<1>10. <<i, j>> \in Runs(L)
  BY <1>6, <1>7, <1>8, <1>9 DEF Runs
<1> QED BY <1>4, <1>5, <1>10

(* The regions __mapped_regions joins describe what the entries describe,   *)
(* and none ends where another entry begins.                                *)
LEMMA RegionsJoined ==
    ASSUME Layout(map_info)
    PROVE  /\ \A r \in mapped_regions :
                 /\ r.lo \in Nat /\ r.hi \in Nat /\ r.lo < r.hi
                 /\ \A x \in Nat : r.lo <= x /\ x < r.hi => Holds(map_info, x)
                 /\ ~ Holds(map_info, r.hi)
           /\ \A e \in map_info : \E r \in mapped_regions :
                 r.lo <= e.lo /\ e.hi <= r.hi
<1> DEFINE M == map_info
           L == MapInfoList
           n == Cardinality(map_info)
           region(p) == [lo |-> L[p[1]].lo, hi |-> L[p[2]].hi]
<1>1. ListOf(L, n, M)
  BY ListInOrder
<1>2. mapped_regions = {region(p) : p \in Runs(L)}
  BY DEF mapped_regions
<1> HIDE DEF L, n
<1>3. /\ n \in Nat /\ DOMAIN L = 1 .. n
      /\ \A i \in 1 .. n : L[i] \in M
      /\ \A e \in M : \E i \in 1 .. n : L[i] = e
  BY <1>1 DEF ListOf
<1>4. /\ \A i \in 1 .. n : /\ L[i].lo \in Nat /\ L[i].hi \in Nat
                           /\ L[i].lo < L[i].hi
      /\ \A i, j \in 1 .. n : i < j => L[i].hi <= L[j].lo
  BY <1>1, ListBounds
<1>5. \A i, j \in 1 .. n : i <= j => L[i].lo <= L[j].lo /\ L[i].hi <= L[j].hi
  <2>1. TAKE i, j \in 1 .. n
  <2>2. CASE i = j
    BY <1>4, <2>2
  <2>3. CASE i < j
    BY <1>4, <2>3
  <2> QED BY <1>3, <2>2, <2>3
<1>6. ASSUME NEW p \in Runs(L)
      PROVE  /\ region(p).lo \in Nat /\ region(p).hi \in Nat
             /\ region(p).lo < region(p).hi
             /\ \A x \in Nat : region(p).lo <= x /\ x < region(p).hi
                                  => Holds(M, x)
             /\ ~ Holds(M, region(p).hi)
  <2>1. PICK i \in 1 .. n, j \in 1 .. n :
            /\ p[1] = i /\ p[2] = j /\ i <= j
            /\ \A k \in i .. j - 1 : Adjacent(L, k)
            /\ ~ Adjacent(L, j)
    BY <1>3 DEF Runs
  <2>2. region(p).lo = L[i].lo /\ region(p).hi = L[j].hi
    BY <2>1
  <2>3. L[i].lo \in Nat /\ L[j].hi \in Nat /\ L[i].lo < L[j].hi
    <3>1. /\ L[i].lo \in Nat /\ L[j].lo \in Nat /\ L[j].hi \in Nat
          /\ L[j].lo < L[j].hi
      BY <1>4
    <3>2. L[i].lo <= L[j].lo
      BY <1>5, <2>1
    <3> QED BY <3>1, <3>2
  <2>4. \A x \in Nat : L[i].lo <= x /\ x < L[j].hi => Holds(M, x)
    BY <1>1, <2>1, RunHolds
  <2>5. ~ Holds(M, L[j].hi)
    <3>1. SUFFICES ASSUME Holds(M, L[j].hi) PROVE FALSE
      OBVIOUS
    <3>2. PICK m \in 1 .. n : L[m].lo <= L[j].hi /\ L[j].hi < L[m].hi
      BY <1>3, <3>1 DEF Holds
    <3>3. ~ (m <= j)
      BY <1>4, <1>5, <3>2
    <3>4. j + 1 \in 1 .. n /\ j < j + 1 /\ j + 1 <= m
      BY <1>3, <3>3
    <3>5. L[j].hi <= L[j + 1].lo /\ L[j + 1].lo <= L[m].lo
      BY <1>4, <1>5, <3>4
    <3>6. L[j].hi = L[j + 1].lo
      BY <1>4, <3>2, <3>4, <3>5
    <3> QED BY <1>3, <2>1, <3>4, <3>6 DEF Adjacent
  <2> QED BY <2>2, <2>3, <2>4, <2>5
<1>7. ASSUME NEW e \in M
      PROVE  \E p \in Runs(L) : region(p).lo <= e.lo /\ e.hi <= region(p).hi
  <2>1. PICK k \in 1 .. n : L[k] = e
    BY <1>3
  <2>2. PICK p \in Runs(L) : p[1] <= k /\ k <= p[2]
    BY <1>3, InRun
  <2>3. p[1] \in 1 .. n /\ p[2] \in 1 .. n
    BY <1>3 DEF Runs
  <2>4. L[p[1]].lo <= L[k].lo /\ L[k].hi <= L[p[2]].hi
    BY <1>5, <2>2, <2>3
  <2> QED BY <2>1, <2>4
<1> HIDE DEF region
<1> QED BY <1>2, <1>6, <1>7

(* is_available and is_mapped answer for every address of their range. *)
LEMMA RangesAreExact ==
    ASSUME Layout(map_info)
    PROVE  RangesExact
<1>1. SUFFICES ASSUME NEW a \in 0 .. MemUbound - 1, NEW n \in 1 .. MemUbound
               PROVE  /\ is_available(a, n) <=> Overlapping(map_info, a, a + n) = {}
                      /\ is_mapped(a, n) <=> Covers(map_info, a, a + n)
  BY DEF RangesExact
<1>2. a \in Nat /\ n \in Nat /\ n > 0 /\ a + n \in Nat
  BY MemoryAssumption
<1>3. \A e \in map_info : e.lo \in Nat /\ e.hi \in Nat /\ e.lo < e.hi
  BY DEF Layout, Entry
<1>4. ASSUME NEW e \in Overlapping(map_info, a, a + n), is_available(a, n)
      PROVE  FALSE
  <2>1. e \in map_info /\ a < e.hi /\ a + n > e.lo
    BY DEF Overlapping
  <2>2. PICK r \in mapped_regions : r.lo <= e.lo /\ e.hi <= r.hi
    BY <2>1, RegionsJoined
  <2>3. r.lo \in Nat /\ r.hi \in Nat /\ r.lo < r.hi
    BY RegionsJoined
  <2>4. r.lo < a + n /\ a < r.hi
    BY <1>2, <1>3, <2>1, <2>2, <2>3
  <2> QED BY <1>2, <1>4, <2>3, <2>4 DEF is_available
<1>5. ASSUME ~ is_available(a, n)
      PROVE  Overlapping(map_info, a, a + n) # {}
  <2>1. PICK r \in mapped_regions :
            \/ r.lo <= a /\ a < r.hi
            \/ r.lo < a + n /\ a + n <= r.hi
            \/ a <= r.lo /\ r.lo < r.hi /\ r.hi <= a + n
    BY <1>5 DEF is_available
  <2>2. r.lo \in Nat /\ r.hi \in Nat /\ r.lo < r.hi
    BY RegionsJoined
  <2>3. PICK x \in Nat : r.lo <= x /\ x < r.hi /\ a <= x /\ x < a + n
    <3>1. CASE r.lo <= a
      <4>1. a < r.hi
        BY <1>2, <2>1, <2>2
      <4> QED BY <1>2, <3>1, <4>1
    <3>2. CASE ~ (r.lo <= a)
      <4>1. r.lo < a + n
        BY <1>2, <2>1, <2>2, <3>2
      <4> QED BY <1>2, <2>2, <3>2, <4>1
    <3> QED BY <3>1, <3>2
  <2>4. PICK e \in map_info : e.lo <= x /\ x < e.hi
    BY <2>3, RegionsJoined DEF Holds
  <2>5. a < e.hi /\ a + n > e.lo
    BY <1>2, <1>3, <2>3, <2>4
  <2> QED BY <2>4, <2>5 DEF Overlapping
<1>6. ASSUME is_mapped(a, n) PROVE Covers(map_info, a, a + n)
  <2>1. PICK r \in mapped_regions : r.lo <= a /\ a + n <= r.hi
    BY <1>6 DEF is_mapped
  <2>2. SUFFICES ASSUME NEW x \in a .. (a + n) - 1 PROVE Holds(map_info, x)
    BY DEF Covers
  <2>3. r.lo \in Nat /\ r.hi \in Nat
    BY RegionsJoined
  <2>4. x \in Nat /\ r.lo <= x /\ x < r.hi
    BY <1>2, <2>1, <2>3
  <2> QED BY <2>4, RegionsJoined
<1>7. ASSUME Covers(map_info, a, a + n) PROVE is_mapped(a, n)
  <2>1. a \in a .. (a + n) - 1
    BY <1>2
  <2>2. PICK e \in map_info : e.lo <= a /\ a < e.hi
    BY <1>7, <2>1 DEF Covers, Holds
  <2>3. PICK r \in mapped_regions : r.lo <= e.lo /\ e.hi <= r.hi
    BY RegionsJoined
  <2>4. r.lo \in Nat /\ r.hi \in Nat /\ ~ Holds(map_info, r.hi)
    BY RegionsJoined
  <2>5. r.lo <= a /\ a < r.hi
    BY <1>2, <1>3, <2>2, <2>3, <2>4
  <2>6. r.hi \notin a .. (a + n) - 1
    BY <1>7, <2>4 DEF Covers
  <2>7. a + n <= r.hi
    BY <1>2, <2>4, <2>5, <2>6
  <2> QED BY <1>2, <2>5, <2>7 DEF is_mapped
<1> QED BY <1>4, <1>5, <1>6, <1>7

(* The gaps are in order, none touches an entry, and every free range lies  *)
(* in one of them.                                                          *)
LEMMA GapBounds ==
    ASSUME Layout(map_info), NEW m, m = Cardinality(map_info) + 1
    PROVE  /\ m \in Nat /\ DOMAIN Gaps = 1 .. m
           /\ \A i \in 1 .. m : Gaps[i].lo \in Nat /\ Gaps[i].hi \in Nat
           /\ \A i, j \in 1 .. m : i < j => Gaps[i].hi <= Gaps[j].lo
           /\ \A i \in 1 .. m : \A e \in map_info :
                 e.hi <= Gaps[i].lo \/ Gaps[i].hi <= e.lo
           /\ \A a \in Nat, n \in Nat \ {0} :
                 (a + n <= MemUbound /\ Overlapping(map_info, a, a + n) = {})
                    => \E i \in 1 .. m : Gaps[i].lo <= a /\ a + n <= Gaps[i].hi
<1> DEFINE M == map_info
           L == MapInfoList
           N == Cardinality(map_info)
           G == Gaps
<1>1. ListOf(L, N, M)
  BY ListInOrder
<1>2. /\ DOMAIN G = 1 .. N + 1
      /\ \A i \in 1 .. N + 1 : /\ G[i].lo = IF i = 1 THEN 0 ELSE L[i - 1].hi
                               /\ G[i].hi = IF i = N + 1 THEN MemUbound ELSE L[i].lo
  BY DEF Gaps
<1>3. m = N + 1
  OBVIOUS
<1> HIDE DEF L, N, G
<1>4. /\ N \in Nat
      /\ \A i \in 1 .. N : L[i] \in M
      /\ \A e \in M : \E i \in 1 .. N : L[i] = e
  BY <1>1 DEF ListOf
<1>5. /\ \A i \in 1 .. N : /\ L[i].lo \in Nat /\ L[i].hi \in Nat
                           /\ L[i].lo < L[i].hi
      /\ \A i, j \in 1 .. N : i < j => L[i].hi <= L[j].lo
  BY <1>1, ListBounds
<1>6. \A i \in 1 .. m : i = 1 \/ i - 1 \in 1 .. N
  BY <1>3, <1>4
<1>7. \A i \in 1 .. m : i = N + 1 \/ i \in 1 .. N
  BY <1>3, <1>4
<1>8. \A i \in 1 .. m : G[i].lo \in Nat /\ G[i].hi \in Nat
  BY <1>2, <1>3, <1>5, <1>6, <1>7, MemoryAssumption
<1>9. ASSUME NEW i \in 1 .. m, NEW k \in 1 .. N
      PROVE  /\ k < i => L[k].hi <= G[i].lo
             /\ k >= i => G[i].hi <= L[k].lo
  <2>1. ASSUME k < i PROVE L[k].hi <= G[i].lo
    <3>1. i # 1 /\ i - 1 \in 1 .. N /\ G[i].lo = L[i - 1].hi
      BY <1>2, <1>3, <1>4, <1>6, <2>1
    <3>2. CASE k = i - 1
      BY <1>5, <3>1, <3>2
    <3>3. CASE k < i - 1
      <4>1. L[k].hi <= L[i - 1].lo /\ L[i - 1].lo < L[i - 1].hi
        BY <1>5, <3>1, <3>3
      <4> QED BY <1>5, <3>1, <4>1
    <3> QED BY <1>3, <1>4, <2>1, <3>2, <3>3
  <2>2. ASSUME k >= i PROVE G[i].hi <= L[k].lo
    <3>1. i # N + 1 /\ i \in 1 .. N /\ G[i].hi = L[i].lo
      BY <1>2, <1>3, <1>4, <2>2
    <3>2. CASE k = i
      BY <1>5, <3>1, <3>2
    <3>3. CASE k > i
      <4>1. L[i].lo < L[i].hi /\ L[i].hi <= L[k].lo
        BY <1>5, <3>1, <3>3
      <4> QED BY <1>5, <3>1, <4>1
    <3> QED BY <1>3, <1>4, <2>2, <3>2, <3>3
  <2> QED BY <2>1, <2>2
<1>10. ASSUME NEW i \in 1 .. m, NEW j \in 1 .. m, i < j
       PROVE  G[i].hi <= G[j].lo
  <2>1. i \in 1 .. N
    BY <1>3, <1>4, <1>10
  <2>2. G[i].hi <= L[i].lo /\ L[i].lo < L[i].hi /\ L[i].hi <= G[j].lo
    BY <1>5, <1>9, <1>10, <2>1
  <2> QED BY <1>5, <1>8, <2>1, <2>2
<1>11. ASSUME NEW i \in 1 .. m, NEW e \in M
       PROVE  e.hi <= G[i].lo \/ G[i].hi <= e.lo
  <2>1. PICK k \in 1 .. N : L[k] = e
    BY <1>4
  <2>2. k < i \/ k >= i
    BY <1>3, <1>4
  <2> QED BY <1>9, <2>1, <2>2
<1>12. ASSUME NEW a \in Nat, NEW n \in Nat \ {0}, a + n <= MemUbound,
              Overlapping(M, a, a + n) = {}
       PROVE  \E i \in 1 .. m : G[i].lo <= a /\ a + n <= G[i].hi
  <2> DEFINE T == {k \in 1 .. m : k = m \/ a <= L[k].lo}
  <2>1. T \in SUBSET Nat /\ m \in T
    BY <1>3, <1>4
  <2>2. PICK i \in T : \A k \in T : i <= k
    <3> HIDE DEF T
    <3> QED BY <2>1, LeastNumber
  <2>3. i \in 1 .. m /\ (i = m \/ a <= L[i].lo)
    BY <2>2
  <2>4. \A k \in 1 .. N : ~ (a < L[k].hi /\ a + n > L[k].lo)
    BY <1>4, <1>12 DEF Overlapping
  <2>5. a + n <= G[i].hi
    <3>1. CASE i = N + 1
      BY <1>2, <1>3, <1>12, <2>3, <3>1
    <3>2. CASE i # N + 1
      <4>1. i \in 1 .. N /\ G[i].hi = L[i].lo /\ a <= L[i].lo
        BY <1>2, <1>3, <1>7, <2>3, <3>2
      <4>2. L[i].lo \in Nat /\ L[i].hi \in Nat /\ L[i].lo < L[i].hi
            /\ ~ (a < L[i].hi /\ a + n > L[i].lo)
        BY <1>5, <2>4, <4>1
      <4> QED BY <4>1, <4>2
    <3> QED BY <3>1, <3>2
  <2>6. G[i].lo <= a
    <3>1. CASE i = 1
      BY <1>2, <1>3, <2>3, <3>1
    <3>2. CASE i # 1
      <4>1. i - 1 \in 1 .. N /\ i - 1 \in 1 .. m /\ i - 1 # m
            /\ G[i].lo = L[i - 1].hi
        BY <1>2, <1>3, <1>4, <1>6, <2>3, <3>2
      <4>2. i - 1 \notin T
        BY <2>1, <2>2, <2>3, <1>3, <1>4
      <4>3. ~ (a <= L[i - 1].lo)
        BY <4>1, <4>2
      <4>4. L[i - 1].lo \in Nat /\ L[i - 1].hi \in Nat
            /\ ~ (a < L[i - 1].hi /\ a + n > L[i - 1].lo)
        BY <1>5, <2>4, <4>1
      <4> QED BY <4>1, <4>3, <4>4
    <3> QED BY <3>1, <3>2
  <2> QED BY <2>3, <2>5, <2>6
<1>13. m \in Nat
  BY <1>3, <1>4
<1>14. DOMAIN G = 1 .. m
  BY <1>2, <1>3
<1> QED BY <1>8, <1>10, <1>11, <1>12, <1>13, <1>14 DEF G

(* find_free_space finds the lowest free place. *)
LEMMA FreeSpaceIsExact ==
    ASSUME Layout(map_info)
    PROVE  FreeSpaceExact
<1>1. SUFFICES ASSUME NEW n \in 1 .. MemUbound, NEW m \in 0 .. MemUbound - 1
               PROVE  find_free_space(n, m, MemUbound, PageSize) =
                         {a \in FreePlaces(n, m) :
                             \A b \in FreePlaces(n, m) : a <= b}
  BY DEF FreeSpaceExact
<1> DEFINE G == Gaps
           N == Cardinality(map_info) + 1
           base(i) == Base(G[i], m, PageSize)
           fit == {i \in DOMAIN G : Fits(G[i], base(i), n, m, MemUbound)}
           first == {i \in fit : \A k \in fit : i <= k}
           F == FreePlaces(n, m)
<1>2. find_free_space(n, m, MemUbound, PageSize) = {base(i) : i \in first}
  BY DEF find_free_space
<1>3. n \in Nat \ {0} /\ m \in Nat /\ MemUbound \in Nat
  BY MemoryAssumption
<1>4. /\ N \in Nat /\ DOMAIN G = 1 .. N
      /\ \A i \in 1 .. N : G[i].lo \in Nat /\ G[i].hi \in Nat
      /\ \A i, j \in 1 .. N : i < j => G[i].hi <= G[j].lo
      /\ \A i \in 1 .. N : \A e \in map_info :
            e.hi <= G[i].lo \/ G[i].hi <= e.lo
      /\ \A a \in Nat, k \in Nat \ {0} :
            (a + k <= MemUbound /\ Overlapping(map_info, a, a + k) = {})
               => \E i \in 1 .. N : G[i].lo <= a /\ a + k <= G[i].hi
  BY GapBounds
<1>5. \A a : a \in F <=> /\ a \in Nat /\ m <= a /\ a + n <= MemUbound
                         /\ a % PageSize = 0
                         /\ Overlapping(map_info, a, a + n) = {}
  BY <1>3 DEF FreePlaces
<1>6. \A i \in 1 .. N :
         /\ base(i) \in Nat /\ G[i].lo <= base(i) /\ m <= base(i)
         /\ base(i) % PageSize = 0
         /\ \A a \in Nat : (a % PageSize = 0 /\ G[i].lo <= a /\ m <= a)
                              => base(i) <= a
  <2>1. TAKE i \in 1 .. N
  <2> DEFINE v == IF G[i].lo < m THEN m ELSE G[i].lo
  <2>2. v \in Nat /\ G[i].lo <= v /\ m <= v
        /\ \A a \in Nat : G[i].lo <= a /\ m <= a => v <= a
    BY <1>3, <1>4
  <2>3. base(i) = align_up(v, PageSize)
    BY DEF Base
  <2> HIDE DEF v, G, N
  <2>4. /\ base(i) \in Nat /\ v <= base(i) /\ base(i) % PageSize = 0
        /\ \A a \in Nat : a % PageSize = 0 /\ v <= a => base(i) <= a
    BY <2>2, <2>3, AlignUpLeast
  <2> HIDE DEF base
  <2>5. G[i].lo \in Nat
    BY <1>4
  <2>6. G[i].lo <= base(i) /\ m <= base(i)
    BY <1>3, <2>2, <2>4, <2>5
  <2>7. \A a \in Nat : (a % PageSize = 0 /\ G[i].lo <= a /\ m <= a)
                          => base(i) <= a
    BY <2>2, <2>4
  <2> QED BY <2>4, <2>6, <2>7
<1> HIDE DEF G, N, base, F
<1>7. ASSUME NEW i \in fit PROVE i \in 1 .. N /\ base(i) \in F
  <2>1. /\ i \in 1 .. N /\ base(i) + n <= G[i].hi
        /\ base(i) + n <= MemUbound
    BY <1>4 DEF Fits
  <2>2. \A e \in map_info : e.lo \in Nat /\ e.hi \in Nat
    BY DEF Layout, Entry
  <2>3. G[i].lo \in Nat /\ G[i].hi \in Nat
        /\ base(i) \in Nat /\ G[i].lo <= base(i)
    BY <1>4, <1>6, <2>1
  <2>4. \A e \in map_info : ~ (base(i) < e.hi /\ base(i) + n > e.lo)
    <3>1. TAKE e \in map_info
    <3>2. e.hi <= G[i].lo \/ G[i].hi <= e.lo
      BY <1>4, <2>1
    <3> QED BY <1>3, <2>1, <2>2, <2>3, <3>2
  <2>5. Overlapping(map_info, base(i), base(i) + n) = {}
    BY <2>4 DEF Overlapping
  <2> QED BY <1>5, <1>6, <2>1, <2>5
<1>8. ASSUME NEW a \in F
      PROVE  \E i \in fit : base(i) <= a /\ G[i].lo <= a
  <2>1. /\ a \in Nat /\ m <= a /\ a + n <= MemUbound /\ a % PageSize = 0
        /\ Overlapping(map_info, a, a + n) = {}
    BY <1>5
  <2>2. PICK i \in 1 .. N : G[i].lo <= a /\ a + n <= G[i].hi
    BY <1>3, <1>4, <2>1
  <2>3. /\ base(i) \in Nat /\ G[i].lo <= base(i) /\ m <= base(i)
        /\ base(i) <= a
    BY <1>6, <2>1, <2>2
  <2>4. G[i].lo \in Nat /\ G[i].hi \in Nat
    BY <1>4
  <2>5. Fits(G[i], base(i), n, m, MemUbound)
    BY <1>3, <2>1, <2>2, <2>3, <2>4 DEF Fits
  <2> QED BY <1>4, <2>2, <2>3, <2>5
<1>9. ASSUME NEW i \in first, NEW a \in F PROVE base(i) <= a
  <2>1. PICK j \in fit : base(j) <= a /\ G[j].lo <= a
    BY <1>8
  <2>2. i \in fit /\ i <= j /\ i \in 1 .. N /\ j \in 1 .. N
    BY <1>7, <2>1
  <2>3. CASE i = j
    BY <2>1, <2>3
  <2>4. CASE i < j
    <3>1. base(i) + n <= G[i].hi
      BY <2>2 DEF Fits
    <3>2. G[i].hi <= G[j].lo /\ G[i].hi \in Nat /\ G[j].lo \in Nat
          /\ base(i) \in Nat /\ a \in Nat
      BY <1>4, <1>5, <1>6, <2>2, <2>4
    <3> QED BY <1>3, <2>1, <3>1, <3>2
  <2> QED BY <1>4, <2>2, <2>3, <2>4
<1>10. ASSUME F # {} PROVE \E i \in first : TRUE
  <2>1. fit # {} /\ fit \in SUBSET Nat
    BY <1>4, <1>7, <1>8, <1>10
  <2> HIDE DEF fit
  <2> QED BY <2>1, LeastNumber
<1> HIDE DEF fit
<1>11. \A a : a \in {base(i) : i \in first}
               <=> (a \in F /\ \A b \in F : a <= b)
  <2>1. \A i \in first : base(i) \in F
    BY <1>7
  <2>2. ASSUME NEW a \in F, \A b \in F : a <= b
        PROVE  \E i \in first : a = base(i)
    <3>1. PICK i \in first : TRUE
      BY <1>10, <2>2
    <3>2. base(i) \in F /\ a <= base(i) /\ base(i) <= a
      BY <1>9, <2>1, <2>2
    <3>3. a \in Nat /\ base(i) \in Nat
      BY <1>5, <3>2
    <3> QED BY <3>2, <3>3
  <2> QED BY <1>9, <2>1, <2>2
<1> QED BY <1>2, <1>11 DEF F

(* Every entry has a byte, and ends inside the address space. *)
NoneEmpty == \A e \in map_info : e.lo < e.hi /\ e.hi <= MemUbound

(* What del_mapinfo leaves has a byte. *)
LEMMA DelNoneEmpty ==
    ASSUME map_info \in SUBSET Entry, NoneEmpty, NEW s \in Nat, NEW t \in Nat
    PROVE  \A e \in del_mapinfo(map_info, s, t) :
              e.lo < e.hi /\ e.hi <= MemUbound
<1>1. SUFFICES ASSUME NEW e \in Leftovers(map_info, s, t)
               PROVE  e.lo < e.hi /\ e.hi <= MemUbound
  BY DEF del_mapinfo, NoneEmpty
<1>2. PICK f \in Overlapping(map_info, s, t) :
          \/ f.lo < s /\ e = [f EXCEPT !.hi = s]
          \/ t < f.hi /\ e = [f EXCEPT !.lo = t]
  BY DEF Leftovers
<1>3. /\ f \in map_info /\ f \in Entry /\ s < f.hi /\ f.lo < f.hi
      /\ f.hi <= MemUbound
  BY DEF Overlapping, NoneEmpty
<1>4. CASE f.lo < s /\ e = [f EXCEPT !.hi = s]
  <2>1. e.lo = f.lo /\ e.hi = s
    BY <1>3, <1>4 DEF Entry
  <2> QED BY <1>3, <1>4, <2>1, MemoryAssumption DEF Entry
<1>5. CASE t < f.hi /\ e = [f EXCEPT !.lo = t]
  <2>1. e.lo = t /\ e.hi = f.hi
    BY <1>3, <1>5 DEF Entry
  <2> QED BY <1>3, <1>5, <2>1
<1> QED BY <1>2, <1>4, <1>5

(* map adds an entry with a byte. *)
LEMMA MapNoneEmpty ==
    ASSUME NoneEmpty, NEW a \in Nat, NEW n \in Nat, a + n <= MemUbound,
           NEW p, NEW l, MapAt(a, n, p, l)
    PROVE  NoneEmpty'
<1>1. CASE UNCHANGED map_info
  BY <1>1 DEF NoneEmpty
<1>2. CASE n > 0 /\ AddMapping(a, n, p, l, FALSE)
  BY <1>2 DEF AddMapping, NoneEmpty
<1> QED BY <1>1, <1>2 DEF MapAt

(* unmap leaves entries with a byte. *)
LEMMA UnmapNoneEmpty ==
    ASSUME map_info \in SUBSET Entry, NoneEmpty, NEW a \in Nat, NEW n \in Nat,
           UnmapAt(a, n)
    PROVE  NoneEmpty'
<1>1. CASE UNCHANGED map_info
  BY <1>1 DEF NoneEmpty
<1>2. CASE map_info' = del_mapinfo(map_info, a, a + n)
  <2>1. a + n \in Nat
    OBVIOUS
  <2> QED BY <1>2, <2>1, DelNoneEmpty DEF NoneEmpty
<1> QED BY <1>1, <1>2 DEF UnmapAt

(* protect of a range that is not empty adds an entry with a byte. *)
LEMMA ProtectNoneEmpty ==
    ASSUME map_info \in SUBSET Entry, NoneEmpty, NEW addr \in Nat,
           NEW len \in Nat \ {0}, NEW prot, Protect(addr, len, prot)
    PROVE  NoneEmpty'
<1> DEFINE p == SupportedPerms(prot)
           a == align(addr)
           n == align_up((addr % PageSize) + len, PageSize)
<1>1. a \in Nat /\ addr % PageSize \in Nat
  BY AlignNat
<1>2. (addr % PageSize) + len \in Nat \ {0}
  BY <1>1
<1>3. n \in Nat /\ n > 0
  <2> DEFINE v == (addr % PageSize) + len
  <2> HIDE DEF v
  <2>1. align_up(v, PageSize) \in Nat /\ v <= align_up(v, PageSize)
    BY <1>2, AlignUpLeast DEF v
  <2> QED BY <1>2, <2>1 DEF v
<1>4. \/ UNCHANGED map_info
      \/ \E e \in FirstEnclosing(a, a + n) :
            map_info' = del_mapinfo(map_info, a, a + n) \cup
                {[lo |-> a, hi |-> a + n, perms |-> p,
                  label |-> e.label, mmio |-> FALSE]}
  BY DEF Protect
<1> HIDE DEF a, n, p
<1>5. CASE UNCHANGED map_info
  BY <1>5 DEF NoneEmpty
<1>6. ASSUME NEW e \in FirstEnclosing(a, a + n),
             map_info' = del_mapinfo(map_info, a, a + n) \cup
                {[lo |-> a, hi |-> a + n, perms |-> p,
                  label |-> e.label, mmio |-> FALSE]}
      PROVE  NoneEmpty'
  <2>1. a + n \in Nat /\ a < a + n
    BY <1>1, <1>3
  <2>2. e \in map_info /\ e \in Entry /\ a + n <= e.hi /\ e.hi <= MemUbound
    BY DEF FirstEnclosing, Enclosing, NoneEmpty
  <2>3. a + n <= MemUbound
    BY <2>1, <2>2, MemoryAssumption DEF Entry
  <2>4. \A f \in del_mapinfo(map_info, a, a + n) :
            f.lo < f.hi /\ f.hi <= MemUbound
    BY <1>1, <2>1, DelNoneEmpty
  <2> QED BY <1>6, <2>1, <2>3, <2>4 DEF NoneEmpty
<1> QED BY <1>4, <1>5, <1>6

(* No operation on a range that is not empty makes an empty entry. *)
LEMMA NoneEmptyStep ==
    ASSUME 0 \notin Lens, IInv, NoneEmpty, [Next]_vars
    PROVE  NoneEmpty'
<1>1. map_info \in SUBSET Entry /\ \A n \in Lens : n \in Nat \ {0}
  BY MemoryAssumption DEF IInv, MemInv
<1>2. Addr \subseteq Nat
  BY MemoryAssumption DEF Addr
<1>3. ASSUME NEW a \in Addr, NEW n \in Lens, a + n <= MemUbound,
             \/ \E p \in Prots, l \in Labels : Map(a, n, p, l)
             \/ \E c \in Callbacks, l \in Labels : MapMmio(a, n, c, l)
             \/ Unmap(a, n)
             \/ \E p \in Prots : Protect(a, n, p)
             \/ UnmapBetween(a, a + n)
             \/ \E l \in Labels : Relabel(a, a + n, l)
      PROVE  NoneEmpty'
  <2>1. a \in Nat /\ n \in Nat \ {0}
    BY <1>1, <1>2
  <2>2. CASE \E p \in Prots, l \in Labels : Map(a, n, p, l)
    BY <1>3, <2>1, <2>2, MapNoneEmpty DEF Map
  <2>3. CASE \E c \in Callbacks, l \in Labels : MapMmio(a, n, c, l)
    <3>1. PICK c \in Callbacks, l \in Labels : MapMmio(a, n, c, l)
      BY <2>3
    <3>2. CASE UNCHANGED map_info
      BY <1>3, <3>2 DEF NoneEmpty
    <3>3. CASE AddMapping(a, n, c, l, TRUE)
      <4> DEFINE e == [lo |-> a, hi |-> a + n, perms |-> c, label |-> l, mmio |-> TRUE]
      <4>1. map_info' = map_info \cup {e} /\ e.lo = a /\ e.hi = a + n
        BY <3>3 DEF AddMapping
      <4> HIDE DEF e
      <4> QED BY <1>3, <2>1, <4>1 DEF NoneEmpty
    <3> QED BY <3>1, <3>2, <3>3 DEF MapMmio
  <2>4. CASE Unmap(a, n)
    BY <1>1, <2>1, <2>4, UnmapNoneEmpty DEF Unmap
  <2>5. CASE \E p \in Prots : Protect(a, n, p)
    BY <1>1, <2>1, <2>5, ProtectNoneEmpty
  <2>6. CASE UnmapBetween(a, a + n)
    BY <2>6 DEF UnmapBetween, NoneEmpty
  <2>7. ASSUME NEW l \in Labels, Relabel(a, a + n, l) PROVE NoneEmpty'
    <3>1. CASE UNCHANGED map_info
      BY <3>1 DEF NoneEmpty
    <3>2. ASSUME NEW e \in map_info,
                 map_info' = (map_info \ {e}) \cup {[e EXCEPT !.label = l]}
          PROVE  NoneEmpty'
      <4>1. [e EXCEPT !.label = l].lo = e.lo /\ [e EXCEPT !.label = l].hi = e.hi
        BY <1>1 DEF Entry
      <4> QED BY <3>2, <4>1 DEF NoneEmpty
    <3> QED BY <2>7, <3>1, <3>2 DEF Relabel, FirstEnclosing, Enclosing
  <2> QED BY <1>3, <2>2, <2>3, <2>4, <2>5, <2>6, <2>7
<1>4. ASSUME NEW n \in Lens, NEW m \in 0 .. MemUbound - 1, NEW p \in Prots,
             NEW l \in Labels, MapAnywhere(n, m, p, l)
      PROVE  NoneEmpty'
  <2> DEFINE k == align_up(n, PageSize)
             found == find_free_space(k, m, MemUbound, PageSize)
  <2>1. k \in Nat
    BY MemoryAssumption, AlignUpNat
  <2>2. UNCHANGED map_info \/ \E a \in found \cap Addr : MapAt(a, k, p, l)
    BY <1>4 DEF MapAnywhere
  <2>3. \A a \in found : a + k <= MemUbound
    BY DEF find_free_space, Fits
  <2> HIDE DEF k, found
  <2>4. CASE UNCHANGED map_info
    BY <2>4 DEF NoneEmpty
  <2>5. CASE \E a \in found \cap Addr : MapAt(a, k, p, l)
    BY <1>2, <2>1, <2>3, <2>5, MapNoneEmpty
  <2> QED BY <2>2, <2>4, <2>5
<1>5. CASE UnmapAll
  BY <1>5 DEF UnmapAll, NoneEmpty
<1>6. CASE UnmapNext
  <2>1. PICK r \in pend.todo : UnmapAt(r.lo, r.hi - r.lo)
    BY <1>6 DEF UnmapNext
  <2>2. r.lo \in Nat /\ r.hi - r.lo \in Nat
    BY DEF IInv, TypeOK, Ordered
  <2> QED BY <1>1, <2>1, <2>2, UnmapNoneEmpty
<1>7. CASE UNCHANGED vars
  BY <1>7 DEF vars, NoneEmpty
<1> QED BY <1>3, <1>4, <1>5, <1>6, <1>7 DEF Next

(* If no range that is operated on is empty, the queries, which rely on the *)
(* order and the joining of the entries, answer as a look at each address   *)
(* would: is_available, is_mapped and find_free_space.                      *)
THEOREM QueriesAlwaysExact ==
    ASSUME 0 \notin Lens
    PROVE  Spec => []QueriesExact
<1>1. Init => NoneEmpty
  BY DEF Init, NoneEmpty
<1>2. IInv /\ NoneEmpty /\ [Next]_vars => NoneEmpty'
  BY NoneEmptyStep
<1>3. IInv /\ NoneEmpty => QueriesExact
  <2>1. IInv /\ NoneEmpty => Layout(map_info)
    BY MemoryAssumption DEF IInv, MemInv, EntriesDisjoint, NoneEmpty, Layout, Entry
  <2> QED BY <2>1, RangesAreExact, FreeSpaceIsExact DEF QueriesExact
<1> QED BY <1>1, <1>2, <1>3, Inductive, PTL DEF Spec

-----------------------------------------------------------------------------
(* The system calls of POSIX.  Each makes calls of the memory manager, one  *)
(* at a time, so the lemmas about its steps apply; the invariant adds the   *)
(* local variables of the mmap under way.                                   *)

(* The segments, with the places they are attached at. *)
Segment == [key : Keys, size : {n \in Nat : n % PageSize = 0}, mode : Modes,
            attach : Seq(Addr)]

(* The range of an mmap, and the ranges it has still to unmap, are ranges,  *)
(* and a call that raised is not under way any more.                        *)
CallInv ==
    /\ pend.todo \subseteq [lo : Nat, hi : Nat] /\ Ordered(pend.todo)
    /\ call # NoCall =>
          /\ call.lo \in Nat /\ call.hi \in Nat /\ call.lo <= call.hi
          /\ call.fd \in Fds
          /\ sysret # "raised"

FdInv == fd \in [Fds -> [name : Files \cup {NoFile}, shared : BOOLEAN]]

BrkInv == brk_address \in Addr /\ brk_address % PageSize = 0

OutcomeInv == /\ sysret \in {"ok", "error", "raised"}
              /\ call = NoCall => pend = NoLoop

PosixInv ==
    /\ MemInv /\ CallInv /\ FdInv /\ BrkInv /\ OutcomeInv
    /\ shm \in Seq(Segment)
    /\ sysret # "raised" => UcDescribed

(* What a system call owes to the memory manager's part of the invariant. *)
MemGoal == MemInv' /\ (sysret' # "raised" => UcDescribed')

(* A call that makes no call of the memory manager. *)
LEMMA NoMemory ==
    ASSUME PosixInv, UNCHANGED <<map_info, uc>>, sysret # "raised"
    PROVE  MemGoal
BY DEF PosixInv, MemGoal, MemInv, EntriesDisjoint, EntriesBacked, UcDescribed

(* A call that ends the emulation when the memory manager fails. *)
LEMMA OneCall ==
    ASSUME PosixInv, StepKeeps, sysret # "raised",
           sysret' # "raised" => Returned
    PROVE  MemGoal
BY DEF PosixInv, MemGoal, StepKeeps

(* The constants of the address space. *)
LEMMA PosixConstants ==
    /\ BrkStart \in Nat /\ BrkStart % PageSize = 0 /\ BrkStart <= MemUbound
    /\ MemUbound \in Nat /\ MemUbound % PageSize = 0
    /\ SHMLBA \in Nat \ {0} /\ ShmSizes \subseteq Nat
<1>1. /\ BrkStart \in Nat \ {0} /\ BrkStart % PageSize = 0
      /\ MmapAddress \in Nat /\ MemUbound % PageSize = 0
      /\ BrkStart <= MmapAddress /\ MmapAddress < MemUbound
      /\ SHMLBA \in Nat \ {0} /\ ShmSizes \subseteq Nat
  BY PosixAssumption, Zenon
<1>2. MemUbound \in Nat
  BY MemoryAssumption
<1>3. BrkStart \in Nat /\ BrkStart <= MemUbound
  <2>1. /\ BrkStart \in Nat \ {0} /\ MmapAddress \in Nat
        /\ BrkStart <= MmapAddress /\ MmapAddress < MemUbound
    BY <1>1, Zenon
  <2> QED BY <1>2, <2>1
<1> QED BY <1>1, <1>2, <1>3, Zenon

(* The labels of the ranges that system calls map. *)
LEMMA PosixLabels ==
    /\ "[program]" \in Labels /\ "[brk]" \in Labels /\ "[shm]" \in Labels
    /\ "[mmap anonymous]" \in Labels /\ Files \subseteq Labels
BY PosixAssumption, Zenon

(* brk_address stays at a page, inside the address space. *)
LEMMA PageIn ==
    ASSUME NEW a \in 0 .. MemUbound
    PROVE  align_up(a, PageSize) \in Addr /\ align_up(a, PageSize) % PageSize = 0
<1>1. a \in Nat /\ a <= MemUbound /\ MemUbound \in Nat /\ MemUbound % PageSize = 0
  BY PosixConstants
<1>2. /\ align_up(a, PageSize) \in Nat
      /\ align_up(a, PageSize) <= MemUbound
      /\ align_up(a, PageSize) % PageSize = 0
  BY <1>1, AlignUpLeast
<1> QED BY <1>1, <1>2 DEF Addr

(* The address space that the program starts with. *)
LEMMA PosixInitOK == PosixInit => PosixInv
<1>1. SUFFICES ASSUME PosixInit PROVE PosixInv
  OBVIOUS
<1>2. /\ uc = {[lo |-> 0, hi |-> BrkStart, perms |-> UC_PROT_ALL, mmio |-> FALSE]}
      /\ map_info = {[lo |-> 0, hi |-> BrkStart, perms |-> UC_PROT_ALL,
                      label |-> "[program]", mmio |-> FALSE]}
      /\ BrkStart \in Nat /\ "[program]" \in Labels
  BY <1>1, PosixConstants, PosixLabels DEF PosixInit
<1>3. map_info \in SUBSET Entry /\ Ordered(map_info) /\ EntriesDisjoint
  BY <1>2 DEF Entry, Ordered, EntriesDisjoint, Disjoint
<1>4. uc \in SUBSET Region /\ Ordered(uc)
  BY <1>2 DEF Region, Ordered
<1>5. EntriesBacked /\ UcDescribed
  BY <1>2 DEF EntriesBacked, UcDescribed, Covers, Holds
<1>6. CallInv /\ OutcomeInv
  BY <1>1 DEF PosixInit, CallInv, OutcomeInv, NoLoop, Ordered
<1>7. FdInv
  BY <1>1 DEF PosixInit, FdInv, Closed
<1>8. BrkInv
  BY <1>1, PosixConstants DEF PosixInit, BrkInv, Addr
<1>9. shm \in Seq(Segment)
  BY <1>1 DEF PosixInit
<1> QED BY <1>3, <1>4, <1>5, <1>6, <1>7, <1>8, <1>9 DEF PosixInv, MemInv

(* The range of an mmap is a range of pages. *)
LEMMA MmapRange ==
    ASSUME NEW a \in Nat, NEW len \in Nat
    PROVE  MmapSize(a, len) \in Nat
<1>1. len + (a % PageSize) \in Nat
  BY AlignNat
<1> QED BY <1>1, AlignUpNat DEF MmapSize

(* unmap_between notes ranges to unmap. *)
LEMMA UnmapBetweenStep ==
    ASSUME MemInv, NEW s \in Nat, NEW t \in Nat, s <= t, UnmapBetween(s, t)
    PROVE  /\ pend'.todo \subseteq [lo : Nat, hi : Nat] /\ Ordered(pend'.todo)
           /\ UNCHANGED <<map_info, uc>>
<1> DEFINE T == {[lo |-> IF e.lo < s THEN s ELSE e.lo,
                  hi |-> IF t < e.hi THEN t ELSE e.hi] :
                     e \in Overlapping(map_info, s, t)}
<1>1. pend' = Loop("unmap_between", T) /\ UNCHANGED <<map_info, uc>>
  BY DEF UnmapBetween
<1>2. \A e \in Overlapping(map_info, s, t) :
          e.lo \in Nat /\ e.hi \in Nat /\ e.lo <= e.hi /\ s < e.hi /\ t > e.lo
  BY DEF Overlapping, MemInv, Entry, Ordered
<1>3. T \in SUBSET [lo : Nat, hi : Nat] /\ Ordered(T)
  BY <1>2 DEF Ordered
<1> HIDE DEF T
<1> QED BY <1>1, <1>3 DEF Loop, NoLoop, Ordered

(* mmap finds its range and, if it is fixed, begins to unmap it. *)
LEMMA MmapAtStep ==
    ASSUME PosixInv, Idle, NEW a \in Nat, NEW n \in Nat, NEW p, NEW fl,
           NEW i \in Fds, MmapAt(a, n, p, fl, i), UNCHANGED <<fd, shm, brk_address>>
    PROVE  PosixInv'
<1>1. call = NoCall /\ sysret # "raised" /\ pend = NoLoop
  BY DEF Idle, PosixInv, OutcomeInv
<1>2. FdInv' /\ BrkInv' /\ shm' \in Seq(Segment)
  BY DEF PosixInv, FdInv, BrkInv
<1>3. CASE sysret' = "error" /\ UNCHANGED <<vars, call>>
  <2>1. MemGoal
    BY <1>1, <1>3, NoMemory DEF vars
  <2>2. CallInv' /\ OutcomeInv'
    BY <1>1, <1>3 DEF vars, PosixInv, CallInv, OutcomeInv
  <2> QED BY <1>2, <2>1, <2>2 DEF PosixInv, MemGoal
<1>4. ASSUME call' = MmapCall(a, n, p, fl, i), UNCHANGED sysret,
             \/ UnmapBetween(align(a), align(a) + n)
             \/ UNCHANGED vars
      PROVE  PosixInv'
  <2>1. align(a) \in Nat /\ align(a) + n \in Nat /\ align(a) <= align(a) + n
    BY AlignNat
  <2>2. /\ call'.lo = align(a) /\ call'.hi = align(a) + n /\ call'.fd = i
        /\ call'.op = "mmap"
    BY <1>4 DEF MmapCall
  <2>3. call' # NoCall
    BY <2>2 DEF NoCall
  <2>4. /\ pend'.todo \subseteq [lo : Nat, hi : Nat] /\ Ordered(pend'.todo)
        /\ UNCHANGED <<map_info, uc>>
    <3>1. CASE UnmapBetween(align(a), align(a) + n)
      BY <2>1, <3>1, UnmapBetweenStep DEF PosixInv
    <3>2. CASE UNCHANGED vars
      BY <3>2 DEF vars, PosixInv, CallInv
    <3> QED BY <1>4, <3>1, <3>2
  <2>5. MemGoal
    BY <1>1, <2>4, NoMemory
  <2>6. CallInv'
    BY <1>1, <1>4, <2>1, <2>2, <2>4 DEF CallInv
  <2>7. OutcomeInv'
    BY <1>4, <2>3 DEF PosixInv, OutcomeInv
  <2> QED BY <1>2, <2>5, <2>6, <2>7 DEF PosixInv, MemGoal
<1> QED BY <1>3, <1>4 DEF MmapAt

(* A call that changes only the descriptors, segments or nothing. *)
LEMMA QuietCall ==
    ASSUME PosixInv, Idle, UNCHANGED <<vars, call>>,
           sysret' \in {"ok", "error", "raised"},
           FdInv', BrkInv', shm' \in Seq(Segment)
    PROVE  PosixInv'
<1>1. call = NoCall /\ sysret # "raised" /\ pend = NoLoop
  BY DEF Idle, PosixInv, OutcomeInv
<1>2. MemGoal
  BY <1>1, NoMemory DEF vars
<1>3. CallInv' /\ OutcomeInv'
  BY <1>1 DEF vars, PosixInv, CallInv, OutcomeInv
<1> QED BY <1>2, <1>3 DEF PosixInv, MemGoal

(* mmap is refused or has found its range. *)
LEMMA MmapStep ==
    ASSUME PosixInv, NEW a \in 0 .. MemUbound - 1, NEW len \in Lens, NEW p,
           NEW fl, NEW i \in Fds, Mmap(a, len, p, fl, i)
    PROVE  PosixInv'
<1>1. a \in Nat /\ len \in Nat /\ MmapSize(a, len) \in Nat
  BY MmapRange, MemoryAssumption
<1>2. Addr \subseteq Nat
  BY MemoryAssumption DEF Addr
<1>3. Idle /\ UNCHANGED <<fd, shm, brk_address>>
  BY DEF Mmap
<1>4. CASE sysret' \in {"error", "raised"} /\ UNCHANGED <<vars, call>>
  BY <1>3, <1>4, QuietCall DEF PosixInv, FdInv, BrkInv
<1>5. ASSUME NEW b \in Nat, MmapAt(b, MmapSize(a, len), p, fl, i)
      PROVE  PosixInv'
  BY <1>1, <1>3, <1>5, MmapAtStep
<1> QED BY <1>1, <1>2, <1>4, <1>5 DEF Mmap

(* A turn of the loop of mmap. *)
LEMMA MmapUnmapStep ==
    ASSUME PosixInv, MmapUnmap
    PROVE  PosixInv'
<1>1. /\ call # NoCall /\ sysret # "raised"
      /\ call.lo \in Nat /\ call.hi \in Nat /\ call.lo <= call.hi
      /\ call.fd \in Fds
      /\ UNCHANGED <<fd, shm, brk_address>>
  BY DEF MmapUnmap, PosixInv, CallInv
<1>2. PICK r \in pend.todo :
          /\ UnmapAt(r.lo, r.hi - r.lo)
          /\ pend' = IF ret' = "ok" THEN Loop(pend.op, pend.todo \ {r})
                                    ELSE NoLoop
  BY DEF MmapUnmap, UnmapNext
<1>3. r.lo \in Nat /\ r.hi - r.lo \in Nat
  BY DEF PosixInv, CallInv, Ordered
<1>4. StepKeeps
  BY <1>2, <1>3, UnmapAtStep DEF PosixInv
<1>5. pend'.todo \subseteq [lo : Nat, hi : Nat] /\ Ordered(pend'.todo)
  BY <1>2 DEF PosixInv, CallInv, Loop, NoLoop, Ordered
<1>6. MemGoal
  BY <1>1, <1>4, OneCall DEF MmapUnmap, Returned
<1>7. CallInv'
  BY <1>1, <1>5 DEF MmapUnmap, CallInv
<1>8. OutcomeInv'
  BY <1>1, <1>2 DEF MmapUnmap, PosixInv, OutcomeInv
<1>9. FdInv' /\ BrkInv' /\ shm' \in Seq(Segment)
  BY <1>1 DEF PosixInv, FdInv, BrkInv
<1> QED BY <1>6, <1>7, <1>8, <1>9 DEF PosixInv, MemGoal

(* A call that ends, after a step of the memory manager. *)
LEMMA EndCall ==
    ASSUME PosixInv, MemGoal, pend = NoLoop, UNCHANGED pend, call' = NoCall,
           sysret' \in {"ok", "error", "raised"},
           FdInv', BrkInv', shm' \in Seq(Segment)
    PROVE  PosixInv'
BY DEF PosixInv, MemGoal, CallInv, OutcomeInv

(* The last step of mmap. *)
LEMMA MmapProtectStep ==
    ASSUME PosixInv, MmapProtect
    PROVE  PosixInv'
<1>1. /\ call # NoCall /\ sysret # "raised"
      /\ call.lo \in Nat /\ call.hi - call.lo \in Nat
      /\ UNCHANGED <<fd, shm, brk_address>>
  BY DEF MmapProtect, PosixInv, CallInv
<1>2. StepKeeps /\ pend = NoLoop /\ UNCHANGED pend
  BY <1>1, ProtectStep DEF MmapProtect, Protect, PosixInv
<1>3. MemGoal
  BY <1>1, <1>2, OneCall DEF MmapProtect, CallOutcome, Returned
<1>4. FdInv' /\ BrkInv' /\ shm' \in Seq(Segment)
  BY <1>1 DEF PosixInv, FdInv, BrkInv
<1> QED BY <1>2, <1>3, <1>4, EndCall DEF MmapProtect, CallOutcome

(* Mapping reports the range that is taken without touching anything. *)
LEMMA MapStep ==
    ASSUME PosixInv, sysret # "raised", NEW a \in Nat, NEW n \in Nat, NEW p,
           NEW l \in Labels, Map(a, n, p, l),
           sysret' # "raised" => ret' \in {"ok", "logged", "QlMemoryMappedError"}
    PROVE  MemGoal /\ pend = NoLoop /\ UNCHANGED pend
<1>1. StepKeeps /\ pend = NoLoop /\ UNCHANGED pend
  BY MapAtStep DEF Map, PosixInv
<1>2. CASE ret' = "QlMemoryMappedError"
  <2>1. UNCHANGED <<map_info, uc>>
    BY <1>2 DEF Map, MapAt
  <2> QED BY <1>1, <2>1, NoMemory
<1>3. CASE ret' # "QlMemoryMappedError"
  BY <1>1, <1>3, OneCall DEF Returned
<1> QED BY <1>2, <1>3

(* The mapping of mmap, after the descriptor has been looked at. *)
LEMMA MmapMapStep ==
    ASSUME PosixInv, MmapMap
    PROVE  PosixInv'
<1>1. /\ call # NoCall /\ sysret # "raised" /\ pend = NoLoop
      /\ call.lo \in Nat /\ call.hi \in Nat /\ call.lo <= call.hi
      /\ call.hi - call.lo \in Nat
      /\ call.fd \in Fds
      /\ UNCHANGED <<shm, brk_address>>
  BY DEF MmapMap, PosixInv, CallInv
<1>2. BrkInv' /\ shm' \in Seq(Segment)
  BY <1>1 DEF PosixInv, BrkInv
<1>3. CASE call' = NoCall /\ sysret' = "error" /\ UNCHANGED <<vars, fd>>
  <2>1. MemGoal
    BY <1>1, <1>3, NoMemory DEF vars
  <2>2. FdInv' /\ UNCHANGED pend
    BY <1>3 DEF PosixInv, FdInv, vars
  <2> QED BY <1>1, <1>2, <1>3, <2>1, <2>2, EndCall
<1>4. ASSUME "ANONYMOUS" \in call.flags \/ fd[call.fd].name # NoFile,
             fd' = NotedMapping,
             Map(call.lo, call.hi - call.lo, UC_PROT_ALL, MapLabel),
             IF ret' = "ok"
             THEN /\ call' = [call EXCEPT !.mapped = TRUE]
                  /\ UNCHANGED sysret
             ELSE /\ call' = NoCall
                  /\ sysret' = IF ret' = "QlMemoryMappedError"
                               THEN "error" ELSE "raised"
      PROVE  PosixInv'
  <2>1. FdInv'
    <3>1. FdInv
      BY DEF PosixInv
    <3>2. ("SHARED" \in call.flags) \in BOOLEAN
      OBVIOUS
    <3> QED BY <1>1, <1>4, <3>1, <3>2 DEF FdInv, NotedMapping
  <2>2. MapLabel \in Labels
    <3>1. "[mmap anonymous]" \in Labels /\ Files \subseteq Labels
      BY PosixLabels
    <3>2. fd[call.fd].name \in Files \cup {NoFile}
      BY <1>1 DEF PosixInv, FdInv
    <3> QED BY <1>4, <3>1, <3>2 DEF MapLabel
  <2>3. sysret' # "raised" => ret' \in {"ok", "logged", "QlMemoryMappedError"}
    BY <1>4
  <2>4. MemGoal /\ UNCHANGED pend
    BY <1>1, <1>4, <2>2, <2>3, MapStep
  <2>5. CASE ret' = "ok"
    <3>1. call' = [call EXCEPT !.mapped = TRUE] /\ sysret' = sysret
      BY <1>4, <2>5
    <3>2. call'.lo = call.lo /\ call'.hi = call.hi /\ call'.fd = call.fd
      BY <3>1
    <3>3. CallInv'
      BY <1>1, <2>4, <3>1, <3>2 DEF CallInv, PosixInv
    <3>4. OutcomeInv'
      BY <1>1, <2>4, <3>1 DEF OutcomeInv, PosixInv
    <3> QED BY <1>2, <2>1, <2>4, <3>3, <3>4 DEF PosixInv, MemGoal
  <2>6. CASE ret' # "ok"
    BY <1>1, <1>2, <1>4, <2>1, <2>4, <2>6, EndCall
  <2> QED BY <2>5, <2>6
<1> QED BY <1>3, <1>4 DEF MmapMap

(* munmap unmaps the pages of the range. *)
LEMMA MunmapStep ==
    ASSUME PosixInv, NEW a \in 0 .. MemUbound - 1, NEW len \in Lens,
           Munmap(a, len)
    PROVE  PosixInv'
<1> DEFINE lo == align(a)
           hi == align_up(a + len, PageSize)
<1>1. Idle /\ UNCHANGED <<fd, shm, brk_address, call>>
  BY DEF Munmap
<1>2. call = NoCall /\ sysret # "raised" /\ pend = NoLoop
  BY <1>1 DEF Idle, PosixInv, OutcomeInv
<1>3. FdInv' /\ BrkInv' /\ shm' \in Seq(Segment)
  BY <1>1 DEF PosixInv, FdInv, BrkInv
<1>4. CASE sysret' \in {"ok", "raised"} /\ UNCHANGED vars
  BY <1>1, <1>3, <1>4, QuietCall
<1>5. CASE Unmap(lo, hi - lo) /\ sysret' = CallOutcome
  <2>1. a \in Nat /\ a + len \in Nat /\ a <= a + len
    BY MemoryAssumption
  <2>2. lo \in Nat /\ lo <= a
    BY <2>1, AlignNat DEF align
  <2>3. hi \in Nat /\ a + len <= hi
    BY <2>1, AlignUpLeast
  <2>4. hi - lo \in Nat
    <3> HIDE DEF lo, hi
    <3> QED BY <2>1, <2>2, <2>3
  <2> HIDE DEF lo, hi
  <2>5. StepKeeps /\ UNCHANGED pend
    BY <1>5, <2>2, <2>4, UnmapAtStep DEF Unmap, PosixInv
  <2>6. MemGoal
    BY <1>2, <1>5, <2>5, OneCall DEF CallOutcome, Returned
  <2> QED BY <1>1, <1>2, <1>3, <1>5, <2>5, <2>6, EndCall DEF CallOutcome
<1> QED BY <1>4, <1>5 DEF Munmap

(* mprotect makes one call of the memory manager. *)
LEMMA MprotectStep ==
    ASSUME PosixInv, NEW a \in 0 .. MemUbound - 1, NEW len \in Lens, NEW p,
           Mprotect(a, len, p)
    PROVE  PosixInv'
<1>1. /\ Idle /\ UNCHANGED <<fd, shm, brk_address, call>>
      /\ Protect(a, len, p) /\ sysret' = CallOutcome
  BY DEF Mprotect
<1>2. call = NoCall /\ sysret # "raised" /\ pend = NoLoop
  BY <1>1 DEF Idle, PosixInv, OutcomeInv
<1>3. FdInv' /\ BrkInv' /\ shm' \in Seq(Segment)
  BY <1>1 DEF PosixInv, FdInv, BrkInv
<1>4. a \in Nat /\ len \in Nat
  BY MemoryAssumption
<1>5. StepKeeps /\ UNCHANGED pend
  BY <1>1, <1>4, ProtectStep DEF Protect, PosixInv
<1>6. MemGoal
  BY <1>1, <1>2, <1>5, OneCall DEF CallOutcome, Returned
<1> QED BY <1>1, <1>2, <1>3, <1>5, <1>6, EndCall DEF CallOutcome

(* brk maps or unmaps what lies between the old and the new break. *)
LEMMA BrkStep ==
    ASSUME PosixInv, NEW inp \in 0 .. MemUbound, Brk(inp)
    PROVE  PosixInv'
<1> DEFINE new == align_up(inp, PageSize)
<1>1. Idle /\ UNCHANGED <<fd, shm, call>>
  BY DEF Brk
<1>2. call = NoCall /\ sysret # "raised" /\ pend = NoLoop
  BY <1>1 DEF Idle, PosixInv, OutcomeInv
<1>3. FdInv' /\ shm' \in Seq(Segment)
  BY <1>1 DEF PosixInv, FdInv
<1>4. new \in Addr /\ new % PageSize = 0 /\ new \in Nat
  BY PageIn, MemoryAssumption DEF Addr
<1>5. brk_address \in Nat /\ BrkInv
  BY MemoryAssumption DEF PosixInv, BrkInv, Addr
<1>6. CASE sysret' = "ok" /\ UNCHANGED <<vars, brk_address>>
  BY <1>1, <1>3, <1>5, <1>6, QuietCall DEF BrkInv
<1>7. ASSUME sysret' = CallOutcome,
             brk_address' = IF ret' = "ok" THEN new ELSE brk_address,
             \/ /\ new > brk_address
                /\ Map(brk_address, new - brk_address, UC_PROT_ALL, "[brk]")
             \/ /\ new < brk_address
                /\ Unmap(new, brk_address - new)
      PROVE  PosixInv'
  <2> HIDE DEF new
  <2>1. BrkInv'
    BY <1>4, <1>5, <1>7 DEF BrkInv
  <2>2. StepKeeps /\ UNCHANGED pend
    <3>1. CASE /\ new > brk_address
               /\ Map(brk_address, new - brk_address, UC_PROT_ALL, "[brk]")
      <4>1. new - brk_address \in Nat
        BY <1>4, <1>5, <3>1
      <4>2. "[brk]" \in Labels
        BY PosixLabels
      <4> QED BY <1>5, <3>1, <4>1, <4>2, MapAtStep DEF Map, PosixInv
    <3>2. CASE new < brk_address /\ Unmap(new, brk_address - new)
      <4>1. brk_address - new \in Nat
        BY <1>4, <1>5, <3>2
      <4> QED BY <1>4, <3>2, <4>1, UnmapAtStep DEF Unmap, PosixInv
    <3> QED BY <1>7, <3>1, <3>2
  <2>3. MemGoal
    BY <1>2, <1>7, <2>2, OneCall DEF CallOutcome, Returned
  <2> QED BY <1>1, <1>2, <1>3, <1>7, <2>1, <2>2, <2>3, EndCall DEF CallOutcome
<1> QED BY <1>6, <1>7 DEF Brk

(* open takes a free place of the table. *)
LEMMA OpenStep ==
    ASSUME PosixInv, NEW i \in Fds, NEW f \in Files, Open(i, f)
    PROVE  PosixInv'
<1>1. /\ Idle /\ sysret' = "ok" /\ UNCHANGED <<vars, shm, brk_address, call>>
      /\ \E c \in [name : Files \cup {NoFile}, shared : BOOLEAN] :
            fd' = [fd EXCEPT ![i] = c]
  BY DEF Open, Closed
<1>2. FdInv'
  BY <1>1 DEF PosixInv, FdInv
<1>3. BrkInv' /\ shm' \in Seq(Segment)
  BY <1>1 DEF PosixInv, BrkInv
<1> QED BY <1>1, <1>2, <1>3, QuietCall

(* close empties a place of the table. *)
LEMMA CloseStep ==
    ASSUME PosixInv, NEW i \in Fds, Close(i)
    PROVE  PosixInv'
<1>1. /\ Idle /\ sysret' = "ok" /\ UNCHANGED <<vars, shm, brk_address, call>>
      /\ fd' = [fd EXCEPT ![i] = Closed]
  BY DEF Close
<1>2. FdInv'
  BY <1>1 DEF PosixInv, FdInv, Closed
<1>3. BrkInv' /\ shm' \in Seq(Segment)
  BY <1>1 DEF PosixInv, BrkInv
<1> QED BY <1>1, <1>2, <1>3, QuietCall

(* shmget adds a segment that is attached nowhere. *)
LEMMA ShmgetStep ==
    ASSUME PosixInv, NEW k \in Keys, NEW n \in ShmSizes, NEW mode \in Modes,
           NEW fl, Shmget(k, n, mode, fl)
    PROVE  PosixInv'
<1> DEFINE seg == [key |-> k, size |-> align_up(n, PageSize),
                   mode |-> mode, attach |-> <<>>]
<1>1. /\ Idle /\ sysret' \in {"ok", "error"}
      /\ UNCHANGED <<vars, fd, brk_address, call>>
      /\ UNCHANGED shm \/ shm' = Append(shm, seg)
  BY DEF Shmget
<1>2. seg \in Segment
  <2>1. n \in Nat
    BY PosixConstants
  <2>2. align_up(n, PageSize) \in {v \in Nat : v % PageSize = 0}
    BY <2>1, AlignUpLeast
  <2> QED BY <2>2 DEF Segment
<1>3. shm' \in Seq(Segment)
  <2> HIDE DEF seg
  <2> QED BY <1>1, <1>2, AppendProperties DEF PosixInv
<1>4. FdInv' /\ BrkInv'
  BY <1>1 DEF PosixInv, FdInv, BrkInv
<1> QED BY <1>1, <1>3, <1>4, QuietCall

(* Where shmat attaches are addresses. *)
LEMMA AttachIn ==
    ASSUME NEW id, NEW a \in 0 .. MemUbound - 1, NEW fl
    PROVE  AttachPlaces(id, a, fl) \subseteq Addr
<1>1. a \in Nat /\ a <= MemUbound /\ MemUbound \in Nat
  BY PosixConstants
<1>2. a - (a % SHMLBA) \in Nat /\ a - (a % SHMLBA) <= a
  <2>1. SHMLBA \in Nat \ {0}
    BY PosixConstants
  <2>2. /\ a \div SHMLBA \in Nat /\ a % SHMLBA \in Nat
        /\ a = SHMLBA * (a \div SHMLBA) + (a % SHMLBA)
    BY <1>1, <2>1, DivBounds
  <2>3. SHMLBA * (a \div SHMLBA) \in Nat
    BY <2>1, <2>2, SMT
  <2> QED BY <1>1, <2>2, <2>3
<1>3. a \in Addr /\ a - (a % SHMLBA) \in Addr
  BY <1>1, <1>2 DEF Addr
<1> QED BY <1>3 DEF AttachPlaces

(* A change of the places a segment is attached at. *)
LEMMA AttachKept ==
    ASSUME shm \in Seq(Segment), NEW id \in DOMAIN shm, NEW s \in Seq(Addr)
    PROVE  [shm EXCEPT ![id].attach = s] \in Seq(Segment)
<1>1. Len(shm) \in Nat /\ shm \in [1 .. Len(shm) -> Segment]
  BY LenProperties
<1>2. [shm EXCEPT ![id].attach = s] \in [1 .. Len(shm) -> Segment]
  BY <1>1 DEF Segment
<1> QED BY <1>1, <1>2, IsASeq

(* shmat maps memory for the attachment. *)
LEMMA ShmatStep ==
    ASSUME PosixInv, NEW id, NEW a \in 0 .. MemUbound - 1, NEW fl,
           Shmat(id, a, fl)
    PROVE  PosixInv'
<1>1. Idle /\ UNCHANGED <<fd, brk_address, call>>
  BY DEF Shmat
<1>2. call = NoCall /\ sysret # "raised" /\ pend = NoLoop
  BY <1>1 DEF Idle, PosixInv, OutcomeInv
<1>3. FdInv' /\ BrkInv'
  BY <1>1 DEF PosixInv, FdInv, BrkInv
<1>4. CASE sysret' \in {"error", "raised"} /\ UNCHANGED <<vars, shm>>
  BY <1>1, <1>3, <1>4, QuietCall DEF PosixInv
<1>5. ASSUME id \in DOMAIN shm, NEW b \in AttachPlaces(id, a, fl),
             Map(b, shm[id].size, ShmPerms(fl), "[shm]"),
             IF ret' = "ok"
             THEN /\ shm' = [shm EXCEPT ![id].attach = Append(@, b)]
                  /\ sysret' = "ok"
             ELSE /\ sysret' = IF ret' = "QlMemoryMappedError"
                               THEN "error" ELSE "raised"
                  /\ UNCHANGED <<shm>>
      PROVE  PosixInv'
  <2>1. b \in Addr /\ b \in Nat
    BY AttachIn, PosixConstants DEF Addr
  <2>2. shm[id] \in Segment
    BY <1>5, ElementOfSeq, LenProperties DEF PosixInv
  <2>3. shm[id].size \in Nat /\ shm[id].attach \in Seq(Addr)
    BY <2>2 DEF Segment
  <2>4. Append(shm[id].attach, b) \in Seq(Addr)
    BY <2>1, <2>3, AppendProperties
  <2>5. shm' \in Seq(Segment)
    BY <1>5, <2>4, AttachKept DEF PosixInv
  <2>6. sysret' # "raised" => ret' \in {"ok", "logged", "QlMemoryMappedError"}
    BY <1>5
  <2>7. MemGoal /\ UNCHANGED pend
    BY <1>2, <1>5, <2>1, <2>3, <2>6, MapStep, PosixLabels
  <2>8. sysret' \in {"ok", "error", "raised"}
    BY <1>5
  <2> QED BY <1>1, <1>2, <1>3, <2>5, <2>7, <2>8, EndCall
<1> QED BY <1>4, <1>5 DEF Shmat

(* list.remove leaves a list of what was in it. *)
LEMMA RemoveFirstSeq ==
    ASSUME NEW S, NEW s \in Seq(S), NEW x
    PROVE  RemoveFirst(s, x) \in Seq(S)
<1> DEFINE I == {i \in 1 .. Len(s) : s[i] = x}
<1>1. Len(s) \in Nat
  BY LenProperties
<1>2. CASE I = {}
  BY <1>2 DEF RemoveFirst
<1>3. CASE I # {}
  <2>1. I \in SUBSET Nat
    BY <1>1
  <2>2. Min(I) \in I
    <3> HIDE DEF I
    <3> QED BY <1>3, <2>1, LeastNumber DEF Min
  <2>3. PICK i \in 1 .. Len(s) : i = Min(I)
    BY <2>2
  <2>4. RemoveFirst(s, x) = RemoveAt(s, i)
    BY <1>3, <2>3 DEF RemoveFirst, SelectInSeq
  <2>5. RemoveAt(s, i) = SubSeq(s, 1, i - 1) \o SubSeq(s, i + 1, Len(s))
    BY DEF RemoveAt
  <2>6. SubSeq(s, 1, i - 1) \in Seq(S)
    BY <1>1, SMT
  <2>7. SubSeq(s, i + 1, Len(s)) \in Seq(S)
    BY <1>1, SMT
  <2> QED BY <2>4, <2>5, <2>6, <2>7, ConcatProperties
<1> QED BY <1>2, <1>3

(* shmdt forgets the attachment and leaves its memory mapped. *)
LEMMA ShmdtStep ==
    ASSUME PosixInv, NEW a, Shmdt(a)
    PROVE  PosixInv'
<1>1. /\ Idle /\ sysret' \in {"ok", "error"}
      /\ UNCHANGED <<vars, fd, brk_address, call>>
      /\ \/ UNCHANGED shm
         \/ \E id \in DOMAIN shm :
               shm' = [shm EXCEPT ![id].attach = RemoveFirst(@, a)]
  BY DEF Shmdt, AttachedAt
<1>2. ASSUME NEW id \in DOMAIN shm
      PROVE  [shm EXCEPT ![id].attach = RemoveFirst(@, a)] \in Seq(Segment)
  <2>1. shm[id] \in Segment
    BY ElementOfSeq, LenProperties DEF PosixInv
  <2>2. RemoveFirst(shm[id].attach, a) \in Seq(Addr)
    BY <2>1, RemoveFirstSeq DEF Segment
  <2> QED BY <2>2, AttachKept DEF PosixInv
<1>3. shm' \in Seq(Segment)
  BY <1>1, <1>2 DEF PosixInv
<1>4. FdInv' /\ BrkInv'
  BY <1>1 DEF PosixInv, FdInv, BrkInv
<1> QED BY <1>1, <1>3, <1>4, QuietCall

(* Every step keeps the invariant. *)
LEMMA PosixStep ==
    ASSUME PosixInv, [PosixNext]_pvars
    PROVE  PosixInv'
<1>1. CASE UNCHANGED pvars
  BY <1>1 DEF pvars, vars, posix, PosixInv, MemInv, CallInv, FdInv, BrkInv,
              OutcomeInv, EntriesDisjoint, EntriesBacked, UcDescribed
<1> QED
  BY <1>1, MmapStep, MmapUnmapStep, MmapMapStep, MmapProtectStep, MunmapStep,
     MprotectStep, BrkStep, OpenStep, CloseStep, ShmgetStep, ShmatStep,
     ShmdtStep DEF PosixNext

(* While the program runs, the list and Unicorn describe the same           *)
(* addresses: the system calls that drive the two apart all end the         *)
(* emulation with an exception.                                             *)
THEOREM MapAlwaysSound == PosixSpec => []MapSound
<1>1. PosixInv => MapSound
  <2>1. SUFFICES ASSUME PosixInv PROVE MapSound
    OBVIOUS
  <2>2. \A id \in DOMAIN shm : shm[id] \in Segment
    BY <2>1, ElementOfSeq, LenProperties DEF PosixInv
  <2>3. \A s \in Seq(Addr) : ToSet(s) \subseteq Addr
    BY ElementOfSeq, LenProperties DEF ToSet
  <2>4. \A id \in DOMAIN shm :
           /\ shm[id].key \in Keys /\ shm[id].mode \in Modes
           /\ shm[id].size % PageSize = 0
           /\ ToSet(shm[id].attach) \subseteq Addr
    BY <2>2, <2>3 DEF Segment
  <2>5. PosixTypeOK
    BY <2>1, <2>4 DEF PosixInv, PosixTypeOK, FdInv, BrkInv, OutcomeInv
  <2>6. AgreeWhileRunning
    BY <2>1 DEF PosixInv, AgreeWhileRunning, MemInv
  <2> QED BY <2>5, <2>6 DEF MapSound
<1> QED BY <1>1, PosixInitOK, PosixStep, PTL DEF PosixSpec

-----------------------------------------------------------------------------
(* MmapOutcome.  What a change of the list does to what it says of an       *)
(* address, first.                                                          *)

(* What del_mapinfo leaves is a part of an entry that ends where the entry  *)
(* does or at the range deleted.                                            *)
LEMMA DelPieces ==
    ASSUME NEW M \in SUBSET Entry, NEW s \in Nat, NEW t \in Nat,
           NEW f \in del_mapinfo(M, s, t)
    PROVE  \E e \in M : /\ f.perms = e.perms /\ f.label = e.label
                        /\ e.lo <= f.lo /\ f.hi <= e.hi
                        /\ f.lo \in {e.lo, t} /\ f.hi \in {e.hi, s}
                        /\ e.lo < e.hi => f.lo < f.hi
<1>1. CASE f \in M
  BY <1>1 DEF Entry
<1>2. CASE f \in Leftovers(M, s, t)
  <2>1. Ranges(M)
    BY DEF Ranges
  <2>2. PICK e \in Overlapping(M, s, t) :
           \/ f = [e EXCEPT !.hi = s] /\ f.lo = e.lo /\ f.hi = s /\ e.lo < s
           \/ f = [e EXCEPT !.lo = t] /\ f.lo = t /\ f.hi = e.hi /\ t < e.hi
    BY <1>2, <2>1, LeftoverRange
  <2>3. e \in M /\ e \in Entry /\ s < e.hi /\ t > e.lo
    BY DEF Overlapping
  <2>4. f.perms = e.perms /\ f.label = e.label
    BY <2>2, <2>3 DEF Entry
  <2>5. e.lo \in Nat /\ e.hi \in Nat
    BY <2>3 DEF Entry
  <2>6. e.lo <= f.lo /\ f.hi <= e.hi /\ f.lo \in {e.lo, t} /\ f.hi \in {e.hi, s}
        /\ f.lo < f.hi
    BY <2>2, <2>3, <2>5
  <2> QED BY <2>3, <2>4, <2>6
<1> QED BY <1>1, <1>2 DEF del_mapinfo

(* del_mapinfo leaves a part of an entry for each address outside the range *)
(* deleted that the entry describes.                                        *)
LEMMA DelKeeps ==
    ASSUME NEW M \in SUBSET Entry, Ordered(M), Disjoint(M),
           NEW s \in Nat, NEW t \in Nat, s <= t,
           NEW e \in M, NEW a \in Nat, e.lo <= a, a < e.hi, ~ (s <= a /\ a < t)
    PROVE  \E f \in del_mapinfo(M, s, t) :
              /\ f.perms = e.perms /\ f.label = e.label
              /\ f.lo <= a /\ a < f.hi
              /\ f.hi \in {e.hi, s}
<1>1. e.lo \in Nat /\ e.hi \in Nat /\ e \in Entry
  BY DEF Entry
<1>2. CASE e \notin Overlapping(M, s, t)
  <2>1. ~ \E f, g \in Overlapping(M, s, t) : EntryLeq(f, e) /\ EntryLeq(e, g)
    BY <1>1, <1>2, OverlapsConsecutive
  <2>2. e \in del_mapinfo(M, s, t)
    BY <2>1 DEF del_mapinfo
  <2> QED BY <2>2
<1>3. CASE e \in Overlapping(M, s, t) /\ a < s
  <2> DEFINE f == [e EXCEPT !.hi = s]
  <2>1. f.lo = e.lo /\ f.hi = s /\ f.perms = e.perms /\ f.label = e.label
    BY <1>1 DEF Entry
  <2>2. f \in del_mapinfo(M, s, t)
    <3>1. e \in {g \in Overlapping(M, s, t) : g.lo < s}
      BY <1>1, <1>3
    <3>2. f \in Leftovers(M, s, t)
      BY <3>1 DEF Leftovers
    <3> QED BY <3>2 DEF del_mapinfo
  <2> HIDE DEF f
  <2> QED BY <1>3, <2>1, <2>2
<1>4. CASE e \in Overlapping(M, s, t) /\ t <= a
  <2> DEFINE f == [e EXCEPT !.lo = t]
  <2>1. f.lo = t /\ f.hi = e.hi /\ f.perms = e.perms /\ f.label = e.label
    BY <1>1 DEF Entry
  <2>2. f \in del_mapinfo(M, s, t)
    <3>1. e \in {g \in Overlapping(M, s, t) : t < g.hi}
      BY <1>1, <1>4
    <3>2. f \in Leftovers(M, s, t)
      BY <3>1 DEF Leftovers
    <3> QED BY <3>2 DEF del_mapinfo
  <2> HIDE DEF f
  <2> QED BY <1>4, <2>1, <2>2
<1> QED BY <1>2, <1>3, <1>4

(* The list says the same of an address in two states. *)
LEMMA ViewIs ==
    ASSUME NEW M, NEW a, NEW v
    PROVE  v \in View(M, a) <=>
              \E e \in M : /\ e.lo <= a /\ a < e.hi
                           /\ v = [perms |-> e.perms, label |-> e.label]
BY DEF View

(* del_mapinfo changes what the list says of the addresses in its range and *)
(* of no other.                                                             *)
LEMMA DelView ==
    ASSUME NEW M \in SUBSET Entry, Ordered(M), Disjoint(M),
           NEW s \in Nat, NEW t \in Nat, s <= t, NEW a \in Nat
    PROVE  /\ ~ (s <= a /\ a < t) => View(del_mapinfo(M, s, t), a) = View(M, a)
           /\ (s <= a /\ a < t) => View(del_mapinfo(M, s, t), a) = {}
<1> DEFINE D == del_mapinfo(M, s, t)
<1>1. D \in SUBSET Entry
  BY DelEntries
<1>2. \A f \in D : f.hi <= s \/ t <= f.lo
  BY DelDisjoint
<1>3. \A f \in D : \E e \in M : /\ f.perms = e.perms /\ f.label = e.label
                                /\ e.lo <= f.lo /\ f.hi <= e.hi
  BY DelPieces
<1>3a. ASSUME ~ (s <= a /\ a < t), NEW e \in M, e.lo <= a, a < e.hi
       PROVE  \E f \in D : /\ f.perms = e.perms /\ f.label = e.label
                           /\ f.lo <= a /\ a < f.hi
  BY <1>3a, DelKeeps
<1> HIDE DEF D
<1>4. \A e \in M \cup D : e.lo \in Nat /\ e.hi \in Nat
  BY <1>1 DEF Entry
<1>5. ASSUME ~ (s <= a /\ a < t) PROVE View(D, a) = View(M, a)
  <2>1. ASSUME NEW v, v \in View(D, a) PROVE v \in View(M, a)
    <3>1. PICK f \in D : /\ f.lo <= a /\ a < f.hi
                         /\ v = [perms |-> f.perms, label |-> f.label]
      BY <2>1, ViewIs
    <3>2. PICK e \in M : /\ f.perms = e.perms /\ f.label = e.label
                         /\ e.lo <= f.lo /\ f.hi <= e.hi
      BY <1>3
    <3>3. e.lo <= a /\ a < e.hi
      BY <1>4, <3>1, <3>2
    <3> QED BY <3>1, <3>2, <3>3, ViewIs
  <2>2. ASSUME NEW v, v \in View(M, a) PROVE v \in View(D, a)
    <3>1. PICK e \in M : /\ e.lo <= a /\ a < e.hi
                         /\ v = [perms |-> e.perms, label |-> e.label]
      BY <2>2, ViewIs
    <3>2. PICK f \in D : /\ f.perms = e.perms /\ f.label = e.label
                         /\ f.lo <= a /\ a < f.hi
      BY <1>3a, <1>5, <3>1
    <3> QED BY <3>1, <3>2, ViewIs
  <2> QED BY <2>1, <2>2
<1>6. ASSUME s <= a /\ a < t PROVE View(D, a) = {}
  <2>1. \A f \in D : ~ (f.lo <= a /\ a < f.hi)
    BY <1>2, <1>4, <1>6
  <2> QED BY <2>1, ViewIs
<1> QED BY <1>5, <1>6 DEF D

(* An entry more shows at the addresses it describes. *)
LEMMA ViewAdds ==
    ASSUME NEW M, NEW e, NEW a
    PROVE  /\ ~ (e.lo <= a /\ a < e.hi) => View(M \cup {e}, a) = View(M, a)
           /\ (e.lo <= a /\ a < e.hi) =>
                 View(M \cup {e}, a) =
                    View(M, a) \cup {[perms |-> e.perms, label |-> e.label]}
<1>1. \A v : v \in View(M \cup {e}, a) <=>
          \/ v \in View(M, a)
          \/ /\ e.lo <= a /\ a < e.hi
             /\ v = [perms |-> e.perms, label |-> e.label]
  BY ViewIs
<1> QED BY <1>1

-----------------------------------------------------------------------------
(* Entries begin and end at pages, and neither an entry nor a region of     *)
(* Unicorn is empty, as long as no call raised.                             *)

Paged(M) ==
    \A e \in M : /\ e.lo < e.hi /\ e.lo <= MemUbound
                 /\ e.lo % PageSize = 0 /\ e.hi % PageSize = 0

Solid(R) == \A r \in R : r.lo < r.hi

(* What is left of entries when pages are deleted. *)
LEMMA DelPaged ==
    ASSUME NEW M \in SUBSET Entry, Paged(M), NEW s \in Nat, NEW t \in Nat,
           s % PageSize = 0, t % PageSize = 0, t <= MemUbound
    PROVE  Paged(del_mapinfo(M, s, t))
<1>1. SUFFICES ASSUME NEW f \in del_mapinfo(M, s, t)
               PROVE  /\ f.lo < f.hi /\ f.lo <= MemUbound
                      /\ f.lo % PageSize = 0 /\ f.hi % PageSize = 0
  BY DEF Paged
<1>2. PICK e \in M : /\ f.lo \in {e.lo, t} /\ f.hi \in {e.hi, s}
                     /\ e.lo < e.hi => f.lo < f.hi
  BY DelPieces
<1>3. /\ e.lo < e.hi /\ e.lo <= MemUbound
      /\ e.lo % PageSize = 0 /\ e.hi % PageSize = 0
  BY DEF Paged
<1> QED BY <1>2, <1>3

(* What Unicorn splits has no empty parts. *)
LEMMA SubtractSolid ==
    ASSUME NEW R \in SUBSET Region, Solid(R), NEW s \in Nat, NEW t \in Nat
    PROVE  Solid(Subtract(R, s, t))
<1>1. SUFFICES ASSUME NEW g \in Leftovers(R, s, t) PROVE g.lo < g.hi
  BY DEF Solid, Subtract
<1>2. Ranges(R)
  BY DEF Ranges
<1>3. PICK e \in Overlapping(R, s, t) :
         \/ g.lo = e.lo /\ g.hi = s /\ e.lo < s
         \/ g.lo = t /\ g.hi = e.hi /\ t < e.hi
  BY <1>2, LeftoverRange
<1> QED BY <1>3

(* mem_protect of a range of at least a byte leaves no empty region. *)
LEMMA ProtectSolid ==
    ASSUME uc \in SUBSET Region, Solid(uc), NEW s \in Nat, NEW t \in Nat,
           s < t, NEW p
    PROVE  Solid(UcProtect(s, t, p))
<1> DEFINE cut(r) == [r EXCEPT !.lo = IF r.lo < s THEN s ELSE r.lo,
                               !.hi = IF t < r.hi THEN t ELSE r.hi,
                               !.perms = p]
<1>1. \A r \in Overlapping(uc, s, t) :
          /\ r.lo \in Nat /\ r.hi \in Nat /\ s < r.hi /\ t > r.lo /\ r.lo < r.hi
          /\ cut(r).lo = (IF r.lo < s THEN s ELSE r.lo)
          /\ cut(r).hi = (IF t < r.hi THEN t ELSE r.hi)
  BY DEF Overlapping, Region, Solid
<1>2. UcProtect(s, t, p) =
        Subtract(uc, s, t) \cup {cut(r) : r \in Overlapping(uc, s, t)}
  BY DEF UcProtect
<1> HIDE DEF cut
<1>3. \A r \in Overlapping(uc, s, t) : cut(r).lo < cut(r).hi
  BY <1>1
<1>4. Solid(Subtract(uc, s, t))
  BY SubtractSolid
<1> QED BY <1>2, <1>3, <1>4 DEF Solid

Fine == Paged(map_info) /\ Solid(uc)

PagesInv == sysret # "raised" => Fine

(* Unicorn maps nothing but pages. *)
LEMMA MapFine ==
    ASSUME Fine, NEW a \in Nat, a <= MemUbound, NEW n \in Nat, NEW p, NEW l,
           MapAt(a, n, p, l)
    PROVE  Fine'
<1>1. CASE UNCHANGED <<map_info, uc>>
  BY <1>1 DEF Fine, Paged, Solid
<1>2. CASE n > 0 /\ UcMapOk(a, n) /\ AddMapping(a, n, p, l, FALSE)
  <2>1. a % PageSize = 0 /\ n % PageSize = 0 /\ a < a + n
    BY <1>2 DEF UcMapOk, UcArgsOk
  <2>2. (a + n) % PageSize = 0
    BY <2>1, PageSums
  <2>3. Paged(map_info')
    BY <1>2, <2>1, <2>2 DEF Fine, Paged, AddMapping
  <2>4. Solid(uc')
    BY <1>2, <2>1 DEF Fine, Solid, AddMapping, UcPerms
  <2> QED BY <2>3, <2>4 DEF Fine
<1> QED BY <1>1, <1>2 DEF MapAt

(* unmap of pages. *)
LEMMA UnmapFine ==
    ASSUME MemInv, Fine, NEW a \in Nat, NEW n \in Nat, a % PageSize = 0,
           n % PageSize = 0, a + n <= MemUbound, UnmapAt(a, n)
    PROVE  Fine'
<1>1. a + n \in Nat /\ (a + n) % PageSize = 0
  BY PageSums
<1>2. Paged(del_mapinfo(map_info, a, a + n))
  BY <1>1, DelPaged DEF MemInv, Fine
<1>3. Solid(Subtract(uc, a, a + n))
  BY <1>1, SubtractSolid DEF MemInv, Fine
<1>4. /\ map_info' \in {map_info, del_mapinfo(map_info, a, a + n)}
      /\ uc' \in {uc, Subtract(uc, a, a + n)}
  BY DEF UnmapAt
<1> QED BY <1>2, <1>3, <1>4 DEF Fine

(* The pages of a range that lies in the address space do. *)
LEMMA ProtectedPages ==
    ASSUME NEW addr \in Nat, NEW len \in Nat \ {0}, addr + len <= MemUbound
    PROVE  LET a == align(addr)
               n == align_up((addr % PageSize) + len, PageSize)
           IN  /\ a \in Nat /\ n \in Nat \ {0} /\ a + n <= MemUbound
               /\ a % PageSize = 0 /\ n % PageSize = 0
<1> DEFINE a == align(addr)
           v == (addr % PageSize) + len
           n == align_up(v, PageSize)
           m == MemUbound
<1>1. a \in Nat /\ a <= addr /\ a % PageSize = 0 /\ addr % PageSize \in Nat
  BY AlignPage, AlignNat
<1>2. m \in Nat /\ m % PageSize = 0
  BY PosixConstants
<1>3. addr % PageSize = addr - a
  BY <1>1 DEF align
<1>4. v \in Nat /\ v > 0 /\ v <= m - a /\ a <= m
  <2> HIDE DEF a
  <2> QED BY <1>1, <1>2, <1>3
<1> HIDE DEF a, v, m
<1>5. m - a \in Nat /\ (m - a) % PageSize = 0
  BY <1>1, <1>2, <1>4, PageSums
<1>6. n \in Nat /\ v <= n /\ n % PageSize = 0 /\ n <= m - a
  BY <1>4, <1>5, AlignUpLeast
<1> HIDE DEF n
<1>7. n \in Nat \ {0} /\ a + n <= m
  BY <1>1, <1>2, <1>4, <1>6
<1> QED BY <1>1, <1>6, <1>7 DEF a, n, v, m

(* protect of a range that is not empty. *)
LEMMA ProtectFine ==
    ASSUME MemInv, Fine, NEW addr \in Nat, NEW len \in Nat \ {0},
           addr + len <= MemUbound, NEW prot, Protect(addr, len, prot)
    PROVE  Fine'
<1> DEFINE p == SupportedPerms(prot)
           a == align(addr)
           n == align_up((addr % PageSize) + len, PageSize)
<1>1. /\ a \in Nat /\ n \in Nat \ {0} /\ a + n <= MemUbound
      /\ a % PageSize = 0 /\ n % PageSize = 0
  BY ProtectedPages
<1>2. /\ uc' \in {uc, UcProtect(a, a + n, p)}
      /\ \/ UNCHANGED map_info
         \/ \E e \in FirstEnclosing(a, a + n) :
               map_info' = del_mapinfo(map_info, a, a + n) \cup
                   {[lo |-> a, hi |-> a + n, perms |-> p,
                     label |-> e.label, mmio |-> FALSE]}
  BY <1>1 DEF Protect
<1> HIDE DEF p, a, n
<1>3. a + n \in Nat /\ (a + n) % PageSize = 0 /\ a < a + n
  BY <1>1, PageSums
<1>4. Solid(uc')
  BY <1>1, <1>2, <1>3, ProtectSolid DEF MemInv, Fine
<1>5. Paged(del_mapinfo(map_info, a, a + n))
  BY <1>1, <1>3, DelPaged DEF MemInv, Fine
<1>6. a <= MemUbound
  BY <1>1, PosixConstants
<1>7. Paged(map_info')
  BY <1>1, <1>2, <1>3, <1>5, <1>6 DEF Paged, Fine
<1> QED BY <1>4, <1>7 DEF Fine

(* The queries are exact, then. *)
LEMMA FineLayout ==
    ASSUME MemInv, Fine
    PROVE  Layout(map_info) /\ RangesExact /\ FreeSpaceExact
<1>1. Layout(map_info)
  BY DEF MemInv, EntriesDisjoint, Fine, Paged, Layout
<1> QED BY <1>1, RangesAreExact, FreeSpaceIsExact

-----------------------------------------------------------------------------
(* The mmap under way. *)

MmapCalls ==
    [op : {"mmap"}, addr : Nat, lo : Nat, hi : Nat, prot : Prots,
     flags : MmapFlags, fd : Fds, mapped : BOOLEAN, before : SUBSET Entry]

(* Its range consists of pages of the address space. *)
RangeInv ==
    call # NoCall =>
        /\ call \in MmapCalls
        /\ call.lo < call.hi /\ call.hi <= MemUbound
        /\ call.lo % PageSize = 0 /\ call.hi % PageSize = 0

(* What a fixed mmap has still to unmap are parts of entries. *)
TodoInv ==
    /\ \A r \in pend.todo :
          /\ r.lo < r.hi /\ r.hi <= MemUbound
          /\ r.lo % PageSize = 0 /\ r.hi % PageSize = 0
          /\ call.lo <= r.lo /\ r.hi <= call.hi
          /\ \E e \in map_info : e.lo <= r.lo /\ r.hi <= e.hi
    /\ \A r, q \in pend.todo : r # q => r.hi <= q.lo \/ q.hi <= r.lo
    /\ pend # NoLoop => "FIXED" \in call.flags /\ ~ call.mapped

(* What it has changed so far. *)
ViewInv ==
    call # NoCall =>
        /\ \A a \in Addr :
              \/ a \in CallRange /\ (call.mapped \/ "FIXED" \in call.flags)
              \/ View(map_info, a) = View(call.before, a)
        /\ call.mapped =>
              /\ \E e \in map_info : e.lo = call.lo /\ e.hi = call.hi
              /\ "FIXED" \notin call.flags =>
                    \A a \in CallRange : View(call.before, a) = {}

MmapInv == PosixInv /\ PagesInv /\ RangeInv /\ TodoInv /\ ViewInv

(* A call that is under way has not raised, so entries are pages. *)
LEMMA CallFine ==
    ASSUME MmapInv, call # NoCall
    PROVE  /\ MemInv /\ Fine /\ sysret # "raised" /\ UcDescribed
           /\ call \in MmapCalls
           /\ call.lo \in Nat /\ call.hi \in Nat
           /\ call.lo < call.hi /\ call.hi <= MemUbound
           /\ call.lo % PageSize = 0 /\ call.hi % PageSize = 0
<1>1. sysret # "raised" /\ MemInv
  BY DEF MmapInv, PosixInv, CallInv
<1>2. Fine /\ UcDescribed
  BY <1>1 DEF MmapInv, PagesInv, PosixInv
<1>3. /\ call \in MmapCalls
      /\ call.lo < call.hi /\ call.hi <= MemUbound
      /\ call.lo % PageSize = 0 /\ call.hi % PageSize = 0
  BY DEF MmapInv, RangeInv
<1>4. call.lo \in Nat /\ call.hi \in Nat
  BY DEF MmapInv, PosixInv, CallInv
<1> QED BY <1>1, <1>2, <1>3, <1>4

(* What is not under way has nothing to show. *)
LEMMA NoCallInv ==
    ASSUME PosixInv', PagesInv', call' = NoCall
    PROVE  MmapInv'
<1>1. pend' = NoLoop
  BY DEF PosixInv, OutcomeInv
<1>2. pend'.todo = {}
  BY <1>1 DEF NoLoop
<1> QED BY <1>1, <1>2 DEF MmapInv, RangeInv, TodoInv, ViewInv

(* The calls that are one step. *)
LEMMA OneStepFine ==
    ASSUME MmapInv, Idle, 0 \notin Lens,
           \/ \E a \in 0 .. MemUbound - 1, n \in Lens : a + n <= MemUbound /\
                 (Munmap(a, n) \/ \E p \in Prots : Mprotect(a, n, p))
           \/ \E a \in 0 .. MemUbound : Brk(a)
           \/ \E id \in 1 .. SHMMNI, a \in 0 .. MemUbound - 1,
                 fl \in SUBSET {"RDONLY", "RND"} : Shmat(id, a, fl)
           \/ UNCHANGED vars
    PROVE  Fine'
<1>0. Fine /\ MemInv /\ MemUbound \in Nat /\ MemUbound % PageSize = 0
  BY PosixConstants DEF Idle, MmapInv, PagesInv, PosixInv
<1>1. CASE UNCHANGED <<map_info, uc>>
  BY <1>0, <1>1 DEF Fine, Paged, Solid
<1>2. ASSUME NEW a \in 0 .. MemUbound - 1, NEW len \in Lens,
             a + len <= MemUbound, Munmap(a, len)
      PROVE  Fine'
  <2> DEFINE lo == align(a)
             hi == align_up(a + len, PageSize)
  <2>1. a \in Nat /\ a + len \in Nat /\ a <= a + len
    BY MemoryAssumption
  <2>2. lo \in Nat /\ lo <= a /\ lo % PageSize = 0
    BY <2>1, AlignPage
  <2>3. hi \in Nat /\ a + len <= hi /\ hi % PageSize = 0 /\ hi <= MemUbound
    BY <1>0, <1>2, <2>1, AlignUpLeast
  <2>4. UNCHANGED vars \/ Unmap(lo, hi - lo)
    BY <1>2 DEF Munmap
  <2> HIDE DEF lo, hi
  <2>5. hi - lo \in Nat /\ lo <= hi /\ lo + (hi - lo) = hi
    BY <2>1, <2>2, <2>3
  <2>6. (hi - lo) % PageSize = 0
    BY <2>2, <2>3, <2>5, PageSums
  <2>7. CASE Unmap(lo, hi - lo)
    BY <1>0, <2>2, <2>3, <2>5, <2>6, <2>7, UnmapFine DEF Unmap
  <2> QED BY <1>1, <2>4, <2>7 DEF vars
<1>3. ASSUME NEW a \in 0 .. MemUbound - 1, NEW len \in Lens,
             a + len <= MemUbound, NEW p, Mprotect(a, len, p)
      PROVE  Fine'
  <2>1. a \in Nat /\ len \in Nat \ {0}
    BY MemoryAssumption
  <2> QED BY <1>0, <1>3, <2>1, ProtectFine DEF Mprotect
<1>4. ASSUME NEW inp \in 0 .. MemUbound, Brk(inp)
      PROVE  Fine'
  <2> DEFINE new == align_up(inp, PageSize)
             old == brk_address
  <2>1. new \in Nat /\ new % PageSize = 0 /\ new <= MemUbound
    BY PageIn, MemoryAssumption DEF Addr
  <2>2. old \in Nat /\ old % PageSize = 0 /\ old <= MemUbound
    BY MemoryAssumption DEF MmapInv, PosixInv, BrkInv, Addr
  <2>3. \/ UNCHANGED vars
        \/ new > old /\ Map(old, new - old, UC_PROT_ALL, "[brk]")
        \/ new < old /\ Unmap(new, old - new)
    BY <1>4 DEF Brk
  <2> HIDE DEF new, old
  <2>4. CASE new > old /\ Map(old, new - old, UC_PROT_ALL, "[brk]")
    <3>1. new - old \in Nat
      BY <2>1, <2>2, <2>4
    <3> QED BY <1>0, <2>2, <2>4, <3>1, MapFine DEF Map
  <2>5. CASE new < old /\ Unmap(new, old - new)
    <3>1. old - new \in Nat /\ new <= old /\ new + (old - new) = old
      BY <2>1, <2>2, <2>5
    <3>2. (old - new) % PageSize = 0
      BY <2>1, <2>2, <3>1, PageSums
    <3> QED BY <1>0, <2>1, <2>2, <2>5, <3>1, <3>2, UnmapFine DEF Unmap
  <2> QED BY <1>1, <2>3, <2>4, <2>5 DEF vars
<1>5. ASSUME NEW id, NEW a \in 0 .. MemUbound - 1, NEW fl, Shmat(id, a, fl)
      PROVE  Fine'
  <2>1. \/ UNCHANGED vars
        \/ /\ id \in DOMAIN shm
           /\ \E b \in AttachPlaces(id, a, fl) :
                 Map(b, shm[id].size, ShmPerms(fl), "[shm]")
    BY <1>5 DEF Shmat
  <2>2. ASSUME id \in DOMAIN shm, NEW b \in AttachPlaces(id, a, fl),
               Map(b, shm[id].size, ShmPerms(fl), "[shm]")
        PROVE  Fine'
    <3>1. b \in Nat /\ b <= MemUbound
      BY <1>0, AttachIn DEF Addr
    <3>2. shm[id].size \in Nat
      <4>1. shm[id] \in Segment
        BY <2>2, ElementOfSeq, LenProperties DEF MmapInv, PosixInv
      <4> QED BY <4>1 DEF Segment
    <3> QED BY <1>0, <2>2, <3>1, <3>2, MapFine DEF Map
  <2> QED BY <1>1, <2>1, <2>2 DEF vars
<1> QED BY <1>1, <1>2, <1>3, <1>4, <1>5 DEF vars

(* The range mmap is given or finds. *)
LEMMA MmapPlace ==
    ASSUME MmapInv, Idle, 0 \notin Lens, NEW a \in 0 .. MemUbound - 1,
           NEW len \in Lens, a + len <= MemUbound, NEW b \in Nat,
           (b = a /\ a % PageSize = 0) \/ b \in Places(a, len)
    PROVE  /\ MmapSize(a, len) \in Nat \ {0} /\ MmapSize(a, len) % PageSize = 0
           /\ b % PageSize = 0 /\ b + MmapSize(a, len) <= MemUbound
<1> DEFINE v == len + (a % PageSize)
           n == MmapSize(a, len)
<1>0. a \in Nat /\ len \in Nat \ {0} /\ a % PageSize \in Nat /\ MemUbound \in Nat
  BY MemoryAssumption, AlignNat
<1>1. v \in Nat /\ v > 0
  BY <1>0
<1>2. n = align_up(v, PageSize)
  BY DEF MmapSize
<1>3. n \in Nat /\ v <= n /\ n % PageSize = 0
  <2> HIDE DEF v, n
  <2> QED BY <1>1, <1>2, AlignUpLeast
<1>4. n \in Nat \ {0}
  <2> HIDE DEF v, n
  <2> QED BY <1>1, <1>3
<1>5. CASE b = a /\ a % PageSize = 0
  <2>1. v = len /\ align(a) = a
    BY <1>0, <1>5, AlignPage
  <2>2. a + align_up((a % PageSize) + len, PageSize) <= MemUbound
    BY <1>0, <2>1, ProtectedPages
  <2>3. (a % PageSize) + len = v
    BY <1>0
  <2> QED BY <1>2, <1>3, <1>4, <1>5, <2>2, <2>3
<1>6. CASE b \in Places(a, len)
  <2> DEFINE h == Hint(a)
  <2>1. h \in Nat /\ h < MemUbound
    <3>1. MmapAddress \in Nat /\ MmapAddress < MemUbound
      BY PosixAssumption, Zenon
    <3> QED BY <1>0, <3>1 DEF Hint
  <2>2. ~ (MemUbound - h < n) /\ b \in find_free_space(n, h, MemUbound, PageSize)
    BY <1>6 DEF Places
  <2>3. FreeSpaceExact
    BY FineLayout DEF MmapInv, Idle, PagesInv, PosixInv
  <2> HIDE DEF h, n
  <2>4. n \in 1 .. MemUbound /\ h \in 0 .. MemUbound - 1
    BY <1>0, <1>3, <1>4, <2>1, <2>2
  <2>5. b \in FreePlaces(n, h)
    BY <2>2, <2>3, <2>4 DEF FreeSpaceExact
  <2>6. b % PageSize = 0 /\ b + n <= MemUbound
    BY <1>0, <1>3, <2>1, <2>5 DEF FreePlaces
  <2> QED BY <1>3, <1>4, <2>6 DEF n
<1> QED BY <1>5, <1>6

(* unmap_between notes a part of each entry that its range overlaps. *)
LEMMA TodoBegins ==
    ASSUME MemInv, Fine, NEW s \in Nat, NEW t \in Nat, s < t, t <= MemUbound,
           s % PageSize = 0, t % PageSize = 0, UnmapBetween(s, t)
    PROVE  /\ \A r \in pend'.todo :
                 /\ r.lo < r.hi /\ r.hi <= MemUbound
                 /\ r.lo % PageSize = 0 /\ r.hi % PageSize = 0
                 /\ s <= r.lo /\ r.hi <= t
                 /\ \E e \in map_info : e.lo <= r.lo /\ r.hi <= e.hi
           /\ \A r, q \in pend'.todo : r # q => r.hi <= q.lo \/ q.hi <= r.lo
<1> DEFINE cut(e) == [lo |-> IF e.lo < s THEN s ELSE e.lo,
                      hi |-> IF t < e.hi THEN t ELSE e.hi]
           O == Overlapping(map_info, s, t)
           T == {cut(e) : e \in O}
<1>1. pend' = Loop("unmap_between", T)
  BY DEF UnmapBetween
<1>2. \A r \in pend'.todo : \E e \in O : r = cut(e)
  BY <1>1 DEF Loop, NoLoop
<1>3. \A e \in O : /\ e \in map_info /\ e.lo \in Nat /\ e.hi \in Nat
                   /\ s < e.hi /\ t > e.lo /\ e.lo < e.hi
                   /\ e.lo % PageSize = 0 /\ e.hi % PageSize = 0
  BY DEF Overlapping, MemInv, Entry, Fine, Paged
<1>4. \A e \in O : /\ cut(e).lo = (IF e.lo < s THEN s ELSE e.lo)
                   /\ cut(e).hi = (IF t < e.hi THEN t ELSE e.hi)
  OBVIOUS
<1>5. \A e, f \in O : e # f => e.hi <= f.lo \/ f.hi <= e.lo
  BY <1>3 DEF MemInv, EntriesDisjoint, Disjoint
<1> HIDE DEF cut, O
<1>6. MemUbound \in Nat
  BY PosixConstants
<1>7. ASSUME NEW r \in pend'.todo
      PROVE  /\ r.lo < r.hi /\ r.hi <= MemUbound
             /\ r.lo % PageSize = 0 /\ r.hi % PageSize = 0
             /\ s <= r.lo /\ r.hi <= t
             /\ \E e \in map_info : e.lo <= r.lo /\ r.hi <= e.hi
  <2>1. PICK e \in O : r = cut(e)
    BY <1>2
  <2>2. /\ r.lo = (IF e.lo < s THEN s ELSE e.lo)
        /\ r.hi = (IF t < e.hi THEN t ELSE e.hi)
    BY <1>4, <2>1
  <2>3. r.lo % PageSize = 0 /\ r.hi % PageSize = 0
    BY <1>3, <2>2
  <2>4. /\ r.lo < r.hi /\ r.hi <= MemUbound /\ s <= r.lo /\ r.hi <= t
        /\ e.lo <= r.lo /\ r.hi <= e.hi
    BY <1>3, <1>6, <2>2
  <2> QED BY <1>3, <2>3, <2>4
<1>8. ASSUME NEW r \in pend'.todo, NEW q \in pend'.todo, r # q
      PROVE  r.hi <= q.lo \/ q.hi <= r.lo
  <2>1. PICK e \in O : r = cut(e)
    BY <1>2
  <2>2. PICK f \in O : q = cut(f)
    BY <1>2
  <2>3. e.hi <= f.lo \/ f.hi <= e.lo
    BY <1>5, <1>8, <2>1, <2>2
  <2> QED BY <1>3, <1>4, <2>1, <2>2, <2>3
<1> QED BY <1>7, <1>8

(* mmap begins. *)
LEMMA MmapBegins ==
    ASSUME MmapInv, 0 \notin Lens, NEW a \in 0 .. MemUbound - 1, NEW len \in Lens,
           a + len <= MemUbound, NEW p \in Prots, NEW fl \in MmapFlags,
           NEW i \in Fds, Mmap(a, len, p, fl, i)
    PROVE  MmapInv'
<1> DEFINE n == MmapSize(a, len)
<1>0. Idle /\ PosixInv'
  BY MmapStep DEF Mmap, MmapInv
<1>1. /\ call = NoCall /\ sysret # "raised" /\ pend = NoLoop
      /\ MemInv /\ Fine
  BY <1>0 DEF Idle, MmapInv, PosixInv, OutcomeInv, PagesInv
<1>2. CASE UNCHANGED <<vars, call>>
  BY <1>0, <1>1, <1>2, NoCallInv DEF vars, PagesInv, Fine, Paged, Solid
<1>3. ASSUME NEW b \in Nat, (b = a /\ a % PageSize = 0) \/ b \in Places(a, len),
             call' = MmapCall(b, n, p, fl, i),
             IF "FIXED" \in fl /\ "NOREPLACE" \notin fl
             THEN UnmapBetween(align(b), align(b) + n)
             ELSE UNCHANGED vars
      PROVE  MmapInv'
  <2>1. n \in Nat \ {0} /\ n % PageSize = 0 /\ b % PageSize = 0
        /\ b + n <= MemUbound
    BY <1>0, <1>3, MmapPlace
  <2> HIDE DEF n
  <2>2. align(b) = b /\ b + n \in Nat /\ b < b + n
    BY <2>1, AlignPage
  <2>3. (b + n) % PageSize = 0
    BY <2>1, PageSums
  <2>4. call' \in MmapCalls /\ call' # NoCall
    <3>1. map_info \in SUBSET Entry
      BY <1>1 DEF MemInv
    <3>2. call' = [op |-> "mmap", addr |-> b, lo |-> b,
                   hi |-> b + n, prot |-> p, flags |-> fl, fd |-> i,
                   mapped |-> FALSE, before |-> map_info]
      BY <1>3, <2>2 DEF MmapCall
    <3> QED BY <2>2, <3>1, <3>2 DEF MmapCalls, NoCall
  <2>5. /\ call'.lo = b /\ call'.hi = b + n /\ call'.flags = fl
        /\ call'.mapped = FALSE /\ call'.before = map_info
    BY <1>3, <2>2 DEF MmapCall
  <2>6. RangeInv'
    BY <2>1, <2>2, <2>3, <2>4, <2>5 DEF RangeInv
  <2>7. UNCHANGED <<map_info, uc>>
    BY <1>3 DEF UnmapBetween, vars
  <2>8. PagesInv'
    BY <1>1, <2>7 DEF PagesInv, Fine, Paged, Solid
  <2>9. ViewInv'
    BY <2>5, <2>7 DEF ViewInv
  <2>10. TodoInv'
    <3>1. CASE "FIXED" \in fl /\ "NOREPLACE" \notin fl
      <4>1. UnmapBetween(b, b + n)
        BY <1>3, <2>2, <3>1
      <4>2. /\ \A r \in pend'.todo :
                 /\ r.lo < r.hi /\ r.hi <= MemUbound
                 /\ r.lo % PageSize = 0 /\ r.hi % PageSize = 0
                 /\ b <= r.lo /\ r.hi <= b + n
                 /\ \E e \in map_info : e.lo <= r.lo /\ r.hi <= e.hi
            /\ \A r, q \in pend'.todo : r # q => r.hi <= q.lo \/ q.hi <= r.lo
        BY <1>1, <2>1, <2>2, <2>3, <4>1, TodoBegins
      <4> QED BY <2>5, <2>7, <3>1, <4>2 DEF TodoInv
    <3>2. CASE ~ ("FIXED" \in fl /\ "NOREPLACE" \notin fl)
      <4>1. pend' = NoLoop
        BY <1>1, <1>3, <3>2 DEF vars
      <4>2. pend'.todo = {}
        BY <4>1 DEF NoLoop
      <4> QED BY <4>1, <4>2 DEF TodoInv
    <3> QED BY <3>1, <3>2
  <2> QED BY <1>0, <2>6, <2>8, <2>9, <2>10 DEF MmapInv
<1>4. a \in Nat /\ Addr \subseteq Nat
  BY MemoryAssumption DEF Addr
<1>5. ASSUME NEW b \in Nat, (b = a /\ a % PageSize = 0) \/ b \in Places(a, len),
             MmapAt(b, n, p, fl, i)
      PROVE  MmapInv'
  <2>1. CASE UNCHANGED <<vars, call>>
    BY <1>2, <2>1
  <2>2. CASE /\ call' = MmapCall(b, n, p, fl, i)
             /\ IF "FIXED" \in fl /\ "NOREPLACE" \notin fl
                THEN UnmapBetween(align(b), align(b) + n)
                ELSE UNCHANGED vars
    BY <1>3, <1>5, <2>2
  <2> QED BY <1>5, <2>1, <2>2 DEF MmapAt
<1>6. \/ UNCHANGED <<vars, call>>
      \/ a % PageSize = 0 /\ MmapAt(a, n, p, fl, i)
      \/ \E b \in Places(a, len) \cap Addr : MmapAt(b, n, p, fl, i)
  BY DEF Mmap
<1> QED BY <1>2, <1>4, <1>5, <1>6

(* A range that unmap_between noted is unmapped without fail. *)
LEMMA UnmapOk ==
    ASSUME MmapInv, call # NoCall, NEW r \in pend.todo,
           UnmapAt(r.lo, r.hi - r.lo)
    PROVE  /\ ret' = "ok" /\ Fine'
           /\ map_info' = del_mapinfo(map_info, r.lo, r.hi)
<1> DEFINE n == r.hi - r.lo
<1>0. MemInv /\ Fine
  BY CallFine
<1>1. /\ r.lo \in Nat /\ r.hi \in Nat /\ r.lo < r.hi /\ r.hi <= MemUbound
      /\ r.lo % PageSize = 0 /\ r.hi % PageSize = 0
  BY DEF MmapInv, PosixInv, CallInv, TodoInv
<1>2. n \in Nat \ {0} /\ r.lo + n = r.hi /\ n % PageSize = 0
  BY <1>1, PageSums
<1>3. PICK e \in map_info : e.lo <= r.lo /\ r.hi <= e.hi
  BY DEF MmapInv, TodoInv
<1>4. e.lo \in Nat /\ e.hi \in Nat
  BY <1>0 DEF MemInv, Entry
<1>5. e \in Overlapping(map_info, r.lo, r.hi)
  BY <1>1, <1>3, <1>4 DEF Overlapping
<1>6. Covers(uc, r.lo, r.hi)
  <2>1. Covers(uc, e.lo, e.hi)
    BY <1>0 DEF MemInv, EntriesBacked
  <2> QED BY <1>1, <1>3, <1>4, <2>1 DEF Covers
<1>7. UnmapAt(r.lo, n)
  OBVIOUS
<1> HIDE DEF n
<1>8. UcUnmapOk(r.lo, n)
  BY <1>1, <1>2, <1>6 DEF UcUnmapOk, UcArgsOk
<1>9. ret' = "ok" /\ map_info' = del_mapinfo(map_info, r.lo, r.hi)
  BY <1>2, <1>5, <1>7, <1>8 DEF UnmapAt
<1>10. Fine'
  BY <1>0, <1>1, <1>2, <1>7, UnmapFine
<1> QED BY <1>9, <1>10

(* mmap goes on unmapping. *)
LEMMA MmapUnmaps ==
    ASSUME MmapInv, MmapUnmap
    PROVE  MmapInv' /\ UNCHANGED <<call, sysret>>
<1>0. call # NoCall /\ PosixInv'
  BY MmapUnmapStep DEF MmapInv, MmapUnmap
<1>1. PICK r \in pend.todo :
          /\ UnmapAt(r.lo, r.hi - r.lo)
          /\ pend' = IF ret' = "ok" THEN Loop(pend.op, pend.todo \ {r})
                                    ELSE NoLoop
  BY DEF MmapUnmap, UnmapNext
<1>2. ret' = "ok" /\ Fine' /\ map_info' = del_mapinfo(map_info, r.lo, r.hi)
  BY <1>0, <1>1, UnmapOk
<1>3. UNCHANGED <<call, sysret>>
  BY <1>2 DEF MmapUnmap
<1>4. /\ MemInv /\ Fine /\ sysret # "raised"
      /\ call.lo \in Nat /\ call.hi \in Nat /\ call.hi <= MemUbound
  BY <1>0, CallFine
<1>5. RangeInv' /\ PagesInv'
  BY <1>2, <1>3 DEF MmapInv, RangeInv, PagesInv
<1>6. \A q \in pend.todo :
          /\ q.lo \in Nat /\ q.hi \in Nat /\ q.lo < q.hi /\ q.hi <= MemUbound
          /\ q.lo % PageSize = 0 /\ q.hi % PageSize = 0
          /\ call.lo <= q.lo /\ q.hi <= call.hi
          /\ \E e \in map_info : e.lo <= q.lo /\ q.hi <= e.hi
  BY DEF MmapInv, TodoInv, PosixInv, CallInv
<1>7. \A q \in pend.todo : q # r => q.hi <= r.lo \/ r.hi <= q.lo
  BY DEF MmapInv, TodoInv
<1>8. pend # NoLoop
  BY <1>1 DEF NoLoop
<1>9. "FIXED" \in call.flags /\ ~ call.mapped
  BY <1>8 DEF MmapInv, TodoInv
<1>10. pend'.todo = pend.todo \ {r}
  BY <1>1, <1>2 DEF Loop, NoLoop
<1>11. map_info \in SUBSET Entry /\ Ordered(map_info) /\ Disjoint(map_info)
  BY <1>4 DEF MemInv, EntriesDisjoint
<1>12. ASSUME NEW q \in pend'.todo
       PROVE  \E f \in map_info' : f.lo <= q.lo /\ q.hi <= f.hi
  <2>1. q \in pend.todo /\ q # r
    BY <1>10
  <2>2. PICK e \in map_info : e.lo <= q.lo /\ q.hi <= e.hi
    BY <1>6, <2>1
  <2>3. /\ q.lo \in Nat /\ q.hi \in Nat /\ q.lo < q.hi
        /\ r.lo \in Nat /\ r.hi \in Nat /\ r.lo < r.hi
        /\ e.lo \in Nat /\ e.hi \in Nat
    BY <1>6, <1>11, <2>1 DEF Entry
  <2>4. q.hi <= r.lo \/ r.hi <= q.lo
    BY <1>7, <2>1
  <2>5. q.lo < e.hi /\ ~ (r.lo <= q.lo /\ q.lo < r.hi) /\ r.lo <= r.hi
    BY <2>2, <2>3, <2>4
  <2>6. PICK f \in del_mapinfo(map_info, r.lo, r.hi) :
            f.lo <= q.lo /\ q.lo < f.hi /\ f.hi \in {e.hi, r.lo}
    BY <1>11, <2>2, <2>3, <2>5, DelKeeps
  <2>7. q.hi <= f.hi
    BY <2>2, <2>3, <2>4, <2>6
  <2> QED BY <1>2, <2>6, <2>7
<1>13. TodoInv'
  <2>1. ASSUME NEW q \in pend'.todo
        PROVE  /\ q.lo < q.hi /\ q.hi <= MemUbound
               /\ q.lo % PageSize = 0 /\ q.hi % PageSize = 0
               /\ call'.lo <= q.lo /\ q.hi <= call'.hi
    BY <1>3, <1>6, <1>10
  <2>2. \A q, w \in pend'.todo : q # w => q.hi <= w.lo \/ w.hi <= q.lo
    BY <1>10 DEF MmapInv, TodoInv
  <2>3. "FIXED" \in call'.flags /\ ~ call'.mapped
    BY <1>3, <1>9
  <2> QED BY <1>12, <2>1, <2>2, <2>3 DEF TodoInv
<1>14. ViewInv'
  <2>1. SUFFICES ASSUME NEW a \in Addr, a \notin CallRange
                 PROVE  View(map_info', a) = View(call.before, a)
    BY <1>3, <1>9 DEF ViewInv, CallRange
  <2>2. a \in Nat
    BY MemoryAssumption DEF Addr
  <2>3. View(map_info, a) = View(call.before, a)
    BY <1>0, <2>1 DEF MmapInv, ViewInv
  <2>4. ~ (r.lo <= a /\ a < r.hi) /\ r.lo <= r.hi /\ r.lo \in Nat /\ r.hi \in Nat
    BY <1>4, <1>6, <2>1, <2>2 DEF CallRange
  <2>5. View(del_mapinfo(map_info, r.lo, r.hi), a) = View(map_info, a)
    BY <1>11, <2>2, <2>4, DelView
  <2> QED BY <1>2, <2>3, <2>5
<1> QED BY <1>0, <1>3, <1>5, <1>13, <1>14 DEF MmapInv

(* What MmapOutcome says of a step. *)
MmapEnds ==
    (call # NoCall /\ (call' = NoCall \/ sysret' = "raised")) =>
        /\ sysret' = "ok" => MmapExact
        /\ sysret' = "error" => FailedMmapLoses
        /\ sysret' = "raised" => call.lo = call.hi

(* mmap maps its range, or fails without having lost more than it may. *)
LEMMA MmapMaps ==
    ASSUME MmapInv, MmapMap
    PROVE  MmapInv' /\ MmapEnds
<1> DEFINE n == call.hi - call.lo
<1>0. call # NoCall /\ ~ call.mapped /\ pend = NoLoop /\ PosixInv'
  BY MmapMapStep DEF MmapInv, MmapMap
<1>1. /\ MemInv /\ Fine /\ sysret # "raised" /\ UcDescribed
      /\ call \in MmapCalls
      /\ call.lo \in Nat /\ call.hi \in Nat
      /\ call.lo < call.hi /\ call.hi <= MemUbound
      /\ call.lo % PageSize = 0 /\ call.hi % PageSize = 0
  BY <1>0, CallFine
<1>2. n \in Nat \ {0} /\ call.lo + n = call.hi /\ n % PageSize = 0
  <2>1. n \in Nat \ {0} /\ call.lo + n = call.hi
    BY <1>1
  <2> QED BY <1>1, <2>1, PageSums
<1>3. \A a \in Addr :
          \/ a \in CallRange /\ "FIXED" \in call.flags
          \/ View(map_info, a) = View(call.before, a)
  BY <1>0 DEF MmapInv, ViewInv
<1>4. MemUbound \in Nat /\ Addr \subseteq Nat
  BY MemoryAssumption DEF Addr
<1>5. CASE call' = NoCall /\ sysret' = "error" /\ UNCHANGED <<map_info, uc>>
  <2>1. PagesInv'
    BY <1>1, <1>5 DEF PagesInv, Fine, Paged, Solid
  <2>2. MmapInv'
    BY <1>0, <1>5, <2>1, NoCallInv
  <2>3. FailedMmapLoses
    BY <1>3, <1>5 DEF FailedMmapLoses
  <2> QED BY <1>5, <2>2, <2>3 DEF MmapEnds
<1>6. ASSUME NEW l, MapAt(call.lo, n, UC_PROT_ALL, l), UNCHANGED pend,
             IF ret' = "ok"
             THEN /\ call' = [call EXCEPT !.mapped = TRUE]
                  /\ UNCHANGED sysret
             ELSE /\ call' = NoCall
                  /\ sysret' = IF ret' = "QlMemoryMappedError"
                               THEN "error" ELSE "raised"
      PROVE  MmapInv' /\ MmapEnds
  <2> HIDE DEF n
  <2>1. call.lo \in 0 .. MemUbound - 1 /\ n \in 1 .. MemUbound
        /\ call.lo + n <= MemUbound
    BY <1>1, <1>2, <1>4
  <2>2. is_available(call.lo, n) <=>
            Overlapping(map_info, call.lo, call.lo + n) = {}
    BY <1>1, <2>1, FineLayout DEF RangesExact
  <2>3. ASSUME is_available(call.lo, n) PROVE UcMapOk(call.lo, n)
    <3>1. Overlapping(map_info, call.lo, call.hi) = {}
      BY <1>2, <2>2, <2>3
    <3>2. \A a \in CallRange : ~ Holds(map_info, a)
      BY <1>1, <3>1 DEF Overlapping, Holds, CallRange, MemInv, Entry
    <3>3. SUFFICES ASSUME NEW r \in Overlapping(uc, call.lo, call.hi) PROVE FALSE
      BY <1>1, <1>2 DEF UcMapOk, UcArgsOk
    <3>4. /\ r \in uc /\ r.lo \in Nat /\ r.hi \in Nat /\ r.lo < r.hi
          /\ call.lo < r.hi /\ call.hi > r.lo
      BY <1>1 DEF Overlapping, Fine, Solid, MemInv, Region
    <3> DEFINE b == IF r.lo < call.lo THEN call.lo ELSE r.lo
    <3>5. b \in r.lo .. (r.hi - 1) /\ b \in CallRange
      BY <1>1, <3>4 DEF CallRange
    <3>6. Covers(map_info, r.lo, r.hi)
      BY <1>1, <3>4 DEF UcDescribed
    <3> HIDE DEF b
    <3> QED BY <3>2, <3>5, <3>6 DEF Covers
  <2>4. UC_PROT_ALL \subseteq UC_PROT_ALL /\ n > 0 /\ n # 0
    BY <1>2
  <2>5. \/ ret' = "QlMemoryMappedError" /\ UNCHANGED <<map_info, uc>>
        \/ /\ ret' = "ok" /\ is_available(call.lo, n)
           /\ AddMapping(call.lo, n, UC_PROT_ALL, l, FALSE)
    BY <1>6, <2>3, <2>4 DEF MapAt
  <2>6. CASE ret' = "QlMemoryMappedError" /\ UNCHANGED <<map_info, uc>>
    BY <1>5, <1>6, <2>6
  <2>7. CASE /\ ret' = "ok" /\ is_available(call.lo, n)
             /\ AddMapping(call.lo, n, UC_PROT_ALL, l, FALSE)
    <3> DEFINE new == [lo |-> call.lo, hi |-> call.lo + n, perms |-> UC_PROT_ALL,
                       label |-> l, mmio |-> FALSE]
    <3>1. /\ map_info' = map_info \cup {new}
          /\ new.lo = call.lo /\ new.hi = call.lo + n
      BY <2>7 DEF AddMapping
    <3> HIDE DEF new
    <3>2. new.lo = call.lo /\ new.hi = call.hi
      BY <1>2, <3>1
    <3>3. call' = [call EXCEPT !.mapped = TRUE] /\ sysret' = sysret
      BY <1>6, <2>7
    <3>4. call' \in MmapCalls
      BY <1>1, <3>3 DEF MmapCalls
    <3>5. /\ call'.lo = call.lo /\ call'.hi = call.hi /\ call'.flags = call.flags
          /\ call'.mapped = TRUE /\ call'.before = call.before
      BY <1>1, <3>3 DEF MmapCalls
    <3>6. call' # NoCall
      BY <3>4 DEF MmapCalls, NoCall
    <3>7. RangeInv'
      BY <1>1, <3>4, <3>5 DEF RangeInv
    <3>8. PagesInv'
      <4>1. call.lo <= MemUbound
        BY <1>1, <1>4
      <4> QED BY <1>1, <1>2, <1>6, <4>1, MapFine DEF PagesInv
    <3>9. TodoInv'
      BY <1>0, <1>6 DEF TodoInv, NoLoop
    <3>10. \A a \in Addr : a \notin CallRange =>
               View(map_info', a) = View(call.before, a)
      <4>1. SUFFICES ASSUME NEW a \in Addr, a \notin CallRange
                     PROVE  View(map_info', a) = View(call.before, a)
        OBVIOUS
      <4>2. ~ (new.lo <= a /\ a < new.hi) /\ a \in Nat
        BY <1>1, <1>4, <3>2, <4>1 DEF CallRange
      <4>3. View(map_info', a) = View(map_info, a)
        <5> DEFINE M == map_info
        <5>1. map_info' = M \cup {new}
          BY <3>1
        <5> HIDE DEF M
        <5>2. View(map_info', a) = View(M, a)
          BY <4>2, <5>1, ViewAdds
        <5> QED BY <5>2 DEF M
      <4> QED BY <1>3, <4>1, <4>3
    <3>11. ASSUME "FIXED" \notin call.flags, NEW a \in CallRange
           PROVE  View(call.before, a) = {}
      <4>1. a \in Addr /\ a \in Nat /\ call.lo <= a /\ a < call.hi
        BY <1>1, <1>4 DEF CallRange, Addr
      <4>2. View(map_info, a) = View(call.before, a)
        BY <1>3, <3>11, <4>1
      <4>3. Overlapping(map_info, call.lo, call.hi) = {}
        BY <1>2, <2>2, <2>7
      <4>4. \A e \in map_info : ~ (e.lo <= a /\ a < e.hi)
        BY <1>1, <4>1, <4>3 DEF Overlapping, MemInv, Entry
      <4> QED BY <4>2, <4>4, ViewIs
    <3>12. CallRange' = CallRange
      BY <3>5 DEF CallRange
    <3>13. ViewInv'
      <4>1. new \in map_info'
        BY <3>1
      <4> QED BY <3>2, <3>5, <3>10, <3>11, <3>12, <4>1 DEF ViewInv
    <3>14. MmapInv'
      BY <1>0, <3>7, <3>8, <3>9, <3>13 DEF MmapInv
    <3>15. MmapEnds
      BY <1>1, <3>3, <3>6 DEF MmapEnds
    <3> QED BY <3>14, <3>15
  <2> QED BY <2>5, <2>6, <2>7
<1>7. \/ call' = NoCall /\ sysret' = "error" /\ UNCHANGED <<map_info, uc>>
      \/ /\ MapAt(call.lo, n, UC_PROT_ALL, MapLabel) /\ UNCHANGED pend
         /\ IF ret' = "ok"
            THEN /\ call' = [call EXCEPT !.mapped = TRUE]
                 /\ UNCHANGED sysret
            ELSE /\ call' = NoCall
                 /\ sysret' = IF ret' = "QlMemoryMappedError"
                              THEN "error" ELSE "raised"
  BY DEF MmapMap, Map, vars
<1> QED BY <1>5, <1>6, <1>7

(* mmap gives its range the permissions asked for and returns. *)
LEMMA MmapProtects ==
    ASSUME MmapInv, MmapProtect
    PROVE  MmapInv' /\ MmapEnds
<1> DEFINE n == call.hi - call.lo
           p == SupportedPerms(call.prot)
<1>0. call # NoCall /\ call.mapped /\ call' = NoCall /\ PosixInv'
  BY MmapProtectStep DEF MmapInv, MmapProtect
<1>1. /\ MemInv /\ Fine
      /\ call.lo \in Nat /\ call.hi \in Nat
      /\ call.lo < call.hi /\ call.hi <= MemUbound
      /\ call.lo % PageSize = 0 /\ call.hi % PageSize = 0
  BY <1>0, CallFine
<1>2. n \in Nat \ {0} /\ call.lo + n = call.hi /\ n % PageSize = 0
  <2>1. n \in Nat \ {0} /\ call.lo + n = call.hi
    BY <1>1
  <2> QED BY <1>1, <2>1, PageSums
<1>3. MemUbound \in Nat /\ Addr \subseteq Nat
  BY MemoryAssumption DEF Addr
<1>4. Protect(call.lo, n, call.prot)
  BY DEF MmapProtect
<1> HIDE DEF n
<1>5. align(call.lo) = call.lo
  BY <1>1, AlignPage
<1>6. align_up((call.lo % PageSize) + n, PageSize) = n
  <2>1. (call.lo % PageSize) + n = n
    BY <1>1, <1>2
  <2>2. align_up(n, PageSize) \in Nat /\ n <= align_up(n, PageSize)
        /\ align_up(n, PageSize) <= n
    BY <1>2, AlignUpLeast
  <2>3. align_up(n, PageSize) = n
    BY <1>2, <2>2
  <2> QED BY <2>1, <2>3
<1>7. PICK e \in map_info : e.lo = call.lo /\ e.hi = call.hi
  BY <1>0 DEF MmapInv, ViewInv
<1>8. e \in Enclosing(call.lo, call.lo + n)
  BY <1>1, <1>2, <1>7 DEF Enclosing
<1>9. e \in Overlapping(map_info, call.lo, call.lo + n)
  BY <1>1, <1>2, <1>7 DEF Overlapping
<1>10. UcUnmapOk(call.lo, n)
  <2>1. Covers(uc, call.lo, call.hi)
    BY <1>1, <1>7 DEF MemInv, EntriesBacked
  <2> QED BY <1>1, <1>2, <2>1 DEF UcUnmapOk, UcArgsOk
<1>11. /\ ret' = "ok"
       /\ \E l : map_info' = del_mapinfo(map_info, call.lo, call.lo + n) \cup
                 {[lo |-> call.lo, hi |-> call.lo + n, perms |-> p,
                   label |-> l, mmio |-> FALSE]}
  BY <1>4, <1>5, <1>6, <1>8, <1>9, <1>10 DEF Protect
<1>12. sysret' = "ok"
  BY <1>11 DEF MmapProtect, CallOutcome
<1>13. PICK l : map_info' = del_mapinfo(map_info, call.lo, call.hi) \cup
                 {[lo |-> call.lo, hi |-> call.hi, perms |-> p,
                   label |-> l, mmio |-> FALSE]}
  BY <1>2, <1>11
<1> DEFINE D == del_mapinfo(map_info, call.lo, call.hi)
           new == [lo |-> call.lo, hi |-> call.hi, perms |-> p,
                   label |-> l, mmio |-> FALSE]
<1>14. /\ map_info' = D \cup {new}
       /\ new.lo = call.lo /\ new.hi = call.hi /\ new.perms = p /\ new.label = l
  BY <1>13
<1>15. \A a \in Nat : View(D, a) = IF call.lo <= a /\ a < call.hi
                                   THEN {} ELSE View(map_info, a)
  <2>1. map_info \in SUBSET Entry /\ Ordered(map_info) /\ Disjoint(map_info)
    BY <1>1 DEF MemInv, EntriesDisjoint
  <2>2. call.lo <= call.hi
    BY <1>1
  <2>3. ASSUME NEW a \in Nat
        PROVE  View(D, a) = IF call.lo <= a /\ a < call.hi
                            THEN {} ELSE View(map_info, a)
    <3>1. /\ ~ (call.lo <= a /\ a < call.hi) => View(D, a) = View(map_info, a)
          /\ (call.lo <= a /\ a < call.hi) => View(D, a) = {}
      BY <1>1, <2>1, <2>2, DelView
    <3> HIDE DEF D
    <3> QED BY <3>1
  <2> QED BY <2>3
<1> HIDE DEF D, new, p
<1>16. ASSUME NEW a \in Addr, a \in CallRange
       PROVE  {v.perms : v \in View(map_info', a)} = {p}
  <2>1. new.lo <= a /\ a < new.hi /\ a \in Nat
    BY <1>1, <1>3, <1>14, <1>16 DEF CallRange
  <2>2. View(map_info', a) = View(D, a) \cup {[perms |-> p, label |-> l]}
    BY <1>14, <2>1, ViewAdds
  <2>3. View(D, a) = {}
    BY <1>14, <1>15, <2>1
  <2>4. View(map_info', a) = {[perms |-> p, label |-> l]}
    BY <2>2, <2>3
  <2> QED BY <2>4
<1>17. ASSUME NEW a \in Addr, a \notin CallRange
       PROVE  View(map_info', a) = View(call.before, a)
  <2>1. ~ (new.lo <= a /\ a < new.hi) /\ a \in Nat
    BY <1>1, <1>3, <1>14, <1>17 DEF CallRange
  <2>2. View(map_info', a) = View(D, a)
    BY <1>14, <2>1, ViewAdds
  <2>3. View(D, a) = View(map_info, a)
    BY <1>14, <1>15, <2>1
  <2>4. View(map_info, a) = View(call.before, a)
    BY <1>0, <1>17 DEF MmapInv, ViewInv
  <2> QED BY <2>2, <2>3, <2>4
<1>18. \A a \in CallRange : "FIXED" \notin call.flags => View(call.before, a) = {}
  BY <1>0 DEF MmapInv, ViewInv
<1>19. MmapExact
  BY <1>16, <1>17, <1>18 DEF MmapExact, p
<1>20. Fine'
  BY <1>1, <1>2, <1>4, ProtectFine
<1>21. MmapInv'
  BY <1>0, <1>20, NoCallInv DEF PagesInv
<1>22. MmapEnds
  BY <1>12, <1>19 DEF MmapEnds
<1> QED BY <1>21, <1>22

(* At first there is the program and nothing else. *)
LEMMA MmapInit == PosixInit => MmapInv
<1>1. SUFFICES ASSUME PosixInit PROVE MmapInv
  OBVIOUS
<1>2. BrkStart \in Nat \ {0} /\ BrkStart % PageSize = 0
  BY PosixAssumption, Zenon
<1>3. MemUbound \in Nat /\ 0 % PageSize = 0
  BY MemoryAssumption
<1>4. Paged(map_info) /\ Solid(uc)
  BY <1>1, <1>2, <1>3 DEF PosixInit, Paged, Solid
<1>5. call = NoCall /\ pend = NoLoop /\ pend.todo = {}
  BY <1>1 DEF PosixInit, NoLoop
<1>6. PosixInv
  BY <1>1, PosixInitOK
<1> QED BY <1>4, <1>5, <1>6 DEF MmapInv, PagesInv, Fine, RangeInv, TodoInv, ViewInv

(* Every step. *)
LEMMA MmapEveryStep ==
    ASSUME 0 \notin Lens, MmapInv, [PosixNext]_pvars
    PROVE  MmapInv' /\ MmapEnds
<1>0. PosixInv'
  BY PosixStep DEF MmapInv
<1>1. CASE UNCHANGED pvars
  <2>1. UNCHANGED <<map_info, uc, pend, call, sysret>>
    BY <1>1 DEF pvars, vars, posix
  <2>2. RangeInv' /\ TodoInv' /\ PagesInv'
    BY <2>1 DEF MmapInv, RangeInv, TodoInv, PagesInv, Fine, Paged, Solid
  <2>3. ViewInv'
    BY <2>1 DEF MmapInv, ViewInv, CallRange
  <2>4. sysret # "raised" \/ call = NoCall
    BY DEF MmapInv, PosixInv, CallInv
  <2> QED BY <1>0, <2>1, <2>2, <2>3, <2>4 DEF MmapInv, MmapEnds
<1>2. ASSUME Idle, call' = NoCall, Fine'
      PROVE  MmapInv' /\ MmapEnds
  BY <1>0, <1>2, NoCallInv DEF PagesInv, MmapEnds, Idle
<1>3. ASSUME Idle, UNCHANGED call,
             \/ \E a \in 0 .. MemUbound - 1, n \in Lens : a + n <= MemUbound /\
                   (Munmap(a, n) \/ \E p \in Prots : Mprotect(a, n, p))
             \/ \E a \in 0 .. MemUbound : Brk(a)
             \/ \E id \in 1 .. SHMMNI, a \in 0 .. MemUbound - 1,
                   fl \in SUBSET {"RDONLY", "RND"} : Shmat(id, a, fl)
             \/ UNCHANGED vars
      PROVE  MmapInv' /\ MmapEnds
  BY <1>2, <1>3, OneStepFine DEF Idle
<1>4. ASSUME NEW a \in 0 .. MemUbound - 1, NEW len \in Lens, a + len <= MemUbound,
             NEW p \in Prots, NEW fl \in MmapFlags, NEW i \in Fds,
             Mmap(a, len, p, fl, i)
      PROVE  MmapInv' /\ MmapEnds
  BY <1>4, MmapBegins DEF Mmap, Idle, MmapEnds
<1>5. CASE MmapUnmap
  <2>1. MmapInv' /\ UNCHANGED <<call, sysret>> /\ call # NoCall
    BY <1>5, MmapUnmaps DEF MmapUnmap
  <2>2. sysret # "raised"
    BY <2>1, CallFine
  <2> QED BY <2>1, <2>2 DEF MmapEnds
<1>6. CASE \E a \in 0 .. MemUbound - 1, n \in Lens : a + n <= MemUbound /\
             (Munmap(a, n) \/ \E p \in Prots : Mprotect(a, n, p))
  BY <1>3, <1>6 DEF Munmap, Mprotect
<1>7. CASE \/ \E a \in 0 .. MemUbound : Brk(a)
           \/ \E id \in 1 .. SHMMNI, a \in 0 .. MemUbound - 1,
                 fl \in SUBSET {"RDONLY", "RND"} : Shmat(id, a, fl)
  BY <1>3, <1>7 DEF Brk, Shmat
<1>8. CASE \/ \E i \in Fds : Close(i) \/ \E f \in Files : Open(i, f)
           \/ \E k \in Keys, n \in ShmSizes, m \in Modes,
                 fl \in SUBSET {"CREAT", "EXCL"} : Shmget(k, n, m, fl)
           \/ \E a \in 0 .. MemUbound - 1 : Shmdt(a)
  BY <1>3, <1>8 DEF Close, Open, Shmget, Shmdt
<1> QED BY <1>1, <1>4, <1>5, <1>6, <1>7, <1>8, MmapMaps, MmapProtects DEF PosixNext

(* If no call is given an empty range, an mmap that returns has given its   *)
(* range the permissions asked for and left every other address as it was,  *)
(* one that fails has lost nothing outside the range of a fixed mapping,    *)
(* and none of the calls it makes to the memory manager raises.             *)
THEOREM MmapAlwaysExact ==
    ASSUME 0 \notin Lens
    PROVE  PosixSpec => MmapOutcome
<1>1. MmapInv /\ [PosixNext]_pvars => MmapInv' /\ MmapEnds
  BY MmapEveryStep
<1>2. MmapEnds => ((call # NoCall /\ (call' = NoCall \/ sysret' = "raised")) =>
                       /\ sysret' = "ok" => MmapExact
                       /\ sysret' = "error" => FailedMmapLoses
                       /\ sysret' = "raised" => call.lo = call.hi)
  BY DEF MmapEnds
<1> QED BY <1>1, <1>2, MmapInit, PTL DEF PosixSpec, MmapOutcome
=============================================================================
