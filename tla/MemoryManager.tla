--------------------------- MODULE MemoryManager ---------------------------
(***************************************************************************)
(* QlMemoryManager (qiling/os/memory.py): the bookkeeping Qiling keeps of  *)
(* the emulated address space, beside the mappings of the Unicorn engine.  *)
(*                                                                         *)
(* map_info is a Python list that only bisect.insort and slice deletion    *)
(* ever change, so it is always sorted; here it is the set of its entries  *)
(* and EntryLeq is the order of the list.  Unicorn is external: uc is the  *)
(* set of its regions and the Uc* operators are what memory.py relies on.  *)
(* The loops of unmap_between and unmap_all take one step per range; pend  *)
(* holds the ranges still to do.  An exception ends the operation it       *)
(* reaches and drops the rest of the loop.                                 *)
(***************************************************************************)
EXTENDS Integers, Sequences, FiniteSets, SequencesExt

CONSTANTS
    PageSize,     \* self.pagesize
    MemUbound,    \* self.max_addr + 1, the exclusive end of the address space
    Labels,       \* the labels of map entries
    Prots,        \* the permission masks callers pass, as sets of bits
    Lens,         \* the lengths callers pass, in bytes
    Callbacks     \* the mmio callbacks callers pass, as the accesses they serve

UC_PROT_ALL == {"r", "w", "x"}

ASSUME MemoryAssumption ==
    /\ PageSize \in Nat \ {0}
    /\ MemUbound \in Nat \ {0}
    /\ Lens \subseteq Nat
    /\ Callbacks \subseteq SUBSET {"r", "w"}

VARIABLES
    map_info,     \* the entries of self.map_info
    uc,           \* the regions mapped in Unicorn
    mmio_cbs,     \* self.mmio_cbs: the callbacks registered for a range
    pend,         \* the unmapping loop under way and the ranges it has to do
    ret           \* how the last operation, or turn of a loop, ended

vars == <<map_info, uc, mmio_cbs, pend, ret>>

Addr == 0 .. MemUbound

Entry == [lo : Nat, hi : Nat, perms : SUBSET UC_PROT_ALL,
          label : Labels, mmio : BOOLEAN]

Region == [lo : Nat, hi : Nat, perms : SUBSET UC_PROT_ALL, mmio : BOOLEAN]

Outcome == {"ok", "logged", "IndexError", "UcError", "AssertionError",
            "QlMemoryMappedError", "QlOutOfMemory", "ValueError"}

NoLoop == [op |-> "none", todo |-> {}]

Loop(op, ranges) == IF ranges = {} THEN NoLoop ELSE [op |-> op, todo |-> ranges]

-----------------------------------------------------------------------------
(* Ranges.  [s, t) overlaps an entry as del_mapinfo and unmap_between test. *)

Overlapping(M, s, t) == {e \in M : s < e.hi /\ t > e.lo}

(* The parts of the overlapping ranges that lie outside [s, t). *)
Leftovers(M, s, t) ==
    {[e EXCEPT !.hi = s] : e \in {f \in Overlapping(M, s, t) : f.lo < s}}
    \cup {[e EXCEPT !.lo = t] : e \in {f \in Overlapping(M, s, t) : t < f.hi}}

(* M without [s, t). *)
Subtract(M, s, t) == (M \ Overlapping(M, s, t)) \cup Leftovers(M, s, t)

(* Address a belongs to some range of M. *)
Holds(M, a) == \E e \in M : e.lo <= a /\ a < e.hi

Covers(M, s, t) == \A a \in s .. (t - 1) : Holds(M, a)

align(v) == v - (v % PageSize)

align_up(v, n) == ((v + n - 1) \div n) * n

-----------------------------------------------------------------------------
(* Unicorn, as memory.py uses it. *)

UcArgsOk(a, n) == a % PageSize = 0 /\ n % PageSize = 0

UcMapOk(a, n) == n > 0 /\ UcArgsOk(a, n) /\ Overlapping(uc, a, a + n) = {}

UcUnmapOk(a, n) == n = 0 \/ (UcArgsOk(a, n) /\ Covers(uc, a, a + n))

UcProtect(s, t, p) ==
    Subtract(uc, s, t)
    \cup {[r EXCEPT !.lo = IF r.lo < s THEN s ELSE r.lo,
                    !.hi = IF t < r.hi THEN t ELSE r.hi,
                    !.perms = p] : r \in Overlapping(uc, s, t)}

-----------------------------------------------------------------------------
(* The list of entries. *)

EntryLeq(e, f) == e.lo < f.lo \/ (e.lo = f.lo /\ e.hi <= f.hi)

(* The list: as many entries come up to the one at i, itself included. *)
MapInfoList ==
    [i \in 1 .. Cardinality(map_info) |->
        CHOOSE e \in map_info :
            Cardinality({f \in map_info : EntryLeq(f, e)}) = i]

(* Mutants of del_mapinfo: the slice stops before i1; the parts that the    *)
(* split leaves over are not inserted again.                                *)
DelKeepsLast(M, s, t) ==
    LET ov == Overlapping(M, s, t)
        last == {g \in ov : \A f \in ov : EntryLeq(f, g)}
    IN  (M \ (ov \ last)) \cup Leftovers(M, s, t)

DelForgetsSplits(M, s, t) == M \ Overlapping(M, s, t)

(* del self.map_info[i0:i1 + 1]: everything between the first and the last  *)
(* overlapping entry goes, then the leftovers are inserted.                 *)
del_mapinfo(M, s, t) ==
    LET ov == Overlapping(M, s, t)
        slice == {e \in M : \E f, g \in ov : EntryLeq(f, e) /\ EntryLeq(e, g)}
    IN  (M \ slice) \cup Leftovers(M, s, t)

Enclosing(s, t) == {e \in map_info : s >= e.lo /\ t <= e.hi}

FirstEnclosing(s, t) ==
    {e \in Enclosing(s, t) : \A f \in Enclosing(s, t) : EntryLeq(e, f)}

(* Entries i and i + 1 of the list L are adjacent. *)
Adjacent(L, i) == i \in DOMAIN L /\ i + 1 \in DOMAIN L /\ L[i].hi = L[i + 1].lo

(* The first and last places of the longest runs of adjacent entries. *)
Runs(L) ==
    {p \in (DOMAIN L) \X (DOMAIN L) :
        /\ p[1] <= p[2] /\ \A k \in p[1] .. p[2] - 1 : Adjacent(L, k)
        /\ ~ Adjacent(L, p[1] - 1) /\ ~ Adjacent(L, p[2])}

(* __mapped_regions: the entries of the list, adjacent ones joined. *)
mapped_regions ==
    LET L == MapInfoList
    IN  {[lo |-> L[p[1]].lo, hi |-> L[p[2]].hi] : p \in Runs(L)}

(* Mutant: the two ends are tested but not a range that encloses a region. *)
EndsAvailable(a, n) ==
    ~ \E r \in mapped_regions :
        (r.lo <= a /\ a < r.hi) \/ (r.lo < a + n /\ a + n <= r.hi)

is_available(a, n) ==
    ~ \E r \in mapped_regions :
        \/ r.lo <= a /\ a < r.hi
        \/ r.lo < a + n /\ a + n <= r.hi
        \/ a <= r.lo /\ r.lo < r.hi /\ r.hi <= a + n

is_mapped(a, n) ==
    \E r \in mapped_regions : r.lo <= a /\ a < a + n /\ a + n <= r.hi

(* The gaps find_free_space searches: zip of the upper bounds of the list,  *)
(* shifted by one, with its lower bounds.                                   *)
Gaps ==
    LET L == MapInfoList
        n == Cardinality(map_info)
    IN  [i \in 1 .. n + 1 |->
            [lo |-> IF i = 1 THEN 0 ELSE L[i - 1].hi,
             hi |-> IF i = n + 1 THEN MemUbound ELSE L[i].lo]]

(* The range of n bytes at a suits the gap and the caller's bounds. *)
Fits(g, a, n, minaddr, maxaddr) ==
    /\ g.lo < maxaddr /\ minaddr < g.hi
    /\ g.lo <= a /\ a < a + n /\ a + n <= g.hi
    /\ minaddr <= a /\ a + n <= maxaddr

(* The lowest aligned address of the gap from minaddr on. *)
Base(g, minaddr, al) == align_up(IF g.lo < minaddr THEN minaddr ELSE g.lo, al)

(* The address find_free_space returns, in the first gap of the list that   *)
(* suits; none when it raises QlOutOfMemory.                                *)
find_free_space(n, minaddr, maxaddr, al) ==
    LET gaps == Gaps
        fits == {i \in DOMAIN gaps :
                   Fits(gaps[i], Base(gaps[i], minaddr, al), n, minaddr, maxaddr)}
    IN  {Base(gaps[i], minaddr, al) : i \in {j \in fits : \A k \in fits : j <= k}}

-----------------------------------------------------------------------------
(* map, map_anywhere and map_mmio. *)

(* mmio_map is always given both wrappers, whatever callbacks there are for *)
(* them to call, so Unicorn lets the guest read and write.                  *)
UcPerms(p, io) == IF io THEN {"r", "w"} ELSE p

(* The entry shows the permissions p, which are those asked for or, of an   *)
(* MMIO range, the accesses there is a callback for.                        *)
AddMapping(a, n, p, l, io) ==
    /\ uc' = uc \cup {[lo |-> a, hi |-> a + n, perms |-> UcPerms(p, io), mmio |-> io]}
    /\ map_info' = map_info \cup
         {[lo |-> a, hi |-> a + n, perms |-> p, label |-> l, mmio |-> io]}

MapAt(a, n, p, l) ==
    \/ /\ ~ (p \subseteq UC_PROT_ALL) \/ n = 0
       /\ ret' = "AssertionError"
       /\ UNCHANGED <<map_info, uc>>
    \/ /\ p \subseteq UC_PROT_ALL /\ n > 0
       /\ ~ is_available(a, n)
       /\ ret' = "QlMemoryMappedError"
       /\ UNCHANGED <<map_info, uc>>
    \/ /\ p \subseteq UC_PROT_ALL /\ n > 0
       /\ is_available(a, n) /\ ~ UcMapOk(a, n)
       /\ ret' = "UcError"
       /\ UNCHANGED <<map_info, uc>>
    \/ /\ p \subseteq UC_PROT_ALL /\ n > 0
       /\ is_available(a, n) /\ UcMapOk(a, n)
       /\ AddMapping(a, n, p, l, FALSE)
       /\ ret' = "ok"

Map(a, n, p, l) ==
    /\ pend = NoLoop
    /\ MapAt(a, n, p, l)
    /\ UNCHANGED <<mmio_cbs, pend>>

(* map_anywhere(size, minaddr), with maxaddr and align left to default. *)
MapAnywhere(len, minaddr, p, l) ==
    LET n == align_up(len, PageSize)
        found == find_free_space(n, minaddr, MemUbound, PageSize)
    IN  /\ pend = NoLoop
        /\ \/ /\ MemUbound - minaddr < n
              /\ ret' = "ValueError"
              /\ UNCHANGED <<map_info, uc>>
           \/ /\ MemUbound - minaddr >= n
              /\ found = {}
              /\ ret' = "QlOutOfMemory"
              /\ UNCHANGED <<map_info, uc>>
           \/ /\ MemUbound - minaddr >= n
              /\ \E a \in found \cap Addr : MapAt(a, n, p, l)
        /\ UNCHANGED <<mmio_cbs, pend>>

MapMmio(a, n, cbs, l) ==
    /\ pend = NoLoop
    /\ \/ /\ ~ UcMapOk(a, n)
          /\ ret' = "UcError"
          /\ UNCHANGED <<map_info, uc, mmio_cbs>>
       \/ /\ UcMapOk(a, n)
          /\ AddMapping(a, n, cbs, l, TRUE)
          /\ mmio_cbs' = {c \in mmio_cbs : ~ (c.lo = a /\ c.hi = a + n)}
                         \cup {[lo |-> a, hi |-> a + n, cbs |-> cbs]}
          /\ ret' = "ok"
    /\ UNCHANGED pend

-----------------------------------------------------------------------------
(* unmap and the loops over it.  The entry list is updated before Unicorn   *)
(* is asked, so a refusal of Unicorn comes too late to keep the entries.    *)

UnmapAt(a, n) ==
    \/ /\ Overlapping(map_info, a, a + n) = {}
       /\ ret' = "IndexError"
       /\ UNCHANGED <<map_info, uc, mmio_cbs>>
    \/ /\ Overlapping(map_info, a, a + n) # {}
       /\ map_info' = del_mapinfo(map_info, a, a + n)
       /\ ~ UcUnmapOk(a, n)
       /\ ret' = "UcError"
       /\ UNCHANGED <<uc, mmio_cbs>>
    \/ /\ Overlapping(map_info, a, a + n) # {}
       /\ map_info' = del_mapinfo(map_info, a, a + n)
       /\ UcUnmapOk(a, n)
       /\ uc' = IF n = 0 THEN uc ELSE Subtract(uc, a, a + n)
       /\ mmio_cbs' = {c \in mmio_cbs : ~ (c.lo = a /\ c.hi = a + n)}
       /\ ret' = "ok"

Unmap(a, n) ==
    /\ pend = NoLoop
    /\ UnmapAt(a, n)
    /\ UNCHANGED pend

(* The ranges are collected before the first of them is unmapped. *)
UnmapBetween(s, t) ==
    /\ pend = NoLoop
    /\ pend' = Loop("unmap_between", {[lo |-> IF e.lo < s THEN s ELSE e.lo,
                 hi |-> IF t < e.hi THEN t ELSE e.hi] :
                    e \in Overlapping(map_info, s, t)})
    /\ ret' = "ok"
    /\ UNCHANGED <<map_info, uc, mmio_cbs>>

UnmapAll ==
    /\ pend = NoLoop
    /\ pend' = Loop("unmap_all", {[lo |-> r.lo, hi |-> r.hi] : r \in uc})
    /\ ret' = "ok"
    /\ UNCHANGED <<map_info, uc, mmio_cbs>>

(* One turn of either loop, lowest range first. *)
UnmapNext ==
    \E r \in pend.todo :
        /\ \A q \in pend.todo : EntryLeq(r, q)
        /\ UnmapAt(r.lo, r.hi - r.lo)
        /\ pend' = IF ret' = "ok" THEN Loop(pend.op, pend.todo \ {r}) ELSE NoLoop

-----------------------------------------------------------------------------
(* protect, through change_mapinfo, and the relabelling of an entry. *)

SupportedPerms(prot) == prot \cap UC_PROT_ALL

Protect(addr, len, prot) ==
    LET p == SupportedPerms(prot)
        a == align(addr)
        n == align_up((addr % PageSize) + len, PageSize)
    IN  /\ pend = NoLoop
        /\ \/ /\ ~ UcUnmapOk(a, n)
              /\ ret' = "UcError"
              /\ UNCHANGED <<map_info, uc>>
           \/ /\ UcUnmapOk(a, n)
              /\ uc' = IF n = 0 THEN uc ELSE UcProtect(a, a + n, p)
              /\ \/ /\ Enclosing(a, a + n) = {}
                    /\ ret' = "logged"
                    /\ UNCHANGED map_info
                 \/ /\ Enclosing(a, a + n) # {}
                    /\ Overlapping(map_info, a, a + n) = {}
                    /\ ret' = "IndexError"
                    /\ UNCHANGED map_info
                 \/ \E e \in FirstEnclosing(a, a + n) :
                       /\ Overlapping(map_info, a, a + n) # {}
                       /\ map_info' = del_mapinfo(map_info, a, a + n) \cup
                            {[lo |-> a, hi |-> a + n, perms |-> p,
                              label |-> e.label, mmio |-> FALSE]}
                       /\ ret' = "ok"
        /\ UNCHANGED <<mmio_cbs, pend>>

Relabel(s, t, l) ==
    /\ pend = NoLoop
    /\ \/ /\ Enclosing(s, t) = {}
          /\ ret' = "logged"
          /\ UNCHANGED map_info
       \/ \E e \in FirstEnclosing(s, t) :
             /\ map_info' = (map_info \ {e}) \cup {[e EXCEPT !.label = l]}
             /\ ret' = "ok"
    /\ UNCHANGED <<uc, mmio_cbs, pend>>

-----------------------------------------------------------------------------
Init ==
    /\ map_info = {}
    /\ uc = {}
    /\ mmio_cbs = {}
    /\ pend = NoLoop
    /\ ret = "ok"

(* The ranges callers name: any length of Lens inside the address space. *)
Next ==
    \/ \E a \in Addr, n \in Lens : a + n <= MemUbound /\
          \/ \E p \in Prots, l \in Labels : Map(a, n, p, l)
          \/ \E c \in Callbacks, l \in Labels : MapMmio(a, n, c, l)
          \/ Unmap(a, n)
          \/ \E p \in Prots : Protect(a, n, p)
          \/ UnmapBetween(a, a + n)
          \/ \E l \in Labels : Relabel(a, a + n, l)
    \/ \E n \in Lens, m \in 0 .. MemUbound - 1, p \in Prots, l \in Labels :
          MapAnywhere(n, m, p, l)
    \/ UnmapAll
    \/ UnmapNext

Spec == Init /\ [][Next]_vars

-----------------------------------------------------------------------------
(* The state of the memory manager is well formed. *)
TypeOK ==
    /\ map_info \in SUBSET Entry
    /\ uc \in SUBSET Region
    /\ mmio_cbs \in SUBSET [lo : Nat, hi : Nat, cbs : SUBSET UC_PROT_ALL]
    /\ pend \in [op : {"none", "unmap_between", "unmap_all"},
                todo : SUBSET [lo : Nat, hi : Nat]]
    /\ ret \in Outcome

Disjoint(M) ==
    \A e, f \in M : e # f => \/ e.hi <= f.lo \/ f.hi <= e.lo
                             \/ e.hi <= e.lo \/ f.hi <= f.lo

(* "map_info is assumed to contain non-overlapping regions": no address is  *)
(* described by two entries, although map_mmio never looks at map_info and  *)
(* unmap edits the list before Unicorn has agreed.                          *)
EntriesDisjoint == Disjoint(map_info)

(* Whatever an entry describes is really mapped in Unicorn, so that save    *)
(* and search, which read the ranges of the list, never fault.              *)
EntriesBacked == \A e \in map_info : Covers(uc, e.lo, e.hi)

(* The list is well formed, describes no address twice and describes        *)
(* nothing but memory, after any sequence of operations, refused ones too.  *)
ListSound == TypeOK /\ EntriesDisjoint /\ EntriesBacked

(* Every address mapped in Unicorn is described by an entry of the list, so *)
(* that is_available never offers a range that Unicorn will refuse.         *)
UcDescribed == \A r \in uc : Covers(map_info, r.lo, r.hi)

(* An operation that returns normally keeps the list and Unicorn describing *)
(* the same addresses; only one that raises can drive them apart.           *)
OkKeepsAgreement ==
    [][(UcDescribed /\ ret' \in {"ok", "logged"}) => UcDescribed']_vars

(* is_available and is_mapped, which look at joined ranges, answer for each *)
(* address of the range they are asked about.                               *)
RangesExact ==
    \A a \in 0 .. MemUbound - 1, n \in 1 .. MemUbound :
        a + n <= MemUbound =>
            /\ is_available(a, n) <=> Overlapping(map_info, a, a + n) = {}
            /\ is_mapped(a, n) <=> Covers(map_info, a, a + n)

(* find_free_space finds the lowest aligned place of the size in the bounds *)
(* that no entry touches, and fails only when there is none.                *)
FreePlaces(n, minaddr) ==
    {a \in minaddr .. MemUbound - n :
        a % PageSize = 0 /\ Overlapping(map_info, a, a + n) = {}}

FreeSpaceExact ==
    \A n \in 1 .. MemUbound, m \in 0 .. MemUbound - 1 :
        find_free_space(n, m, MemUbound, PageSize) =
            {a \in FreePlaces(n, m) : \A b \in FreePlaces(n, m) : a <= b}

(* In every layout that can be reached the queries, which rely on the order *)
(* and the joining of the entries, answer as a look at each address would.  *)
QueriesExact == RangesExact /\ FreeSpaceExact

(* The list never shows a permission that Unicorn does not grant, and for   *)
(* an entry that is not MMIO it shows all of them.  Of an MMIO entry it may *)
(* show less: the wrappers of map_mmio let Unicorn accept accesses that     *)
(* have no callback.                                                        *)
Granted(e, r) == e.perms \subseteq r.perms /\ (e.mmio \/ r.perms \subseteq e.perms)

PermsAgree ==
    \A e \in map_info, r \in uc :
        (e.lo < r.hi /\ r.lo < e.hi /\ e.lo < e.hi) => Granted(e, r)

(* An operation that reports no failure keeps the permissions shown in      *)
(* agreement with those checked, after any splitting of entries and regions *)
(* and after a protect of MMIO, whose entry turns into one that is not MMIO *)
(* while its region stays MMIO; protect over several entries logs an error. *)
OkKeepsPerms == [][(PermsAgree /\ ret' = "ok") => PermsAgree']_vars
=============================================================================
