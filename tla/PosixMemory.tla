---------------------------- MODULE PosixMemory ----------------------------
(***************************************************************************)
(* The system calls that change the address space of a POSIX program       *)
(* (qiling/os/posix/syscall/mman.py, shm.py and brk of unistd.py), on top  *)
(* of the memory manager.                                                  *)
(*                                                                         *)
(* mmap takes a step for each call it makes to the memory manager: the     *)
(* unmapping of a fixed range, the mapping, the protection.  call holds    *)
(* its local variables.  The other calls make one such call and are one    *)
(* step.  sysret is how the last call ended; an exception passes through   *)
(* load_syscall and ends the emulation.  Contents are left out.            *)
(***************************************************************************)
EXTENDS MemoryManager

CONSTANTS
    BrkStart,       \* loader.brk_address after loading; below it, the program
    MmapAddress,    \* loader.mmap_address
    MmapFlags,      \* the sets of flags of mmap
    Fds,            \* the indices of ql.os.fd, lowest first
    Files,          \* base names of files, which label their mappings
    NoFile,         \* a free index of ql.os.fd
    Keys,           \* the keys of shared segments; 0 is IPC_PRIVATE
    ShmSizes,       \* the sizes of shared segments callers ask for
    Modes,          \* the modes of shared segments: who may read and write
    SHMMNI,         \* the number of segments there may be
    SHMLBA,         \* the alignment that SHM_RND asks for
    MaxAttach       \* bound: the attachments of a segment

ASSUME PosixAssumption ==
    /\ BrkStart \in Nat \ {0} /\ BrkStart % PageSize = 0
    /\ MmapAddress \in Nat /\ MmapAddress % PageSize = 0
    /\ BrkStart <= MmapAddress /\ MmapAddress < MemUbound
    /\ MemUbound % PageSize = 0
    /\ Fds \subseteq Nat /\ ShmSizes \subseteq Nat
    /\ {"[program]", "[brk]", "[shm]", "[mmap anonymous]"} \cup Files = Labels
    /\ SHMLBA \in Nat \ {0} /\ SHMLBA % PageSize = 0

VARIABLES
    fd,             \* ql.os.fd: open files and what the last mmap noted in them
    shm,            \* QlShm: the segments, in the order of their ids
    brk_address,    \* loader.brk_address
    call,           \* the mmap under way
    sysret          \* how the last system call ended

posix == <<fd, shm, brk_address, call, sysret>>

pvars == <<vars, posix>>

NoCall == [op |-> "none"]

(* A call may begin: none is under way and the emulation has not ended. *)
Idle == call = NoCall /\ sysret # "raised"

(* Mutant: the exceptions of the memory manager are swallowed. *)
OutcomeSwallowed == "ok"

(* How a call that made one call of the memory manager ends. *)
CallOutcome == IF ret' \in {"ok", "logged"} THEN "ok" ELSE "raised"

-----------------------------------------------------------------------------
(* mmap: the range, then the unmapping, then the mapping. *)

FIXED == {"FIXED", "NOREPLACE"}

MmapSize(addr, len) == align_up(len + (addr % PageSize), PageSize)

(* The lowest address the search may answer: the hint, or mmap_address. *)
Hint(addr) == IF addr < MmapAddress THEN MmapAddress ELSE addr

Places(addr, len) ==
    IF MemUbound - Hint(addr) < MmapSize(addr, len)
    THEN {}
    ELSE find_free_space(MmapSize(addr, len), Hint(addr), MemUbound, PageSize)

MmapCall(addr, n, prot, flags, i) ==
    [op |-> "mmap", addr |-> addr, lo |-> align(addr),
     hi |-> align(addr) + n, prot |-> prot, flags |-> flags, fd |-> i,
     mapped |-> FALSE, before |-> map_info]

(* The range is known: make sure that memory can be mapped there. *)
MmapAt(addr, n, prot, flags, i) ==
    \/ /\ "NOREPLACE" \in flags
       /\ ~ is_available(align(addr), n)
       /\ sysret' = "error"
       /\ UNCHANGED <<vars, call>>
    \/ /\ "NOREPLACE" \in flags => is_available(align(addr), n)
       /\ call' = MmapCall(addr, n, prot, flags, i)
       /\ UNCHANGED sysret
       /\ IF "FIXED" \in flags /\ "NOREPLACE" \notin flags
          THEN UnmapBetween(align(addr), align(addr) + n)
          ELSE UNCHANGED vars

Mmap(addr, len, prot, flags, i) ==
    LET n == MmapSize(addr, len)
    IN  /\ Idle
        /\ UNCHANGED <<fd, shm, brk_address>>
        /\ \/ /\ flags \cap FIXED # {} /\ addr % PageSize # 0
              /\ sysret' = "error"
              /\ UNCHANGED <<vars, call>>
           \/ /\ flags \cap FIXED # {} /\ addr % PageSize = 0
              /\ MmapAt(addr, n, prot, flags, i)
           \/ /\ flags \cap FIXED = {} /\ Places(addr, len) = {}
              /\ sysret' = "raised"
              /\ UNCHANGED <<vars, call>>
           \/ /\ flags \cap FIXED = {}
              /\ \E a \in Places(addr, len) \cap Addr :
                    MmapAt(a, n, prot, flags, i)

(* One turn of unmap_between. *)
MmapUnmap ==
    /\ call # NoCall
    /\ UnmapNext
    /\ IF ret' = "ok" THEN UNCHANGED <<call, sysret>>
                      ELSE call' = NoCall /\ sysret' = "raised"
    /\ UNCHANGED <<fd, shm, brk_address>>

(* Mutant: the mapping is left as it was made, writable. *)
MmapUnprotected ==
    /\ call # NoCall /\ call.mapped
    /\ call' = NoCall
    /\ sysret' = "ok"
    /\ UNCHANGED <<vars, fd, shm, brk_address>>

(* The permissions asked for, after the contents have been written. *)
MmapProtect ==
    /\ call # NoCall /\ call.mapped
    /\ Protect(call.lo, call.hi - call.lo, call.prot)
    /\ call' = NoCall
    /\ sysret' = CallOutcome
    /\ UNCHANGED <<fd, shm, brk_address>>

MapLabel == IF "ANONYMOUS" \in call.flags
            THEN "[mmap anonymous]" ELSE fd[call.fd].name

NotedMapping ==
    IF "ANONYMOUS" \in call.flags THEN fd
    ELSE [fd EXCEPT ![call.fd].shared = "SHARED" \in call.flags]

CallRange == call.lo .. call.hi - 1

(* The descriptor is looked at only now, when a fixed range is unmapped. *)
MmapMap ==
    /\ call # NoCall /\ ~ call.mapped /\ pend = NoLoop
    /\ \/ /\ "ANONYMOUS" \notin call.flags /\ fd[call.fd].name = NoFile
          /\ call' = NoCall
          /\ sysret' = "error"
          /\ UNCHANGED <<vars, fd>>
       \/ /\ "ANONYMOUS" \in call.flags \/ fd[call.fd].name # NoFile
          /\ fd' = NotedMapping
          /\ Map(call.lo, call.hi - call.lo, UC_PROT_ALL, MapLabel)
          /\ IF ret' = "ok"
             THEN /\ call' = [call EXCEPT !.mapped = TRUE]
                  /\ UNCHANGED sysret
             ELSE /\ call' = NoCall
                  /\ sysret' = IF ret' = "QlMemoryMappedError"
                               THEN "error" ELSE "raised"
    /\ UNCHANGED <<shm, brk_address>>

-----------------------------------------------------------------------------
(* munmap and mprotect. *)

MmapLabels == Files \cup {"[mmap anonymous]"}

MmappedAt(addr) ==
    {e \in map_info : e.lo <= addr /\ addr < e.hi /\ e.label \in MmapLabels}

(* The first descriptor whose file has the base name of the label. *)
FdOf(l) ==
    {i \in Fds : /\ fd[i].name # NoFile /\ fd[i].name = l
                 /\ \A j \in Fds : fd[j].name = l => i <= j}

SharedFdOf(l) == {i \in FdOf(l) : fd[i].shared}

Munmap(addr, len) ==
    LET lo == align(addr)
        hi == align_up(addr + len, PageSize)
    IN  /\ Idle
        /\ \/ /\ MmappedAt(addr) = {}
              /\ sysret' = "ok"
              /\ UNCHANGED vars
           \/ \E e \in MmappedAt(addr) :
                 /\ SharedFdOf(e.label) # {} /\ ~ Covers(uc, addr, addr + len)
                 /\ sysret' = "raised"
                 /\ UNCHANGED vars
           \/ \E e \in MmappedAt(addr) :
                 /\ SharedFdOf(e.label) # {} => Covers(uc, addr, addr + len)
                 /\ Unmap(lo, hi - lo)
                 /\ sysret' = CallOutcome
        /\ UNCHANGED <<fd, shm, brk_address, call>>

Mprotect(start, mlen, prot) ==
    /\ Idle
    /\ Protect(start, mlen, prot)
    /\ sysret' = CallOutcome
    /\ UNCHANGED <<fd, shm, brk_address, call>>

(* brk(0) only asks.  Mapping and unmapping are not guarded. *)
Brk(inp) ==
    LET new == align_up(inp, PageSize)
    IN  /\ Idle
        /\ \/ /\ inp = 0 \/ new = brk_address
              /\ sysret' = "ok"
              /\ UNCHANGED <<vars, brk_address>>
           \/ /\ inp # 0 /\ new > brk_address
              /\ Map(brk_address, new - brk_address, UC_PROT_ALL, "[brk]")
              /\ sysret' = CallOutcome
              /\ brk_address' = IF ret' = "ok" THEN new ELSE brk_address
           \/ /\ inp # 0 /\ new < brk_address
              /\ Unmap(new, brk_address - new)
              /\ sysret' = CallOutcome
              /\ brk_address' = IF ret' = "ok" THEN new ELSE brk_address
        /\ UNCHANGED <<fd, shm, call>>

-----------------------------------------------------------------------------
(* Descriptors, as far as mappings depend on them. *)

Closed == [name |-> NoFile, shared |-> FALSE]

Open(i, f) ==
    /\ Idle /\ fd[i].name = NoFile
    /\ fd' = [fd EXCEPT ![i] = [Closed EXCEPT !.name = f]]
    /\ sysret' = "ok"
    /\ UNCHANGED <<vars, shm, brk_address, call>>

Close(i) ==
    /\ Idle /\ fd[i].name # NoFile
    /\ fd' = [fd EXCEPT ![i] = Closed]
    /\ sysret' = "ok"
    /\ UNCHANGED <<vars, shm, brk_address, call>>

-----------------------------------------------------------------------------
(* Shared segments.  Every attachment maps memory of its own, and shmdt     *)
(* leaves it mapped.                                                        *)

IPC_PRIVATE == 0

HasKey(key) == {id \in DOMAIN shm : shm[id].key = key}

Shmget(key, size, mode, flags) ==
    LET create == key = IPC_PRIVATE \/ (HasKey(key) = {} /\ "CREAT" \in flags)
    IN  /\ Idle
        /\ \/ /\ create /\ Len(shm) >= SHMMNI
              /\ sysret' = "error"
              /\ UNCHANGED shm
           \/ /\ create /\ Len(shm) < SHMMNI
              /\ shm' = Append(shm, [key |-> key,
                                     size |-> align_up(size, PageSize),
                                     mode |-> mode, attach |-> <<>>])
              /\ sysret' = "ok"
           \/ /\ ~ create
              /\ \/ HasKey(key) = {} \/ flags # {}
                 \/ \E id \in HasKey(key) : shm[id].mode = {}
              /\ sysret' = "error"
              /\ UNCHANGED shm
           \/ /\ ~ create /\ flags = {}
              /\ \E id \in HasKey(key) : /\ shm[id].mode # {}
                                         /\ sysret' = "ok"
              /\ UNCHANGED shm
        /\ UNCHANGED <<vars, fd, brk_address, call>>

(* Where shmat is asked to attach: 0 leaves the choice to the search. *)
AttachPlaces(id, shmaddr, flags) ==
    IF shmaddr = 0 THEN
        IF MemUbound - MmapAddress < shm[id].size THEN {}
        ELSE find_free_space(shm[id].size, MmapAddress, MemUbound, PageSize)
             \cap Addr
    ELSE IF "RND" \in flags THEN {shmaddr - (shmaddr % SHMLBA)}
    ELSE {shmaddr}

Unaligned(shmaddr, flags) ==
    shmaddr # 0 /\ "RND" \notin flags /\ shmaddr % PageSize # 0

ShmPerms(flags) ==
    {"r"} \cup (IF "RDONLY" \in flags THEN {} ELSE {"w"})

Shmat(id, shmaddr, flags) ==
    /\ Idle
    /\ id \in DOMAIN shm => Len(shm[id].attach) < MaxAttach
    /\ \/ /\ id \notin DOMAIN shm \/ Unaligned(shmaddr, flags)
          /\ sysret' = "error"
          /\ UNCHANGED <<vars, shm>>
       \/ /\ id \in DOMAIN shm /\ ~ Unaligned(shmaddr, flags)
          /\ AttachPlaces(id, shmaddr, flags) = {}
          /\ sysret' = "raised"
          /\ UNCHANGED <<vars, shm>>
       \/ /\ id \in DOMAIN shm /\ ~ Unaligned(shmaddr, flags)
          /\ AttachPlaces(id, shmaddr, flags) # {}
          /\ ~ (ShmPerms(flags) \subseteq shm[id].mode)
          /\ sysret' = "error"
          /\ UNCHANGED <<vars, shm>>
       \/ /\ id \in DOMAIN shm /\ ~ Unaligned(shmaddr, flags)
          /\ ShmPerms(flags) \subseteq shm[id].mode
          /\ \E a \in AttachPlaces(id, shmaddr, flags) :
                /\ Map(a, shm[id].size, ShmPerms(flags), "[shm]")
                /\ IF ret' = "ok"
                   THEN /\ shm' = [shm EXCEPT ![id].attach = Append(@, a)]
                        /\ sysret' = "ok"
                   ELSE /\ sysret' = IF ret' = "QlMemoryMappedError"
                                     THEN "error" ELSE "raised"
                        /\ UNCHANGED <<shm>>
    /\ UNCHANGED <<fd, brk_address, call>>

(* The segment get_by_attaddr finds: the first one attached there. *)
AttachedAt(a) ==
    {id \in DOMAIN shm :
        /\ a \in ToSet(shm[id].attach)
        /\ \A k \in DOMAIN shm : a \in ToSet(shm[k].attach) => id <= k}

Shmdt(a) ==
    /\ Idle
    /\ \/ /\ AttachedAt(a) = {}
          /\ sysret' = "error"
          /\ UNCHANGED shm
       \/ /\ \E id \in AttachedAt(a) :
                shm' = [shm EXCEPT ![id].attach = RemoveFirst(@, a)]
          /\ sysret' = "ok"
    /\ UNCHANGED <<vars, fd, brk_address, call>>

-----------------------------------------------------------------------------
PosixInit ==
    /\ uc = {[lo |-> 0, hi |-> BrkStart, perms |-> UC_PROT_ALL, mmio |-> FALSE]}
    /\ map_info = {[lo |-> 0, hi |-> BrkStart, perms |-> UC_PROT_ALL,
                    label |-> "[program]", mmio |-> FALSE]}
    /\ mmio_cbs = {} /\ pend = NoLoop /\ ret = "ok"
    /\ fd = [i \in Fds |-> Closed]
    /\ shm = <<>>
    /\ brk_address = BrkStart
    /\ call = NoCall
    /\ sysret = "ok"

PosixNext ==
    \/ \E a \in 0 .. MemUbound - 1, n \in Lens : a + n <= MemUbound /\
          \/ \E p \in Prots, fl \in MmapFlags, i \in Fds :
                Mmap(a, n, p, fl, i)
          \/ Munmap(a, n)
          \/ \E p \in Prots : Mprotect(a, n, p)
    \/ MmapUnmap
    \/ MmapMap
    \/ MmapProtect
    \/ \E a \in 0 .. MemUbound : Brk(a)
    \/ \E i \in Fds : Close(i) \/ \E f \in Files : Open(i, f)
    \/ \E k \in Keys, n \in ShmSizes, m \in Modes, fl \in SUBSET {"CREAT", "EXCL"} :
          Shmget(k, n, m, fl)
    \/ \E id \in 1 .. SHMMNI, a \in 0 .. MemUbound - 1,
          fl \in SUBSET {"RDONLY", "RND"} : Shmat(id, a, fl)
    \/ \E a \in 0 .. MemUbound - 1 : Shmdt(a)

PosixSpec == PosixInit /\ [][PosixNext]_pvars

-----------------------------------------------------------------------------
(* The state of the calls is well formed, and a loop belongs to a call. *)
PosixTypeOK ==
    /\ fd \in [Fds -> [name : Files \cup {NoFile}, shared : BOOLEAN]]
    /\ \A id \in DOMAIN shm :
          /\ shm[id].key \in Keys /\ shm[id].mode \in Modes
          /\ shm[id].size % PageSize = 0
          /\ ToSet(shm[id].attach) \subseteq Addr
    /\ brk_address \in Addr /\ brk_address % PageSize = 0
    /\ sysret \in {"ok", "error", "raised"}
    /\ call = NoCall => pend = NoLoop

(* While the program runs, the list of entries and Unicorn describe the     *)
(* same addresses, whatever calls it makes and between the steps of a fixed *)
(* mmap: the calls that drive the two apart all end the emulation.          *)
AgreeWhileRunning ==
    sysret # "raised" => UcDescribed /\ EntriesBacked

(* The state of the calls is well formed and the two descriptions of memory *)
(* agree while the program runs.                                            *)
MapSound == PosixTypeOK /\ AgreeWhileRunning

(* What the list says of an address: nothing, or permissions and label. *)
View(M, a) == {[perms |-> e.perms, label |-> e.label] :
                  e \in {f \in M : f.lo <= a /\ a < f.hi}}

(* How an mmap may end.  When it returns, its range has the permissions     *)
(* asked for, every other address is as it was before the call, and a range *)
(* that was not to be replaced was free.  When it fails, nothing is lost    *)
(* outside the range of a fixed mapping, and nothing at all otherwise.  And *)
(* once it has its range no exception ends the emulation: none of the       *)
(* ranges it unmaps, maps or protects is refused, which rests on            *)
(* AgreeWhileRunning and on all entries ending at pages.                    *)
MmapExact ==
    \A a \in Addr :
        IF a \in CallRange
        THEN /\ {v.perms : v \in View(map_info', a)} = {SupportedPerms(call.prot)}
             /\ "FIXED" \notin call.flags => View(call.before, a) = {}
        ELSE View(map_info', a) = View(call.before, a)

FailedMmapLoses ==
    \A a \in Addr :
        View(map_info', a) # View(call.before, a)
            => "FIXED" \in call.flags /\ a \in CallRange

MmapOutcome ==
    [][(call # NoCall /\ (call' = NoCall \/ sysret' = "raised")) =>
          /\ sysret' = "ok" => MmapExact
          /\ sysret' = "error" => FailedMmapLoses
          /\ sysret' = "raised" => call.lo = call.hi]_pvars
=============================================================================
