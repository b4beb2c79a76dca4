# TLA+ specifications of Qiling

Qiling (`qiling/`) is a binary emulation framework: Python code around the
Unicorn engine that loads a program for one of a dozen operating systems,
answers its system calls and lets its user hook every event. Unicorn executes
instructions; everything that makes the program believe it runs on its own
machine is Qiling's, and much of it is state kept *beside* the engine's: the list
of mapped ranges beside Unicorn's regions, tables of hooks beside Unicorn's
hooks, saved registers of threads beside the one register file.

These modules model that state, component by component, and check with TLC and
prove with TLAPS that the two sides keep agreeing, or show where they do not.

## Contents

1. [Parts of the system](#parts-of-the-system)
2. [Plan](#plan)
3. [Modules](#modules)
4. [Runs](#runs)
5. [Where code and documentation disagree](#where-code-and-documentation-disagree)
6. [Proofs](#proofs)
7. [What is not modelled](#what-is-not-modelled)
8. [Running the checks](#running-the-checks)

## Parts of the system

`PROJECT.json` lists all parts with their files, and the hazards of each at the
line where they bite. The parts with state and operations of their own:

| Part | State | Operations | What makes it correct | Status |
|---|---|---|---|---|
| Memory manager (`os/memory.py`, `QlMemoryManager`) | `map_info`, `mmio_cbs`; Unicorn's regions | map, map_anywhere, map_mmio, unmap, unmap_between, unmap_all, protect, change_mapinfo; the queries is_available, is_mapped, find_free_space | the list never claims an address twice, claims what Unicorn has mapped and nothing else, and the queries answer for it | modelled (contents left out) |
| Heap (`os/memory.py`, `QlMemoryHeap`) | `chunks`, `mem_alloc`, two counters | alloc, free, clear, save, restore | chunks in use share no byte and lie in memory mapped for the heap | modelled |
| Hooks (`core_hooks.py`) | three tables of lists, three of handles; Unicorn's hooks | ql_hook and its variants, hook_del, clear_hooks, clear_ql_hooks; dispatch of seven kinds of events | one Unicorn hook per key in use; a dispatch calls the matching hooks once each, in order | modelled |
| Linux threads (`os/linux/thread.py`, `futex.py`, `os/posix/syscall/sched.py`) | greenlets, status, `sched_cb`, saved contexts, futex queues; one register file | the loop of a thread, clone, futex wait and wake, exit, stop | a thread runs with its own registers; a waiter is woken by whoever took it from the queue; a stopped world ends | modelled (fork left out) |
| POSIX memory calls (`os/posix/syscall/mman.py`, brk of `unistd.py`) | the memory manager's, the files behind mappings, the break | mmap, munmap, mprotect, brk | a call does what it returns; one that fails loses no more than the range it was told to replace | modelled on `MemoryManager` |
| System V shared memory (`shm.py`) | segments by key, attachments | shmget, shmat, shmdt | segments live in the same map without breaking it | modelled (permissions of one user) |
| Windows threads (`os/windows/thread.py`) | list of threads, identifiers, time slice, waits; one register file | the scheduler in the code hook, CreateThread, the waits, ShellExecute, ends of threads and process | as for Linux threads; an ended thread gives way | modelled |
| UEFI events, protocols and modules (`os/uefi/bs.py`, `utils.py`, `loader/pe_uefi.py`) | events, `notify_list`, protocols, modules to execute and unload; the guest's stack | create, signal, close, register; install and uninstall; the hook that calls notifications; the end-of-execution trap | every queued notification is called, in order, and the stack is as it was | modelled |
| MultiTask (`extensions/multitask.py`) | tasks, greenlets, pool threads, the run lock, flags, count | task_create, task_exit, tasks_start, tasks_stop, emu_stop | one thread in the machine; a stop ends the round and keeps the tasks | modelled |
| MCU, interrupt controller (`arch/cortex_m.py`, `hw/intc/cm_nvic.py`, `hw/misc/cm_scb.py`, `hw/timer/cm_systick.py`, `os/mcu/mcu.py`) | enabled lines, queued requests, priorities, masks, SysTick; two stacks | enable, disable, request, step, entry to and return from handlers | requests are taken by priority, all of them; the thread resumes where it was | modelled (slow mode) |
| Snapshots (`core.py` save, restore) | everything, by part | save, restore | what is saved is restored | the parts' own only |
| System V message queues (`msg.py`) | keys, queues | msgget, msgsnd, msgrcv | a message is received once or stays | not modelled |
| Sanitized heap (`extensions/sanitizers/heap.py`) | canaries, hooks on chunks | alloc, free, validate | an access outside a live chunk is reported | not modelled |
| EVM journal (`arch/evm/db/journal.py`) | current values, changesets, checkpoints | record, discard, commit, clear | a stack of maps | third-party copy |
| gdb server (`debugger/gdb`) | breakpoints, last stop | continue, step, insert, remove | the program stops at a breakpoint | not modelled |

How they interact. A system call or an API call of the emulated program arrives
as a Unicorn event, is *dispatched by the hooks* and handled by code that maps
memory (memory manager), allocates (heap) or ends the turn of a thread
(`emu_stop`, then `sched_cb`). Callbacks run inside the dispatch, so they change
the very tables the dispatcher iterates over. An exception in a callback is kept
and raised by `emu_start` after Unicorn has returned. Linux threads are gevent
greenlets: only one runs, and control changes hands only inside a `sched_cb`.
Windows threads have no host thread at all: a code hook saves and restores the
registers between two instructions. MultiTask has greenlets *and* a pool of host
threads, with a lock around the engine. UEFI notifications and Cortex-M handlers
run on the guest's own stack, called from a hook and from inside the controller's
step, and may come back to the same code before it is done.

What is hard, and hardly reached by the tests (which run whole programs): the
order of steps across greenlets; callbacks that change what is being iterated;
two books about the same memory when the engine refuses the second half of an
operation; sizes and ranges of zero and at page ends; and objects saved by
reference.

## Plan

Modelled first, because every other part rests on them: the memory manager, the
heap, the hooks and the Linux threads. Then the parts that compose them or run
several flows of control on one engine: the POSIX memory calls and shared memory
on the memory manager, Windows threads, UEFI events, MultiTask, and the Cortex-M
with its interrupt controller.

What is left, in this order:

1. **Proofs.** Every safety property of the passing runs is proved. What remains is
   to state more than the runs do: a refinement of `PosixMemory` to an address space
   with one set of pages, and of the futex queues to a set of waiters.
2. **Snapshot**: `Qiling.save` and `restore` over abstract parts, with the keys as
   the code writes and reads them (a part saved under one key and looked up under
   another is silently left out; descriptors are saved by reference).
3. A guest mutex and a join on futexes composed with `LinuxThreads`, and the
   blocking calls of the message queues on the same threads.
4. The fast mode of the MCU, which is `MultiTask` with the peripherals as a task.

## Modules

| Module | Models | Kind |
|---|---|---|
| `MemoryManager` | `QlMemoryManager` | component |
| `Allocator` | what callers of a heap rely on | abstract specification |
| `MemoryHeap` | `QlMemoryHeap`, shown to implement `Allocator` | component |
| `CoreHooks` | `QlCoreHooks`, the dispatchers, `emu_start`'s exceptions | component |
| `LinuxThreads` | `QlLinuxThread`, its management, the futexes and the system calls that yield | component |
| `PosixMemory` | mmap, munmap, mprotect, brk, shmget, shmat, shmdt; extends `MemoryManager` | composition |
| `WindowsThreads` | `QlWindowsThreadManagement`, the waits, the ends of threads | component |
| `UefiEvents` | the notification hook, the event and protocol services, the loader's trap, on the guest's stack | composition |
| `MultiTask` | `MultiTaskUnicorn` and its tasks | component |
| `CortexM` | the main loop, the controller, SysTick, handlers | composition |
| `MC...` | instances for TLC | model |
| `MemoryManagerProofs` (also of `PosixMemory`), `MemoryHeapProofs`, `CoreHooksProofs`, `LinuxThreadsProofs`, `WindowsThreadsProofs`, `UefiEventsProofs`, `MultiTaskProofs`, `CortexMProofs` | theorems | proofs |

`PROJECT.json` maps each definition to the lines it models. Definitions whose
comment begins with "Mutant:" are deliberate faults, used to confirm that a
property can fail; no specification uses them.

### MemoryManager

`map_info` is the set of entries (`lo`, `hi`, permissions, label, MMIO), whose
list order is `EntryLeq`; `uc` is the set of Unicorn's regions, `mmio_cbs` the
table of callbacks keyed by range. Addresses are bytes, ranges half open.

An operation is one action, except the loops of `unmap_between` and `unmap_all`,
which take one step per range (`UnmapNext`): each turn may be refused by Unicorn,
and the exception leaves the remaining ranges alone. `ret` tells how the last
operation ended: "ok", "logged" (an error is logged and the call returns) or the
exception. The order inside an operation is the code's: `UnmapAt` deletes from
the list first and asks Unicorn second, `Protect` the other way round.
`del_mapinfo`, the splitting of overlapped entries, `align`, `find_free_space`
and the queries are operators over the same state.

`map_mmio` gives Unicorn wrappers for both accesses whatever callbacks there are, so
an MMIO region grants read and write (`UcPerms`) while its entry shows only the accesses
that have a callback.

Unicorn is external: it refuses unaligned ranges, mapping over a mapping, and
unmapping or protecting over a hole (`UcArgsOk`, `UcMapOk`, `UcUnmapOk`).

### Allocator and MemoryHeap

`Allocator` has a set `live` of blocks: `Allocate(n)` adds one of at least `n`
bytes that shares none with the others, `Release` ends one. `MemoryHeap` keeps the
code's `chunks` in order, the counters `current_alloc` and `current_use`, the
regions `mem_alloc`, and the set of mapped addresses, part of which belongs to
others (`Foreign`). `alloc` recycles the smallest fitting free chunk, or appends
one, growing the mapping when `current_use` would exceed `current_alloc`. The
mapping between the two: `live` is the set of the chunks in use.

`save` stores the two lists themselves and the values of the counters, so `saved`
holds the counters only; `restore` leaves the lists as they are.

### CoreHooks

`tab` is the list of hooks of each key of the three tables, `handle` the keys with
a Unicorn handle, `uc_hooks` the number of Unicorn hooks that really dispatch a
key. `disp` holds the local variables of the dispatcher under way: key, event,
index, and the list it iterates over when the table was replaced under it
(`kept`). A dispatch is `Event`, then a turn of the loop (`CallHook` or
`SkipHook`), whatever the callback calls (`ql_hook`, `hook_del`, `clear_hooks`,
and `clear_ql_hooks` for an execve, which leaves Unicorn's hooks in place),
`CallbackReturns` with nothing, `QL_HOOK_BLOCK` or an exception, and `LoopEnds`.
Seven kinds of dispatchers differ in the test for a match and in whether an
unhandled event is an error. The loop is Python's iteration over the live list,
which is an index that advances: deleting before it skips an element.

### LinuxThreads

One register file `regs` (whose registers, whose TLS, at the exit point or not),
one `cur_thread`; for each thread the place of its greenlet (`phase`), status,
`sched_cb`, saved context, event and `clear_child_tid`. A turn of a thread:

    Start / Continue -> emu -> system call or EmuReturns -> suspended
      -> CallSchedCb -> yielded | blocked | (exit) checking -> Continue
                     -> EmuRaises -> dead

`HubRuns` says that gevent switches only when no greenlet has control. The guest
is arbitrary: in `emu` it may store, wait, wake, clone, exit, run on, or reach the
exit point, and a user's hook may stop the world. `EmuRaises` is the `except` of `_run`
and what it does not catch: the greenlet dies where it is, without `save`, `sched_cb` or
`_on_stop`; after an error of Unicorn's the thread stays registered, after the exception of a
hook the world was stopped first. The run is over when the main thread is done or dead
(`RunOver`). `wakes` holds the waiters a
`futex_wake` has taken from the queue until its `sched_cb` sets their events.

### PosixMemory

The state of `MemoryManager` plus the open files (`fd`, with what the last mmap
noted in them), the table of segments (`shm`), the break and the mmap under way.
munmap, mprotect, brk and the shm calls are one action each: they call the memory
manager once or twice and pass on what it raises. mmap is several: the argument
checks, the unmapping of what a fixed mapping replaces (one range per step, with
`UnmapNext` of the memory manager), the descriptor, the mapping, the protection.
`CallOutcome` ends a call: an exception of the memory manager that the handler does
not catch ends the emulation. `Labels` are the texts the handlers write into the
list, because munmap finds the file behind a mapping by its label.

### WindowsThreads

`regs` and the `saved` contexts say whose registers they are and how far that thread
has come (`n`, compared with `done`). One step of the machine is the code hook
followed by an instruction: `Schedule` when the hook switches (and blocks the other
hooks of the address), otherwise an instruction, an API call or the return of the
thread's function. `NeedSchedule`, `Candidate` and `Switch` are the parts of
`do_schedule`: it looks for the next thread by an identifier taken modulo the number
of threads. `Process` and `Mutex` are the other objects a wait can name.

### UefiEvents

`mem`, `sp`, `pc` are the stack of the guest: what is at stake is how the notification
hook saves and restores them. Each service of the guest is an action; those that
notify start a drain (`DrainFromHook`), which the hook `__notify_next` continues
(`NotifyNext`, `NotifyDone`). The trap at the end of execution drains (`TrapNotifies`),
executes the next module, unloads images and stops; `frames` remembers, for the properties, which guest
functions are active. `signalled` and `called` are history: what was queued and
what was called, in order.

### MultiTask

Three kinds of flows: the greenlets (`green`), one per task, that restore, spawn a
slice in the pool, wait for it, save and decide (`SliceEnd`); the pool threads (`pool`)
that take the lock, emulate and release it; `tasks_start` (`main`) that spawns the
greenlets, joins them and tries again, with a timer. Hooks stop the machine, exit
and create tasks while a pool thread emulates. Greenlets give way only where they
wait, and pool threads interleave with everything. `pc` says whose program counter the
machine holds (the task last restored or emulated) and `at_end` whether it is at that task's end:
`_reach_end` of a task whose program counter it is not may say either.

### CortexM

`where` is what the emulator is at: the thread, the controller's step, a handler. The
thread and the handlers write the controller's registers, the masks, priorities and
SysTick's (VAL too); the devices queue their lines in any order, which is that of their
creation in the code; a step of the controller takes the requests that were queued when it began
(`batch`), sorted once; `Enter` and the end of a handler move the saved registers to and
from the main or the process stack, as `EXC_RETURN` says. A crash queues a hard fault.

## Runs

Passing runs:

| Run | Instance | Checks |
|---|---|---|
| `memory` | two pages of two bytes; lengths 1, 2, 4 at every address; RAM, and MMIO with a callback for writes only | `ListSound` (types; the list claims no address twice and only what Unicorn has), `QueriesExact` (the queries and find_free_space agree with a definition address by address), `OkKeepsAgreement` (only an operation that raises lets the list and Unicorn differ in addresses), `OkKeepsPerms` (only one that raises or logs an error lets the list show a permission Unicorn does not grant, or, outside MMIO, hide one) |
| `heap` | pages of 4, sizes 1, 3, 5, 7, up to 5 chunks, a foreign page behind the heap | `HeapSound` (types; chunks in use are mapped for the heap), `ImplementsAllocator` (refinement), `LargeEnough` |
| `heap_session` | sizes 1, 4, 6 with clear, save and restore | `SessionSound`: the two invariants stated in the code, and that clear can unmap each noted region |
| `hooks` | six hooks on five keys: three on one list, one on two lists, one on an instruction, one on an interrupt; execve at any moment | `TablesSound`, `NoDoubleCall`, `AllMatchingCalled`, `OneUcHook`, `RemovedNotCalled` (a hook that hook_del found on a list is not called for it any more) |
| `threads` | three threads, two words, wakes of 0, 1 and 2, clone with and without the flags of pthreads, threads that die of exceptions | `ContextsSound`, `NoLostWaiter`, `QueuedOnce`, `TlsKept`, `EndClearsTid` |
| `threads_live` | three threads, one word | `WokenRuns`, `StopEndsRun` (liveness) |
| `posix_memory` | a program of one page, two free pages, a file, a segment | `MapSound` (the list and Unicorn agree while the emulation runs), `MmapOutcome` (mmap does what it returns, or loses no more than the fixed range) |
| `windows_threads` | three threads, slices of two instructions, one process, one mutex | `ContextsSound`, `EndedLeaves`; `RunnableRuns` (liveness) |
| `uefi` | a DXE and an SMM module, two events, two protocols | `StackSound`, `DeliveredInOrder`, `StopClean`; `InstallDelivers`; `QueuedIsCalled` (liveness) |
| `multitask` | two tasks, two calls of tasks_start, count up to 2, a timeout | `SlicesSound`, `CountBounded`, `PreservedOnStop`; `StopReturns` (liveness) |
| `mcu` | two external lines, SysTick, PendSV, SVCall, hard faults, two priorities | `StacksSound`, `TakenByPriority`; `QueuedIsTaken`, `SysTickGoesOn` (liveness) |

Why the bounds are enough to be interesting. *Memory*: splitting an entry in the
middle, at either end, and spanning two entries all need three places between two
ends, which four bytes in two pages have; alignment matters only when a page has
two bytes. *Heap*: five chunks allow a free chunk of each size between used ones, a
recycled chunk larger than asked for and growth over a page end; the last page of
the heap is next to somebody else's. *Hooks*: double calls and stale
handles need two hooks on one list and one that is on two; a third on the list lets a hook
be deleted before, at and behind the index with others left. *Linux threads*: a waker,
a waiter and a third that stops or ends the others; two words let a thread wait on
one while it is notified at the other. *POSIX*: three pages are what a fixed mapping
over a program, a mapping beside it and a hole need; `MaxAttach` bounds the attachments.
*Windows*: with three threads and a process that takes an identifier, an identifier
modulo the number of threads is off by one, where the lookup goes wrong; `Wrap` (the
counter of a thread's instructions) and `TIME_SLICE` are 2, so that a slice ends in the
middle of everything. *UEFI*: two events and a drain in a callback of a drain; the
stack has room for every nesting these can make (`StackDepth`). *MultiTask*: two tasks
contend for the lock, and the second start finds what the first left. *MCU*: lines 0
and 2 lie on either side of what the mask of disabling keeps with `OFFSET` 1; a queue of
two requests (`MaxQueue`), three writes to registers (`MaxWrites`), a reload of at most
one (`MaxLoad`) and one crash (`MaxCrashes`) are enough for a handler to change the order of
what is queued behind it.

Deadlock is checked in the memory, heap and hook runs. The other systems really may
stop (a guest whose threads wait for each other, an emulation that has ended), so
their runs do not check it; the liveness properties say what must not get stuck.

Fairness. *Linux threads*: `emu_start` is called
with a count of 31337 instructions, so it returns or raises, and what follows up to the
callback is code that runs on (weak fairness of `EmuReturns \/ EmuRaises` and of
`CallSchedCb`).
`Start` and `Continue` are enabled only while the hub has control, again and
again; gevent's hub serves its run queue in order, so a greenlet that is ready
each time is switched to (strong fairness). Nothing is assumed of the guest.
*Windows*: the machine goes on executing (weak fairness of the next step). *UEFI*: the
emulator goes on, and a guest function that was called returns. *MultiTask*: host
threads and greenlets that can go on do, and Unicorn stops when it was asked to.
*MCU*: the main loop goes on and handlers end (they are capped at 0xffffff
instructions). The other specifications have only safety properties.

## Where code and documentation disagree

The run `multitask_context` checks `SavesOwnContext`, that a task saves its own
context, as the docstring of `save` says. TLC shows that it may save another's: the
pool thread releases the lock when its slice is over, and the greenlet saves the
registers after that, without the lock. The finding in `PROJECT.json` quotes the line.

Eight more disagreements with a docstring or a comment are known and visible in the
models; the properties of the passing runs are stated so that they hold beside them:

- `unmap` edits the list before Unicorn refuses (a hole, an unaligned range): the
  pages stay mapped but `is_available` says they are free.
- the heap tests its upper bound against memory in use and places the new region
  after memory allocated: it can end up beyond `end_address`.
- a callback that deletes its own hook makes the dispatcher skip the next one.
- a futex wake drops the waiters whose bit set does not match its own
  (`NoWaiterLost` below is proved for bit sets that meet).
- a thread reads the program counter after it gave way and takes another's exit
  point for its own.
- `hook_del` ("Unregister an existing hook") looks for an instruction hook under the
  wrong key and does not find it, so the hook goes on being called, as does a hook of a
  list that `clear_hooks` replaced under a dispatch (`RemovedNotCalled` is about the hooks
  it finds).
- a thread that dies of an exception does not run `_on_stop`, although `thread.py` quotes the
  manual ("When a thread whose clear_child_tid is not NULL terminates"): the word stays, and who waits
  for it is not notified (`EndClearsTid` is about the other ends).
- `_reach_end` compares the machine's program counter without the lock, so a task may
  leave the registry because another one was at that address, against "we preserve all
  threads" (`PreservedOnStop` names this as the third way out).

Other behaviours of the code that a reader may not expect are in the models as
the code has them, without a run of their own:

- `protect` over two adjacent entries changes Unicorn, logs an error and leaves
  the list; `protect` re-adds an MMIO entry as RAM; unmapping a part of an
  MMIO range leaves an entry whose range is no key of `mmio_cbs`; an MMIO range without
  a callback for an access still accepts it, and the wrapper then calls None.
- `protect` of length 0 inside an entry splits it around an empty entry, which stays
  when both halves are unmapped; the queries then disagree with the addresses
  mapped. A fixed mmap over it collects the empty range, and `unmap` of no bytes finds
  no overlap: an IndexError ends the emulation (brk up, mprotect of length 0 in the
  new page, a fixed mmap over that page). So the runs of the memory and of its system calls ask for
  lengths from 1 up, and two theorems below assume it.
- a heap chunk of size 0 shares the address of the next one; `clear` keeps the
  chunks, which are then recycled in memory that is not mapped any more; `restore`
  winds back the counters and not the lists, which `save` keeps by reference.
- a callback that registers a new hook on its own list each time it is called keeps
  the dispatch going for ever; `HookIntr.check` tests the interrupt that occurred, not the hook's, for -1; an
  access that begins before and ends behind a watched range does not match.
- stopping the world does not wake a main thread that waits on a futex (so
  `StopEndsRun` is about a main thread that does not); a thread at its exit point may
  be scheduled again.
- mmap with MAP_FIXED unmaps before it answers EBADF; munmap checks the entry its
  address is in and unmaps the whole range; what mmap notes about a file is kept on
  the file object, so a second mapping overwrites it; shmdt leaves the memory mapped;
  mprotect over two entries returns 0 and leaves the list.
- Windows identifiers are taken for indices, which a process made by ShellExecute (or
  a second Qiling in the same host process) breaks; waiting on a mutex or an event
  raises AttributeError in the scheduler; ExitThread does nothing; the timeout of a
  wait is ignored; a thread created suspended is never resumed; a thread that has
  returned while nobody else can run executes what follows its return address.
- the number of a UEFI event is used again after CloseEvent, and the notification
  queued for a closed event is still called; an event's `Set` is never reset;
  SignalEvent on an event of the SMM table raises TypeError, CheckEvent on an unknown one
  KeyError; unloading an image whose LoadedImage protocol was uninstalled raises.
- MultiTask: the interval of a slice also runs while its pool thread waits for the
  lock and then stops another's slice, or nothing; a stop before `emu_start` is lost; a
  Unicorn error leaves `_running` set; task_exit of a task that never ran makes
  `tasks_start` spawn it for ever; task_exit of the current task stops the others too;
  `tasks_start` joins the greenlet of its timeout, so it returns no earlier than that.
- Cortex-M: disabling an interrupt, or clearing it, masks with `31 ^ bit`; a masked
  request is dropped, not kept; NMI and hard faults take their priority from a
  negative index; clearing a pending interrupt leaves it queued, requesting it twice
  runs its handler twice; reading the pending bits gives the enabled ones; after a
  crash that stops the machine the remaining handlers still run; a hard fault handler
  that crashes is entered again.

## Proofs

All safety properties of the passing runs are theorems, for every value of the
constants that satisfies the named assumptions, which TLC evaluates in the runs:

- `MemoryAssumption`, `PosixAssumption`: lengths, sizes and addresses are natural numbers,
  pages are not empty, the address space ends at a page, and so do the program
  and the start of the mmap area, in this order; `SHMLBA` is a number of pages.
- `HeapAssumption`: the heap starts at a page. `HooksAssumption`: hooks select known keys.
- `ThreadsAssumption`, `WinAssumption`: the main thread is a thread, and what waits name is
  told apart. `TaskAssumption`: finitely many tasks.
- `UefiAssumption`: the modules are listed once each, and the stack has room for the
  first frame. `StackDepth` bounds what is called, in guards; `QueuedIsCalled` shows
  that 20 slots are enough for the run, since a call left out would never come.
- `CortexAssumption`: finitely many lines and levels.

Four theorems have a hypothesis of their own: `QueriesAlwaysExact` and
`MmapAlwaysExact` that no call is given an empty range (`0 \notin Lens`), and `NoWaiterLost`
and `EndingNotifies` that bit sets meet. Each is false without it, as the section above
says. The lemmas are in the same modules, in the order in which they are used.

**Memory manager** (`ListAlwaysSound`, `AgreementKept`, `PermsKept`, `QueriesAlwaysExact`).
That the list never claims an address twice does not follow from the list alone:
`map_mmio` does not look at it before it adds an entry. It follows because
Unicorn refuses to map what it has mapped *and* every entry is backed by Unicorn.
The inductive invariant is thus types, ordered ranges, disjointness and backing
together (`MemInv`), with the ranges of a pending loop being ordered. The proof
goes through what `del_mapinfo` and `Leftovers` do to one address (subtracting a
range removes exactly its addresses), then one step per action. Backing survives
a refused unmap because the list is edited first; that is the good side of the
order that makes `is_available` wrong afterwards.

`PermsKept` compares permissions: what an operation leaves of the list and of Unicorn
are parts of what was there (`PartsOf`), with the permissions of the whole, and two
parts that meet belong to two ranges that met; only the range just mapped or
protected is new, and both sides got the same permissions for it; or it is MMIO, of which the
list shows no more than Unicorn grants (`Granted`).

`QueriesAlwaysExact` is about the list in its order. `EntryLeq` orders entries that are not
empty and not overlapping, and `MapInfoList` puts each at its rank, the number of
entries up to it (`Rank`). From there everything is stated as least and greatest
elements of sets of places, which exist (`LeastNumber`): the run of adjacent entries around an
address, for `is_mapped` and `is_available`, and the first gap that suits, for
`find_free_space`. `Layout`, the hypothesis of these lemmas, is preserved because no operation
makes an empty entry of ranges that are not empty (`NoneEmpty`).

**POSIX memory** (`MapAlwaysSound`, `MmapAlwaysExact`). `PosixInv` adds to `MemInv` the types of
the calls and that, until a call has raised, Unicorn has nothing that is not
listed. Every call is checked to end the emulation on each exception that
could break that; `shmat` and mmap answer QlMemoryMappedError with an error, and it is the
one exception that changes nothing.

For mmap this is strengthened to `MmapInv`. All entries begin and end at pages and
none is empty (`PagesInv`), the call's range is pages of the address space (`RangeInv`),
what a fixed mapping has still to unmap are disjoint parts of entries inside that range
(`TodoInv`), and the list says of every address what it said before the call, unless the
address is in the range and the mapping is fixed or made (`ViewInv`). `TodoInv` survives the
unmapping of another range because `del_mapinfo` keeps the part of an entry on either side
(`DelKeeps`). Then no step is refused: the ranges to unmap are aligned and backed;
what `is_available` calls free (`RangesExact`) is free in Unicorn too, as Unicorn has nothing unlisted; and
the range protected is one entry, the one just made.

**Heap** (`HeapImplementsAllocator`, `HeapAlwaysSound`, `SessionAlwaysSound`,
`AllocatedLargeEnough`).
The invariant says that chunks lie one after the other in creation order and end
at `current_use` (`Consecutive`), which is at most `current_alloc`, and that this
memory is mapped and not foreign. A recycled chunk keeps its place, so disjointness
is a matter of the order alone. The refinement theorem follows step by step: a
recycle or an append is an `Allocate`, a free a `Release`, anything else a stutter.
It holds without clear and restore (`SpecHeap`); with them it is false, since both
leave chunks in the list whose memory is handed out again. What survives them is
`SessionInv`: the counters, live and saved, are whole pages and in order, and the noted
regions are mapped, apart and not foreign. A restore winds the counters back below
regions that exist, so that the regions stay apart only because Unicorn refuses to
map what is mapped.

**Hooks** (`TablesAlwaysSound`, `OneUnicornHook`, `CalledOnce`, `RemovedSilent`,
`MatchingAlwaysCalled`). The invariant `IInv` has four parts: types; a hook is on a list
once, on its own lists only, and then it is registered (`TabInv`); a list that
was replaced under a dispatch holds cleared hooks only (`KeptInv`), and what the
dispatch has called lies behind its index or is off the list (`CalledInv`); a
key has a handle iff it has hooks. `OneUnicornHook` is an action property: every
step but the `clear_ql_hooks` of execve changes handles and Unicorn hooks one for
one, which needs the invariant because `hook_del` counts on a listed hook's key
having a handle. `CalledInv` is what survives the iteration over
a live list: an insertion is at the end, a deletion moves hooks to the front, so
nothing that was called can come up again. That is also why a hook can be skipped,
when one before it is deleted. Without a deletion none is: the calls are then the
matching hooks before the index, in the order of the list (`Progress`), also on a list
that grows at its end or is replaced, and a loop that is over has passed the whole list
(`EndInv`). `RemovedSilent` is about the keys `hook_del` really takes a hook off (`TakenOff`):
not those of instructions, where it does not find it.

**Linux threads** (`LinuxContexts`, `TlsStays`). That the registers are the current
thread's needs, beyond types, that every saved context is its own thread's and exists
from clone on (only the main thread begins without one, when there is no other:
`ContextInv`), and that one greenlet has control, with its TLS in the engine as it was
saved (`TurnInv`).

**Futexes** (`WaitersQueuedOnce`, `NoWaiterLost`, `EndingNotifies`). The queues are an
invariant on top of that (`QueueInv`): a thread is in one place of one queue, and then it
is waiting or about to; those a waker took are in no queue and blocked, while the waker
has control. `Dequeue` says what taking the front of one queue does to all. The last
two theorems assume `MeetingBitsets`, that every two bit sets guests pass have a common
bit, as FUTEX_WAIT and FUTEX_WAKE have; without it the code loses waiters, and the
theorems are false. Under it `LostInv` is inductive: who waits is queued or being woken.
A thread that dies of an exception was in the guest, so it is in no queue and
took nobody from one (`DeadQueues`); `EndingNotifies` is about the ends that run `_on_stop`.

**Windows threads** (`ThreadsKeepContext`, `EndedAlwaysLeaves`). `WinInv` adds to `ContextsSound`
that a thread not yet created has executed nothing. It holds whatever identifiers
ShellExecute takes: the wrong lookup picks a wrong thread, never wrong registers.
`EndedAlwaysLeaves` needs the ids to be indices, modulo the number of threads: then the turns of the
loop are all the other threads (`EveryCandidate`), so that a loop that finds nobody has
seen everybody. `PastInv` says that a thread once behind its return address stays the
only one and that its registers are never saved to be resumed.

**UEFI** (`StackAlwaysSound`, `AlwaysDeliveredInOrder`, `StopsClean`, `InstallAlwaysDelivers`).
`EventInv`: ids and objects of events are not shared and objects are numbered as they
are made, so an event that was queued is set as long as it lives, and is not queued
again. For the stack, `FramesUpto` describes the frames from the bottom up: each begins
with the address of the hook that called it and lies two words and a shadow space above the
one before, whose service left its return address between the two. `Nested` says where the emulator is in
them: in the innermost function, in the hook over it, or in the trap with none left.
The hook numbers are then the depths of the frames, which is why `__notify_next` finds
its own return address again. `StopClean` and `InstallDelivers` follow from it, as the
last callback of a drain is the one that finds the list empty.

**MultiTask** (`SlicesAlwaysSound`, `TasksPreserved`, `CountAlwaysBounded`). `TaskInv`: who is between
taking and releasing the lock holds it, with `_running` set; a greenlet exists only for a
registered task and while `tasks_start` joins; a slice with a stop request
is that of a task task_exit was called for. The action property follows: only a task
is dropped that was asked to exit, that is at its end address, or for which `_reach_end`
looked at another's program counter; no stop, count or timeout drops one. `CountInv` counts: as
long as slices are left, those begun are those counted and those going on; once none is
left, the slices begun and the greenlets that may still begin one are together at
most the count and one for each other task.

**Cortex-M** (`StacksAlwaysSound`, `AlwaysTakenByPriority`). `StackInv`: until a crash there is one level of
handlers, the registers saved are the thread's, on the stack `EXC_RETURN` names. The order of a batch
is kept because what handlers request is queued behind it (`QueueGrows`).

Induction over data is not available to the prover. Where a statement is about a list, it
is put as one about the places of the list, for which the least or greatest place with a property
is enough (`LeastNumber`, `GreatestNumber`): ranks in the list of entries, the order of
calls, the frames of the stack. For the same reason the models state sorting and filtering
by the sequences that are the result (`Sorted`, `Images`, `InOrder`) rather than by a
recursive computation.

Only model-checked: liveness, which needs ENABLED and fairness (`WokenRuns`,
`StopEndsRun`, `RunnableRuns`, `QueuedIsCalled`, `StopReturns`, `QueuedIsTaken`,
`SysTickGoesOn`), and the disagreement shown by `multitask_context`.

## What is not modelled

- *Contents*: bytes of memory, registers other than whose they are, files. The
  memory manager's read, write, search, save and restore have no action.
- *Linux threads*: clone without `CLONE_VM` (a fork of the host process), the
  loader's first run before the main thread is started, robust lists (recorded
  and never used), timeouts of a futex wait (ignored by the code), and an exception of a
  hook of an event whose system call has already ended the turn.
- *POSIX memory*: madvise (writes contents), offsets and contents of files, unaligned
  fixed mappings (QNX), users and rights of segments, SHM_EXEC and huge pages.
- *Windows threads*: thread local storage, critical sections and the state of mutexes
  and events, which no wait looks at. That a switch blocks the later hooks of the
  address is taken as part of the step, not checked.
- *UEFI*: interfaces' values and lookups, memory services, timers (stubs in the code),
  software SMIs, an exhausted heap, the user's callbacks around modules.
- *MultiTask*: `emu_start` called from within a hook, `tasks_save` and `tasks_restore`.
- *MCU*: the fast mode, the bits of pending requests, NMI and the configurable faults (a
  disabled usage fault is dropped), handlers that return to another stack (a guest's
  own context switch), save and restore of peripherals. The saved registers are one
  token: that only the flags of xPSR are taken back from the stack is not told apart.
- *Hooks*: the user's data and return values beyond `QL_HOOK_BLOCK`. The dispatchers
  of addresses and of invalid instructions are in the model, which calls every
  hook of their lists; the runs have no hooks of these two kinds, the proofs cover
  them.
- Handlers that only convert data (most of the Windows API, system information,
  path handling), loaders, the EVM's instruction semantics (taken from py-evm),
  peripherals' registers, the front ends (`qdb`, IDA plugin, tracing, `qltool`).
  `PROJECT.json` gives the reason for each part.

## Running the checks

    tlc -workers 2 -config MCMemory.cfg MCMemory
    tlapm CoreHooksProofs.tla

Every run of `PROJECT.json` names its module and configuration; all finish within
five minutes on two cores.
