---------------------------- MODULE LinuxThreads ----------------------------
(***************************************************************************)
(* The threads of an emulated Linux program (qiling/os/linux/thread.py,    *)
(* futex.py, posix/syscall/sched.py, futex.py, unistd.py).                 *)
(*                                                                         *)
(* Every thread is a gevent greenlet, and all of them share one Unicorn    *)
(* engine: one set of registers and one memory.  A greenlet keeps control  *)
(* from the moment it is switched to until it sleeps or waits inside its   *)
(* sched_cb.  Its turn is:                                                 *)
(*                                                                         *)
(*   Start / Continue   the loop of _run down to emu_start                 *)
(*   a system call, EmuReturns or EmuRaises             ("emu")            *)
(*   CallSchedCb        save, then the sched_cb that was set ("suspended") *)
(*                                                                         *)
(* after which it has yielded, is blocked on an event, or (exit) goes on   *)
(* to the check at the bottom of the loop.  A thread is "done" when it     *)
(* left the loop and ran _on_stop, "dead" when an exception took it out of *)
(* _run.  The guest is arbitrary.                                          *)
(***************************************************************************)
EXTENDS Integers, Sequences, SequencesExt

CONSTANTS
    Threads,     \* the thread objects a run creates
    Main,        \* thread_management.main_thread
    None,        \* no address
    Addrs,       \* the words used as futexes and thread id addresses
    Bits,        \* the bits of FUTEX_BITSET_MATCH_ANY
    Bitsets,     \* the bit sets guests pass
    Numbers,     \* how many waiters guests wake
    FlagSets     \* the flags guests pass to clone

ASSUME ThreadsAssumption ==
    /\ Main \in Threads /\ None \notin Addrs
    /\ Bitsets \subseteq SUBSET Bits
    /\ Numbers \subseteq Nat
    /\ FlagSets \subseteq
          SUBSET {"SETTLS", "SETTID", "CHILD_CLEARTID"}

VARIABLES
    phase,       \* where the greenlet of a thread is
    status,      \* "RUNNING" or "TERMINATED"
    sched_cb,    \* the callback set for the end of the turn
    wakes,       \* the waiters the callback of a futex_wake will notify
    event,       \* is the event of a thread's current wait set?
    clear_child_tid,
    saved_context,
    regs,        \* the registers of the engine
    cur_thread,
    threads,     \* thread_management.threads
    wait_list,   \* the queue of waiters of each address
    mem          \* the words

vars == <<phase, status, sched_cb, wakes, event, clear_child_tid,
          saved_context, regs, cur_thread, threads, wait_list, mem>>

(* Of the program counter only whether it is the exit point matters, of the *)
(* other registers whose they are.                                          *)
Registers == [thread : Threads, tls : Threads, pc : {"code", "exit"}]

Unsaved == [pc |-> "unsaved"]

MATCH_ANY == Bits

(* The greenlet that has control; the hub switches when none has. *)
InControl == {"emu", "suspended", "checking"}

(* joinall returns, or raises what the main thread died of. *)
RunOver == phase[Main] \in {"done", "dead"}

HubRuns == /\ ~ RunOver
           /\ \A t \in Threads : phase[t] \notin InControl

-----------------------------------------------------------------------------
(* QlLinuxFutexManagement *)

Smaller(m, n) == IF m < n THEN m ELSE n

(* The waiters a wake takes from the queue. *)
Taken(a, n) == SubSeq(wait_list[a], 1, Smaller(n, Len(wait_list[a])))

(* Mutant: the waiters notified stay in the queue. *)
RemainingAll(a, n) == wait_list[a]

Remaining(a, n) ==
    SubSeq(wait_list[a], Smaller(n, Len(wait_list[a])) + 1, Len(wait_list[a]))

(* Those of them it notifies: the others are gone from the queue as well.   *)
get_futex_wake_list(a, n, bitset) ==
    {w.thread : w \in {x \in Range(Taken(a, n)) : x.bitset \cap bitset # {}}}

(* The end of a turn: emu_stop was called, or Unicorn returned by itself. *)
Suspend(t, cb) ==
    /\ phase' = [phase EXCEPT ![t] = "suspended"]
    /\ sched_cb' = [sched_cb EXCEPT ![t] = cb]

InGuest(t) == phase[t] = "emu" /\ regs.pc = "code"

futex_wait(t, a, val, bitset) ==
    /\ InGuest(t)
    /\ \/ mem[a] # val            \* -EAGAIN, and the guest goes on
          /\ UNCHANGED vars
       \/ /\ mem[a] = val
          /\ wait_list' = [wait_list EXCEPT
                ![a] = Append(@, [bitset |-> bitset, thread |-> t])]
          /\ event' = [event EXCEPT ![t] = FALSE]
          /\ Suspend(t, "wait")
          /\ UNCHANGED <<status, wakes, clear_child_tid, saved_context, regs,
                         cur_thread, threads, mem>>

(* Mutant: the callback that notifies the waiters is not set. *)
WakeUnscheduled(t, a, n, bitset) ==
    /\ InGuest(t)
    /\ wakes' = [wakes EXCEPT ![t] = get_futex_wake_list(a, n, bitset)]
    /\ wait_list' = [wait_list EXCEPT ![a] = Remaining(a, n)]
    /\ Suspend(t, "default")
    /\ UNCHANGED <<status, event, clear_child_tid, saved_context, regs,
                   cur_thread, threads, mem>>

futex_wake(t, a, n, bitset) ==
    /\ InGuest(t)
    /\ wakes' = [wakes EXCEPT ![t] = get_futex_wake_list(a, n, bitset)]
    /\ wait_list' = [wait_list EXCEPT ![a] = Remaining(a, n)]
    /\ Suspend(t, "notify")
    /\ UNCHANGED <<status, event, clear_child_tid, saved_context, regs,
                   cur_thread, threads, mem>>

-----------------------------------------------------------------------------
(* The other system calls of a thread, and its plain instructions. *)

(* Mutant: the registers of the parent are not restored. *)
CloneUnrestored(t, child, flags, tidptr) ==
    LET childs == [thread |-> child, pc |-> "code",
                   tls |-> IF "SETTLS" \in flags THEN child ELSE regs.tls]
    IN  /\ InGuest(t) /\ phase[child] = "none"
        /\ phase' = [phase EXCEPT ![child] = "spawned", ![t] = "suspended"]
        /\ sched_cb' = [sched_cb EXCEPT ![t] = "default"]
        /\ threads' = threads \cup {child}
        /\ regs' = childs
        /\ saved_context' = [saved_context EXCEPT ![child] = childs]
        /\ UNCHANGED <<status, wakes, event, cur_thread, wait_list, mem,
                       clear_child_tid>>

(* clone with CLONE_VM: the registers are put together for the child in the *)
(* engine and saved for it, then the parent's are restored.  The child's    *)
(* thread id stands at child_tidptr (and parent_tidptr) as a 1.             *)
clone(t, child, flags, tidptr) ==
    LET childs == [thread |-> child, pc |-> "code",
                   tls |-> IF "SETTLS" \in flags THEN child ELSE regs.tls]
    IN  /\ InGuest(t) /\ phase[child] = "none"
        /\ phase' = [phase EXCEPT ![child] = "spawned", ![t] = "suspended"]
        /\ sched_cb' = [sched_cb EXCEPT ![t] = "default"]
        /\ threads' = threads \cup {child}
        /\ mem' = IF "SETTID" \in flags THEN [mem EXCEPT ![tidptr] = 1] ELSE mem
        /\ clear_child_tid' = IF "CHILD_CLEARTID" \in flags
                              THEN [clear_child_tid EXCEPT ![child] = tidptr]
                              ELSE clear_child_tid
        /\ saved_context' = [saved_context EXCEPT ![child] = childs]
        /\ UNCHANGED <<status, wakes, event, regs, cur_thread, wait_list>>

(* exit and exit_group are the same code. *)
exit(t) ==
    /\ InGuest(t)
    /\ Suspend(t, "exit")
    /\ UNCHANGED <<status, wakes, event, clear_child_tid, saved_context, regs,
                   cur_thread, threads, wait_list, mem>>

(* The guest stores to a word. *)
Store(t, a, val) ==
    /\ InGuest(t) /\ mem[a] # val
    /\ mem' = [mem EXCEPT ![a] = val]
    /\ UNCHANGED <<phase, status, sched_cb, wakes, event, clear_child_tid,
                   saved_context, regs, cur_thread, threads, wait_list>>

(* emu_start returns: 31337 instructions are over, the guest gave way       *)
(* (sched_yield, nanosleep, an unsupported futex operation), or it has come *)
(* to the exit point, where a thread that starts there is at once.          *)
EmuReturns(t) ==
    /\ phase[t] = "emu"
    /\ \E p \in {regs.pc, "exit"} : regs' = [regs EXCEPT !.pc = p]
    /\ Suspend(t, "default")
    /\ UNCHANGED <<status, wakes, event, clear_child_tid, saved_context,
                   cur_thread, threads, wait_list, mem>>

-----------------------------------------------------------------------------
(* QlLinuxThreadManagement *)

Terminate(ts) ==
    /\ status' = [t \in Threads |-> IF t \in ts THEN "TERMINATED" ELSE status[t]]
    /\ threads' = threads \ ts

(* "Exit the world" with the main thread. *)
stop_thread(t) == Terminate(IF t = Main THEN threads \cup {t} ELSE {t})

(* stop, "Stop the world", as ql.stop calls it from a hook of the user. *)
stop(t) ==
    /\ InGuest(t)
    /\ Terminate(threads)
    /\ Suspend(t, "default")
    /\ UNCHANGED <<wakes, event, clear_child_tid, saved_context, regs,
                   cur_thread, wait_list, mem>>

(* emu_start raises and the greenlet dies of it: nothing is saved, there is *)
(* no sched_cb and no _on_stop.  It is an error of Unicorn's, after which   *)
(* the thread is still registered and said to be running, or the exception  *)
(* of a hook, for which ql.stop was called first.                           *)
EmuRaises(t) ==
    /\ InGuest(t)
    /\ phase' = [phase EXCEPT ![t] = "dead"]
    /\ Terminate({}) \/ Terminate(threads)
    /\ UNCHANGED <<sched_cb, wakes, event, clear_child_tid, saved_context, regs,
                   cur_thread, wait_list, mem>>

-----------------------------------------------------------------------------
(* QlLinuxThread._run *)

SetEvents(ts) == event' = [t \in Threads |-> event[t] \/ t \in ts]

(* save, then the callback: gevent.sleep, the notifications and a sleep,    *)
(* event.wait, or stop_thread.                                              *)
CallSchedCb(t) ==
    /\ phase[t] = "suspended"
    /\ saved_context' = [saved_context EXCEPT ![t] = regs]
    /\ \/ /\ sched_cb[t] \in {"default", "notify"}
          /\ SetEvents(IF sched_cb[t] = "notify" THEN wakes[t] ELSE {})
          /\ phase' = [phase EXCEPT ![t] = "yielded"]
          /\ UNCHANGED <<status, threads>>
       \/ /\ sched_cb[t] = "wait"
          /\ phase' = [phase EXCEPT ![t] = "blocked"]
          /\ UNCHANGED <<event, status, threads>>
       \/ /\ sched_cb[t] = "exit"
          /\ stop_thread(t)
          /\ phase' = [phase EXCEPT ![t] = "checking"]
          /\ UNCHANGED event
    /\ wakes' = [wakes EXCEPT ![t] = {}]
    /\ UNCHANGED <<sched_cb, clear_child_tid, regs, cur_thread, wait_list, mem>>

(* Mutant: nobody is notified of the end of the thread. *)
OnStopSilent(t) ==
    /\ phase' = [phase EXCEPT ![t] = "done"]
    /\ mem' = [a \in Addrs |-> IF a = clear_child_tid[t] THEN 0 ELSE mem[a]]
    /\ clear_child_tid' = [clear_child_tid EXCEPT ![t] = None]
    /\ UNCHANGED <<status, sched_cb, wakes, event, cur_thread, threads,
                   wait_list>>

(* CLONE_CHILD_CLEARTID: the word is cleared and one waiter notified. *)
_on_stop(t) ==
    LET a == clear_child_tid[t] IN
    /\ phase' = [phase EXCEPT ![t] = "done"]
    /\ \/ /\ a = None
          /\ UNCHANGED <<mem, wait_list, event>>
       \/ /\ a # None
          /\ mem' = [mem EXCEPT ![a] = 0]
          /\ SetEvents(get_futex_wake_list(a, 1, MATCH_ANY))
          /\ wait_list' = [wait_list EXCEPT ![a] = Remaining(a, 1)]
    /\ clear_child_tid' = [clear_child_tid EXCEPT ![t] = None]
    /\ UNCHANGED <<status, sched_cb, wakes, cur_thread, threads>>

(* The top of the loop: the thread's context is restored and it runs. *)
LoopTop(t, context) ==
    /\ status' = [status EXCEPT ![t] = "RUNNING"]
    /\ cur_thread' = t
    /\ regs' = context
    /\ sched_cb' = [sched_cb EXCEPT ![t] = "default"]
    /\ phase' = [phase EXCEPT ![t] = "emu"]
    /\ UNCHANGED <<wakes, event, clear_child_tid, threads, wait_list, mem>>

(* The hub runs a new greenlet: _run sets the program counter, whoever's    *)
(* registers these are, and saves them if the thread has no context.        *)
Start(t) ==
    LET here == [regs EXCEPT !.pc = "code"]
        context == IF saved_context[t] = Unsaved THEN here ELSE saved_context[t]
    IN  /\ HubRuns /\ phase[t] = "spawned"
        /\ saved_context' = [saved_context EXCEPT ![t] = context]
        /\ \/ status[t] = "TERMINATED" /\ _on_stop(t) /\ regs' = here
           \/ status[t] # "TERMINATED" /\ LoopTop(t, context)

(* Mutant: the status is not looked at again after the callback. *)
OverAtExit(t) == regs.pc = "exit"

(* The check after sched_cb reads the registers as the last thread that ran *)
(* left them.                                                               *)
Over(t) == status[t] = "TERMINATED" \/ regs.pc = "exit"

(* A thread goes on after its sched_cb: when the hub switches back to it,   *)
(* or at once after an exit.                                                *)
Continue(t) ==
    /\ \/ phase[t] = "checking"
       \/ HubRuns /\ phase[t] = "yielded"
       \/ HubRuns /\ phase[t] = "blocked" /\ event[t]
    /\ \/ Over(t) /\ _on_stop(t) /\ UNCHANGED <<regs, saved_context>>
       \/ ~ Over(t) /\ LoopTop(t, saved_context[t]) /\ UNCHANGED saved_context

-----------------------------------------------------------------------------
(* run: the main thread is spawned and joined. *)
Init ==
    /\ phase = [t \in Threads |-> IF t = Main THEN "spawned" ELSE "none"]
    /\ status = [t \in Threads |-> "RUNNING"]
    /\ sched_cb = [t \in Threads |-> "default"]
    /\ wakes = [t \in Threads |-> {}]
    /\ event = [t \in Threads |-> FALSE]
    /\ clear_child_tid = [t \in Threads |-> None]
    /\ saved_context = [t \in Threads |-> Unsaved]
    /\ regs = [thread |-> Main, tls |-> Main, pc |-> "code"]
    /\ cur_thread = Main
    /\ threads = {Main}
    /\ wait_list = [a \in Addrs |-> <<>>]
    /\ mem = [a \in Addrs |-> 0]

Syscall(t) ==
    \/ \E a \in Addrs, val \in {0, 1}, b \in Bitsets : futex_wait(t, a, val, b)
    \/ \E a \in Addrs, n \in Numbers, b \in Bitsets : futex_wake(t, a, n, b)
    \/ \E child \in Threads, flags \in FlagSets, a \in Addrs :
          clone(t, child, flags, a)
    \/ exit(t)

Scheduling(t) == EmuReturns(t) \/ EmuRaises(t) \/ CallSchedCb(t)
                 \/ Start(t) \/ Continue(t)

Next == \E t \in Threads :
            \/ Syscall(t)
            \/ \E a \in Addrs, val \in {0, 1} : Store(t, a, val)
            \/ stop(t)
            \/ Scheduling(t)

(* emu_start returns or raises after 31337 instructions at the latest, the  *)
(* hub of gevent switches to the greenlets that are ready in turn.          *)
Fairness == \A t \in Threads :
                /\ WF_vars(EmuReturns(t) \/ EmuRaises(t))
                /\ WF_vars(CallSchedCb(t))
                /\ SF_vars(Start(t)) /\ SF_vars(Continue(t))

Spec == Init /\ [][Next]_vars /\ Fairness

-----------------------------------------------------------------------------
(* Contexts, queues and callbacks are well formed. *)
TypeOK ==
    /\ phase \in [Threads -> {"none", "spawned", "emu", "suspended", "checking",
                              "yielded", "blocked", "done", "dead"}]
    /\ status \in [Threads -> {"RUNNING", "TERMINATED"}]
    /\ sched_cb \in [Threads -> {"default", "notify", "wait", "exit"}]
    /\ wakes \in [Threads -> SUBSET Threads]
    /\ event \in [Threads -> BOOLEAN]
    /\ clear_child_tid \in [Threads -> Addrs \cup {None}]
    /\ saved_context \in [Threads -> Registers \cup {Unsaved}]
    /\ regs \in Registers
    /\ cur_thread \in Threads
    /\ threads \subseteq Threads
    /\ wait_list \in [Addrs -> Seq([bitset : SUBSET Bits, thread : Threads])]
    /\ mem \in [Addrs -> {0, 1}]

(* In the Unicorn context there is one thread, it is cur_thread (which the  *)
(* system calls act upon), and the registers and the TLS are its own, after *)
(* any number of switches and of clones by others.                          *)
OwnContext ==
    \A t \in Threads : phase[t] \in {"emu", "suspended"} =>
        /\ cur_thread = t /\ regs.thread = t
        /\ \A u \in Threads \ {t} : phase[u] \notin InControl

(* The state is well formed and the engine holds the registers of the       *)
(* thread that has control.                                                 *)
ContextsSound == TypeOK /\ OwnContext

(* The TLS of a thread, once it has one, is changed by nobody. *)
TlsKept ==
    [][\A t \in Threads : saved_context[t] # Unsaved =>
          saved_context'[t].tls = saved_context[t].tls]_vars

Queued(t) == \E a \in Addrs : \E i \in DOMAIN wait_list[a] :
                wait_list[a][i].thread = t

(* A thread that waits for its event is in the queue of a futex, or a wake  *)
(* that took it from there is about to set the event: no waiter is lost.    *)
NoLostWaiter ==
    \A t \in Threads : (phase[t] = "blocked" /\ ~ event[t]) =>
        Queued(t) \/ \E u \in Threads : phase[u] = "suspended" /\ t \in wakes[u]

(* Only threads that wait are in a queue, each in one place: a wake is not  *)
(* spent on a thread that has gone on or has ended.                         *)
QueuedOnce ==
    /\ \A t \in Threads : Queued(t) =>
          /\ ~ event[t]
          /\ phase[t] = "blocked" \/ (phase[t] = "suspended" /\ sched_cb[t] = "wait")
    /\ \A a, b \in Addrs : \A i \in DOMAIN wait_list[a], j \in DOMAIN wait_list[b] :
          wait_list[a][i].thread = wait_list[b][j].thread => a = b /\ i = j

(* When a thread ends by exit, at the exit point or because the world was   *)
(* stopped, the word it was created with CLONE_CHILD_CLEARTID for is        *)
(* cleared and the first that waits for it is notified.  One that dies of   *)
(* an exception leaves its word as it is and nobody is notified.            *)
EndClearsTid ==
    [][\A t \in Threads :
         (phase[t] # "done" /\ phase'[t] = "done" /\ clear_child_tid[t] # None) =>
            LET a == clear_child_tid[t] IN
            /\ mem'[a] = 0
            /\ wait_list[a] # <<>> => event'[Head(wait_list[a]).thread]]_vars

(* A waiter that a wake or the end of a thread took from its queue goes on, *)
(* unless the run is over before.                                           *)
WokenRuns ==
    \A t \in Threads :
        (phase[t] = "blocked" /\ ~ Queued(t))
            ~> (phase[t] # "blocked" \/ RunOver)

(* When the world is stopped and the main thread is not in a futex wait,    *)
(* the run comes to its end.                                                *)
StopEndsRun ==
    (status[Main] = "TERMINATED" /\ phase[Main] # "blocked")
        ~> RunOver
=============================================================================
