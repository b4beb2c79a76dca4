----------------------------- MODULE MultiTask ------------------------------
(***************************************************************************)
(* The multitask engine (qiling/extensions/multitask.py): tasks that share *)
(* one Unicorn machine.                                                    *)
(*                                                                         *)
(* Each task has a greenlet.  Greenlets run in the main thread and give up *)
(* control only where they wait, so what a greenlet does between two waits *)
(* is one step.  The emulation of a slice runs in a thread of gevent's     *)
(* pool, under _run_lock, truly beside the greenlets.  The machine has one *)
(* set of registers.  Of the program counter it matters which task was the *)
(* last to set it and, once the emulation of this task has ended, whether  *)
(* it is the end address of this task; it may be that of any other task.   *)
(* Unicorn forgets a stop that is requested while nothing is emulated.     *)
(***************************************************************************)
EXTENDS Integers, FiniteSets

CONSTANTS
    Tasks,        \* the UnicornTask objects there may be
    Nobody,       \* no task
    MaxCount,     \* bound: the count given to tasks_start
    MaxStarts     \* bound: calls of tasks_start

ASSUME TaskAssumption ==
    /\ Nobody \notin Tasks /\ IsFiniteSet(Tasks) /\ Tasks # {}
    /\ MaxCount \in Nat /\ MaxStarts \in Nat

VARIABLES
    tasks,        \* _tasks: the tasks that are registered
    fresh,        \* the tasks that were never registered
    stop_request, \* _stop_request of each task
    asked,        \* the tasks task_exit was called for
    ctx,          \* _ctx of each task: whose registers were saved, or Nobody
    green,        \* where the greenlet of each task is
    use_count,    \* use_count of each greenlet
    pool,         \* where the pool thread of each task's slice is
    lock,         \* the task whose pool thread holds _run_lock
    running,      \* _running
    uc_stop,      \* Unicorn was asked to stop the emulation going on
    who,          \* whose the registers are
    pc,           \* the task that was last restored or emulated
    at_end,       \* its emulation has ended, at its end address
    cur,          \* _cur_utk_id
    to_stop,      \* _to_stop
    count,        \* _count
    limit,        \* the count tasks_start was given
    slices,       \* the slices emulated since then, when there is a limit
    starts,       \* calls of tasks_start
    main,         \* where tasks_start is
    timer,        \* the greenlet of _timeout_main
    lost          \* the interval of a slice ended before its emulation began

tvars == <<tasks, fresh, stop_request, asked, ctx, green, use_count, pool, lock,
           running, uc_stop, who, pc, at_end, cur, to_stop, count, limit,
           slices, starts, main, timer, lost>>

machine == <<lock, running, uc_stop, who, pc, at_end, slices, lost>>
session == <<limit, starts, main, timer>>
registry == <<tasks, fresh, stop_request, asked>>

Emulating == {t \in Tasks : pool[t] = "emulating"}

-----------------------------------------------------------------------------
(* The pool thread of a slice: _emu_start_locked.                          *)

(* Mutant: the lock is not taken. *)
AcquireUnlocked(t) ==
    /\ pool[t] = "spawned"
    /\ pool' = [pool EXCEPT ![t] = "locked"]
    /\ lock' = t
    /\ running' = TRUE
    /\ UNCHANGED <<registry, ctx, green, use_count, uc_stop, who, pc, at_end,
                   cur, to_stop, count, slices, lost, session>>

Acquire(t) ==
    /\ pool[t] = "spawned" /\ lock = Nobody
    /\ pool' = [pool EXCEPT ![t] = "locked"]
    /\ lock' = t
    /\ running' = TRUE
    /\ UNCHANGED <<registry, ctx, green, use_count, uc_stop, who, pc, at_end,
                   cur, to_stop, count, slices, lost, session>>

(* emu_start forgets an earlier stop and goes to _begin.  The registers of  *)
(* a task that runs for the first time are those it finds.                  *)
EmuStart(t) ==
    /\ pool[t] = "locked"
    /\ pool' = [pool EXCEPT ![t] = "emulating"]
    /\ uc_stop' = FALSE
    /\ who' = IF ctx[t] = Nobody THEN t ELSE who
    /\ pc' = t /\ at_end' = FALSE
    /\ slices' = IF limit > 0 THEN slices + 1 ELSE slices
    /\ UNCHANGED <<registry, ctx, green, use_count, lock, running, cur, to_stop,
                   count, lost, session>>

(* The emulation ends: it was asked to, it got to _end, or it failed, which *)
(* leaves _running as it is.                                                *)
EmuEnd(t) ==
    /\ pool[t] = "emulating"
    /\ pool' = [pool EXCEPT ![t] = "finished"]
    /\ lock' = Nobody
    /\ running' \in BOOLEAN
    /\ pc' = t
    /\ at_end' \in BOOLEAN
    /\ UNCHANGED <<registry, ctx, green, use_count, uc_stop, who, cur, to_stop,
                   count, slices, lost, session>>

(* What a hook of the emulated code calls: emu_stop, which stops the world, *)
(* task_exit of some task, or task_create.                                  *)
HookStop(t) ==
    /\ pool[t] = "emulating"
    /\ uc_stop' = TRUE
    /\ to_stop' = TRUE
    /\ UNCHANGED <<registry, ctx, green, use_count, pool, lock, running, who, pc,
                   at_end, cur, count, slices, lost, session>>

TaskExit(u) ==
    /\ u \in tasks
    /\ Emulating # {} \/ main = "idle"
    /\ stop_request' = [stop_request EXCEPT ![u] = TRUE]
    /\ asked' = asked \cup {u}
    /\ IF u = cur /\ running
       THEN /\ uc_stop' = (uc_stop \/ Emulating # {})
            /\ to_stop' = (to_stop \/ main # "idle")
       ELSE UNCHANGED <<uc_stop, to_stop>>
    /\ UNCHANGED <<tasks, fresh, ctx, green, use_count, pool, lock, running, who,
                   pc, at_end, cur, count, slices, lost, session>>

TaskCreate(u) ==
    /\ u \in fresh
    /\ Emulating # {} \/ main = "idle"
    /\ tasks' = tasks \cup {u}
    /\ fresh' = fresh \ {u}
    /\ UNCHANGED <<stop_request, asked, ctx, green, use_count, pool, cur, to_stop,
                   count, machine, session>>

-----------------------------------------------------------------------------
(* The greenlet of a task: _task_main.                                     *)

(* A slice is started: on_start puts the saved registers into the machine,  *)
(* whoever is emulated there.  A task asked to stop before stays as it is.  *)
Slice(t) ==
    /\ green[t] \in {"new", "top"}
    /\ use_count' = IF green[t] = "new"
                    THEN [use_count EXCEPT ![t] = count > 0] ELSE use_count
    /\ IF stop_request[t]
       THEN /\ green' = [green EXCEPT ![t] = "none"]
            /\ UNCHANGED <<pool, who, pc, at_end, cur>>
       ELSE /\ green' = [green EXCEPT ![t] = "wait"]
            /\ pool' = [pool EXCEPT ![t] = "spawned"]
            /\ cur' = t
            /\ IF ctx[t] = Nobody
               THEN UNCHANGED <<who, pc, at_end>>
               ELSE who' = ctx[t] /\ pc' = t /\ at_end' = FALSE
    /\ UNCHANGED <<registry, ctx, lock, running, uc_stop, to_stop, count, slices,
                   lost, session>>

(* The interval of the slice is over: whatever is emulated is stopped. *)
Expire(t) ==
    /\ green[t] = "wait" /\ pool[t] # "finished"
    /\ green' = [green EXCEPT ![t] = "get"]
    /\ uc_stop' = (uc_stop \/ Emulating # {})
    /\ lost' = (lost \/ pool[t] # "emulating")
    /\ UNCHANGED <<registry, ctx, use_count, pool, lock, running, who, pc,
                   at_end, cur, to_stop, count, slices, session>>

(* What a greenlet does once its slice has ended, if it is not counted out. *)
Leave(t) ==
    /\ tasks' = tasks \ {t}
    /\ green' = [green EXCEPT ![t] = "none"]
    /\ UNCHANGED <<ctx, use_count>>

(* Mutant: a task is dropped when the world stops. *)
InterruptDrops(t) ==
    /\ ctx' = [ctx EXCEPT ![t] = who]
    /\ green' = [green EXCEPT ![t] = IF to_stop THEN "none" ELSE "top"]
    /\ tasks' = IF to_stop THEN tasks \ {t} ELSE tasks
    /\ UNCHANGED use_count

(* Mutant: nobody looks whether the world is to stop. *)
InterruptGoesOn(t) ==
    /\ ctx' = [ctx EXCEPT ![t] = who]
    /\ green' = [green EXCEPT ![t] = "top"]
    /\ UNCHANGED <<tasks, use_count>>

(* on_interrupted saves the registers the machine holds. *)
Interrupt(t) ==
    /\ ctx' = [ctx EXCEPT ![t] = who]
    /\ green' = [green EXCEPT ![t] = IF to_stop THEN "none" ELSE "top"]
    /\ UNCHANGED <<tasks, use_count>>

SliceOver(t) == green[t] \in {"wait", "get"} /\ pool[t] = "finished"

(* Mutant: the last slice does not stop the others. *)
CountOutQuietly(t) ==
    /\ green' = [green EXCEPT ![t] = "none"]
    /\ UNCHANGED <<tasks, ctx, use_count, to_stop, uc_stop>>

(* The last slice that counts: tasks_stop. *)
CountOut(t) ==
    /\ green' = [green EXCEPT ![t] = "none"]
    /\ to_stop' = TRUE
    /\ uc_stop' = (uc_stop \/ (running /\ Emulating # {}))
    /\ UNCHANGED <<tasks, ctx, use_count>>

(* What _reach_end may say: the program counter is compared outside of the *)
(* lock, and may be that of a task that was restored or emulated meanwhile. *)
_reach_end(t) == IF pc = t THEN {at_end} ELSE BOOLEAN

SliceEnd(t) ==
    /\ SliceOver(t)
    /\ pool' = [pool EXCEPT ![t] = "none"]
    /\ \E reached \in _reach_end(t) :
          stop_request' = [stop_request EXCEPT ![t] = @ \/ reached]
    /\ count' = IF use_count[t] THEN count - 1 ELSE count
    /\ \/ /\ use_count[t] /\ count' <= 0
          /\ CountOut(t)
       \/ /\ ~ (use_count[t] /\ count' <= 0) /\ stop_request'[t]
          /\ Leave(t)
          /\ UNCHANGED <<to_stop, uc_stop>>
       \/ /\ ~ (use_count[t] /\ count' <= 0) /\ ~ stop_request'[t]
          /\ Interrupt(t)
          /\ UNCHANGED <<to_stop, uc_stop>>
    /\ UNCHANGED <<fresh, asked, lock, running, who, pc, at_end, cur, slices,
                   lost, session>>

-----------------------------------------------------------------------------
(* tasks_start.                                                            *)

TasksStart(c, timed) ==
    /\ main = "idle" /\ starts < MaxStarts
    /\ starts' = starts + 1
    /\ to_stop' = FALSE
    /\ count' = c /\ limit' = c /\ slices' = 0
    /\ timer' = IF timed THEN "armed" ELSE "none"
    /\ lost' = FALSE
    /\ main' = "loop"
    /\ UNCHANGED <<registry, ctx, green, use_count, pool, lock, running, uc_stop,
                   who, pc, at_end, cur>>

(* Another round of greenlets, all of which are waited for. *)
Spawn ==
    /\ main = "loop" /\ tasks # {} /\ ~ to_stop
    /\ green' = [t \in Tasks |-> IF t \in tasks THEN "new" ELSE green[t]]
    /\ main' = "join"
    /\ UNCHANGED <<registry, ctx, use_count, pool, cur, to_stop, count, machine,
                   limit, starts, timer>>

JoinAll ==
    /\ main = "join"
    /\ \A t \in Tasks : green[t] = "none"
    /\ timer # "armed"
    /\ main' = "loop"
    /\ UNCHANGED <<registry, ctx, green, use_count, pool, cur, to_stop, count,
                   machine, limit, starts, timer>>

StartReturns ==
    /\ main = "loop" /\ (tasks = {} \/ to_stop)
    /\ main' = "idle"
    /\ UNCHANGED <<registry, ctx, green, use_count, pool, cur, to_stop, count,
                   machine, limit, starts, timer>>

(* _timeout_main: tasks_stop. *)
Timeout ==
    /\ timer = "armed"
    /\ timer' = "dead"
    /\ to_stop' = TRUE
    /\ uc_stop' = (uc_stop \/ (running /\ Emulating # {}))
    /\ UNCHANGED <<registry, ctx, green, use_count, pool, lock, running, who, pc,
                   at_end, cur, count, slices, lost, limit, starts, main>>

-----------------------------------------------------------------------------
TaskInit ==
    /\ tasks = {} /\ fresh = Tasks /\ asked = {}
    /\ stop_request = [t \in Tasks |-> FALSE]
    /\ ctx = [t \in Tasks |-> Nobody]
    /\ green = [t \in Tasks |-> "none"]
    /\ use_count = [t \in Tasks |-> FALSE]
    /\ pool = [t \in Tasks |-> "none"]
    /\ lock = Nobody /\ running = FALSE /\ uc_stop = FALSE
    /\ who = Nobody /\ pc = Nobody /\ at_end = FALSE /\ cur = Nobody
    /\ to_stop = FALSE /\ count = 0 /\ limit = 0 /\ slices = 0
    /\ starts = 0 /\ main = "idle" /\ timer = "none" /\ lost = FALSE

Thread(t) == Acquire(t) \/ EmuStart(t)

Greenlet(t) == Slice(t) \/ Expire(t) \/ SliceEnd(t)

Starter == Spawn \/ JoinAll \/ StartReturns \/ Timeout

TaskNext ==
    \/ \E t \in Tasks : Thread(t) \/ Greenlet(t) \/ EmuEnd(t) \/ HookStop(t)
    \/ \E u \in Tasks : TaskExit(u) \/ TaskCreate(u)
    \/ \E c \in 0 .. MaxCount, timed \in BOOLEAN : TasksStart(c, timed)
    \/ Starter

(* Threads and greenlets that can go on do, and timers fire; an emulation   *)
(* that was asked to stop stops, and no other is known to.                  *)
TaskFairness ==
    /\ \A t \in Tasks : /\ WF_tvars(Thread(t)) /\ WF_tvars(Greenlet(t))
                        /\ WF_tvars(uc_stop /\ EmuEnd(t))
    /\ WF_tvars(Spawn \/ JoinAll \/ StartReturns) /\ WF_tvars(Timeout)

TaskSpec == TaskInit /\ [][TaskNext]_tvars /\ TaskFairness

-----------------------------------------------------------------------------
(* The state has its types. *)
TaskTypeOK ==
    /\ tasks \subseteq Tasks /\ fresh \subseteq Tasks \ tasks
    /\ asked \subseteq Tasks
    /\ stop_request \in [Tasks -> BOOLEAN]
    /\ ctx \in [Tasks -> Tasks \cup {Nobody}]
    /\ green \in [Tasks -> {"none", "new", "top", "wait", "get"}]
    /\ use_count \in [Tasks -> BOOLEAN]
    /\ pool \in [Tasks -> {"none", "spawned", "locked", "emulating", "finished"}]
    /\ lock \in Tasks \cup {Nobody}
    /\ running \in BOOLEAN /\ uc_stop \in BOOLEAN
    /\ who \in Tasks \cup {Nobody} /\ pc \in Tasks \cup {Nobody}
    /\ at_end \in BOOLEAN
    /\ cur \in Tasks \cup {Nobody}
    /\ to_stop \in BOOLEAN /\ lost \in BOOLEAN
    /\ count \in Int /\ limit \in 0 .. MaxCount
    /\ slices \in Nat /\ starts \in 0 .. MaxStarts
    /\ main \in {"idle", "loop", "join"} /\ timer \in {"none", "armed", "dead"}

(* "Only one task can be picked to emulate at the same time": the machine   *)
(* is never run by two pool threads, and the one that runs it says so.      *)
OneEmulates ==
    /\ \A t, u \in Tasks :
          {pool[t], pool[u]} \subseteq {"locked", "emulating"} => t = u
    /\ Emulating # {} => running

(* While a pool thread has a slice to run or is running it, its task is     *)
(* registered, its greenlet waits for it and tasks_start waits for both.    *)
SliceIsAwaited ==
    \A t \in Tasks :
        pool[t] # "none" => /\ t \in tasks
                            /\ green[t] \in {"wait", "get"}
                            /\ main = "join"

(* The engine runs one slice at a time, each awaited by those who began it. *)
SlicesSound == TaskTypeOK /\ OneEmulates /\ SliceIsAwaited

(* "Stop after sceduling *count* times": once the count is used up, each    *)
(* other task is emulated for one slice more at most.                       *)
CountBounded ==
    limit > 0 => slices <= limit + Cardinality(Tasks) - 1

(* "If we have to stop due to a tasks_stop, we preserve all threads so that *)
(* we may resume": a task leaves the registry only when it was asked to     *)
(* exit, when its emulation got to its end, or when the program counter     *)
(* that was compared with its end was that of another task, restored or     *)
(* emulated since; no stop, count or timeout takes it off.                  *)
PreservedOnStop ==
    [][\A t \in tasks \ tasks' : t \in asked \/ (pc = t => at_end)]_tvars

(* Once everything is to stop, tasks_start returns, if no interval ended    *)
(* before the emulation it was to end had begun.                            *)
StopReturns == to_stop ~> (main = "idle" \/ lost)

(* save: "This method is used to save the task context": what is saved for  *)
(* a task are registers of this task.                                       *)
SavesOwnContext == \A t \in Tasks : ctx[t] \in {t, Nobody}
=============================================================================
