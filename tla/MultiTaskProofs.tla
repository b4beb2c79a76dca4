--------------------------- MODULE MultiTaskProofs ---------------------------
(***************************************************************************)
(* Safety of the multitask engine for any set of tasks.  The exclusion     *)
(* rests on what _run_lock guards, the rest on where a greenlet can be     *)
(* while its pool thread has a slice.                                      *)
(***************************************************************************)
EXTENDS MultiTask, FiniteSetTheorems, TLAPS

(* Whoever is between the acquire and the release of _run_lock holds it,    *)
(* and _running is set.                                                     *)
LockInv ==
    \A t \in Tasks : pool[t] \in {"locked", "emulating"} => lock = t /\ running

(* A greenlet exists only while tasks_start joins it, for a registered task. *)
GreenInv ==
    \A t \in Tasks : green[t] # "none" => t \in tasks /\ main = "join"

(* A slice is begun only when the task was not asked to stop.               *)
AskedInv ==
    \A t \in Tasks : pool[t] # "none" /\ stop_request[t] => t \in asked

TaskInv == TaskTypeOK /\ LockInv /\ GreenInv /\ SliceIsAwaited /\ AskedInv

(* The initial states satisfy the invariant. *)
LEMMA InitTaskInv == TaskInit => TaskInv
<1> SUFFICES ASSUME TaskInit PROVE TaskInv
  OBVIOUS
<1>1. limit \in 0 .. MaxCount /\ starts \in 0 .. MaxStarts
  BY TaskAssumption, SMT DEF TaskInit
<1>2. /\ stop_request \in [Tasks -> BOOLEAN] /\ use_count \in [Tasks -> BOOLEAN]
      /\ ctx \in [Tasks -> Tasks \cup {Nobody}]
      /\ green \in [Tasks -> {"none", "new", "top", "wait", "get"}]
      /\ pool \in [Tasks -> {"none", "spawned", "locked", "emulating", "finished"}]
  BY DEF TaskInit
<1>3. /\ tasks \subseteq Tasks /\ fresh \subseteq Tasks \ tasks /\ asked \subseteq Tasks
      /\ lock \in Tasks \cup {Nobody} /\ who \in Tasks \cup {Nobody}
      /\ pc \in Tasks \cup {Nobody} /\ at_end \in BOOLEAN /\ cur \in Tasks \cup {Nobody}
      /\ running \in BOOLEAN /\ uc_stop \in BOOLEAN
      /\ to_stop \in BOOLEAN /\ lost \in BOOLEAN
      /\ main \in {"idle", "loop", "join"} /\ timer \in {"none", "armed", "dead"}
  BY DEF TaskInit
<1>4. count \in Int /\ slices \in Nat
  BY SMT DEF TaskInit
<1>5. TaskTypeOK
  BY <1>1, <1>2, <1>3, <1>4 DEF TaskTypeOK
<1>6. LockInv /\ GreenInv /\ SliceIsAwaited /\ AskedInv
  BY DEF TaskInit, LockInv, GreenInv, SliceIsAwaited, AskedInv
<1> QED BY <1>5, <1>6 DEF TaskInv

(* The pool thread: taking the lock, emulating, ending. *)
LEMMA ThreadKeeps ==
    ASSUME TaskInv, NEW t \in Tasks, Thread(t) \/ EmuEnd(t) \/ HookStop(t)
    PROVE  TaskInv'
<1> USE TaskAssumption DEF TaskInv, registry, session, machine
<1>1. CASE Acquire(t)
  <2>1. TaskTypeOK'
    BY <1>1 DEF Acquire, TaskTypeOK
  <2>2. LockInv' /\ GreenInv' /\ SliceIsAwaited' /\ AskedInv'
    BY <1>1 DEF Acquire, TaskTypeOK, LockInv, GreenInv, SliceIsAwaited, AskedInv
  <2> QED BY <2>1, <2>2
<1>2. CASE EmuStart(t)
  <2>1. slices' \in Nat
    BY <1>2 DEF EmuStart, TaskTypeOK
  <2>2. TaskTypeOK'
    BY <1>2, <2>1 DEF EmuStart, TaskTypeOK
  <2>3. LockInv' /\ GreenInv' /\ SliceIsAwaited' /\ AskedInv'
    BY <1>2 DEF EmuStart, TaskTypeOK, LockInv, GreenInv, SliceIsAwaited, AskedInv
  <2> QED BY <2>2, <2>3
<1>3. CASE EmuEnd(t)
  <2>1. TaskTypeOK'
    BY <1>3 DEF EmuEnd, TaskTypeOK
  <2>2. LockInv' /\ GreenInv' /\ SliceIsAwaited' /\ AskedInv'
    BY <1>3 DEF EmuEnd, TaskTypeOK, LockInv, GreenInv, SliceIsAwaited, AskedInv
  <2> QED BY <2>1, <2>2
<1>4. CASE HookStop(t)
  <2>1. TaskTypeOK'
    BY <1>4 DEF HookStop, TaskTypeOK
  <2>2. LockInv' /\ GreenInv' /\ SliceIsAwaited' /\ AskedInv'
    BY <1>4 DEF HookStop, TaskTypeOK, LockInv, GreenInv, SliceIsAwaited, AskedInv
  <2> QED BY <2>1, <2>2
<1> QED BY <1>1, <1>2, <1>3, <1>4 DEF Thread

(* task_exit and task_create. *)
LEMMA RegistryKeeps ==
    ASSUME TaskInv, NEW u \in Tasks, TaskExit(u) \/ TaskCreate(u)
    PROVE  TaskInv'
<1> USE TaskAssumption DEF TaskInv, registry, session, machine
<1>1. CASE TaskExit(u)
  <2>1. TaskTypeOK'
    BY <1>1 DEF TaskExit, TaskTypeOK
  <2>2. LockInv' /\ GreenInv' /\ SliceIsAwaited' /\ AskedInv'
    BY <1>1 DEF TaskExit, TaskTypeOK, LockInv, GreenInv, SliceIsAwaited, AskedInv
  <2> QED BY <2>1, <2>2
<1>2. CASE TaskCreate(u)
  <2>1. TaskTypeOK'
    BY <1>2 DEF TaskCreate, TaskTypeOK
  <2>2. LockInv' /\ GreenInv' /\ SliceIsAwaited' /\ AskedInv'
    BY <1>2 DEF TaskCreate, TaskTypeOK, LockInv, GreenInv, SliceIsAwaited, AskedInv
  <2> QED BY <2>1, <2>2
<1> QED BY <1>1, <1>2

(* The greenlet: beginning a slice, its interval, its end. *)
LEMMA GreenletKeeps ==
    ASSUME TaskInv, NEW t \in Tasks, Greenlet(t)
    PROVE  TaskInv'
<1> USE TaskAssumption DEF TaskInv, registry, session, machine
<1>1. CASE Slice(t)
  <2>1. pool[t] = "none"
    BY <1>1 DEF Slice, SliceIsAwaited
  <2>2. TaskTypeOK'
    <3>1. /\ use_count' \in [Tasks -> BOOLEAN]
          /\ green' \in [Tasks -> {"none", "new", "top", "wait", "get"}]
          /\ pool' \in [Tasks -> {"none", "spawned", "locked", "emulating", "finished"}]
      BY <1>1 DEF Slice, TaskTypeOK
    <3>2. /\ who' \in Tasks \cup {Nobody} /\ pc' \in Tasks \cup {Nobody}
          /\ cur' \in Tasks \cup {Nobody}
      BY <1>1 DEF Slice, TaskTypeOK
    <3>3. at_end' \in BOOLEAN
      BY <1>1, Zenon DEF Slice, TaskTypeOK
    <3>4. UNCHANGED <<tasks, fresh, asked, stop_request, ctx, lock, running, uc_stop,
                      to_stop, count, slices, lost, limit, starts, main, timer>>
      BY <1>1 DEF Slice
    <3> QED BY <3>1, <3>2, <3>3, <3>4 DEF TaskTypeOK
  <2>3. LockInv' /\ GreenInv' /\ AskedInv'
    BY <1>1, <2>1 DEF Slice, TaskTypeOK, LockInv, GreenInv, AskedInv
  <2>4. SliceIsAwaited'
    BY <1>1, <2>1 DEF Slice, TaskTypeOK, GreenInv, SliceIsAwaited
  <2> QED BY <2>2, <2>3, <2>4
<1>2. CASE Expire(t)
  <2>1. TaskTypeOK'
    BY <1>2 DEF Expire, TaskTypeOK
  <2>2. LockInv' /\ GreenInv' /\ SliceIsAwaited' /\ AskedInv'
    BY <1>2 DEF Expire, TaskTypeOK, LockInv, GreenInv, SliceIsAwaited, AskedInv
  <2> QED BY <2>1, <2>2
<1>3. CASE SliceEnd(t)
  <2>1. /\ tasks' \in {tasks, tasks \ {t}}
        /\ green' \in {[green EXCEPT ![t] = "none"], [green EXCEPT ![t] = "top"]}
        /\ tasks' # tasks => green'[t] = "none"
    BY <1>3 DEF SliceEnd, CountOut, Leave, Interrupt, TaskTypeOK
  <2>2. /\ ctx' \in [Tasks -> Tasks \cup {Nobody}]
        /\ use_count' = use_count
    BY <1>3 DEF SliceEnd, CountOut, Leave, Interrupt, TaskTypeOK
  <2>2a. to_stop' \in BOOLEAN /\ uc_stop' \in BOOLEAN
    <3>1. \/ to_stop' = TRUE /\ uc_stop' = (uc_stop \/ (running /\ Emulating # {}))
          \/ to_stop' = to_stop /\ uc_stop' = uc_stop
      BY <1>3, Zenon DEF SliceEnd, CountOut
    <3>2. uc_stop \in BOOLEAN /\ to_stop \in BOOLEAN
      BY DEF TaskTypeOK
    <3> QED BY <3>1, <3>2, Zenon
  <2>3. /\ stop_request' \in [Tasks -> BOOLEAN]
        /\ pool' \in [Tasks -> {"none", "spawned", "locked", "emulating", "finished"}]
        /\ count' \in Int
    BY <1>3 DEF SliceEnd, TaskTypeOK
  <2>4. UNCHANGED <<fresh, asked, lock, running, who, pc, at_end, cur, slices, lost,
                    limit, starts, main, timer>>
    BY <1>3 DEF SliceEnd
  <2>5. TaskTypeOK'
    BY <2>1, <2>2, <2>3, <2>4, <2>2a DEF TaskTypeOK
  <2>6. LockInv' /\ AskedInv'
    BY <1>3, <2>4 DEF SliceEnd, TaskTypeOK, LockInv, AskedInv
  <2>7. t \in tasks /\ main = "join"
    BY <1>3 DEF SliceEnd, SliceOver, GreenInv
  <2>8. GreenInv'
    BY <2>1, <2>4, <2>7 DEF TaskTypeOK, GreenInv
  <2>9. SliceIsAwaited'
    BY <1>3, <2>1, <2>4 DEF SliceEnd, TaskTypeOK, SliceIsAwaited
  <2> QED BY <2>5, <2>6, <2>8, <2>9
<1> QED BY <1>1, <1>2, <1>3 DEF Greenlet

(* tasks_start and the greenlet of its timeout. *)
LEMMA StartKeeps ==
    ASSUME TaskInv,
           Starter \/ \E c \in 0 .. MaxCount, b \in BOOLEAN : TasksStart(c, b)
    PROVE  TaskInv'
<1> USE TaskAssumption DEF TaskInv, registry, session, machine
<1>1. ASSUME NEW c \in 0 .. MaxCount, NEW b \in BOOLEAN, TasksStart(c, b)
      PROVE  TaskInv'
  <2>1. /\ count' \in Int /\ limit' \in 0 .. MaxCount
        /\ slices' \in Nat /\ starts' \in 0 .. MaxStarts
    BY <1>1, SMT DEF TasksStart, TaskTypeOK
  <2>2. timer' \in {"none", "armed", "dead"}
    BY <1>1 DEF TasksStart
  <2>3. TaskTypeOK'
    BY <1>1, <2>1, <2>2 DEF TasksStart, TaskTypeOK
  <2>4. LockInv' /\ GreenInv' /\ SliceIsAwaited' /\ AskedInv'
    BY <1>1 DEF TasksStart, TaskTypeOK, LockInv, GreenInv, SliceIsAwaited, AskedInv
  <2> QED BY <2>3, <2>4
<1>2. CASE Spawn
  <2>1. \A t \in Tasks : green[t] = "none" /\ pool[t] = "none"
    BY <1>2 DEF Spawn, GreenInv, SliceIsAwaited
  <2>2. TaskTypeOK'
    BY <1>2 DEF Spawn, TaskTypeOK
  <2>3. LockInv' /\ GreenInv' /\ SliceIsAwaited' /\ AskedInv'
    BY <1>2, <2>1 DEF Spawn, TaskTypeOK, LockInv, GreenInv, SliceIsAwaited, AskedInv
  <2> QED BY <2>2, <2>3
<1>3. CASE JoinAll
  <2>1. TaskTypeOK'
    BY <1>3 DEF JoinAll, TaskTypeOK
  <2>2. LockInv' /\ GreenInv' /\ SliceIsAwaited' /\ AskedInv'
    BY <1>3 DEF JoinAll, TaskTypeOK, LockInv, GreenInv, SliceIsAwaited, AskedInv
  <2> QED BY <2>1, <2>2
<1>4. CASE StartReturns
  <2>1. TaskTypeOK'
    BY <1>4 DEF StartReturns, TaskTypeOK
  <2>2. LockInv' /\ GreenInv' /\ SliceIsAwaited' /\ AskedInv'
    BY <1>4 DEF StartReturns, TaskTypeOK, LockInv, GreenInv, SliceIsAwaited, AskedInv
  <2> QED BY <2>1, <2>2
<1>5. CASE Timeout
  <2>1. TaskTypeOK'
    BY <1>5 DEF Timeout, TaskTypeOK
  <2>2. LockInv' /\ GreenInv' /\ SliceIsAwaited' /\ AskedInv'
    BY <1>5 DEF Timeout, TaskTypeOK, LockInv, GreenInv, SliceIsAwaited, AskedInv
  <2> QED BY <2>1, <2>2
<1> QED BY <1>1, <1>2, <1>3, <1>4, <1>5 DEF Starter

(* Every step keeps the invariant. *)
LEMMA StepTaskInv == TaskInv /\ [TaskNext]_tvars => TaskInv'
<1> SUFFICES ASSUME TaskInv, [TaskNext]_tvars PROVE TaskInv'
  OBVIOUS
<1>1. CASE UNCHANGED tvars
  BY <1>1 DEF tvars, TaskInv, TaskTypeOK, LockInv, GreenInv, SliceIsAwaited, AskedInv
<1>2. ASSUME NEW t \in Tasks, Thread(t) \/ Greenlet(t) \/ EmuEnd(t) \/ HookStop(t)
      PROVE  TaskInv'
  BY <1>2, ThreadKeeps, GreenletKeeps
<1>3. ASSUME NEW u \in Tasks, TaskExit(u) \/ TaskCreate(u)
      PROVE  TaskInv'
  BY <1>3, RegistryKeeps
<1>4. ASSUME Starter \/ \E c \in 0 .. MaxCount, b \in BOOLEAN : TasksStart(c, b)
      PROVE  TaskInv'
  BY <1>4, StartKeeps
<1> QED BY <1>1, <1>2, <1>3, <1>4 DEF TaskNext

(* The invariant holds throughout. *)
LEMMA AlwaysTaskInv == TaskSpec => []TaskInv
BY InitTaskInv, StepTaskInv, PTL DEF TaskSpec

(* _run_lock keeps two pool threads out of the machine, _running is set     *)
(* while one is in it, and tasks_start and the greenlet of a task wait for  *)
(* each slice of the task, whatever hooks and timers do beside it.          *)
THEOREM SlicesAlwaysSound == TaskSpec => []SlicesSound
<1>1. TaskInv => TaskTypeOK /\ SliceIsAwaited
  BY DEF TaskInv
<1>2. TaskInv => OneEmulates
  BY DEF TaskInv, LockInv, OneEmulates, Emulating
<1>3. TaskInv => SlicesSound
  BY <1>1, <1>2 DEF SlicesSound
<1> QED BY <1>3, AlwaysTaskInv, PTL

(* A task that nobody asked to exit is dropped only when its emulation got  *)
(* to its end, or when another task has set the program counter since; no   *)
(* stop of the world, count or timeout drops it.                            *)
THEOREM TasksPreserved == TaskSpec => PreservedOnStop
<1>1. TaskInv /\ [TaskNext]_tvars =>
         [\A t \in tasks \ tasks' : t \in asked \/ (pc = t => at_end)]_tvars
  <2> SUFFICES ASSUME TaskInv, TaskNext, NEW t \in tasks, t \notin tasks'
               PROVE  t \in asked \/ (pc = t => at_end)
    OBVIOUS
  <2>1. t \in Tasks
    BY DEF TaskInv, TaskTypeOK
  <2>2. PICK u \in Tasks : SliceEnd(u) /\ t = u
    BY DEF TaskNext, Thread, Acquire, EmuStart, Greenlet, Slice, Expire, EmuEnd,
           HookStop, TaskExit, TaskCreate, TasksStart, Starter, Spawn, JoinAll,
           StartReturns, Timeout, registry, session, machine, SliceEnd, CountOut,
           Leave, Interrupt
  <2>3. stop_request'[t]
    BY <2>2 DEF SliceEnd, CountOut, Leave, Interrupt
  <2>4. stop_request[t] \/ (pc = t => at_end)
    BY <2>1, <2>2, <2>3 DEF SliceEnd, _reach_end, TaskInv, TaskTypeOK
  <2>5. pool[t] # "none"
    BY <2>2 DEF SliceEnd, SliceOver
  <2> QED BY <2>1, <2>4, <2>5 DEF TaskInv, AskedInv
<1> QED BY <1>1, AlwaysTaskInv, PTL DEF TaskSpec, PreservedOnStop

-----------------------------------------------------------------------------
(* The count of tasks_start. *)

(* The tasks whose slice has begun and is not over. *)
Started == {t \in Tasks : pool[t] \in {"emulating", "finished"}}

(* The tasks whose greenlet may still begin one. *)
Pending == {t \in Tasks : green[t] # "none" /\ t \notin Started}

(* As long as slices are left every greenlet counts, and the slices begun   *)
(* are those counted and those going on.  Once none is left the world is    *)
(* stopping, and a greenlet that is there has one slice before it at most.  *)
CountInv ==
    limit > 0 =>
        IF count > 0
        THEN /\ slices = limit - count + Cardinality(Started)
             /\ \A t \in Tasks : green[t] \in {"top", "wait", "get"} => use_count[t]
        ELSE /\ to_stop
             /\ slices + Cardinality(Pending) <= limit + Cardinality(Tasks) - 1

(* Sets of tasks can be counted. *)
LEMMA TasksFinite ==
    ASSUME NEW S \in SUBSET Tasks
    PROVE  /\ IsFiniteSet(S) /\ Cardinality(S) \in Nat
           /\ Cardinality(S) <= Cardinality(Tasks) /\ Cardinality(Tasks) \in Nat
BY TaskAssumption, FS_Subset, FS_CardinalityType

(* A step that leaves the counters alone, begins and ends no slice and may  *)
(* only do away with greenlets or set the world to stop.                    *)
LEMMA CountKept ==
    ASSUME CountInv, TaskTypeOK, TaskTypeOK', UNCHANGED <<limit, count, slices>>,
           Started' = Started, Pending' \subseteq Pending, to_stop => to_stop',
           count > 0 /\ limit > 0 =>
              \A t \in Tasks : green'[t] \in {"top", "wait", "get"} => use_count'[t]
    PROVE  CountInv'
<1>1. Pending \in SUBSET Tasks /\ Pending' \in SUBSET Pending
  BY DEF Pending
<1>2. Cardinality(Pending') <= Cardinality(Pending)
      /\ Cardinality(Pending') \in Nat /\ Cardinality(Pending) \in Nat
  BY <1>1, TasksFinite, FS_Subset
<1>3. Cardinality(Started') = Cardinality(Started)
  OBVIOUS
<1>4. slices \in Nat /\ limit \in Nat /\ count \in Int /\ Cardinality(Tasks) \in Nat
  BY <1>1, TasksFinite DEF TaskTypeOK
<1>5. CASE count > 0
  BY <1>3, <1>5 DEF CountInv
<1>6. CASE ~ (count > 0)
  BY <1>2, <1>4, <1>6 DEF CountInv
<1> QED BY <1>5, <1>6

(* emu_start: a slice begins. *)
LEMMA CountEmuStart ==
    ASSUME CountInv, TaskInv, TaskTypeOK', NEW t \in Tasks, EmuStart(t)
    PROVE  CountInv'
<1>1. /\ pool' = [pool EXCEPT ![t] = "emulating"] /\ pool[t] = "locked"
      /\ UNCHANGED <<green, use_count, to_stop, count, limit>>
      /\ slices' = IF limit > 0 THEN slices + 1 ELSE slices
  BY DEF EmuStart, session
<1>2. t \notin Started /\ Started' = Started \cup {t}
  BY <1>1 DEF Started, TaskInv, TaskTypeOK
<1>3. t \in Pending /\ Pending' = Pending \ {t}
  <2>1. green[t] # "none"
    BY <1>1 DEF TaskInv, SliceIsAwaited
  <2> QED BY <1>1, <1>2, <2>1 DEF Pending
<1>4. Started \in SUBSET Tasks /\ Pending \in SUBSET Tasks
  BY DEF Started, Pending
<1>5. /\ Cardinality(Started') = Cardinality(Started) + 1
      /\ Cardinality(Pending') = Cardinality(Pending) - 1
  BY <1>2, <1>3, <1>4, TasksFinite, FS_AddElement, FS_RemoveElement
<1>6. /\ slices \in Nat /\ limit \in Nat /\ count \in Int /\ Cardinality(Tasks) \in Nat
      /\ Cardinality(Started) \in Nat /\ Cardinality(Pending) \in Nat
  BY <1>4, TasksFinite DEF TaskInv, TaskTypeOK
<1>7. CASE limit > 0 /\ count > 0
  <2>1. slices' = limit - count + Cardinality(Started')
    BY <1>1, <1>5, <1>6, <1>7 DEF CountInv
  <2> QED BY <1>1, <1>7, <2>1 DEF CountInv
<1>8. CASE limit > 0 /\ ~ (count > 0)
  <2>1. to_stop /\ slices + Cardinality(Pending) <= limit + Cardinality(Tasks) - 1
    BY <1>8 DEF CountInv
  <2>2. slices' + Cardinality(Pending') <= limit + Cardinality(Tasks) - 1
    BY <1>1, <1>5, <1>6, <1>8, <2>1
  <2> QED BY <1>1, <1>8, <2>1, <2>2 DEF CountInv
<1> QED BY <1>1, <1>7, <1>8 DEF CountInv

(* The end of a slice. *)
LEMMA CountSliceEnd ==
    ASSUME CountInv, TaskInv, TaskTypeOK', NEW t \in Tasks, SliceEnd(t)
    PROVE  CountInv'
<1>1. /\ pool' = [pool EXCEPT ![t] = "none"] /\ pool[t] = "finished"
      /\ green[t] \in {"wait", "get"}
      /\ count' = IF use_count[t] THEN count - 1 ELSE count
      /\ UNCHANGED <<use_count, slices, limit>>
  BY DEF SliceEnd, SliceOver, session, CountOut, Leave, Interrupt
<1>2. t \in Started /\ Started' = Started \ {t}
  BY <1>1 DEF Started, TaskInv, TaskTypeOK
<1>3. Started \in SUBSET Tasks /\ Pending \in SUBSET Tasks /\ Pending' \in SUBSET Tasks
  BY DEF Started, Pending
<1>4. /\ slices \in Nat /\ limit \in Nat /\ count \in Int /\ count' \in Int
      /\ Cardinality(Tasks) \in Nat
      /\ Cardinality(Started) \in Nat /\ Cardinality(Pending) \in Nat
      /\ Cardinality(Pending') \in Nat
      /\ Cardinality(Started') = Cardinality(Started) - 1
  BY <1>2, <1>3, TasksFinite, FS_RemoveElement DEF TaskInv, TaskTypeOK
<1>5. \A u \in Tasks : u # t => green'[u] = green[u] /\ (u \in Started' <=> u \in Started)
  BY <1>1, <1>2 DEF SliceEnd, CountOut, Leave, Interrupt, TaskInv, TaskTypeOK
<1>6. CASE limit > 0 /\ count' > 0
  <2>1. count > 0
    BY <1>1, <1>4, <1>6
  <2>2. use_count[t]
    BY <1>1, <1>6, <2>1 DEF CountInv
  <2>3. slices' = limit - count' + Cardinality(Started')
    BY <1>1, <1>4, <1>6, <2>1, <2>2 DEF CountInv
  <2>4. \A u \in Tasks : green'[u] \in {"top", "wait", "get"} => use_count'[u]
    <3> SUFFICES ASSUME NEW u \in Tasks, green'[u] \in {"top", "wait", "get"}
                 PROVE  use_count'[u]
      OBVIOUS
    <3>1. CASE u = t
      BY <1>1, <2>2, <3>1
    <3>2. CASE u # t
      BY <1>1, <1>5, <1>6, <2>1, <3>2 DEF CountInv
    <3> QED BY <3>1, <3>2
  <2> QED BY <1>1, <1>6, <2>3, <2>4 DEF CountInv
<1>7. CASE limit > 0 /\ ~ (count' > 0)
  <2>1. green'[t] = "none" /\ to_stop'
    <3>1. CASE use_count[t]
      BY <1>1, <1>4, <1>7, <3>1 DEF SliceEnd, CountOut, TaskInv, TaskTypeOK
    <3>2. CASE ~ use_count[t]
      <4>1. ~ (count > 0) /\ to_stop
        BY <1>1, <1>7, <3>2 DEF CountInv
      <4>2. \/ Leave(t) /\ UNCHANGED to_stop
            \/ Interrupt(t) /\ UNCHANGED to_stop
        BY <3>2, Zenon DEF SliceEnd
      <4>3. green' = [green EXCEPT ![t] = "none"] /\ to_stop'
        BY <4>1, <4>2 DEF Leave, Interrupt
      <4> QED BY <4>3 DEF TaskInv, TaskTypeOK
    <3> QED BY <3>1, <3>2
  <2>2. Pending' \subseteq Pending /\ t \notin Pending'
    BY <1>5, <2>1 DEF Pending
  <2>3. Cardinality(Pending') <= Cardinality(Pending)
    BY <1>3, <2>2, TasksFinite, FS_Subset
  <2>4. slices + Cardinality(Pending') <= limit + Cardinality(Tasks) - 1
    <3>1. CASE ~ (count > 0)
      <4>1. slices + Cardinality(Pending) <= limit + Cardinality(Tasks) - 1
        BY <1>7, <3>1 DEF CountInv
      <4> QED BY <1>4, <2>3, <4>1
    <3>2. CASE count > 0
      <4>1. slices = limit - count + Cardinality(Started) /\ count = 1
        BY <1>1, <1>4, <1>7, <3>2 DEF CountInv
      <4>2. Pending' \cap Started = {} /\ Pending' \cup Started \in SUBSET Tasks
        BY <1>3, <2>2 DEF Pending
      <4>3. Cardinality(Pending' \cup Started)
               = Cardinality(Pending') + Cardinality(Started)
        <5>1. IsFiniteSet(Pending') /\ IsFiniteSet(Started)
          BY <1>3, TasksFinite
        <5>2. Cardinality(Pending' \cup Started)
                 = Cardinality(Pending') + Cardinality(Started)
                   - Cardinality(Pending' \cap Started)
          BY <5>1, FS_Union
        <5>3. Cardinality(Pending' \cap Started) = 0
          BY <4>2, FS_EmptySet
        <5> QED BY <1>4, <5>2, <5>3
      <4>4. Cardinality(Pending' \cup Started) <= Cardinality(Tasks)
        BY <4>2, TasksFinite
      <4> QED BY <1>4, <4>1, <4>3, <4>4
    <3> QED BY <3>1, <3>2
  <2> QED BY <1>1, <1>7, <2>1, <2>4 DEF CountInv
<1> QED BY <1>1, <1>6, <1>7 DEF CountInv

(* tasks_start and the rounds of greenlets. *)
LEMMA CountStart ==
    ASSUME CountInv, TaskInv, TaskTypeOK',
           Starter \/ \E c \in 0 .. MaxCount, b \in BOOLEAN : TasksStart(c, b)
    PROVE  CountInv'
<1>1. ASSUME NEW c \in 0 .. MaxCount, NEW b \in BOOLEAN, TasksStart(c, b)
      PROVE  CountInv'
  <2>1. /\ main = "idle" /\ UNCHANGED <<pool, green, use_count>>
        /\ count' = c /\ limit' = c /\ slices' = 0
    BY <1>1 DEF TasksStart
  <2>2. \A t \in Tasks : green[t] = "none" /\ pool[t] = "none"
    BY <2>1 DEF TaskInv, GreenInv, SliceIsAwaited
  <2>3. Started' = {}
    BY <2>1, <2>2 DEF Started
  <2>4. Cardinality(Started') = 0
    BY <2>3, FS_EmptySet
  <2>5. c \in Nat
    BY TaskAssumption
  <2> QED BY <2>1, <2>2, <2>4, <2>5 DEF CountInv
<1>2. CASE Spawn
  <2>1. /\ main = "loop" /\ ~ to_stop /\ UNCHANGED <<pool, use_count, to_stop, count, slices, limit>>
        /\ green' = [t \in Tasks |-> IF t \in tasks THEN "new" ELSE green[t]]
    BY <1>2 DEF Spawn, machine
  <2>2. \A t \in Tasks : green[t] = "none"
    BY <2>1 DEF TaskInv, GreenInv
  <2>3. Started' = Started
    BY <2>1 DEF Started
  <2>4. \A t \in Tasks : green'[t] \in {"new", "none"}
    BY <2>1, <2>2
  <2> QED BY <2>1, <2>3, <2>4 DEF CountInv
<1>3. CASE JoinAll \/ StartReturns \/ Timeout
  <2>1. UNCHANGED <<pool, green, use_count, count, slices, limit>>
    BY <1>3 DEF JoinAll, StartReturns, Timeout, machine, session
  <2>2. to_stop => to_stop'
    BY <1>3 DEF JoinAll, StartReturns, Timeout, TaskTypeOK
  <2>3. Started' = Started /\ Pending' = Pending
    BY <2>1 DEF Started, Pending
  <2>4. count > 0 /\ limit > 0 =>
           \A t \in Tasks : green'[t] \in {"top", "wait", "get"} => use_count'[t]
    BY <2>1 DEF CountInv
  <2> QED BY <2>1, <2>2, <2>3, <2>4, CountKept DEF TaskInv
<1> QED BY <1>1, <1>2, <1>3 DEF Starter

(* The other steps of a pool thread, a greenlet and the hooks. *)
LEMMA CountOthers ==
    ASSUME CountInv, TaskInv, TaskTypeOK', NEW t \in Tasks,
           \/ Acquire(t) \/ EmuEnd(t) \/ HookStop(t) \/ TaskExit(t) \/ TaskCreate(t)
           \/ Slice(t) \/ Expire(t)
    PROVE  CountInv'
<1>1. UNCHANGED <<limit, count, slices>> /\ (to_stop => to_stop')
  <2>1. UNCHANGED <<limit, count, slices>>
    BY DEF Acquire, EmuEnd, HookStop, TaskExit, TaskCreate, Slice, Expire, session, machine
  <2>2. \/ to_stop' = (to_stop \/ main # "idle")
        \/ to_stop' = TRUE \/ to_stop' = to_stop
    BY DEF Acquire, EmuEnd, HookStop, TaskExit, TaskCreate, Slice, Expire
  <2>3. to_stop => to_stop'
    BY <2>2, Zenon
  <2> QED BY <2>1, <2>3
<1>2. CASE UNCHANGED <<pool, green, use_count>>
  <2>1. Started' = Started /\ Pending' = Pending
    BY <1>2 DEF Started, Pending
  <2>2. count > 0 /\ limit > 0 =>
           \A u \in Tasks : green'[u] \in {"top", "wait", "get"} => use_count'[u]
    BY <1>2 DEF CountInv
  <2> QED BY <1>1, <2>1, <2>2, CountKept DEF TaskInv
<1>3. CASE Acquire(t) \/ EmuEnd(t)
  <2>1. UNCHANGED <<green, use_count>>
    BY <1>3 DEF Acquire, EmuEnd
  <2>2. Started' = Started
    BY <1>3 DEF Acquire, EmuEnd, Started, TaskInv, TaskTypeOK
  <2>3. Pending' = Pending
    BY <2>1, <2>2 DEF Pending
  <2>4. count > 0 /\ limit > 0 =>
           \A u \in Tasks : green'[u] \in {"top", "wait", "get"} => use_count'[u]
    BY <2>1 DEF CountInv
  <2> QED BY <1>1, <2>2, <2>3, <2>4, CountKept DEF TaskInv
<1>4. CASE Expire(t)
  <2>1. /\ UNCHANGED <<pool, use_count>> /\ green[t] = "wait"
        /\ green' = [green EXCEPT ![t] = "get"]
    BY <1>4 DEF Expire
  <2>2. Started' = Started
    BY <2>1 DEF Started
  <2>3. Pending' \subseteq Pending
    BY <2>1, <2>2 DEF Pending, TaskInv, TaskTypeOK
  <2>4. count > 0 /\ limit > 0 =>
           \A u \in Tasks : green'[u] \in {"top", "wait", "get"} => use_count'[u]
    BY <2>1 DEF CountInv, TaskInv, TaskTypeOK
  <2> QED BY <1>1, <2>2, <2>3, <2>4, CountKept DEF TaskInv
<1>5. CASE Slice(t)
  <2>1. /\ green[t] \in {"new", "top"}
        /\ use_count' = IF green[t] = "new" THEN [use_count EXCEPT ![t] = count > 0] ELSE use_count
        /\ green' \in {[green EXCEPT ![t] = "none"], [green EXCEPT ![t] = "wait"]}
        /\ pool' \in {pool, [pool EXCEPT ![t] = "spawned"]}
    BY <1>5 DEF Slice
  <2>2. pool[t] = "none"
    BY <2>1 DEF TaskInv, SliceIsAwaited
  <2>3. Started' = Started
    BY <2>1, <2>2 DEF Started, TaskInv, TaskTypeOK
  <2>4. Pending' \subseteq Pending
    BY <2>1, <2>3 DEF Pending, TaskInv, TaskTypeOK
  <2>5. ASSUME count > 0, limit > 0, NEW u \in Tasks, green'[u] \in {"top", "wait", "get"}
        PROVE  use_count'[u]
    <3>1. \A v \in Tasks : green[v] \in {"top", "wait", "get"} => use_count[v]
      BY <2>5 DEF CountInv
    <3>2. CASE u = t
      <4>1. CASE green[t] = "new"
        <5>1. use_count'[t] = (count > 0)
          BY <2>1, <4>1 DEF TaskInv, TaskTypeOK
        <5> QED BY <2>5, <3>2, <5>1, Zenon
      <4>2. CASE green[t] = "top"
        BY <2>1, <3>1, <3>2, <4>2
      <4> QED BY <2>1, <4>1, <4>2
    <3>3. CASE u # t
      BY <2>1, <2>5, <3>1, <3>3 DEF TaskInv, TaskTypeOK
    <3> QED BY <3>2, <3>3
  <2> QED BY <1>1, <2>3, <2>4, <2>5, CountKept DEF TaskInv
<1> QED BY <1>2, <1>3, <1>4, <1>5 DEF HookStop, TaskExit, TaskCreate

(* "Stop after sceduling *count* times": however the slices of the tasks    *)
(* overlap, no more than one slice of each other task is begun beyond the   *)
(* count.                                                                   *)
THEOREM CountAlwaysBounded == TaskSpec => []CountBounded
<1>1. TaskInit => CountInv
  BY DEF TaskInit, CountInv
<1>2. ASSUME TaskInv, TaskInv', CountInv, [TaskNext]_tvars PROVE CountInv'
  <2>1. TaskTypeOK'
    BY <1>2 DEF TaskInv
  <2>2. CASE UNCHANGED tvars
    BY <1>2, <2>2 DEF tvars, CountInv, Started, Pending
  <2>3. ASSUME NEW t \in Tasks, Thread(t) \/ Greenlet(t) \/ EmuEnd(t) \/ HookStop(t)
                                \/ TaskExit(t) \/ TaskCreate(t)
        PROVE  CountInv'
    BY <1>2, <2>1, <2>3, CountEmuStart, CountSliceEnd, CountOthers DEF Thread, Greenlet
  <2>4. ASSUME Starter \/ \E c \in 0 .. MaxCount, b \in BOOLEAN : TasksStart(c, b)
        PROVE  CountInv'
    BY <1>2, <2>1, <2>4, CountStart
  <2> QED BY <1>2, <2>2, <2>3, <2>4 DEF TaskNext
<1>3. TaskInv /\ CountInv => CountBounded
  <2> SUFFICES ASSUME TaskInv, CountInv, limit > 0
               PROVE  slices <= limit + Cardinality(Tasks) - 1
    BY DEF CountBounded
  <2>1. Started \in SUBSET Tasks /\ Pending \in SUBSET Tasks
    BY DEF Started, Pending
  <2>2. /\ Cardinality(Started) \in Nat /\ Cardinality(Pending) \in Nat
        /\ Cardinality(Tasks) \in Nat /\ Cardinality(Started) <= Cardinality(Tasks)
        /\ slices \in Nat /\ limit \in Nat /\ count \in Int
    BY <2>1, TasksFinite DEF TaskInv, TaskTypeOK
  <2> QED BY <2>2 DEF CountInv
<1> QED BY <1>1, <1>2, <1>3, AlwaysTaskInv, PTL DEF TaskSpec
=============================================================================
