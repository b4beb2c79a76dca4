------------------------- MODULE LinuxThreadsProofs -------------------------
(***************************************************************************)
(* Safety of the emulated Linux threads, for any number of threads and of  *)
(* words.  The context of a thread rests on one greenlet having control at *)
(* a time and on every thread but the first being born with a context; the *)
(* futexes on a thread being queued only while it waits.                   *)
(***************************************************************************)
EXTENDS LinuxThreads, SequenceTheorems, TLAPS

Phases == {"none", "spawned", "emu", "suspended", "checking", "yielded",
           "blocked", "done", "dead"}

Waiter == [bitset : SUBSET Bits, thread : Threads]

(* A context belongs to its thread; only the main thread begins without     *)
(* one, before there is any other.                                          *)
ContextInv ==
    /\ \A t \in Threads :
          /\ saved_context[t] # Unsaved => saved_context[t].thread = t
          /\ phase[t] = "none" => saved_context[t] = Unsaved
          /\ phase[t] \notin {"none", "spawned"} => saved_context[t] # Unsaved
          /\ (phase[t] = "spawned" /\ t # Main) => saved_context[t] # Unsaved
          /\ (phase[Main] = "spawned" /\ t # Main) => phase[t] = "none"
    /\ phase[Main] = "spawned" => regs.thread = Main
    /\ phase[Main] # "none"

(* One greenlet has control, and while it emulates or has just done so the  *)
(* engine holds its registers.                                              *)
TurnInv ==
    /\ \A t, u \in Threads :
          (phase[t] \in InControl /\ phase[u] \in InControl) => t = u
    /\ \A t \in Threads : phase[t] \in {"emu", "suspended"} =>
          /\ cur_thread = t /\ regs.thread = t
          /\ regs.tls = saved_context[t].tls

ThreadInv == TypeOK /\ ContextInv /\ TurnInv

-----------------------------------------------------------------------------
(* No registers are those of a thread that has none. *)
LEMMA UnsavedIsNone == Unsaved \notin Registers
<1> SUFFICES ASSUME Unsaved \in Registers PROVE FALSE
  OBVIOUS
<1>1. Unsaved.pc \in {"code", "exit"}
  BY DEF Registers
<1>2. Unsaved.pc = "unsaved"
  BY DEF Unsaved
<1> QED BY <1>1, <1>2

(* What a wake takes from a queue and what it leaves. *)
LEMMA QueueParts ==
    ASSUME TypeOK, NEW a \in Addrs, NEW n \in Nat
    PROVE  LET m == Smaller(n, Len(wait_list[a])) IN
           /\ m \in 0 .. Len(wait_list[a]) /\ m <= n
           /\ Taken(a, n) \in Seq(Waiter) /\ Len(Taken(a, n)) = m
           /\ \A i \in 1 .. m : Taken(a, n)[i] = wait_list[a][i]
           /\ Remaining(a, n) \in Seq(Waiter)
           /\ Len(Remaining(a, n)) = Len(wait_list[a]) - m
           /\ \A i \in 1 .. Len(wait_list[a]) - m :
                 Remaining(a, n)[i] = wait_list[a][i + m]
<1> DEFINE m == Smaller(n, Len(wait_list[a]))
           s == wait_list[a]
<1>0. s \in Seq(Waiter)
  BY DEF TypeOK, Waiter
<1>1. s \in Seq(Waiter) /\ Len(s) \in Nat
  BY <1>0
<1>2. m \in 0 .. Len(s) /\ m <= n
  BY <1>1 DEF Smaller
<1> HIDE DEF m, s
<1>3. /\ SubSeq(s, 1, m) \in Seq(Waiter) /\ Len(SubSeq(s, 1, m)) = m
      /\ \A i \in 1 .. m : SubSeq(s, 1, m)[i] = s[i]
  BY <1>1, <1>2, SubSeqProperties
<1>4. /\ SubSeq(s, m + 1, Len(s)) \in Seq(Waiter)
      /\ Len(SubSeq(s, m + 1, Len(s))) = Len(s) - m
      /\ \A i \in 1 .. Len(s) - m : SubSeq(s, m + 1, Len(s))[i] = s[i + m]
  BY <1>1, <1>2, SubSeqProperties
<1> QED BY <1>2, <1>3, <1>4 DEF m, s, Taken, Remaining

(* A wake notifies threads. *)
LEMMA WakeListType ==
    ASSUME TypeOK, NEW a \in Addrs, NEW n \in Nat, NEW b
    PROVE  get_futex_wake_list(a, n, b) \subseteq Threads
<1>1. Taken(a, n) \in Seq(Waiter)
  BY QueueParts
<1>2. \A x \in Range(Taken(a, n)) : x \in Waiter
  BY <1>1 DEF Range
<1> QED BY <1>2 DEF get_futex_wake_list, Waiter

-----------------------------------------------------------------------------
(* Types, action by action. *)

(* The system calls and instructions of a thread. *)
LEMMA GuestTypes ==
    ASSUME ThreadInv, NEW t \in Threads,
           \/ Syscall(t) \/ stop(t) \/ EmuReturns(t) \/ EmuRaises(t)
           \/ \E a \in Addrs, val \in {0, 1} : Store(t, a, val)
    PROVE  TypeOK'
<1> USE DEF ThreadInv, TypeOK, Suspend
<1>1. ASSUME NEW a \in Addrs, NEW val \in {0, 1}, NEW b \in Bitsets,
             futex_wait(t, a, val, b)
      PROVE  TypeOK'
  <2>1. CASE UNCHANGED vars
    BY <2>1 DEF vars
  <2>2. CASE ~ UNCHANGED vars
    <3>1. /\ wait_list' = [wait_list EXCEPT
                ![a] = Append(wait_list[a], [bitset |-> b, thread |-> t])]
          /\ event' = [event EXCEPT ![t] = FALSE]
          /\ phase' = [phase EXCEPT ![t] = "suspended"]
          /\ sched_cb' = [sched_cb EXCEPT ![t] = "wait"]
          /\ UNCHANGED <<status, wakes, clear_child_tid, saved_context, regs,
                         cur_thread, threads, mem>>
      BY <1>1, <2>2 DEF futex_wait
    <3>2. [bitset |-> b, thread |-> t] \in [bitset : SUBSET Bits, thread : Threads]
      BY ThreadsAssumption
    <3>3. wait_list[a] \in Seq([bitset : SUBSET Bits, thread : Threads])
      OBVIOUS
    <3>4. Append(wait_list[a], [bitset |-> b, thread |-> t])
             \in Seq([bitset : SUBSET Bits, thread : Threads])
      BY <3>2, <3>3
    <3>5. wait_list' \in [Addrs -> Seq([bitset : SUBSET Bits, thread : Threads])]
      BY <3>1, <3>4
    <3>6. event' \in [Threads -> BOOLEAN]
      BY <3>1
    <3> QED BY <3>1, <3>5, <3>6
  <2> QED BY <2>1, <2>2
<1>2. ASSUME NEW a \in Addrs, NEW n \in Numbers, NEW b \in Bitsets,
             futex_wake(t, a, n, b)
      PROVE  TypeOK'
  <2>1. n \in Nat
    BY ThreadsAssumption
  <2>2. Remaining(a, n) \in Seq([bitset : SUBSET Bits, thread : Threads])
    BY <2>1, QueueParts DEF Waiter
  <2>3. get_futex_wake_list(a, n, b) \subseteq Threads
    BY <2>1, WakeListType
  <2>4. /\ wakes' \in [Threads -> SUBSET Threads]
        /\ wait_list' \in [Addrs -> Seq([bitset : SUBSET Bits, thread : Threads])]
    BY <1>2, <2>2, <2>3 DEF futex_wake
  <2>5. /\ phase' = [phase EXCEPT ![t] = "suspended"]
        /\ sched_cb' = [sched_cb EXCEPT ![t] = "notify"]
        /\ UNCHANGED <<status, event, clear_child_tid, saved_context, regs,
                       cur_thread, threads, mem>>
    BY <1>2 DEF futex_wake
  <2> QED BY <2>4, <2>5
<1>3. ASSUME NEW child \in Threads, NEW flags \in FlagSets, NEW a \in Addrs,
             clone(t, child, flags, a)
      PROVE  TypeOK'
  <2> DEFINE childs == [thread |-> child, pc |-> "code",
                        tls |-> IF "SETTLS" \in flags THEN child ELSE regs.tls]
  <2>1. regs.tls \in Threads
    BY DEF Registers
  <2>2. childs \in Registers
    BY <2>1 DEF Registers
  <2>3. saved_context' = [saved_context EXCEPT ![child] = childs]
    BY <1>3 DEF clone
  <2> HIDE DEF childs
  <2>4. saved_context' \in [Threads -> Registers \cup {Unsaved}]
    BY <2>2, <2>3
  <2>5. mem' \in [Addrs -> {0, 1}]
    BY <1>3 DEF clone
  <2>6. clear_child_tid' \in [Threads -> Addrs \cup {None}]
    BY <1>3 DEF clone
  <2>7. /\ phase' = [phase EXCEPT ![child] = "spawned", ![t] = "suspended"]
        /\ sched_cb' = [sched_cb EXCEPT ![t] = "default"]
        /\ threads' = threads \cup {child}
        /\ UNCHANGED <<status, wakes, event, regs, cur_thread, wait_list>>
    BY <1>3 DEF clone
  <2> QED BY <2>4, <2>5, <2>6, <2>7
<1>4. CASE exit(t)
  <2>1. /\ phase' = [phase EXCEPT ![t] = "suspended"]
        /\ sched_cb' = [sched_cb EXCEPT ![t] = "exit"]
        /\ UNCHANGED <<status, wakes, event, clear_child_tid, saved_context, regs,
                       cur_thread, threads, wait_list, mem>>
    BY <1>4 DEF exit
  <2> QED BY <2>1
<1>5. CASE stop(t)
  <2>1. /\ phase' = [phase EXCEPT ![t] = "suspended"]
        /\ sched_cb' = [sched_cb EXCEPT ![t] = "default"]
        /\ UNCHANGED <<wakes, event, clear_child_tid, saved_context, regs,
                       cur_thread, wait_list, mem>>
    BY <1>5 DEF stop
  <2>2. status' \in [Threads -> {"RUNNING", "TERMINATED"}] /\ threads' \subseteq Threads
    BY <1>5 DEF stop, Terminate
  <2> QED BY <2>1, <2>2
<1>6. CASE EmuReturns(t)
  <2>1. PICK p \in {regs.pc, "exit"} : regs' = [regs EXCEPT !.pc = p]
    BY <1>6 DEF EmuReturns
  <2>2. regs' \in Registers
    BY <2>1 DEF Registers
  <2>3. /\ phase' = [phase EXCEPT ![t] = "suspended"]
        /\ sched_cb' = [sched_cb EXCEPT ![t] = "default"]
        /\ UNCHANGED <<status, wakes, event, clear_child_tid, saved_context,
                       cur_thread, threads, wait_list, mem>>
    BY <1>6 DEF EmuReturns
  <2> QED BY <2>2, <2>3
<1>7. ASSUME NEW a \in Addrs, NEW val \in {0, 1}, Store(t, a, val)
      PROVE  TypeOK'
  <2>1. mem' \in [Addrs -> {0, 1}]
    BY <1>7 DEF Store
  <2>2. UNCHANGED <<phase, status, sched_cb, wakes, event, clear_child_tid,
                    saved_context, regs, cur_thread, threads, wait_list>>
    BY <1>7 DEF Store
  <2> QED BY <2>1, <2>2
<1>8. CASE EmuRaises(t)
  <2>1. /\ phase' = [phase EXCEPT ![t] = "dead"]
        /\ UNCHANGED <<sched_cb, wakes, event, clear_child_tid, saved_context,
                       regs, cur_thread, wait_list, mem>>
    BY <1>8 DEF EmuRaises
  <2>2. status' \in [Threads -> {"RUNNING", "TERMINATED"}] /\ threads' \subseteq Threads
    BY <1>8 DEF EmuRaises, Terminate
  <2> QED BY <2>1, <2>2
<1> QED BY <1>1, <1>2, <1>3, <1>4, <1>5, <1>6, <1>7, <1>8 DEF Syscall

(* The end of a thread. *)
LEMMA OnStopTypes ==
    ASSUME TypeOK, NEW t \in Threads, _on_stop(t)
    PROVE  /\ phase' \in [Threads -> Phases] /\ event' \in [Threads -> BOOLEAN]
           /\ clear_child_tid' \in [Threads -> Addrs \cup {None}]
           /\ wait_list' \in [Addrs -> Seq(Waiter)] /\ mem' \in [Addrs -> {0, 1}]
           /\ UNCHANGED <<status, sched_cb, wakes, cur_thread, threads>>
<1> DEFINE a == clear_child_tid[t]
<1>1. /\ phase' = [phase EXCEPT ![t] = "done"]
      /\ clear_child_tid' = [clear_child_tid EXCEPT ![t] = None]
      /\ UNCHANGED <<status, sched_cb, wakes, cur_thread, threads>>
  BY DEF _on_stop
<1>2. a \in Addrs \cup {None}
  BY DEF TypeOK
<1>3. CASE a = None
  <2>1. UNCHANGED <<mem, wait_list, event>>
    BY <1>3 DEF _on_stop
  <2> QED BY <1>1, <2>1 DEF TypeOK, Phases, Waiter
<1>4. CASE a # None
  <2>1. /\ mem' = [mem EXCEPT ![a] = 0]
        /\ SetEvents(get_futex_wake_list(a, 1, MATCH_ANY))
        /\ wait_list' = [wait_list EXCEPT ![a] = Remaining(a, 1)]
    BY <1>4 DEF _on_stop
  <2>2. a \in Addrs
    BY <1>2, <1>4
  <2> HIDE DEF a
  <2>3. Remaining(a, 1) \in Seq(Waiter)
    BY <2>2, QueueParts
  <2>4. wait_list' \in [Addrs -> Seq(Waiter)]
    BY <2>1, <2>3 DEF TypeOK, Waiter
  <2>5. mem' \in [Addrs -> {0, 1}]
    BY <2>1 DEF TypeOK
  <2>6. event' \in [Threads -> BOOLEAN]
    BY <2>1, Zenon DEF SetEvents
  <2>7. phase' \in [Threads -> Phases]
    BY <1>1 DEF TypeOK, Phases
  <2>8. clear_child_tid' \in [Threads -> Addrs \cup {None}]
    BY <1>1 DEF TypeOK
  <2> QED BY <1>1, <2>4, <2>5, <2>6, <2>7, <2>8
<1> QED BY <1>3, <1>4

(* The scheduling of a thread. *)
LEMMA SchedulingTypes ==
    ASSUME ThreadInv, NEW t \in Threads, CallSchedCb(t) \/ Start(t) \/ Continue(t)
    PROVE  TypeOK'
<1>0. TypeOK /\ regs \in Registers
  BY DEF ThreadInv, TypeOK
<1>1. CASE CallSchedCb(t)
  <2>1. saved_context' \in [Threads -> Registers \cup {Unsaved}]
    BY <1>0, <1>1 DEF CallSchedCb, TypeOK
  <2>2. wakes' \in [Threads -> SUBSET Threads]
    BY <1>0, <1>1 DEF CallSchedCb, TypeOK
  <2>3. phase' \in [Threads -> Phases]
    BY <1>0, <1>1 DEF CallSchedCb, TypeOK, Phases
  <2>4. event' \in [Threads -> BOOLEAN]
    <3>1. CASE UNCHANGED event
      BY <1>0, <3>1 DEF TypeOK
    <3>2. CASE \E ts : SetEvents(ts)
      BY <3>2, Zenon DEF SetEvents
    <3> QED BY <1>1, <3>1, <3>2 DEF CallSchedCb
  <2>5. status' \in [Threads -> {"RUNNING", "TERMINATED"}] /\ threads' \subseteq Threads
    BY <1>0, <1>1 DEF CallSchedCb, stop_thread, Terminate, TypeOK
  <2>6. UNCHANGED <<sched_cb, clear_child_tid, regs, cur_thread, wait_list, mem>>
    BY <1>1 DEF CallSchedCb
  <2> QED BY <1>0, <2>1, <2>2, <2>3, <2>4, <2>5, <2>6 DEF TypeOK, Phases
<1>2. ASSUME NEW context \in Registers, LoopTop(t, context),
             saved_context' \in [Threads -> Registers \cup {Unsaved}]
      PROVE  TypeOK'
  BY <1>0, <1>2 DEF LoopTop, TypeOK
<1>3. ASSUME _on_stop(t), regs' \in Registers,
             saved_context' \in [Threads -> Registers \cup {Unsaved}]
      PROVE  TypeOK'
  <2>1. /\ phase' \in [Threads -> Phases] /\ event' \in [Threads -> BOOLEAN]
        /\ clear_child_tid' \in [Threads -> Addrs \cup {None}]
        /\ wait_list' \in [Addrs -> Seq(Waiter)] /\ mem' \in [Addrs -> {0, 1}]
        /\ UNCHANGED <<status, sched_cb, wakes, cur_thread, threads>>
    BY <1>0, <1>3, OnStopTypes
  <2> QED BY <1>0, <1>3, <2>1 DEF TypeOK, Phases, Waiter
<1>4. CASE Start(t)
  <2> DEFINE here == [regs EXCEPT !.pc = "code"]
             context == IF saved_context[t] = Unsaved THEN here ELSE saved_context[t]
  <2>1. here \in Registers
    BY <1>0 DEF Registers
  <2>2. context \in Registers
    BY <1>0, <2>1 DEF TypeOK
  <2>3. /\ saved_context' = [saved_context EXCEPT ![t] = context]
        /\ (_on_stop(t) /\ regs' = here) \/ LoopTop(t, context)
    BY <1>4 DEF Start
  <2> HIDE DEF here, context
  <2>4. saved_context' \in [Threads -> Registers \cup {Unsaved}]
    BY <1>0, <2>2, <2>3 DEF TypeOK
  <2> QED BY <1>2, <1>3, <2>1, <2>2, <2>3, <2>4
<1>5. CASE Continue(t)
  <2>1. saved_context[t] \in Registers
    BY <1>0, <1>5 DEF Continue, ThreadInv, ContextInv, TypeOK
  <2>2. UNCHANGED saved_context /\ ((_on_stop(t) /\ UNCHANGED regs) \/ LoopTop(t, saved_context[t]))
    BY <1>5 DEF Continue
  <2> QED BY <1>0, <1>2, <1>3, <2>1, <2>2 DEF TypeOK
<1> QED BY <1>1, <1>4, <1>5

-----------------------------------------------------------------------------
(* Contexts and turns, action by action. *)

(* What ends a turn leaves the thread in control of its own registers. *)
LEMMA SuspendContexts ==
    ASSUME ThreadInv, NEW t \in Threads, phase[t] = "emu",
           phase' = [phase EXCEPT ![t] = "suspended"],
           UNCHANGED <<saved_context, cur_thread>>,
           regs'.thread = regs.thread, regs'.tls = regs.tls
    PROVE  ContextInv' /\ TurnInv'
<1>1. \A u \in Threads : phase'[u] = IF u = t THEN "suspended" ELSE phase[u]
  BY DEF ThreadInv, TypeOK
<1>2. ContextInv'
  BY <1>1, ThreadsAssumption DEF ThreadInv, ContextInv
<1>3. TurnInv'
  BY <1>1 DEF ThreadInv, TurnInv, InControl
<1> QED BY <1>2, <1>3

(* A thread that dies gives up control; the others are as they were. *)
LEMMA DeadContexts ==
    ASSUME ThreadInv, NEW t \in Threads, phase[t] = "emu",
           phase' = [phase EXCEPT ![t] = "dead"],
           UNCHANGED <<saved_context, cur_thread, regs>>
    PROVE  ContextInv' /\ TurnInv'
<1>1. \A u \in Threads : phase'[u] = IF u = t THEN "dead" ELSE phase[u]
  BY DEF ThreadInv, TypeOK
<1>2. ContextInv'
  BY <1>1, ThreadsAssumption DEF ThreadInv, ContextInv
<1>3. TurnInv'
  BY <1>1 DEF ThreadInv, TurnInv, InControl
<1> QED BY <1>2, <1>3

LEMMA SameContexts ==
    ASSUME ThreadInv, UNCHANGED <<phase, saved_context, cur_thread, regs>>
    PROVE  ContextInv' /\ TurnInv'
BY DEF ThreadInv, ContextInv, TurnInv

LEMMA GuestContexts ==
    ASSUME ThreadInv, NEW t \in Threads,
           \/ Syscall(t) \/ stop(t) \/ EmuReturns(t) \/ EmuRaises(t)
           \/ \E a \in Addrs, val \in {0, 1} : Store(t, a, val)
    PROVE  ContextInv' /\ TurnInv'
<1>0. regs \in Registers /\ phase \in [Threads -> Phases]
  BY DEF ThreadInv, TypeOK, Phases
<1>1. ASSUME NEW a \in Addrs, NEW val \in {0, 1}, NEW b \in Bitsets,
             futex_wait(t, a, val, b)
      PROVE  ContextInv' /\ TurnInv'
  BY <1>1, SuspendContexts, SameContexts DEF futex_wait, InGuest, Suspend, vars
<1>2. ASSUME NEW a \in Addrs, NEW n \in Numbers, NEW b \in Bitsets,
             futex_wake(t, a, n, b)
      PROVE  ContextInv' /\ TurnInv'
  BY <1>2, SuspendContexts DEF futex_wake, InGuest, Suspend
<1>3. CASE exit(t) \/ stop(t)
  BY <1>3, SuspendContexts DEF exit, stop, InGuest, Suspend
<1>4. CASE EmuReturns(t)
  <2>1. PICK p : regs' = [regs EXCEPT !.pc = p]
    BY <1>4 DEF EmuReturns
  <2>2. regs'.thread = regs.thread /\ regs'.tls = regs.tls
    BY <1>0, <2>1 DEF Registers
  <2> QED BY <1>4, <2>2, SuspendContexts DEF EmuReturns, Suspend
<1>5. ASSUME NEW a \in Addrs, NEW val \in {0, 1}, Store(t, a, val)
      PROVE  ContextInv' /\ TurnInv'
  BY <1>5, SameContexts DEF Store
<1>6. ASSUME NEW child \in Threads, NEW flags \in FlagSets, NEW a \in Addrs,
             clone(t, child, flags, a)
      PROVE  ContextInv' /\ TurnInv'
  <2> DEFINE childs == [thread |-> child, pc |-> "code",
                        tls |-> IF "SETTLS" \in flags THEN child ELSE regs.tls]
  <2>1. /\ phase[t] = "emu" /\ phase[child] = "none" /\ t # child
        /\ phase' = [phase EXCEPT ![child] = "spawned", ![t] = "suspended"]
        /\ saved_context' = [saved_context EXCEPT ![child] = childs]
        /\ UNCHANGED <<regs, cur_thread>>
    BY <1>6 DEF clone, InGuest
  <2>2. childs.thread = child /\ childs # Unsaved
    <3>1. childs.pc = "code" /\ Unsaved.pc = "unsaved"
      BY DEF Unsaved
    <3> QED BY <3>1
  <2> HIDE DEF childs
  <2>3. /\ \A u \in Threads : phase'[u] = IF u = t THEN "suspended"
                                          ELSE IF u = child THEN "spawned" ELSE phase[u]
        /\ \A u \in Threads : saved_context'[u] = IF u = child THEN childs
                                                  ELSE saved_context[u]
    BY <1>0, <2>1 DEF ThreadInv, TypeOK
  <2>4. child # Main /\ phase[Main] # "spawned"
    BY <2>1, ThreadsAssumption DEF ThreadInv, ContextInv
  <2>5. ContextInv'
    <3>1. phase'[Main] # "spawned" /\ phase'[Main] # "none"
      BY <2>3, <2>4, ThreadsAssumption DEF ThreadInv, ContextInv
    <3>2. ASSUME NEW u \in Threads
          PROVE  /\ saved_context'[u] # Unsaved => saved_context'[u].thread = u
                 /\ phase'[u] = "none" => saved_context'[u] = Unsaved
                 /\ phase'[u] \notin {"none", "spawned"} => saved_context'[u] # Unsaved
                 /\ (phase'[u] = "spawned" /\ u # Main) => saved_context'[u] # Unsaved
      <4>1. CASE u = child
        <5>1. phase'[u] = "spawned"
          BY <2>1, <2>3, <4>1
        <5>2. saved_context'[u] = childs
          BY <2>3, <4>1
        <5> QED BY <2>2, <4>1, <5>1, <5>2
      <4>2. CASE u # child
        <5>1. saved_context'[u] = saved_context[u]
          BY <2>3, <4>2
        <5>2. phase'[u] = IF u = t THEN "suspended" ELSE phase[u]
          BY <2>3, <4>2
        <5>3. phase'[u] = "spawned" => phase[u] = "spawned"
          BY <5>2
        <5> QED BY <2>1, <5>1, <5>2, <5>3 DEF ThreadInv, ContextInv
      <4> QED BY <4>1, <4>2
    <3> QED BY <3>1, <3>2 DEF ContextInv
  <2>6. TurnInv'
    <3>1. \A u \in Threads : phase'[u] \in InControl => u = t
      BY <2>1, <2>3 DEF ThreadInv, TurnInv, InControl
    <3>2. cur_thread = t /\ regs.thread = t /\ regs.tls = saved_context[t].tls
      BY <2>1 DEF ThreadInv, TurnInv
    <3>3. saved_context'[t] = saved_context[t]
      BY <2>1, <2>3
    <3> QED BY <2>1, <3>1, <3>2, <3>3 DEF TurnInv, InControl
  <2> QED BY <2>5, <2>6
<1>7. CASE EmuRaises(t)
  BY <1>7, DeadContexts DEF EmuRaises, InGuest
<1> QED BY <1>1, <1>2, <1>3, <1>4, <1>5, <1>6, <1>7 DEF Syscall

(* The end of a thread gives up control. *)
LEMMA OnStopContexts ==
    ASSUME ThreadInv, NEW t \in Threads, phase[t] \in {"spawned", "checking", "yielded", "blocked"},
           \A u \in Threads : u # t => phase[u] \notin InControl,
           phase' = [phase EXCEPT ![t] = "done"],
           \A u \in Threads \ {t} : saved_context'[u] = saved_context[u],
           saved_context'[t] # Unsaved, saved_context'[t].thread = t
    PROVE  ContextInv' /\ TurnInv'
<1>1. \A u \in Threads : phase'[u] = IF u = t THEN "done" ELSE phase[u]
  BY DEF ThreadInv, TypeOK
<1>2. phase'[Main] # "spawned"
  BY <1>1, ThreadsAssumption DEF ThreadInv, ContextInv
<1>3. ContextInv'
  BY <1>1, <1>2, ThreadsAssumption DEF ThreadInv, ContextInv
<1>4. TurnInv'
  BY <1>1 DEF TurnInv, InControl
<1> QED BY <1>3, <1>4

(* A thread that goes on at the top of the loop takes control with its own  *)
(* registers.                                                               *)
LEMMA LoopTopContexts ==
    ASSUME ThreadInv, NEW t \in Threads, phase[t] \in {"spawned", "checking", "yielded", "blocked"},
           \A u \in Threads : u # t => phase[u] \notin InControl,
           phase' = [phase EXCEPT ![t] = "emu"], cur_thread' = t,
           \A u \in Threads \ {t} : saved_context'[u] = saved_context[u],
           saved_context'[t] # Unsaved, saved_context'[t].thread = t,
           regs' = saved_context'[t]
    PROVE  ContextInv' /\ TurnInv'
<1>1. \A u \in Threads : phase'[u] = IF u = t THEN "emu" ELSE phase[u]
  BY DEF ThreadInv, TypeOK
<1>2. phase'[Main] # "spawned"
  BY <1>1, ThreadsAssumption DEF ThreadInv, ContextInv
<1>3. ContextInv'
  BY <1>1, <1>2, ThreadsAssumption DEF ThreadInv, ContextInv
<1>4. TurnInv'
  BY <1>1 DEF TurnInv, InControl
<1> QED BY <1>3, <1>4

LEMMA SchedulingContexts ==
    ASSUME ThreadInv, NEW t \in Threads, CallSchedCb(t) \/ Start(t) \/ Continue(t)
    PROVE  ContextInv' /\ TurnInv'
<1>0. regs \in Registers /\ phase \in [Threads -> Phases]
      /\ saved_context \in [Threads -> Registers \cup {Unsaved}]
  BY DEF ThreadInv, TypeOK, Phases
<1>1. CASE CallSchedCb(t)
  <2>1. /\ phase[t] = "suspended" /\ saved_context' = [saved_context EXCEPT ![t] = regs]
        /\ UNCHANGED <<regs, cur_thread>>
    BY <1>1 DEF CallSchedCb
  <2>2. PICK p \in {"yielded", "blocked", "checking"} : phase' = [phase EXCEPT ![t] = p]
    BY <1>1 DEF CallSchedCb
  <2>3. \A u \in Threads : /\ phase'[u] = IF u = t THEN p ELSE phase[u]
                           /\ saved_context'[u] = IF u = t THEN regs ELSE saved_context[u]
    BY <1>0, <2>1, <2>2
  <2>4. regs # Unsaved /\ regs.thread = t
    BY <1>0, <2>1, UnsavedIsNone DEF ThreadInv, TurnInv
  <2>5. phase[Main] # "spawned"
    BY <2>1, ThreadsAssumption DEF ThreadInv, ContextInv
  <2>6. ContextInv'
    BY <2>1, <2>2, <2>3, <2>4, <2>5, ThreadsAssumption DEF ThreadInv, ContextInv
  <2>7. TurnInv'
    BY <2>1, <2>2, <2>3 DEF ThreadInv, TurnInv, InControl
  <2> QED BY <2>6, <2>7
<1>2. CASE Start(t)
  <2> DEFINE here == [regs EXCEPT !.pc = "code"]
             context == IF saved_context[t] = Unsaved THEN here ELSE saved_context[t]
  <2>1. /\ phase[t] = "spawned" /\ \A u \in Threads : phase[u] \notin InControl
        /\ saved_context' = [saved_context EXCEPT ![t] = context]
        /\ \/ phase' = [phase EXCEPT ![t] = "done"]
           \/ /\ phase' = [phase EXCEPT ![t] = "emu"] /\ cur_thread' = t
              /\ regs' = context
    BY <1>2 DEF Start, HubRuns, _on_stop, LoopTop
  <2>2. here \in Registers /\ here.thread = regs.thread
    BY <1>0 DEF Registers
  <2>3. context # Unsaved /\ context.thread = t
    BY <2>1, <2>2, UnsavedIsNone, ThreadsAssumption DEF ThreadInv, ContextInv
  <2> HIDE DEF context
  <2>4. /\ saved_context'[t] = context
        /\ \A u \in Threads \ {t} : saved_context'[u] = saved_context[u]
    BY <1>0, <2>1
  <2> QED BY <2>1, <2>3, <2>4, OnStopContexts, LoopTopContexts
<1>3. CASE Continue(t)
  <2>1. /\ phase[t] \in {"checking", "yielded", "blocked"} /\ UNCHANGED saved_context
        /\ \/ phase' = [phase EXCEPT ![t] = "done"]
           \/ /\ phase' = [phase EXCEPT ![t] = "emu"] /\ cur_thread' = t
              /\ regs' = saved_context[t]
    BY <1>3 DEF Continue, _on_stop, LoopTop
  <2>2. \A u \in Threads : u # t => phase[u] \notin InControl
    <3>1. phase[t] \in InControl \/ \A u \in Threads : phase[u] \notin InControl
      BY <1>3 DEF Continue, HubRuns, InControl
    <3> QED BY <3>1 DEF ThreadInv, TurnInv
  <2>3. saved_context[t] # Unsaved /\ saved_context[t].thread = t
    BY <2>1 DEF ThreadInv, ContextInv
  <2> QED BY <2>1, <2>2, <2>3, OnStopContexts, LoopTopContexts
<1> QED BY <1>1, <1>2, <1>3

-----------------------------------------------------------------------------
LEMMA InitThreadInv == Init => ThreadInv
<1> SUFFICES ASSUME Init PROVE ThreadInv
  OBVIOUS
<1>1. TypeOK
  <2>1. [thread |-> Main, tls |-> Main, pc |-> "code"] \in Registers
    BY ThreadsAssumption DEF Registers
  <2>2. wait_list \in [Addrs -> Seq([bitset : SUBSET Bits, thread : Threads])]
    BY DEF Init
  <2>3. event \in [Threads -> BOOLEAN]
    BY DEF Init
  <2> QED BY <2>1, <2>2, <2>3, ThreadsAssumption DEF Init, TypeOK
<1>2. ContextInv
  BY ThreadsAssumption DEF Init, ContextInv
<1>3. TurnInv
  BY DEF Init, TurnInv, InControl
<1> QED BY <1>1, <1>2, <1>3 DEF ThreadInv

LEMMA StepThreadInv == ThreadInv /\ [Next]_vars => ThreadInv'
<1> SUFFICES ASSUME ThreadInv, [Next]_vars PROVE ThreadInv'
  OBVIOUS
<1>1. CASE UNCHANGED vars
  BY <1>1 DEF vars, ThreadInv, TypeOK, ContextInv, TurnInv
<1>2. CASE Next
  <2>1. PICK t \in Threads :
           \/ Syscall(t) \/ stop(t) \/ EmuReturns(t) \/ EmuRaises(t)
           \/ \E a \in Addrs, val \in {0, 1} : Store(t, a, val)
           \/ CallSchedCb(t) \/ Start(t) \/ Continue(t)
    BY <1>2 DEF Next, Scheduling
  <2>2. TypeOK'
    BY <2>1, GuestTypes, SchedulingTypes
  <2>3. ContextInv' /\ TurnInv'
    BY <2>1, GuestContexts, SchedulingContexts
  <2> QED BY <2>2, <2>3 DEF ThreadInv
<1> QED BY <1>1, <1>2

LEMMA AlwaysThreadInv == Spec => []ThreadInv
BY InitThreadInv, StepThreadInv, PTL DEF Spec

(* The thread in the Unicorn context is cur_thread, alone, on its own       *)
(* registers, for any number of threads and whatever they call.             *)
THEOREM LinuxContexts == Spec => []ContextsSound
<1>1. ThreadInv => ContextsSound
  BY DEF ThreadInv, TurnInv, ContextsSound, OwnContext, InControl
<1> QED BY <1>1, AlwaysThreadInv, PTL

(* No switch and no clone gives a thread the TLS of another. *)
THEOREM TlsStays == Spec => TlsKept
<1>1. ThreadInv /\ [Next]_vars =>
         [\A t \in Threads : saved_context[t] # Unsaved =>
              saved_context'[t].tls = saved_context[t].tls]_vars
  <2> SUFFICES ASSUME ThreadInv, Next, NEW t \in Threads, saved_context[t] # Unsaved
               PROVE  saved_context'[t].tls = saved_context[t].tls
    OBVIOUS
  <2>0. saved_context \in [Threads -> Registers \cup {Unsaved}]
    BY DEF ThreadInv, TypeOK
  <2>1. PICK u \in Threads :
           \/ UNCHANGED saved_context
           \/ \E child \in Threads, flags \in FlagSets, a \in Addrs :
                 clone(u, child, flags, a)
           \/ CallSchedCb(u) \/ Start(u)
    BY DEF Next, Syscall, Scheduling, futex_wait, futex_wake, exit, Store, stop,
           EmuReturns, EmuRaises, Continue, vars
  <2>2. ASSUME NEW child \in Threads, NEW flags \in FlagSets, NEW a \in Addrs,
               clone(u, child, flags, a)
        PROVE  saved_context'[t] = saved_context[t]
    <3>1. phase[child] = "none"
          /\ \E c : saved_context' = [saved_context EXCEPT ![child] = c]
      BY <2>2 DEF clone
    <3>2. child # t
      BY <3>1 DEF ThreadInv, ContextInv
    <3> QED BY <2>0, <3>1, <3>2
  <2>3. CASE CallSchedCb(u)
    <3>1. phase[u] = "suspended" /\ saved_context' = [saved_context EXCEPT ![u] = regs]
      BY <2>3 DEF CallSchedCb
    <3>2. regs.tls = saved_context[u].tls
      BY <3>1 DEF ThreadInv, TurnInv
    <3> QED BY <2>0, <3>1, <3>2
  <2>4. CASE Start(u)
    <3>1. PICK c : /\ saved_context' = [saved_context EXCEPT ![u] = c]
                   /\ saved_context[u] # Unsaved => c = saved_context[u]
      BY <2>4 DEF Start
    <3> QED BY <2>0, <3>1
  <2> QED BY <2>1, <2>2, <2>3, <2>4
<1> QED BY <1>1, AlwaysThreadInv, PTL DEF Spec, TlsKept

-----------------------------------------------------------------------------
(* The futexes.  A thread is in a queue only from its futex_wait on until a *)
(* wake takes it out, and from then on its event is set, or about to be set *)
(* by the waker that has control.  What a waiter passes to the queue rests  *)
(* on the bit sets: where every two of them meet, no wake drops a waiter    *)
(* without notifying it.                                                    *)


(* A wake matches every waiter it takes from a queue. *)
MeetingBitsets == \A b, c \in Bitsets : b \cap c # {}

(* A thread is in one place of one queue. *)
UniqueInv ==
    \A a, b \in Addrs : \A i \in DOMAIN wait_list[a], j \in DOMAIN wait_list[b] :
        wait_list[a][i].thread = wait_list[b][j].thread => a = b /\ i = j

(* It is there only while it waits. *)
WaitsOnly ==
    \A t \in Threads : Queued(t) =>
        /\ ~ event[t]
        /\ phase[t] = "blocked" \/ (phase[t] = "suspended" /\ sched_cb[t] = "wait")

(* A waker has control until it has set the events of those it took. *)
WakeInv ==
    \A u \in Threads : \A w \in wakes[u] :
        /\ phase[u] = "suspended" /\ sched_cb[u] = "notify"
        /\ phase[w] = "blocked" /\ ~ Queued(w)

QueueInv == UniqueInv /\ WaitsOnly /\ WakeInv

(* Where bit sets meet, who waits is queued until it is notified. *)
LostInv ==
    /\ \A a \in Addrs : \A i \in DOMAIN wait_list[a] :
          wait_list[a][i].bitset \in Bitsets
    /\ \A t \in Threads : (phase[t] = "suspended" /\ sched_cb[t] = "wait") => Queued(t)
    /\ NoLostWaiter

-----------------------------------------------------------------------------
(* While nobody has just been suspended nobody is about to be woken. *)
LEMMA NobodyWoken ==
    ASSUME ThreadInv, QueueInv, \A u \in Threads : phase[u] # "suspended"
    PROVE  \A u \in Threads : wakes[u] = {}
BY DEF ThreadInv, TypeOK, QueueInv, WakeInv

LEMMA OneInControl ==
    ASSUME ThreadInv, NEW t \in Threads, phase[t] \in InControl
    PROVE  \A u \in Threads \ {t} : phase[u] \notin InControl
BY DEF ThreadInv, TurnInv

(* What is left of a queue when its front is taken. *)
LEMMA Dequeue ==
    ASSUME ThreadInv, QueueInv, NEW a \in Addrs, NEW n \in Nat,
           wait_list' = [wait_list EXCEPT ![a] = Remaining(a, n)]
    PROVE  /\ UniqueInv'
           /\ \A t \in Threads : Queued(t)' => Queued(t)
           /\ \A c \in Addrs : \A i \in DOMAIN wait_list'[c] :
                 \E j \in DOMAIN wait_list[c] : wait_list'[c][i] = wait_list[c][j]
           /\ \A k \in DOMAIN Taken(a, n) :
                 /\ Taken(a, n)[k] \in Waiter
                 /\ k \in DOMAIN wait_list[a] /\ Taken(a, n)[k] = wait_list[a][k]
           /\ \A t \in Threads :
                 (\E k \in DOMAIN Taken(a, n) : wait_list[a][k].thread = t) =>
                     Queued(t) /\ ~ Queued(t)'
           /\ \A t \in Threads : (Queued(t) /\ ~ Queued(t)') =>
                 \E k \in DOMAIN Taken(a, n) :
                     k \in DOMAIN wait_list[a] /\ wait_list[a][k].thread = t
<1> DEFINE m == Smaller(n, Len(wait_list[a]))
           off(c) == IF c = a THEN m ELSE 0
<1>0. TypeOK
  BY DEF ThreadInv
<1>1. \A c \in Addrs : wait_list[c] \in Seq(Waiter)
  BY <1>0 DEF TypeOK, Waiter
<1>2. \A c \in Addrs : Len(wait_list[c]) \in Nat /\ DOMAIN wait_list[c] = 1 .. Len(wait_list[c])
  BY <1>1
<1>3. /\ m \in 0 .. Len(wait_list[a])
      /\ Taken(a, n) \in Seq(Waiter) /\ Len(Taken(a, n)) = m
      /\ \A i \in 1 .. m : Taken(a, n)[i] = wait_list[a][i]
      /\ Remaining(a, n) \in Seq(Waiter)
      /\ Len(Remaining(a, n)) = Len(wait_list[a]) - m
      /\ \A i \in 1 .. Len(wait_list[a]) - m : Remaining(a, n)[i] = wait_list[a][i + m]
  BY <1>0, QueueParts
<1> HIDE DEF m
<1>4. m \in Nat /\ m <= Len(wait_list[a]) /\ DOMAIN Taken(a, n) = 1 .. m
      /\ DOMAIN Remaining(a, n) = 1 .. (Len(wait_list[a]) - m)
  BY <1>2, <1>3
<1>5. \A c \in Addrs : wait_list'[c] = IF c = a THEN Remaining(a, n) ELSE wait_list[c]
  BY <1>0 DEF TypeOK
<1>6. ASSUME NEW c \in Addrs, NEW i \in DOMAIN wait_list'[c]
      PROVE  /\ i \in Nat /\ i >= 1 /\ i + off(c) \in DOMAIN wait_list[c]
             /\ wait_list'[c][i] = wait_list[c][i + off(c)]
  <2>1. CASE c = a
    <3>1. wait_list'[c] = Remaining(a, n) /\ off(c) = m
      BY <1>5, <2>1
    <3>2. i \in 1 .. (Len(wait_list[a]) - m)
      BY <1>4, <3>1
    <3>3. i + m \in DOMAIN wait_list[a]
      BY <1>2, <1>4, <3>2
    <3>4. Remaining(a, n)[i] = wait_list[a][i + m]
      BY <1>3, <3>2
    <3> QED BY <2>1, <3>1, <3>2, <3>3, <3>4
  <2>2. CASE c # a
    <3>1. wait_list'[c] = wait_list[c] /\ off(c) = 0
      BY <1>5, <2>2
    <3>2. i \in 1 .. Len(wait_list[c]) /\ Len(wait_list[c]) \in Nat
      BY <1>2, <3>1
    <3> QED BY <3>1, <3>2
  <2> QED BY <2>1, <2>2
<1>7. \A c \in Addrs : off(c) \in Nat
  BY <1>4
<1> HIDE DEF off
<1>8. \A c \in Addrs : \A i \in DOMAIN wait_list'[c] :
         \E j \in DOMAIN wait_list[c] : wait_list'[c][i] = wait_list[c][j]
  BY <1>6
<1>9. UniqueInv'
  <2>1. SUFFICES ASSUME NEW c \in Addrs, NEW d \in Addrs,
                        NEW i \in DOMAIN wait_list'[c], NEW j \in DOMAIN wait_list'[d],
                        wait_list'[c][i].thread = wait_list'[d][j].thread
                 PROVE  c = d /\ i = j
    BY DEF UniqueInv
  <2>2. /\ i + off(c) \in DOMAIN wait_list[c] /\ i \in Nat
        /\ wait_list'[c][i] = wait_list[c][i + off(c)]
    BY <1>6
  <2>3. /\ j + off(d) \in DOMAIN wait_list[d] /\ j \in Nat
        /\ wait_list'[d][j] = wait_list[d][j + off(d)]
    BY <1>6
  <2>4. wait_list[c][i + off(c)].thread = wait_list[d][j + off(d)].thread
    BY <2>1, <2>2, <2>3
  <2>5. c = d /\ i + off(c) = j + off(d)
    BY <2>2, <2>3, <2>4 DEF QueueInv, UniqueInv
  <2> QED BY <1>7, <2>2, <2>3, <2>5
<1>10. \A t \in Threads : Queued(t)' => Queued(t)
  BY <1>8 DEF Queued
<1>11. \A k \in DOMAIN Taken(a, n) :
          /\ Taken(a, n)[k] \in Waiter /\ k \in 1 .. m
          /\ k \in DOMAIN wait_list[a] /\ Taken(a, n)[k] = wait_list[a][k]
  <2>1. \A k \in DOMAIN Taken(a, n) :
           k \in 1 .. m /\ k \in DOMAIN wait_list[a] /\ Taken(a, n)[k] = wait_list[a][k]
    BY <1>2, <1>3, <1>4
  <2> QED BY <1>1, <2>1
<1>13. ASSUME NEW t \in Threads, NEW k \in DOMAIN Taken(a, n), wait_list[a][k].thread = t
       PROVE  Queued(t) /\ ~ Queued(t)'
  <2>1. k \in 1 .. m /\ k \in DOMAIN wait_list[a]
    BY <1>11
  <2>2. Queued(t)
    BY <1>13, <2>1 DEF Queued
  <2>3. ASSUME NEW c \in Addrs, NEW i \in DOMAIN wait_list'[c], wait_list'[c][i].thread = t
        PROVE  FALSE
    <3>1. /\ i \in Nat /\ i >= 1 /\ i + off(c) \in DOMAIN wait_list[c]
          /\ wait_list'[c][i] = wait_list[c][i + off(c)]
      BY <1>6
    <3>2. wait_list[c][i + off(c)].thread = wait_list[a][k].thread
      BY <1>13, <2>3, <3>1
    <3>3. c = a /\ i + off(c) = k
      BY <2>1, <3>1, <3>2 DEF QueueInv, UniqueInv
    <3> QED BY <1>4, <2>1, <3>1, <3>3 DEF off
  <2>4. ~ Queued(t)'
    BY <2>3 DEF Queued
  <2> QED BY <2>2, <2>4
<1>12. ASSUME NEW t \in Threads, Queued(t), ~ (Queued(t)')
       PROVE  \E k \in DOMAIN Taken(a, n) :
                  k \in DOMAIN wait_list[a] /\ wait_list[a][k].thread = t
  <2>0. PICK c \in Addrs : \E i \in DOMAIN wait_list[c] : wait_list[c][i].thread = t
    BY <1>12 DEF Queued
  <2>1. PICK i \in DOMAIN wait_list[c] : wait_list[c][i].thread = t
    BY <2>0
  <2>2. \A d \in Addrs : \A j \in DOMAIN wait_list'[d] : wait_list'[d][j].thread # t
    BY <1>12 DEF Queued
  <2>3. c = a
    BY <1>5, <2>1, <2>2
  <2>4. i \in 1 .. Len(wait_list[a])
    BY <1>2, <2>1, <2>3
  <2>5. CASE i <= m
    BY <1>4, <2>1, <2>3, <2>4, <2>5
  <2>6. CASE i > m
    <3>1. i - m \in 1 .. (Len(wait_list[a]) - m) /\ i - m + m = i
      BY <1>2, <1>4, <2>4, <2>6
    <3>2. Remaining(a, n)[i - m] = wait_list[a][i]
      BY <1>3, <3>1
    <3>3. i - m \in DOMAIN wait_list'[a] /\ wait_list'[a][i - m] = wait_list[a][i]
      BY <1>4, <1>5, <3>1, <3>2
    <3> QED BY <2>1, <2>2, <2>3, <3>3
  <2> QED BY <1>4, <1>2, <2>4, <2>5, <2>6
<1> QED BY <1>8, <1>9, <1>10, <1>11, <1>12, <1>13

(* Those notified of a wake were waiting and are in no queue any more. *)
LEMMA NotifiedLeave ==
    ASSUME ThreadInv, QueueInv, NEW a \in Addrs, NEW n \in Nat, NEW b,
           wait_list' = [wait_list EXCEPT ![a] = Remaining(a, n)]
    PROVE  \A t \in get_futex_wake_list(a, n, b) :
              t \in Threads /\ Queued(t) /\ ~ Queued(t)'
<1> SUFFICES ASSUME NEW t \in get_futex_wake_list(a, n, b)
             PROVE  t \in Threads /\ Queued(t) /\ ~ Queued(t)'
  OBVIOUS
<1>1. t \in Threads
  BY WakeListType DEF ThreadInv
<1>2. PICK k \in DOMAIN Taken(a, n) : Taken(a, n)[k].thread = t
  BY DEF get_futex_wake_list, Range
<1>3. wait_list[a][k].thread = t
  BY <1>2, Dequeue
<1>4. \E j \in DOMAIN Taken(a, n) : wait_list[a][j].thread = t
  BY <1>3
<1>5. Queued(t) /\ ~ Queued(t)'
  BY <1>1, <1>4, Dequeue
<1> QED BY <1>1, <1>5

(* Where the bit sets match, those taken are notified. *)
LEMMA TakenNotified ==
    ASSUME ThreadInv, QueueInv, NEW a \in Addrs, NEW n \in Nat, NEW b,
           wait_list' = [wait_list EXCEPT ![a] = Remaining(a, n)],
           \A i \in DOMAIN wait_list[a] : wait_list[a][i].bitset \cap b # {}
    PROVE  \A t \in Threads : (Queued(t) /\ ~ Queued(t)') =>
              t \in get_futex_wake_list(a, n, b)
<1> SUFFICES ASSUME NEW t \in Threads, Queued(t), ~ (Queued(t)')
             PROVE  t \in get_futex_wake_list(a, n, b)
  OBVIOUS
<1>1. PICK k \in DOMAIN Taken(a, n) :
         k \in DOMAIN wait_list[a] /\ wait_list[a][k].thread = t
  BY Dequeue, ZenonT(30)
<1>2. Taken(a, n)[k] = wait_list[a][k]
  BY <1>1, Dequeue
<1>3. /\ Taken(a, n)[k] \in Range(Taken(a, n)) /\ Taken(a, n)[k].thread = t
      /\ Taken(a, n)[k].bitset \cap b # {}
  BY <1>1, <1>2 DEF Range
<1> QED BY <1>3 DEF get_futex_wake_list

-----------------------------------------------------------------------------
(* The futex operations, and the steps that leave the queues alone. *)

(* A step of a thread in no queue that wakes nobody and leaves the queues   *)
(* alone; another thread may be born of it.                                 *)
LEMMA QuietStep ==
    ASSUME ThreadInv, QueueInv, NEW t \in Threads,
           UNCHANGED <<wait_list, event, wakes>>,
           \A u \in Threads : wakes[u] = {}, ~ Queued(t),
           \A u \in Threads \ {t} :
              /\ sched_cb'[u] = sched_cb[u]
              /\ phase'[u] = phase[u] \/ (phase[u] = "none" /\ phase'[u] = "spawned"),
           phase'[t] # "blocked", ~ (phase'[t] = "suspended" /\ sched_cb'[t] = "wait")
    PROVE  QueueInv' /\ (LostInv => LostInv')
<1>1. \A u \in Threads : Queued(u)' = Queued(u)
  BY DEF Queued
<1>2. UniqueInv'
  BY DEF QueueInv, UniqueInv
<1>3. WaitsOnly'
  BY <1>1 DEF QueueInv, WaitsOnly
<1>4. WakeInv'
  BY DEF WakeInv
<1>5. ASSUME LostInv PROVE LostInv'
  <2>1. NoLostWaiter'
    <3> SUFFICES ASSUME NEW u \in Threads, phase'[u] = "blocked", ~ event'[u]
                 PROVE  Queued(u)'
      BY DEF NoLostWaiter
    <3>1. u # t /\ phase[u] = "blocked" /\ ~ event[u]
      OBVIOUS
    <3> QED BY <1>1, <1>5, <3>1 DEF LostInv, NoLostWaiter
  <2> QED BY <1>1, <1>5, <2>1 DEF LostInv
<1> QED BY <1>2, <1>3, <1>4, <1>5 DEF QueueInv

LEMMA SameQueues ==
    ASSUME QueueInv, UNCHANGED <<wait_list, event, wakes, phase, sched_cb>>
    PROVE  QueueInv' /\ (LostInv => LostInv')
BY DEF QueueInv, UniqueInv, WaitsOnly, WakeInv, LostInv, NoLostWaiter, Queued

(* A thread that emulates is in no queue, and nobody is about to be woken. *)
LEMMA EmuQuiet ==
    ASSUME ThreadInv, QueueInv, NEW t \in Threads, phase[t] = "emu"
    PROVE  /\ ~ Queued(t) /\ \A u \in Threads : wakes[u] = {}
           /\ \A u \in Threads : phase[u] # "suspended"
<1>1. \A u \in Threads : phase[u] # "suspended"
  BY OneInControl DEF InControl
<1> QED BY <1>1, NobodyWoken DEF QueueInv, WaitsOnly

LEMMA WaitQueues ==
    ASSUME ThreadInv, QueueInv, NEW t \in Threads, NEW a \in Addrs, NEW val \in {0, 1},
           NEW b \in Bitsets, futex_wait(t, a, val, b)
    PROVE  QueueInv' /\ (LostInv => LostInv')
<1>1. CASE UNCHANGED vars
  BY <1>1, SameQueues DEF vars
<1>2. CASE ~ UNCHANGED vars
  <2> DEFINE s == wait_list[a]
             new == [bitset |-> b, thread |-> t]
  <2>1. /\ wait_list' = [wait_list EXCEPT ![a] = Append(s, new)]
        /\ event' = [event EXCEPT ![t] = FALSE]
        /\ phase' = [phase EXCEPT ![t] = "suspended"]
        /\ sched_cb' = [sched_cb EXCEPT ![t] = "wait"]
        /\ UNCHANGED wakes /\ phase[t] = "emu"
    BY <1>2 DEF futex_wait, Suspend, InGuest
  <2>2. ~ Queued(t) /\ \A u \in Threads : wakes[u] = {} /\ phase[u] # "suspended"
    BY <2>1, EmuQuiet
  <2>3. new.thread = t /\ new.bitset = b
    OBVIOUS
  <2>4. s \in Seq(Waiter)
    BY DEF ThreadInv, TypeOK, Waiter
  <2>5. Len(s) \in Nat /\ DOMAIN s = 1 .. Len(s)
    BY <2>4
  <2> HIDE DEF new
  <2>6. /\ DOMAIN Append(s, new) = 1 .. (Len(s) + 1)
        /\ \A i \in DOMAIN s : Append(s, new)[i] = s[i]
        /\ Append(s, new)[Len(s) + 1] = new
    BY <2>4, <2>5
  <2>7. \A c \in Addrs : wait_list'[c] = IF c = a THEN Append(s, new) ELSE wait_list[c]
    BY <2>1 DEF ThreadInv, TypeOK
  <2>8. ASSUME NEW c \in Addrs, NEW i \in DOMAIN wait_list'[c]
        PROVE  \/ i \in DOMAIN wait_list[c] /\ wait_list'[c][i] = wait_list[c][i]
               \/ c = a /\ i = Len(s) + 1 /\ wait_list'[c][i] = new
    <3>1. CASE c = a
      <4>1. wait_list'[c] = Append(s, new) /\ wait_list[c] = s
        BY <2>7, <3>1
      <4>2. i \in DOMAIN s \/ i = Len(s) + 1
        BY <2>5, <2>6, <4>1
      <4> QED BY <2>6, <3>1, <4>1, <4>2
    <3>2. CASE c # a
      BY <2>7, <3>2
    <3> QED BY <3>1, <3>2
  <2>9. ASSUME NEW c \in Addrs, NEW i \in DOMAIN wait_list[c]
        PROVE  i \in DOMAIN wait_list'[c] /\ wait_list'[c][i] = wait_list[c][i]
    <3>1. CASE c = a
      <4>1. wait_list'[c] = Append(s, new) /\ wait_list[c] = s
        BY <2>7, <3>1
      <4>2. i \in DOMAIN s /\ i \in DOMAIN Append(s, new)
        BY <2>5, <2>6, <4>1
      <4> QED BY <2>6, <4>1, <4>2
    <3>2. CASE c # a
      BY <2>7, <3>2
    <3> QED BY <3>1, <3>2
  <2>10. Len(s) + 1 \in DOMAIN wait_list'[a] /\ wait_list'[a][Len(s) + 1] = new
    <3>1. wait_list'[a] = Append(s, new)
      BY <2>7
    <3>2. Len(s) + 1 \in DOMAIN Append(s, new)
      BY <2>5, <2>6
    <3> QED BY <2>6, <3>1, <3>2
  <2>11. \A c \in Addrs : \A i \in DOMAIN wait_list[c] : wait_list[c][i].thread # t
    BY <2>2 DEF Queued
  <2>12. UniqueInv'
    <3> SUFFICES ASSUME NEW c \in Addrs, NEW d \in Addrs,
                        NEW i \in DOMAIN wait_list'[c], NEW j \in DOMAIN wait_list'[d],
                        wait_list'[c][i].thread = wait_list'[d][j].thread
                 PROVE  c = d /\ i = j
      BY DEF UniqueInv
    <3>1. CASE wait_list'[c][i].thread = t
      <4>1. c = a /\ i = Len(s) + 1
        BY <2>8, <2>11, <3>1
      <4>2. d = a /\ j = Len(s) + 1
        BY <2>8, <2>11, <3>1
      <4> QED BY <4>1, <4>2
    <3>2. CASE wait_list'[c][i].thread # t
      <4>1. i \in DOMAIN wait_list[c] /\ wait_list'[c][i] = wait_list[c][i]
        BY <2>3, <2>8, <3>2
      <4>2. j \in DOMAIN wait_list[d] /\ wait_list'[d][j] = wait_list[d][j]
        BY <2>3, <2>8, <3>2
      <4> QED BY <4>1, <4>2 DEF QueueInv, UniqueInv
    <3> QED BY <3>1, <3>2
  <2>13. \A u \in Threads : Queued(u)' <=> (Queued(u) \/ u = t)
    BY <2>3, <2>8, <2>9, <2>10 DEF Queued
  <2>14. \A u \in Threads :
            /\ phase'[u] = IF u = t THEN "suspended" ELSE phase[u]
            /\ sched_cb'[u] = IF u = t THEN "wait" ELSE sched_cb[u]
    BY <2>1 DEF ThreadInv, TypeOK
  <2>15. event'[t] = FALSE /\ \A u \in Threads \ {t} : event'[u] = event[u]
    BY <2>1 DEF ThreadInv, TypeOK
  <2>16. WaitsOnly'
    BY <2>13, <2>14, <2>15 DEF QueueInv, WaitsOnly
  <2>17. WakeInv'
    BY <2>1, <2>2 DEF WakeInv
  <2>18. ASSUME LostInv PROVE LostInv'
    <3>1. \A c \in Addrs : \A i \in DOMAIN wait_list'[c] :
             wait_list'[c][i].bitset \in Bitsets
      BY <2>3, <2>8, <2>18 DEF LostInv
    <3>2. \A u \in Threads : (phase'[u] = "suspended" /\ sched_cb'[u] = "wait")
             => Queued(u)'
      BY <2>2, <2>13, <2>14
    <3>3. \A u \in Threads : (phase'[u] = "blocked" /\ ~ event'[u]) => Queued(u)'
      <4> SUFFICES ASSUME NEW u \in Threads, phase'[u] = "blocked", ~ event'[u]
                   PROVE  Queued(u)'
        OBVIOUS
      <4>1. u # t /\ phase[u] = "blocked" /\ ~ event[u]
        BY <2>14, <2>15
      <4> QED BY <2>2, <2>13, <2>18, <4>1 DEF LostInv, NoLostWaiter
    <3> QED BY <3>1, <3>2, <3>3 DEF LostInv, NoLostWaiter
  <2> QED BY <2>12, <2>16, <2>17, <2>18 DEF QueueInv
<1> QED BY <1>1, <1>2

LEMMA WakeQueues ==
    ASSUME ThreadInv, QueueInv, NEW t \in Threads, NEW a \in Addrs, NEW n \in Numbers,
           NEW b \in Bitsets, futex_wake(t, a, n, b)
    PROVE  QueueInv' /\ (MeetingBitsets /\ LostInv => LostInv')
<1> DEFINE L == get_futex_wake_list(a, n, b)
<1>1. /\ wakes' = [wakes EXCEPT ![t] = L]
      /\ wait_list' = [wait_list EXCEPT ![a] = Remaining(a, n)]
      /\ phase' = [phase EXCEPT ![t] = "suspended"]
      /\ sched_cb' = [sched_cb EXCEPT ![t] = "notify"]
      /\ UNCHANGED event /\ phase[t] = "emu" /\ n \in Nat
  BY ThreadsAssumption DEF futex_wake, Suspend, InGuest
<1>2. ~ Queued(t) /\ \A u \in Threads : wakes[u] = {} /\ phase[u] # "suspended"
  BY <1>1, EmuQuiet
<1>3. \A w \in L : w \in Threads /\ Queued(w) /\ ~ Queued(w)'
  BY <1>1, NotifiedLeave
<1>4. /\ UniqueInv' /\ \A u \in Threads : Queued(u)' => Queued(u)
      /\ \A c \in Addrs : \A i \in DOMAIN wait_list'[c] :
            \E j \in DOMAIN wait_list[c] : wait_list'[c][i] = wait_list[c][j]
  BY <1>1, Dequeue
<1>5. (MeetingBitsets /\ LostInv) =>
         \A u \in Threads : (Queued(u) /\ ~ Queued(u)') => u \in L
  <2> SUFFICES ASSUME MeetingBitsets, LostInv
               PROVE  \A u \in Threads : (Queued(u) /\ ~ Queued(u)') => u \in L
    OBVIOUS
  <2>1. \A i \in DOMAIN wait_list[a] : wait_list[a][i].bitset \cap b # {}
    BY DEF LostInv, MeetingBitsets
  <2> QED BY <1>1, <2>1, TakenNotified
<1> HIDE DEF L
<1>6. \A u \in Threads :
         /\ phase'[u] = IF u = t THEN "suspended" ELSE phase[u]
         /\ sched_cb'[u] = IF u = t THEN "notify" ELSE sched_cb[u]
         /\ wakes'[u] = IF u = t THEN L ELSE wakes[u]
  BY <1>1 DEF ThreadInv, TypeOK
<1>7. WaitsOnly'
  <2> SUFFICES ASSUME NEW u \in Threads, Queued(u)'
               PROVE  /\ ~ event'[u]
                      /\ phase'[u] = "blocked"
                         \/ (phase'[u] = "suspended" /\ sched_cb'[u] = "wait")
    BY DEF WaitsOnly
  <2>1. Queued(u) /\ u # t
    BY <1>2, <1>4
  <2> QED BY <1>1, <1>6, <2>1 DEF QueueInv, WaitsOnly
<1>8. WakeInv'
  <2> SUFFICES ASSUME NEW u \in Threads, NEW w \in wakes'[u]
               PROVE  /\ phase'[u] = "suspended" /\ sched_cb'[u] = "notify"
                      /\ phase'[w] = "blocked" /\ ~ Queued(w)'
    BY DEF WakeInv
  <2>1. u = t /\ w \in L
    BY <1>2, <1>6
  <2>2. w \in Threads /\ Queued(w) /\ ~ Queued(w)' /\ w # t
    BY <1>2, <1>3, <2>1
  <2>3. phase[w] = "blocked"
    BY <1>2, <2>2 DEF QueueInv, WaitsOnly
  <2> QED BY <1>6, <2>1, <2>2, <2>3
<1>9. ASSUME MeetingBitsets, LostInv PROVE LostInv'
  <2>1. \A c \in Addrs : \A i \in DOMAIN wait_list'[c] :
           wait_list'[c][i].bitset \in Bitsets
    BY <1>4, <1>9 DEF LostInv
  <2>2. \A u \in Threads : ~ (phase'[u] = "suspended" /\ sched_cb'[u] = "wait")
    BY <1>2, <1>6
  <2>3. ASSUME NEW u \in Threads, phase'[u] = "blocked", ~ event'[u]
        PROVE  Queued(u)' \/ (phase'[t] = "suspended" /\ u \in wakes'[t])
    <3>1. u # t /\ phase[u] = "blocked" /\ ~ event[u]
      BY <1>1, <1>6, <2>3
    <3>2. Queued(u)
      BY <1>2, <1>9, <3>1 DEF LostInv, NoLostWaiter
    <3> QED BY <1>5, <1>6, <1>9, <3>2
  <2> QED BY <2>1, <2>2, <2>3 DEF LostInv, NoLostWaiter
<1> QED BY <1>4, <1>7, <1>8, <1>9 DEF QueueInv

(* The other steps of a thread that emulates. *)
LEMMA GuestQueues ==
    ASSUME ThreadInv, QueueInv, NEW t \in Threads,
           \/ exit(t) \/ stop(t) \/ EmuReturns(t)
           \/ \E child \in Threads, flags \in FlagSets, a \in Addrs :
                 clone(t, child, flags, a)
    PROVE  QueueInv' /\ (LostInv => LostInv')
<1>0. phase \in [Threads -> Phases] /\ DOMAIN sched_cb = Threads
  BY DEF ThreadInv, TypeOK, Phases
<1>1. phase[t] = "emu" /\ UNCHANGED <<wait_list, event, wakes>>
  BY DEF exit, stop, EmuReturns, clone, InGuest
<1>2. ~ Queued(t) /\ \A u \in Threads : wakes[u] = {}
  BY <1>1, EmuQuiet
<1>3. PICK cb \in {"exit", "default"} : sched_cb' = [sched_cb EXCEPT ![t] = cb]
  BY DEF exit, stop, EmuReturns, clone, Suspend
<1>4. /\ phase'[t] = "suspended"
      /\ \A u \in Threads \ {t} :
            phase'[u] = phase[u] \/ (phase[u] = "none" /\ phase'[u] = "spawned")
  <2>1. CASE phase' = [phase EXCEPT ![t] = "suspended"]
    BY <1>0, <2>1
  <2>2. ASSUME NEW child \in Threads, phase[child] = "none",
               phase' = [phase EXCEPT ![child] = "spawned", ![t] = "suspended"]
        PROVE  /\ phase'[t] = "suspended"
               /\ \A u \in Threads \ {t} :
                     phase'[u] = phase[u] \/ (phase[u] = "none" /\ phase'[u] = "spawned")
    BY <1>0, <1>1, <2>2
  <2> QED BY <2>1, <2>2 DEF exit, stop, EmuReturns, clone, Suspend
<1>5. sched_cb'[t] = cb /\ \A u \in Threads \ {t} : sched_cb'[u] = sched_cb[u]
  BY <1>0, <1>3
<1>6. ~ (phase'[t] = "suspended" /\ sched_cb'[t] = "wait") /\ phase'[t] # "blocked"
  BY <1>3, <1>4, <1>5
<1> QED BY <1>1, <1>2, <1>4, <1>5, <1>6, QuietStep

(* A thread that dies of an exception was in no queue. *)
LEMMA DeadQueues ==
    ASSUME ThreadInv, QueueInv, NEW t \in Threads, EmuRaises(t)
    PROVE  QueueInv' /\ (LostInv => LostInv')
<1>1. /\ phase[t] = "emu" /\ phase' = [phase EXCEPT ![t] = "dead"]
      /\ UNCHANGED <<wait_list, event, wakes, sched_cb>>
  BY DEF EmuRaises, InGuest
<1>2. ~ Queued(t) /\ \A u \in Threads : wakes[u] = {}
  BY <1>1, EmuQuiet
<1>3. phase'[t] = "dead" /\ \A u \in Threads \ {t} : phase'[u] = phase[u]
  BY <1>1 DEF ThreadInv, TypeOK
<1> QED BY <1>1, <1>2, <1>3, QuietStep

(* The end of a turn: those woken are notified, a waiter blocks. *)
LEMMA CallbackQueues ==
    ASSUME ThreadInv, QueueInv, NEW t \in Threads, CallSchedCb(t)
    PROVE  QueueInv' /\ (LostInv => LostInv')
<1>0. /\ phase \in [Threads -> Phases] /\ event \in [Threads -> BOOLEAN]
      /\ wakes \in [Threads -> SUBSET Threads]
  BY DEF ThreadInv, TypeOK, Phases
<1>1. /\ phase[t] = "suspended" /\ UNCHANGED <<sched_cb, wait_list>>
      /\ wakes' = [wakes EXCEPT ![t] = {}]
  BY DEF CallSchedCb
<1>2. \A u \in Threads \ {t} : phase[u] \notin InControl /\ wakes[u] = {}
  <2>1. \A u \in Threads \ {t} : phase[u] \notin InControl
    BY <1>1, OneInControl DEF InControl
  <2> QED BY <1>0, <2>1 DEF InControl, QueueInv, WakeInv
<1>3. \A u \in Threads : wakes'[u] = {}
  BY <1>0, <1>1, <1>2
<1>4. PICK p \in {"yielded", "blocked", "checking"} :
         /\ phase' = [phase EXCEPT ![t] = p]
         /\ (p = "blocked") <=> (sched_cb[t] = "wait")
  BY DEF CallSchedCb
<1>5. \A u \in Threads : phase'[u] = IF u = t THEN p ELSE phase[u]
  BY <1>0, <1>4
<1>6. /\ \A u \in Threads : event[u] => event'[u]
      /\ \A u \in Threads : (event'[u] /\ ~ event[u]) => u \in wakes[t]
      /\ sched_cb[t] = "notify" => \A u \in wakes[t] : event'[u]
  <2>1. CASE UNCHANGED event /\ sched_cb[t] # "notify"
    BY <2>1
  <2>2. CASE sched_cb[t] = "default" /\ SetEvents({})
    BY <2>2 DEF SetEvents
  <2>3. CASE sched_cb[t] = "notify" /\ SetEvents(wakes[t])
    <3>1. \A u \in Threads : event'[u] = (event[u] \/ u \in wakes[t])
      BY <2>3 DEF SetEvents
    <3> QED BY <1>0, <3>1
  <2> QED BY <2>1, <2>2, <2>3 DEF CallSchedCb
<1>7. \A u \in Threads : Queued(u)' = Queued(u)
  BY <1>1 DEF Queued
<1>8. UniqueInv'
  BY <1>1 DEF QueueInv, UniqueInv
<1>9. WaitsOnly'
  <2> SUFFICES ASSUME NEW u \in Threads, Queued(u)'
               PROVE  ~ event'[u] /\ phase'[u] = "blocked"
    BY DEF WaitsOnly
  <2>1. Queued(u) /\ ~ event[u] /\ u \notin wakes[t]
    BY <1>7 DEF QueueInv, WaitsOnly, WakeInv
  <2>2. ~ event'[u]
    BY <1>6, <2>1
  <2>3. CASE u = t
    BY <1>1, <1>4, <1>5, <2>1, <2>2, <2>3 DEF QueueInv, WaitsOnly
  <2>4. CASE u # t
    BY <1>2, <1>5, <2>1, <2>2, <2>4 DEF QueueInv, WaitsOnly, InControl
  <2> QED BY <2>3, <2>4
<1>10. WakeInv'
  BY <1>3 DEF WakeInv
<1>11. ASSUME LostInv PROVE LostInv'
  <2>1. \A u \in Threads : phase'[u] # "suspended"
    BY <1>2, <1>5 DEF InControl
  <2>2. ASSUME NEW u \in Threads, phase'[u] = "blocked", ~ event'[u]
        PROVE  Queued(u)'
    <3>1. CASE u = t
      BY <1>1, <1>4, <1>5, <1>7, <1>11, <2>2, <3>1 DEF LostInv
    <3>2. CASE u # t
      <4>1. phase[u] = "blocked" /\ ~ event[u]
        BY <1>5, <1>6, <2>2, <3>2
      <4>2. u \notin wakes[t]
        BY <1>6, <2>2 DEF QueueInv, WakeInv
      <4>3. \A v \in Threads : u \notin wakes[v]
        BY <1>2, <4>2
      <4> QED BY <1>7, <1>11, <4>1, <4>3 DEF LostInv, NoLostWaiter
    <3> QED BY <3>1, <3>2
  <2>3. \A a \in Addrs : \A i \in DOMAIN wait_list'[a] : wait_list'[a][i].bitset \in Bitsets
    BY <1>1, <1>11 DEF LostInv
  <2> QED BY <2>1, <2>2, <2>3 DEF LostInv, NoLostWaiter
<1> QED BY <1>8, <1>9, <1>10, <1>11 DEF QueueInv

(* The end of a thread, that wakes the first waiter of its word. *)
LEMMA OnStopQueues ==
    ASSUME ThreadInv, QueueInv, NEW t \in Threads, _on_stop(t), ~ Queued(t),
           \A u \in Threads : wakes[u] = {} /\ phase[u] # "suspended"
    PROVE  QueueInv' /\ (MeetingBitsets /\ LostInv => LostInv')
<1> DEFINE a == clear_child_tid[t]
<1>0. /\ phase \in [Threads -> Phases] /\ event \in [Threads -> BOOLEAN]
      /\ a \in Addrs \cup {None}
  BY DEF ThreadInv, TypeOK, Phases
<1>1. /\ phase' = [phase EXCEPT ![t] = "done"] /\ UNCHANGED <<wakes, sched_cb>>
  BY DEF _on_stop
<1>2. \A u \in Threads : phase'[u] = IF u = t THEN "done" ELSE phase[u]
  BY <1>0, <1>1
<1>3. CASE a = None
  <2>1. UNCHANGED <<wait_list, event, wakes>>
    BY <1>3 DEF _on_stop
  <2> QED BY <1>1, <1>2, <2>1, QuietStep
<1>4. CASE a # None
  <2> DEFINE L == get_futex_wake_list(a, 1, MATCH_ANY)
  <2>1. /\ wait_list' = [wait_list EXCEPT ![a] = Remaining(a, 1)]
        /\ SetEvents(L)
    BY <1>4 DEF _on_stop
  <2>2. a \in Addrs
    BY <1>0, <1>4
  <2> HIDE DEF a
  <2>3. \A w \in L : w \in Threads /\ Queued(w) /\ ~ Queued(w)'
    BY <2>1, <2>2, NotifiedLeave
  <2>4. /\ UniqueInv' /\ \A u \in Threads : Queued(u)' => Queued(u)
        /\ \A c \in Addrs : \A i \in DOMAIN wait_list'[c] :
              \E j \in DOMAIN wait_list[c] : wait_list'[c][i] = wait_list[c][j]
    BY <2>1, <2>2, Dequeue
  <2>5. (MeetingBitsets /\ LostInv) =>
           \A u \in Threads : (Queued(u) /\ ~ Queued(u)') => u \in L
    <3> SUFFICES ASSUME MeetingBitsets, LostInv
                 PROVE  \A u \in Threads : (Queued(u) /\ ~ Queued(u)') => u \in L
      OBVIOUS
    <3>1. ASSUME NEW i \in DOMAIN wait_list[a]
          PROVE  wait_list[a][i].bitset \cap MATCH_ANY # {}
      <4>1. wait_list[a][i].bitset \in Bitsets
        BY <2>2 DEF LostInv
      <4>2. wait_list[a][i].bitset # {} /\ wait_list[a][i].bitset \subseteq Bits
        BY <4>1, ThreadsAssumption DEF MeetingBitsets
      <4> QED BY <4>2 DEF MATCH_ANY
    <3> QED BY <2>1, <2>2, <3>1, TakenNotified
  <2> HIDE DEF L
  <2>6. \A u \in Threads : event'[u] = (event[u] \/ u \in L)
    BY <2>1 DEF SetEvents
  <2>7. WaitsOnly'
    <3> SUFFICES ASSUME NEW u \in Threads, Queued(u)'
                 PROVE  ~ event'[u] /\ phase'[u] = "blocked"
      BY DEF WaitsOnly
    <3>1. Queued(u) /\ u # t /\ u \notin L
      BY <2>3, <2>4
    <3>2. phase[u] = "blocked" /\ ~ event[u]
      BY <3>1 DEF QueueInv, WaitsOnly
    <3>3. ~ event'[u]
      BY <2>6, <3>1, <3>2
    <3> QED BY <1>2, <3>1, <3>2, <3>3
  <2>8. WakeInv'
    BY <1>1 DEF WakeInv
  <2>9. ASSUME MeetingBitsets, LostInv PROVE LostInv'
    <3>1. \A c \in Addrs : \A i \in DOMAIN wait_list'[c] :
             wait_list'[c][i].bitset \in Bitsets
      BY <2>4, <2>9 DEF LostInv
    <3>2. \A u \in Threads : phase'[u] # "suspended"
      BY <1>2
    <3>3. ASSUME NEW u \in Threads, phase'[u] = "blocked", ~ event'[u]
          PROVE  Queued(u)'
      <4>1. u # t /\ phase[u] = "blocked"
        BY <1>2, <3>3
      <4>2. ~ event[u] /\ u \notin L
        BY <2>6, <3>3
      <4>3. Queued(u)
        BY <2>9, <4>1, <4>2 DEF LostInv, NoLostWaiter
      <4> QED BY <2>5, <2>9, <4>2, <4>3
    <3> QED BY <3>1, <3>2, <3>3 DEF LostInv, NoLostWaiter
  <2> QED BY <2>4, <2>7, <2>8, <2>9 DEF QueueInv
<1> QED BY <1>3, <1>4

LEMMA SwitchQueues ==
    ASSUME ThreadInv, QueueInv, NEW t \in Threads, Start(t) \/ Continue(t)
    PROVE  QueueInv' /\ (MeetingBitsets /\ LostInv => LostInv')
<1>0. phase \in [Threads -> Phases] /\ DOMAIN sched_cb = Threads
  BY DEF ThreadInv, TypeOK, Phases
<1>1. /\ phase[t] \in {"spawned", "checking", "yielded"} \/ (phase[t] = "blocked" /\ event[t])
      /\ phase[t] \in InControl \/ \A u \in Threads : phase[u] \notin InControl
      /\ _on_stop(t) \/ \E context : LoopTop(t, context)
  BY DEF Start, Continue, HubRuns, InControl
<1>2. \A u \in Threads : phase[u] # "suspended"
  BY <1>1, OneInControl DEF InControl
<1>3. \A u \in Threads : wakes[u] = {}
  BY <1>2, NobodyWoken
<1>4. ~ Queued(t)
  BY <1>1 DEF QueueInv, WaitsOnly
<1>5. CASE _on_stop(t)
  BY <1>2, <1>3, <1>4, <1>5, OnStopQueues
<1>6. CASE \E context : LoopTop(t, context)
  <2>1. /\ UNCHANGED <<wait_list, event, wakes>>
        /\ phase' = [phase EXCEPT ![t] = "emu"]
        /\ sched_cb' = [sched_cb EXCEPT ![t] = "default"]
    BY <1>6 DEF LoopTop
  <2>2. /\ phase'[t] = "emu"
        /\ \A u \in Threads \ {t} : phase'[u] = phase[u] /\ sched_cb'[u] = sched_cb[u]
    BY <1>0, <2>1
  <2> QED BY <1>3, <1>4, <2>1, <2>2, QuietStep
<1> QED BY <1>1, <1>5, <1>6

-----------------------------------------------------------------------------
LEMMA InitQueues == Init => QueueInv /\ LostInv
<1> SUFFICES ASSUME Init PROVE QueueInv /\ LostInv
  OBVIOUS
<1>1. \A a \in Addrs : DOMAIN wait_list[a] = {}
  BY DEF Init
<1>2. \A t \in Threads : ~ Queued(t) /\ wakes[t] = {} /\ phase[t] \in {"spawned", "none"}
  BY <1>1 DEF Init, Queued
<1>3. UniqueInv /\ WaitsOnly /\ WakeInv
  BY <1>1, <1>2 DEF UniqueInv, WaitsOnly, WakeInv
<1> QED BY <1>1, <1>2, <1>3 DEF QueueInv, LostInv, NoLostWaiter

LEMMA StepQueues ==
    ThreadInv /\ QueueInv /\ [Next]_vars =>
        QueueInv' /\ (MeetingBitsets /\ LostInv => LostInv')
<1> SUFFICES ASSUME ThreadInv, QueueInv, [Next]_vars
             PROVE  QueueInv' /\ (MeetingBitsets /\ LostInv => LostInv')
  OBVIOUS
<1>1. CASE UNCHANGED vars
  BY <1>1, SameQueues DEF vars
<1>2. CASE Next
  <2>1. PICK t \in Threads :
           \/ Syscall(t) \/ stop(t) \/ EmuReturns(t) \/ EmuRaises(t)
           \/ \E a \in Addrs, val \in {0, 1} : Store(t, a, val)
           \/ CallSchedCb(t) \/ Start(t) \/ Continue(t)
    BY <1>2 DEF Next, Scheduling
  <2>2. CASE \E a \in Addrs, val \in {0, 1}, b \in Bitsets : futex_wait(t, a, val, b)
    BY <2>2, WaitQueues
  <2>3. CASE \E a \in Addrs, n \in Numbers, b \in Bitsets : futex_wake(t, a, n, b)
    BY <2>3, WakeQueues
  <2>4. CASE \E a \in Addrs, val \in {0, 1} : Store(t, a, val)
    BY <2>4, SameQueues DEF Store
  <2> QED BY <2>1, <2>2, <2>3, <2>4, GuestQueues, DeadQueues, CallbackQueues,
             SwitchQueues DEF Syscall
<1> QED BY <1>1, <1>2

LEMMA AlwaysQueueInv == Spec => [](ThreadInv /\ QueueInv)
<1>1. ThreadInv /\ QueueInv /\ [Next]_vars => QueueInv'
  BY StepQueues
<1>2. Init => QueueInv
  BY InitQueues
<1> QED BY <1>1, <1>2, AlwaysThreadInv, PTL DEF Spec

(* Only a thread that waits is in a queue, and in one place: no wake is     *)
(* spent on a thread that has gone on, for any number of threads and words. *)
THEOREM WaitersQueuedOnce == Spec => []QueuedOnce
<1>1. QueueInv => QueuedOnce
  BY DEF QueueInv, UniqueInv, WaitsOnly, QueuedOnce
<1> QED BY <1>1, AlwaysQueueInv, PTL

(* If every two bit sets that guests pass meet, as those of plain futex     *)
(* operations do, a thread that waits is in a queue or is being woken.      *)
THEOREM NoWaiterLost ==
    ASSUME MeetingBitsets
    PROVE  Spec => []NoLostWaiter
<1>1. ThreadInv /\ QueueInv /\ LostInv /\ [Next]_vars => LostInv'
  BY MeetingBitsets, StepQueues
<1>2. Init => LostInv
  BY InitQueues
<1>3. LostInv => NoLostWaiter
  BY DEF LostInv
<1> QED BY <1>1, <1>2, <1>3, AlwaysQueueInv, PTL DEF Spec

(* If the bit sets of waiters are such, a thread that ends by exit, at the  *)
(* exit point or in a stop of the world, and not of an exception, clears    *)
(* the word it was created for, and whoever waits for it first is notified. *)
THEOREM EndingNotifies ==
    ASSUME MeetingBitsets
    PROVE  Spec => EndClearsTid
<1>1. ThreadInv /\ QueueInv /\ LostInv /\ [Next]_vars => LostInv'
  BY MeetingBitsets, StepQueues
<1>2. Init => LostInv
  BY InitQueues
<1>3. ThreadInv /\ LostInv /\ [Next]_vars =>
        [\A t \in Threads :
           (phase[t] # "done" /\ phase'[t] = "done" /\ clear_child_tid[t] # None) =>
              LET a == clear_child_tid[t] IN
              /\ mem'[a] = 0
              /\ wait_list[a] # <<>> => event'[Head(wait_list[a]).thread]]_vars
  <2> SUFFICES ASSUME ThreadInv, LostInv, Next, NEW t \in Threads,
                      phase[t] # "done", phase'[t] = "done", clear_child_tid[t] # None
               PROVE  LET a == clear_child_tid[t] IN
                      /\ mem'[a] = 0
                      /\ wait_list[a] # <<>> => event'[Head(wait_list[a]).thread]
    OBVIOUS
  <2> DEFINE a == clear_child_tid[t]
             s == wait_list[a]
  <2>0. TypeOK /\ a \in Addrs
    BY DEF ThreadInv, TypeOK
  <2>1. PICK u \in Threads :
           \/ Syscall(u) \/ stop(u) \/ EmuReturns(u) \/ EmuRaises(u)
           \/ \E b \in Addrs, val \in {0, 1} : Store(u, b, val)
           \/ CallSchedCb(u) \/ Start(u) \/ Continue(u)
    BY DEF Next, Scheduling
  <2>2. _on_stop(t)
    <3>1. ASSUME NEW p, p # "done", phase' = [phase EXCEPT ![u] = p] PROVE FALSE
      BY <2>0, <3>1 DEF TypeOK
    <3>2. phase' # phase
      OBVIOUS
    <3>3. ASSUME NEW child \in Threads,
                 phase' = [phase EXCEPT ![child] = "spawned", ![u] = "suspended"]
          PROVE  FALSE
      BY <2>0, <3>3 DEF TypeOK
    <3>4. ~ (Syscall(u) \/ stop(u) \/ EmuReturns(u) \/ EmuRaises(u))
      BY <3>1, <3>2, <3>3 DEF Syscall, futex_wait, futex_wake, clone, exit, stop,
                              EmuReturns, EmuRaises, Suspend, vars
    <3>5. ~ (CallSchedCb(u) \/ \E b \in Addrs, val \in {0, 1} : Store(u, b, val))
      BY <3>1, <3>2 DEF CallSchedCb, Store
    <3>6. _on_stop(u)
      BY <2>1, <3>1, <3>4, <3>5 DEF Start, Continue, LoopTop
    <3>7. u = t
      BY <2>0, <3>6 DEF _on_stop, TypeOK
    <3> QED BY <3>6, <3>7
  <2>3. mem' = [mem EXCEPT ![a] = 0] /\ SetEvents(get_futex_wake_list(a, 1, MATCH_ANY))
    BY <2>2 DEF _on_stop
  <2>4. mem'[a] = 0
    BY <2>0, <2>3 DEF TypeOK
  <2>5. ASSUME s # <<>> PROVE event'[Head(s).thread]
    <3>1. s \in Seq(Waiter)
      BY <2>0 DEF TypeOK, Waiter
    <3>2. Len(s) \in Nat /\ Len(s) # 0 /\ Head(s) = s[1] /\ 1 \in DOMAIN s
      BY <2>5, <3>1
    <3>3. Head(s) \in Waiter
      BY <3>1, <3>2
    <3>4. Smaller(1, Len(s)) = 1
      <4>1. \A n \in Nat \ {0} : Smaller(1, n) = 1
        BY SMT DEF Smaller
      <4> QED BY <3>2, <4>1
    <3>5. Taken(a, 1) \in Seq(Waiter) /\ Len(Taken(a, 1)) = 1 /\ Taken(a, 1)[1] = s[1]
      <4>1. /\ Taken(a, 1) \in Seq(Waiter) /\ Len(Taken(a, 1)) = Smaller(1, Len(s))
            /\ \A i \in 1 .. Smaller(1, Len(s)) : Taken(a, 1)[i] = s[i]
        BY <2>0, QueueParts
      <4>2. 1 \in 1 .. Smaller(1, Len(s))
        BY <3>4
      <4>3. Taken(a, 1)[1] = s[1]
        BY <4>1, <4>2
      <4> QED BY <3>4, <4>1, <4>3
    <3> DEFINE k == Taken(a, 1)
    <3> HIDE DEF k
    <3>6. k \in Seq(Waiter) /\ Len(k) = 1 /\ k[1] = s[1]
      BY <3>5 DEF k
    <3>12. 1 \in DOMAIN k
      BY <3>6
    <3>13. s[1] \in Range(k)
      BY <3>6, <3>12 DEF Range
    <3>7. Head(s) \in Range(Taken(a, 1))
      BY <3>2, <3>13 DEF k
    <3>8. Head(s).bitset \in Bitsets
      BY <2>0, <3>2 DEF LostInv
    <3>9. Head(s).bitset \cap MATCH_ANY # {}
      BY <3>8, MeetingBitsets, ThreadsAssumption DEF MATCH_ANY, MeetingBitsets
    <3>10. Head(s).thread \in get_futex_wake_list(a, 1, MATCH_ANY)
      BY <3>7, <3>9 DEF get_futex_wake_list
    <3>11. Head(s).thread \in Threads
      BY <3>3 DEF Waiter
    <3> HIDE DEF a, s
    <3> QED BY <2>3, <3>10, <3>11 DEF SetEvents
  <2> QED BY <2>4, <2>5
<1> QED BY <1>1, <1>2, <1>3, AlwaysQueueInv, PTL DEF Spec, EndClearsTid
=============================================================================
