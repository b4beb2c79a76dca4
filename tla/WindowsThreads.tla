--------------------------- MODULE WindowsThreads ---------------------------
(***************************************************************************)
(* Threads of an emulated Windows program (qiling/os/windows/thread.py):   *)
(* the scheduler in the code hook, CreateThread, the waits of synchapi.py  *)
(* and the pseudo thread ShellExecute makes.                               *)
(*                                                                         *)
(* The scheduler's hook is called before each instruction.  It may save    *)
(* the registers of the current thread, restore another's and block the    *)
(* remaining hooks; Unicorn goes on at the new program counter, whose      *)
(* hooks are called in turn.  A step of the model is one call of the       *)
(* hook: either it switches, or the instruction under it is executed.  An  *)
(* API is an instruction, since hook_winapi is a later hook of the same    *)
(* address.  A context says whose it is, where it is (in the thread's      *)
(* code, at thread_ret_addr, behind it) and how far the thread has got,    *)
(* modulo Wrap.                                                            *)
(***************************************************************************)
EXTENDS Integers, Sequences, FiniteSets, SequencesExt

CONSTANTS
    Threads,      \* the threads there may be
    Main,         \* the first of them
    Process,      \* the object of ShellExecute's handles, which never stops
    Mutex,        \* the object of the handles of mutexes and events
    TIME_SLICE,   \* instructions between two looks for another thread
    MaxWaits,     \* bound: with so many objects a thread waits for no more
    MaxProcs,     \* bound: calls of ShellExecute
    Wrap          \* bound: instructions a context tells apart

ASSUME WinAssumption ==
    /\ Main \in Threads
    /\ Process \notin Threads /\ Mutex \notin Threads /\ Process # Mutex
    /\ TIME_SLICE \in Nat \ {0} /\ Wrap \in Nat \ {0, 1}
    /\ MaxWaits \in Nat /\ MaxProcs \in Nat

VARIABLES
    threads,      \* thread_manager.threads
    id,           \* the id of each thread
    ID,           \* the class variable QlWindowsThread.ID
    status,       \* the status of each thread
    waitfor,      \* waitforthreads of each thread
    cur_thread,   \* thread_manager.cur_thread
    icount,       \* thread_manager.icount, modulo TIME_SLICE
    saved,        \* saved_context of each thread
    regs,         \* the registers of the machine
    done,         \* the instructions each thread has executed, modulo Wrap
    state         \* the emulation runs, has ended or was ended by an exception

wvars == <<threads, id, ID, status, waitfor, cur_thread, icount, saved, regs,
           done, state>>

Objects == Threads \cup {Process, Mutex}

Context == [who : Threads, n : 0 .. Wrap - 1, at : {"code", "ret", "past"}]

Fresh(t) == [who |-> t, n |-> 0, at |-> "code"]

-----------------------------------------------------------------------------
(* do_schedule.  The hook has ended the thread that came back to            *)
(* thread_ret_addr, or counted an instruction.                              *)

Returning == regs.at = "ret"

StatusNow ==
    IF Returning THEN [status EXCEPT ![cur_thread] = "TERMINATED"] ELSE status

Icount == IF Returning THEN icount ELSE (icount + 1) % TIME_SLICE

is_stop(t) == StatusNow[t] = "TERMINATED"

(* Mutant: only the end of a time slice makes the scheduler look. *)
NeedAtSliceEnd == Icount = 0

NeedSchedule == is_stop(cur_thread) \/ Icount = 0

(* What has_waitfor meets first that is not a thread that has stopped.  A   *)
(* mutex has no is_stop, and asking it raises AttributeError.               *)
Holding(t) ==
    {k \in DOMAIN waitfor[t] :
        waitfor[t][k] \in Threads => ~ is_stop(waitfor[t][k])}

WaitRaises(t) ==
    \E k \in Holding(t) :
        /\ \A j \in Holding(t) : k <= j
        /\ waitfor[t][k] = Mutex

has_waitfor(t) == Holding(t) # {} /\ ~ WaitRaises(t)

(* Mutant: the loop starts from the first thread each time. *)
CandidateFirst(i) == threads[i]

(* The thread at turn i of the loop, which counts on ids being indices. *)
Candidate(i) == threads[1 + ((id[cur_thread] + i) % Len(threads))]

(* The turns at which the loop would stop: a thread to resume, or a raise. *)
Stops == {i \in 1 .. Len(threads) - 1 :
             StatusNow[Candidate(i)] = "RUNNING" /\ ~ has_waitfor(Candidate(i))}

FirstStop == {i \in Stops : \A j \in Stops : i <= j}

(* Mutant: the registers of the current thread are not saved. *)
SwitchUnsaved(i) ==
    /\ regs' = saved[Candidate(i)]
    /\ cur_thread' = Candidate(i)
    /\ status' = [StatusNow EXCEPT ![Candidate(i)] = "RUNNING"]
    /\ icount' = Icount
    /\ UNCHANGED <<threads, id, ID, waitfor, saved, done, state>>

Switch(i) ==
    /\ saved' = IF is_stop(cur_thread) THEN saved
                ELSE [saved EXCEPT ![cur_thread] = regs]
    /\ regs' = saved'[Candidate(i)]
    /\ cur_thread' = Candidate(i)
    /\ status' = [StatusNow EXCEPT ![Candidate(i)] = "RUNNING"]
    /\ icount' = Icount
    /\ UNCHANGED <<threads, id, ID, waitfor, done, state>>

ScheduleRaises ==
    /\ state' = "raised"
    /\ status' = StatusNow
    /\ icount' = Icount
    /\ UNCHANGED <<threads, id, ID, waitfor, cur_thread, saved, regs, done>>

(* The hook finds a thread to resume, or raises. *)
Schedule ==
    /\ state = "running" /\ NeedSchedule
    /\ \E i \in FirstStop : IF WaitRaises(Candidate(i))
                            THEN ScheduleRaises ELSE Switch(i)

-----------------------------------------------------------------------------
(* The hook returns 0 and the instruction is executed.                      *)

Stays == state = "running" /\ (NeedSchedule => Stops = {})

(* The current thread executes an instruction that leaves it at p. *)
Executes(p) ==
    /\ Stays
    /\ icount' = Icount
    /\ regs' = [regs EXCEPT !.n = (@ + 1) % Wrap, !.at = p]
    /\ done' = [done EXCEPT ![cur_thread] = (@ + 1) % Wrap]
    /\ UNCHANGED cur_thread

(* Anything without effect here: ordinary code, Sleep, critical sections,   *)
(* and ExitThread, which does nothing.                                      *)
RunOn ==
    /\ regs.at = "code" /\ Executes("code")
    /\ status' = StatusNow
    /\ UNCHANGED <<threads, id, ID, waitfor, saved, state>>

(* A thread's function returns to thread_ret_addr.  The main thread's       *)
(* returns to the exit point, where the emulation ends, as in ExitProcess.  *)
Return ==
    /\ regs.at = "code" /\ cur_thread # Main /\ Executes("ret")
    /\ status' = StatusNow
    /\ UNCHANGED <<threads, id, ID, waitfor, saved, state>>

ExitProcess ==
    /\ regs.at = "code" /\ Executes("code")
    /\ status' = StatusNow
    /\ state' = "over"
    /\ UNCHANGED <<threads, id, ID, waitfor, saved>>

(* Nobody else can run: the thread that has ended goes on behind its return *)
(* address, through the nops there and whatever follows.                    *)
RunPast ==
    /\ regs.at \in {"ret", "past"} /\ Executes("past")
    /\ status' = StatusNow
    /\ state' \in {"running", "raised"}
    /\ UNCHANGED <<threads, id, ID, waitfor, saved>>

CreateThread(t, suspended) ==
    /\ regs.at = "code" /\ Executes("code")
    /\ t \notin ToSet(threads)
    /\ id' = [id EXCEPT ![t] = ID]
    /\ ID' = ID + 1
    /\ status' = [status EXCEPT ![t] = IF suspended THEN "READY" ELSE "RUNNING"]
    /\ saved' = [saved EXCEPT ![t] = Fresh(t)]
    /\ threads' = Append(threads, t)
    /\ UNCHANGED <<waitfor, state>>

(* WaitForSingleObject takes one handle, WaitForMultipleObjects several.    *)
(* Whatever the timeout, the calls return 0 at once; the thread is held     *)
(* when it has given way.                                                   *)
WaitFor(os) ==
    /\ regs.at = "code" /\ Executes("code")
    /\ status' = StatusNow
    /\ Len(waitfor[cur_thread]) < MaxWaits
    /\ ToSet(os) \subseteq ToSet(threads) \cup {Process, Mutex}
    /\ waitfor' = [waitfor EXCEPT ![cur_thread] = @ \o os]
    /\ UNCHANGED <<threads, id, ID, saved, state>>

ShellExecute ==
    /\ regs.at = "code" /\ Executes("code")
    /\ status' = StatusNow
    /\ ID < Len(threads) + MaxProcs
    /\ ID' = ID + 1
    /\ UNCHANGED <<threads, id, waitfor, saved, state>>

-----------------------------------------------------------------------------
WinInit ==
    /\ threads = <<Main>>
    /\ id = [t \in Threads |-> 0]
    /\ ID = 1
    /\ status = [t \in Threads |-> IF t = Main THEN "RUNNING" ELSE "none"]
    /\ waitfor = [t \in Threads |-> <<>>]
    /\ cur_thread = Main
    /\ icount = 0
    /\ saved = [t \in Threads |-> Fresh(t)]
    /\ regs = Fresh(Main)
    /\ done = [t \in Threads |-> 0]
    /\ state = "running"

(* Waits of a thread for itself, which hold it for ever, are left out. *)
WinNext ==
    \/ Schedule
    \/ RunOn
    \/ Return
    \/ ExitProcess
    \/ RunPast
    \/ \E t \in Threads, b \in BOOLEAN : CreateThread(t, b)
    \/ \E o \in Objects \ {cur_thread} : WaitFor(<<o>>)
    \/ \E o, p \in Threads \ {cur_thread} : o # p /\ WaitFor(<<o, p>>)
    \/ ShellExecute

WinSpec == WinInit /\ [][WinNext]_wvars /\ WF_wvars(WinNext)

-----------------------------------------------------------------------------
(* The state of the thread manager is well formed. *)
WinTypeOK ==
    /\ ToSet(threads) \subseteq Threads
    /\ \A i, j \in DOMAIN threads : threads[i] = threads[j] => i = j
    /\ id \in [Threads -> Nat] /\ ID \in Nat
    /\ status \in [Threads -> {"none", "READY", "RUNNING", "TERMINATED"}]
    /\ \A t \in Threads : ToSet(waitfor[t]) \subseteq Objects
    /\ cur_thread \in ToSet(threads)
    /\ icount \in 0 .. TIME_SLICE - 1
    /\ saved \in [Threads -> Context] /\ regs \in Context
    /\ done \in [Threads -> 0 .. Wrap - 1]
    /\ state \in {"running", "over", "raised"}

(* The machine always runs the current thread with its own registers, at    *)
(* the point it has reached; the context saved for another thread that has  *)
(* not ended is where that thread will go on.                               *)
OwnContext ==
    /\ regs.who = cur_thread /\ regs.n = done[cur_thread]
    /\ \A t \in ToSet(threads) \ {cur_thread} :
          status[t] # "TERMINATED" => /\ saved[t].who = t
                                      /\ saved[t].n = done[t]

(* The thread manager is well formed and registers and threads belong       *)
(* together.                                                                *)
ContextsSound == WinTypeOK /\ OwnContext

(* The ids are the indices of the threads, as do_schedule takes them to be. *)
(* They are until ShellExecute takes an id for a process.                   *)
Aligned ==
    \A k \in DOMAIN threads : (id[threads[k]] - (k - 1)) % Len(threads) = 0

(* A thread that waits for nothing can be resumed. *)
Runnable(t) ==
    /\ t \in ToSet(threads)
    /\ status[t] = "RUNNING"
    /\ \A k \in DOMAIN waitfor[t] :
          waitfor[t][k] \in Threads /\ status[waitfor[t][k]] = "TERMINATED"

(* Time slices are fair: as long as ids are indices, every thread that can  *)
(* run gets its turn, whatever the others do, unless the emulation ends.    *)
RunnableRuns ==
    [] Aligned => \A t \in Threads :
                     Runnable(t) ~> (cur_thread = t \/ state # "running")

(* A thread that has ended executes nothing behind its return address while *)
(* another can run.                                                         *)
EndedLeaves ==
    [][(Aligned /\ regs'.at = "past") =>
          \A t \in ToSet(threads) \ {cur_thread} : ~ Runnable(t)]_wvars
=============================================================================
