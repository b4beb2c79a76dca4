------------------------ MODULE WindowsThreadsProofs ------------------------
(***************************************************************************)
(* The scheduler of emulated Windows threads keeps registers and threads   *)
(* together, for any number of threads, any time slice and any ids: that   *)
(* ids may have ceased to be indices changes who is resumed, never with    *)
(* which registers.  While ids are indices, an ended thread gives way.      *)
(***************************************************************************)
EXTENDS WindowsThreads, TLAPS

(* The types the proof works with: those of WinTypeOK, with the lists known *)
(* to be sequences.                                                         *)
WinTypes ==
    /\ threads \in Seq(Threads)
    /\ \A i, j \in DOMAIN threads : threads[i] = threads[j] => i = j
    /\ id \in [Threads -> Nat] /\ ID \in Nat
    /\ status \in [Threads -> {"none", "READY", "RUNNING", "TERMINATED"}]
    /\ waitfor \in [Threads -> Seq(Objects)]
    /\ cur_thread \in ToSet(threads)
    /\ icount \in 0 .. TIME_SLICE - 1
    /\ saved \in [Threads -> Context] /\ regs \in Context
    /\ done \in [Threads -> 0 .. Wrap - 1]
    /\ state \in {"running", "over", "raised"}

(* A thread that was not created has executed nothing. *)
Unborn == \A t \in Threads \ ToSet(threads) : done[t] = 0

WinInv == WinTypes /\ Unborn /\ OwnContext

(* A remainder is below its divisor. *)
LEMMA Remainder ==
    ASSUME NEW a \in Nat, NEW b \in Nat \ {0}
    PROVE  a % b \in 0 .. b - 1
BY SMT

(* The current thread is a thread. *)
LEMMA CurThread == ASSUME WinTypes PROVE cur_thread \in Threads
BY DEF WinTypes, ToSet

(* What the hook does first keeps the types of status and icount. *)
LEMMA HookTypes ==
    ASSUME WinTypes
    PROVE  /\ StatusNow \in [Threads -> {"none", "READY", "RUNNING", "TERMINATED"}]
           /\ Icount \in 0 .. TIME_SLICE - 1
           /\ \A t \in Threads : t # cur_thread => StatusNow[t] = status[t]
           /\ \A t \in Threads : status[t] = "TERMINATED" => is_stop(t)
<1>1. cur_thread \in Threads
  BY CurThread
<1>2. /\ StatusNow \in [Threads -> {"none", "READY", "RUNNING", "TERMINATED"}]
      /\ \A t \in Threads : t # cur_thread => StatusNow[t] = status[t]
      /\ \A t \in Threads : status[t] = "TERMINATED" => is_stop(t)
  BY <1>1 DEF StatusNow, WinTypes, is_stop
<1>3. icount + 1 \in Nat
  BY WinAssumption, SMT DEF WinTypes
<1>4. Icount \in 0 .. TIME_SLICE - 1
  BY <1>3, Remainder, WinAssumption DEF Icount, WinTypes
<1> QED BY <1>2, <1>4

(* The loop of do_schedule looks at threads only, whatever the ids are. *)
LEMMA CandidateIsThread ==
    ASSUME WinTypes, NEW i \in 1 .. Len(threads) - 1
    PROVE  Candidate(i) \in ToSet(threads) /\ Candidate(i) \in Threads
<1>1. cur_thread \in Threads
  BY CurThread
<1>2. Len(threads) \in Nat \ {0} /\ id[cur_thread] + i \in Nat
  <2>1. Len(threads) \in Nat /\ id[cur_thread] \in Nat
    BY <1>1 DEF WinTypes
  <2> QED BY <2>1
<1>3. (id[cur_thread] + i) % Len(threads) \in 0 .. Len(threads) - 1
  BY <1>2, Remainder
<1>4. 1 + ((id[cur_thread] + i) % Len(threads)) \in 1 .. Len(threads)
  BY <1>2, <1>3
<1>5. threads \in Seq(Threads)
  BY DEF WinTypes
<1>6. \A k \in 1 .. Len(threads) : threads[k] \in Threads /\ threads[k] \in ToSet(threads)
  BY <1>5 DEF ToSet
<1> QED BY <1>4, <1>6 DEF Candidate

(* A switch saves the registers of the thread that gives way, unless it has *)
(* ended, and resumes the next one with those that were saved for it.       *)
LEMMA SwitchKeeps ==
    ASSUME WinInv, NEW i \in 1 .. Len(threads) - 1,
           StatusNow[Candidate(i)] = "RUNNING", Switch(i)
    PROVE  WinInv'
<1> DEFINE c == Candidate(i)
<1>1. c \in ToSet(threads) /\ c \in Threads /\ cur_thread \in Threads
  BY CandidateIsThread, CurThread DEF WinInv
<1>2. /\ saved' = IF is_stop(cur_thread) THEN saved
                  ELSE [saved EXCEPT ![cur_thread] = regs]
      /\ regs' = saved'[c] /\ cur_thread' = c
      /\ status' = [StatusNow EXCEPT ![c] = "RUNNING"]
      /\ icount' = Icount
      /\ UNCHANGED <<threads, id, ID, waitfor, done, state>>
  BY DEF Switch
<1>3. StatusNow[c] = "RUNNING"
  OBVIOUS
<1> HIDE DEF c
<1>4. saved' \in [Threads -> Context]
  BY <1>1, <1>2 DEF WinInv, WinTypes
<1>5. status' = StatusNow
  BY <1>1, <1>2, <1>3, HookTypes DEF WinInv
<1>6. WinTypes'
  BY <1>1, <1>2, <1>4, <1>5, HookTypes DEF WinInv, WinTypes
<1>7. ASSUME NEW t \in ToSet(threads), StatusNow[t] # "TERMINATED"
      PROVE  saved'[t].who = t /\ saved'[t].n = done[t]
  <2>1. t \in Threads
    BY <1>7 DEF WinInv, WinTypes, ToSet
  <2>2. CASE t = cur_thread
    <3>1. ~ is_stop(cur_thread)
      BY <1>7, <2>2 DEF is_stop
    <3>2. saved'[t] = regs
      BY <1>1, <1>2, <2>2, <3>1 DEF WinInv, WinTypes
    <3> QED BY <2>2, <3>2 DEF WinInv, OwnContext
  <2>3. CASE t # cur_thread
    <3>1. saved'[t] = saved[t]
      BY <1>1, <1>2, <2>1, <2>3 DEF WinInv, WinTypes
    <3>2. status[t] # "TERMINATED"
      BY <1>7, <2>1, <2>3, HookTypes DEF WinInv
    <3> QED BY <2>3, <3>1, <3>2, <1>7 DEF WinInv, OwnContext
  <2> QED BY <2>2, <2>3
<1>8. OwnContext'
  BY <1>1, <1>2, <1>3, <1>5, <1>7 DEF OwnContext
<1>9. Unborn'
  BY <1>2 DEF WinInv, Unborn
<1> QED BY <1>6, <1>8, <1>9 DEF WinInv

(* do_schedule, when it has found somebody to resume. *)
LEMMA ScheduleKeeps == ASSUME WinInv, Schedule PROVE WinInv'
<1>1. PICK i \in FirstStop : IF WaitRaises(Candidate(i))
                             THEN ScheduleRaises ELSE Switch(i)
  BY DEF Schedule
<1>2. i \in 1 .. Len(threads) - 1 /\ StatusNow[Candidate(i)] = "RUNNING"
  BY DEF FirstStop, Stops
<1>3. CASE ScheduleRaises
  <2>1. WinTypes'
    BY <1>3, HookTypes DEF ScheduleRaises, WinInv, WinTypes
  <2>2. OwnContext'
    <3>1. \A t \in ToSet(threads) \ {cur_thread} : status'[t] = status[t]
      BY <1>3, HookTypes, SMTT(30) DEF ScheduleRaises, WinInv, WinTypes, ToSet
    <3> QED BY <1>3, <3>1 DEF ScheduleRaises, WinInv, OwnContext
  <2>3. Unborn'
    BY <1>3 DEF ScheduleRaises, WinInv, Unborn
  <2> QED BY <2>1, <2>2, <2>3 DEF WinInv
<1>4. CASE Switch(i)
  BY <1>2, <1>4, SwitchKeeps
<1> QED BY <1>1, <1>3, <1>4

(* An instruction moves the machine and the thread's own count together. *)
LEMMA ExecutesTypes ==
    ASSUME WinInv, NEW p \in {"code", "ret", "past"}, Executes(p)
    PROVE  /\ icount' \in 0 .. TIME_SLICE - 1
           /\ regs' \in Context /\ done' \in [Threads -> 0 .. Wrap - 1]
           /\ cur_thread' = cur_thread
           /\ regs'.who = regs.who /\ regs'.n = done'[cur_thread]
           /\ \A t \in Threads \ {cur_thread} : done'[t] = done[t]
<1>1. cur_thread \in Threads
  BY CurThread DEF WinInv
<1>2. icount' = Icount /\ cur_thread' = cur_thread
  BY DEF Executes
<1>3. regs.n \in 0 .. Wrap - 1 /\ regs.n = done[cur_thread] /\ regs.who \in Threads
  BY DEF WinInv, WinTypes, OwnContext, Context
<1>4. (regs.n + 1) % Wrap \in 0 .. Wrap - 1
  <2>1. regs.n + 1 \in Nat /\ Wrap \in Nat \ {0}
    BY <1>3, WinAssumption
  <2> QED BY <2>1, Remainder
<1>5. regs' = [who |-> regs.who, n |-> (regs.n + 1) % Wrap, at |-> p]
  BY DEF Executes, WinInv, WinTypes, Context
<1>6. regs' \in Context /\ regs'.who = regs.who /\ regs'.n = (regs.n + 1) % Wrap
  BY <1>3, <1>4, <1>5 DEF Context
<1>7. done' = [done EXCEPT ![cur_thread] = (regs.n + 1) % Wrap]
  BY <1>1, <1>3 DEF Executes, WinInv, WinTypes
<1>8. /\ done' \in [Threads -> 0 .. Wrap - 1]
      /\ done'[cur_thread] = (regs.n + 1) % Wrap
      /\ \A t \in Threads \ {cur_thread} : done'[t] = done[t]
  BY <1>1, <1>4, <1>7 DEF WinInv, WinTypes
<1> QED BY <1>2, <1>6, <1>8, HookTypes DEF WinInv

(* An instruction that changes nothing else but how the thread it runs for  *)
(* waits and whether the emulation goes on.                                 *)
LEMMA PlainKeeps ==
    ASSUME WinInv, NEW p \in {"code", "ret", "past"}, Executes(p),
           status' = StatusNow,
           UNCHANGED <<threads, id, saved>>,
           ID' \in Nat, waitfor' \in [Threads -> Seq(Objects)],
           state' \in {"running", "over", "raised"}
    PROVE  WinInv'
<1>1. WinTypes'
  BY ExecutesTypes, HookTypes DEF WinInv, WinTypes
<1>2. ASSUME NEW t \in ToSet(threads) \ {cur_thread}
      PROVE  t \in Threads /\ status'[t] = status[t] /\ done'[t] = done[t]
  <2>1. t \in Threads
    BY DEF WinInv, WinTypes, ToSet
  <2> QED BY <2>1, ExecutesTypes, HookTypes DEF WinInv
<1>3. OwnContext'
  BY <1>2, ExecutesTypes DEF WinInv, OwnContext
<1>4. Unborn'
  BY ExecutesTypes DEF WinInv, WinTypes, Unborn
<1> QED BY <1>1, <1>3, <1>4 DEF WinInv

(* CreateThread starts a thread with its own context. *)
LEMMA CreateKeeps ==
    ASSUME WinInv, NEW t \in Threads, NEW b \in BOOLEAN, CreateThread(t, b)
    PROVE  WinInv'
<1>1. Executes("code") /\ t \notin ToSet(threads)
  BY DEF CreateThread
<1>2. /\ threads' = Append(threads, t) /\ threads \in Seq(Threads)
      /\ \A i, j \in DOMAIN threads : threads[i] = threads[j] => i = j
  BY DEF CreateThread, WinInv, WinTypes
<1>3. /\ threads' \in Seq(Threads) /\ ToSet(threads') = ToSet(threads) \cup {t}
      /\ \A i, j \in DOMAIN threads' : threads'[i] = threads'[j] => i = j
  BY <1>1, <1>2 DEF ToSet
<1>4. /\ id' \in [Threads -> Nat] /\ ID' \in Nat
      /\ status' \in [Threads -> {"none", "READY", "RUNNING", "TERMINATED"}]
      /\ UNCHANGED <<waitfor, state>>
  BY DEF CreateThread, WinInv, WinTypes
<1>5. Fresh(t) \in Context /\ Fresh(t).who = t /\ Fresh(t).n = 0
  BY WinAssumption DEF Fresh, Context
<1>6. saved' \in [Threads -> Context] /\ saved' = [saved EXCEPT ![t] = Fresh(t)]
  BY <1>5 DEF CreateThread, WinInv, WinTypes
<1>7. WinTypes'
  BY <1>1, <1>3, <1>4, <1>6, ExecutesTypes DEF WinInv, WinTypes
<1>8. ASSUME NEW u \in ToSet(threads) \ {cur_thread}
      PROVE  /\ u \in Threads /\ u # t /\ status'[u] = status[u]
             /\ saved'[u] = saved[u] /\ done'[u] = done[u]
  <2>1. u \in Threads /\ u # t
    BY <1>1 DEF WinInv, WinTypes, ToSet
  <2> QED BY <1>1, <1>6, <2>1, ExecutesTypes DEF CreateThread, WinInv, WinTypes
<1>9. t # cur_thread /\ saved'[t] = Fresh(t) /\ done'[t] = 0
  BY <1>1, <1>6, ExecutesTypes DEF WinInv, WinTypes, Unborn
<1>10. OwnContext'
  BY <1>1, <1>3, <1>5, <1>8, <1>9, ExecutesTypes DEF WinInv, OwnContext
<1>11. Unborn'
  BY <1>1, <1>3, ExecutesTypes DEF WinInv, WinTypes, Unborn
<1> QED BY <1>7, <1>10, <1>11 DEF WinInv

(* Every step keeps the invariant. *)
LEMMA StepWinInv == WinInv /\ [WinNext]_wvars => WinInv'
<1> SUFFICES ASSUME WinInv, [WinNext]_wvars PROVE WinInv'
  OBVIOUS
<1>1. waitfor \in [Threads -> Seq(Objects)] /\ ID \in Nat /\ cur_thread \in Threads
      /\ state \in {"running", "over", "raised"}
  BY CurThread DEF WinInv, WinTypes
<1>2. CASE UNCHANGED wvars
  BY <1>2 DEF wvars, WinInv, WinTypes, Unborn, OwnContext
<1>3. CASE Schedule
  BY <1>3, ScheduleKeeps
<1>4. CASE RunOn
  BY <1>1, <1>4, PlainKeeps DEF RunOn
<1>5. CASE Return
  BY <1>1, <1>5, PlainKeeps DEF Return
<1>6. CASE ExitProcess
  BY <1>1, <1>6, PlainKeeps DEF ExitProcess
<1>7. CASE RunPast
  BY <1>1, <1>7, PlainKeeps DEF RunPast
<1>8. ASSUME NEW t \in Threads, NEW b \in BOOLEAN, CreateThread(t, b)
      PROVE  WinInv'
  BY <1>8, CreateKeeps
<1>9. ASSUME NEW os \in Seq(Objects), WaitFor(os)
      PROVE  WinInv'
  <2>1. waitfor' \in [Threads -> Seq(Objects)]
    BY <1>1, <1>9 DEF WaitFor
  <2> QED BY <1>1, <1>9, <2>1, PlainKeeps DEF WaitFor
<1>10. CASE ShellExecute
  <2>1. ID' \in Nat
    BY <1>1, <1>10 DEF ShellExecute
  <2> QED BY <1>1, <1>10, <2>1, PlainKeeps DEF ShellExecute
<1>11. \A o, p \in Objects : <<o>> \in Seq(Objects) /\ <<o, p>> \in Seq(Objects)
  OBVIOUS
<1> QED
  BY <1>2, <1>3, <1>4, <1>5, <1>6, <1>7, <1>8, <1>9, <1>10, <1>11
     DEF WinNext, Objects

(* The invariant holds from the start. *)
LEMMA AlwaysWinInv == WinSpec => []WinInv
<1>1. WinInit => WinInv
  <2> SUFFICES ASSUME WinInit PROVE WinInv
    OBVIOUS
  <2>1. threads \in Seq(Threads) /\ Len(threads) = 1 /\ ToSet(threads) = {Main}
    BY WinAssumption DEF WinInit, ToSet
  <2>2. \A t \in Threads : Fresh(t) \in Context
    BY WinAssumption DEF Fresh, Context
  <2>3. /\ saved \in [Threads -> Context] /\ regs \in Context
        /\ regs.who = Main /\ regs.n = 0
    BY <2>2, WinAssumption DEF WinInit, Fresh
  <2>4. /\ icount \in 0 .. TIME_SLICE - 1 /\ done \in [Threads -> 0 .. Wrap - 1]
        /\ id \in [Threads -> Nat] /\ ID \in Nat
    BY WinAssumption DEF WinInit
  <2>5. /\ waitfor \in [Threads -> Seq(Objects)]
        /\ status \in [Threads -> {"none", "READY", "RUNNING", "TERMINATED"}]
        /\ state \in {"running", "over", "raised"} /\ cur_thread = Main
        /\ \A t \in Threads : done[t] = 0
    BY DEF WinInit
  <2>6. \A i, j \in DOMAIN threads : threads[i] = threads[j] => i = j
    BY <2>1
  <2> QED BY <2>1, <2>3, <2>4, <2>5, <2>6, WinAssumption
             DEF WinInv, WinTypes, Unborn, OwnContext
<1> QED BY <1>1, StepWinInv, PTL DEF WinSpec

(* The thread manager stays well formed, the current thread runs on its own *)
(* registers where it had got to, and every other thread that has not ended *)
(* will, in whatever order slices, ends of threads and waits make the       *)
(* scheduler switch.                                                        *)
THEOREM ThreadsKeepContext == WinSpec => []ContextsSound
<1>1. WinInv => WinTypeOK
  BY SMTT(30) DEF WinInv, WinTypes, WinTypeOK, ToSet
<1>2. WinInv => ContextsSound
  BY <1>1 DEF WinInv, ContextsSound
<1> QED BY <1>2, AlwaysWinInv, PTL

-----------------------------------------------------------------------------
(* Whom do_schedule finds when ids are indices.                             *)

(* Different multiples of a number are at least that number apart. *)
LEMMA Apart ==
    ASSUME NEW p \in Nat \ {0}, NEW q \in Int, NEW k \in Int, k < q
    PROVE  p * k + p <= p * q
<1>1. PICK d \in Nat : q = k + 1 + d
  <2> WITNESS q - k - 1 \in Nat
  <2> QED OBVIOUS
<1>2. p * q = p * k + p + p * d
  BY <1>1, SMT
<1>3. p * d \in Nat /\ p * k \in Int
  BY SMT
<1> QED BY <1>2, <1>3

(* Quotient and remainder of an integer. *)
LEMMA Division ==
    ASSUME NEW v \in Int, NEW p \in Nat \ {0}
    PROVE  /\ v \div p \in Int /\ v % p \in 0 .. p - 1
           /\ v = p * (v \div p) + (v % p)
<1>1. v \div p \in Int /\ v % p \in 0 .. p - 1
  BY SMT
<1>2. v = p * (v \div p) + (v % p)
  BY SMT
<1> QED BY <1>1, <1>2

(* The remainder of a multiple and a number below the divisor. *)
LEMMA RemainderOfSum ==
    ASSUME NEW p \in Nat \ {0}, NEW q \in Int, NEW r \in 0 .. p - 1
    PROVE  (p * q + r) % p = r
<1> DEFINE v == p * q + r
           d == v \div p
           s == v % p
<1>1. p * q \in Int /\ v \in Int /\ v = p * q + r
  BY SMT
<1>2. d \in Int /\ s \in 0 .. p - 1 /\ v = p * d + s
  BY <1>1, Division
<1> HIDE DEF v, d, s
<1>3. p * d \in Int
  BY <1>2, SMT
<1>4. ~ (d < q)
  <2>1. SUFFICES ASSUME d < q PROVE FALSE
    OBVIOUS
  <2>2. p * d + p <= p * q
    BY <1>2, <2>1, Apart
  <2> QED BY <1>1, <1>2, <1>3, <2>2
<1>5. ~ (q < d)
  <2>1. SUFFICES ASSUME q < d PROVE FALSE
    OBVIOUS
  <2>2. p * q + p <= p * d
    BY <1>2, <2>1, Apart
  <2> QED BY <1>1, <1>2, <1>3, <2>2
<1>6. d = q
  BY <1>2, <1>4, <1>5
<1>7. s = r
  BY <1>1, <1>2, <1>3, <1>6
<1> QED BY <1>7 DEF v, s

(* When ids are indices, the loop of do_schedule comes to every thread but  *)
(* the current one.                                                         *)
LEMMA EveryCandidate ==
    ASSUME WinTypes, Aligned, NEW t \in ToSet(threads), t # cur_thread
    PROVE  \E i \in 1 .. Len(threads) - 1 : Candidate(i) = t
<1> DEFINE L == Len(threads)
           n == id[cur_thread]
<1>1. threads \in Seq(Threads) /\ L \in Nat /\ DOMAIN threads = 1 .. L
  BY DEF WinTypes
<1>2. PICK k \in 1 .. L : threads[k] = t
  BY <1>1 DEF ToSet
<1>3. PICK m \in 1 .. L : threads[m] = cur_thread
  BY <1>1 DEF WinTypes, ToSet
<1>4. k # m
  BY <1>2, <1>3
<1>5. n \in Nat
  BY CurThread DEF WinTypes
<1>6. (n - (m - 1)) % L = 0
  BY <1>1, <1>3 DEF Aligned
<1> HIDE DEF n, L
<1> DEFINE q == (n - (m - 1)) \div L
<1>7. L \in Nat \ {0} /\ n - (m - 1) \in Int
  BY <1>1, <1>5
<1>8. q \in Int /\ n - (m - 1) = L * q + ((n - (m - 1)) % L)
  BY <1>7, Division
<1> HIDE DEF q
<1>9. L * q \in Int /\ L * (q + 1) = L * q + L
  BY <1>7, <1>8, SMT
<1>10. n - (m - 1) = L * q
  BY <1>6, <1>8, <1>9
<1>11. \E i \in 1 .. L - 1 : (n + i) % L = k - 1
  <2>1. k - 1 \in 0 .. L - 1
    BY <1>7
  <2>2. CASE m < k
    <3>1. n + (k - m) = L * q + (k - 1) /\ k - m \in 1 .. L - 1
      BY <1>5, <1>7, <1>9, <1>10, <2>2
    <3>2. (L * q + (k - 1)) % L = k - 1
      BY <1>7, <1>8, <2>1, RemainderOfSum
    <3> QED BY <3>1, <3>2
  <2>3. CASE k < m
    <3>1. n + (k - m + L) = L * (q + 1) + (k - 1) /\ k - m + L \in 1 .. L - 1
      BY <1>5, <1>7, <1>9, <1>10, <2>3
    <3>2. q + 1 \in Int
      BY <1>8
    <3>3. (L * (q + 1) + (k - 1)) % L = k - 1
      BY <1>7, <3>2, <2>1, RemainderOfSum
    <3> QED BY <3>1, <3>3
  <2> QED BY <1>4, <2>2, <2>3
<1>12. PICK i \in 1 .. L - 1 : (n + i) % L = k - 1
  BY <1>11
<1>13. Candidate(i) = threads[1 + (k - 1)]
  BY <1>12 DEF Candidate, n, L
<1>14. 1 + (k - 1) = k
  OBVIOUS
<1> QED BY <1>2, <1>12, <1>13, <1>14 DEF L

(* A loop that finds nobody, over ids that are indices, has looked at every *)
(* other thread, and none could be resumed.                                 *)
LEMMA NobodyLeft ==
    ASSUME WinTypes, Aligned, Stops = {}
    PROVE  \A t \in ToSet(threads) \ {cur_thread} : ~ Runnable(t)
<1> SUFFICES ASSUME NEW t \in ToSet(threads), t # cur_thread, Runnable(t)
             PROVE  FALSE
  OBVIOUS
<1>1. PICK i \in 1 .. Len(threads) - 1 : Candidate(i) = t
  BY EveryCandidate
<1>2. t \in Threads
  BY DEF WinTypes, ToSet
<1>3. StatusNow[t] = "RUNNING"
  BY <1>2, HookTypes DEF Runnable
<1>4. Holding(t) = {}
  BY HookTypes DEF Holding, Runnable
<1>5. ~ has_waitfor(t)
  BY <1>4 DEF has_waitfor
<1> QED BY <1>1, <1>3, <1>5 DEF Stops

(* A thread behind its return address has ended, nobody could be resumed    *)
(* when it went on, and its registers are not saved: it is not resumed.     *)
PastInv ==
    /\ regs.at = "past" => /\ status[cur_thread] = "TERMINATED"
                           /\ state = "running" => Stops = {}
    /\ \A t \in Threads : saved[t].at # "past"

(* The thread that is going on behind its return address needs a schedule.  *)
LEMMA PastStays ==
    ASSUME WinInv, PastInv, Stays, regs.at \in {"ret", "past"}
    PROVE  /\ Stops = {} /\ StatusNow[cur_thread] = "TERMINATED"
           /\ regs.at = "past" => StatusNow = status
<1>1. cur_thread \in Threads
  BY CurThread DEF WinInv
<1>2. StatusNow[cur_thread] = "TERMINATED"
  BY <1>1 DEF StatusNow, Returning, WinInv, WinTypes, PastInv
<1>3. Stops = {}
  BY <1>2 DEF Stays, NeedSchedule, is_stop
<1> QED BY <1>2, <1>3 DEF StatusNow, Returning

(* Whom the loop finds depends on the list, the ids, the waits and status.  *)
LEMMA SameStops ==
    ASSUME StatusNow' = StatusNow, UNCHANGED <<threads, id, waitfor, cur_thread>>
    PROVE  Stops' = Stops
BY DEF Stops, Candidate, has_waitfor, Holding, WaitRaises, is_stop

(* Going on behind the return address leaves nobody to resume. *)
LEMMA RunPastKeeps ==
    ASSUME WinInv, PastInv, RunPast
    PROVE  PastInv' /\ Stops = {}
<1>1. /\ Stays /\ regs.at \in {"ret", "past"}
      /\ status' = StatusNow /\ cur_thread' = cur_thread
      /\ UNCHANGED <<threads, id, waitfor, saved>>
  BY DEF RunPast, Executes
<1>2. Stops = {} /\ StatusNow[cur_thread] = "TERMINATED"
  BY <1>1, PastStays
<1>3. regs'.at = "past"
  BY DEF RunPast, Executes, WinInv, WinTypes, Context
<1>4. StatusNow' = StatusNow
  BY <1>1, <1>3 DEF StatusNow, Returning
<1>5. Stops' = Stops
  BY <1>1, <1>4, SameStops
<1> QED BY <1>1, <1>2, <1>3, <1>5 DEF PastInv

(* A schedule is never made for a thread behind its return address, and     *)
(* never resumes one.                                                       *)
LEMMA SchedulePast ==
    ASSUME WinInv, PastInv, Schedule
    PROVE  PastInv' /\ regs'.at # "past"
<1>1. PICK i \in FirstStop : IF WaitRaises(Candidate(i))
                             THEN ScheduleRaises ELSE Switch(i)
  BY DEF Schedule
<1>2. i \in 1 .. Len(threads) - 1 /\ i \in Stops
  BY DEF FirstStop, Stops
<1>3. regs.at # "past"
  BY <1>2 DEF PastInv, Schedule
<1>4. Candidate(i) \in Threads /\ cur_thread \in Threads
  BY <1>2, CandidateIsThread, CurThread DEF WinInv
<1>5. CASE ScheduleRaises
  BY <1>3, <1>5 DEF ScheduleRaises, PastInv
<1>6. CASE Switch(i)
  <2>1. \A t \in Threads : saved'[t] = saved[t] \/ saved'[t] = regs
    BY <1>4, <1>6 DEF Switch, WinInv, WinTypes
  <2>2. \A t \in Threads : saved'[t].at # "past"
    BY <1>3, <2>1 DEF PastInv
  <2>3. regs' = saved'[Candidate(i)]
    BY <1>6 DEF Switch
  <2>4. regs'.at # "past"
    BY <1>4, <2>2, <2>3
  <2> QED BY <2>2, <2>4 DEF PastInv
<1> QED BY <1>1, <1>5, <1>6

(* Any other instruction leaves its thread in its code or at the return     *)
(* address.                                                                 *)
LEMMA PlainPast ==
    ASSUME WinInv, PastInv, NEW p \in {"code", "ret"}, Executes(p),
           \/ saved' = saved
           \/ \E t \in Threads : saved' = [saved EXCEPT ![t] = Fresh(t)]
    PROVE  PastInv' /\ regs'.at # "past"
<1>1. regs'.at = p
  BY DEF Executes, WinInv, WinTypes, Context
<1>2. \A t \in Threads : saved'[t].at # "past"
  <2>1. \A t \in Threads : Fresh(t).at # "past"
    BY DEF Fresh
  <2> QED BY <2>1 DEF PastInv, WinInv, WinTypes
<1> QED BY <1>1, <1>2 DEF PastInv

(* Every step keeps the invariant, and one that is made behind a return     *)
(* address leaves nobody out.                                               *)
LEMMA StepPast ==
    ASSUME WinInv, PastInv, WinNext
    PROVE  PastInv' /\ (regs'.at = "past" => Stops = {})
<1>1. CASE Schedule
  BY <1>1, SchedulePast
<1>2. CASE RunPast
  BY <1>2, RunPastKeeps
<1>3. CASE RunOn
  BY <1>3, PlainPast DEF RunOn
<1>4. CASE Return
  BY <1>4, PlainPast DEF Return
<1>5. CASE ExitProcess
  BY <1>5, PlainPast DEF ExitProcess
<1>6. ASSUME NEW t \in Threads, NEW b \in BOOLEAN, CreateThread(t, b)
      PROVE  PastInv' /\ regs'.at # "past"
  BY <1>6, PlainPast DEF CreateThread
<1>7. ASSUME NEW os, WaitFor(os)
      PROVE  PastInv' /\ regs'.at # "past"
  BY <1>7, PlainPast DEF WaitFor
<1>8. CASE ShellExecute
  BY <1>8, PlainPast DEF ShellExecute
<1> QED BY <1>1, <1>2, <1>3, <1>4, <1>5, <1>6, <1>7, <1>8 DEF WinNext

(* A thread that has come back to thread_ret_addr leaves the machine to     *)
(* another that can run, if there is one: as long as ids are indices, what  *)
(* lies behind the return address is executed only when every other thread  *)
(* is held, suspended or ended.                                             *)
THEOREM EndedAlwaysLeaves == WinSpec => EndedLeaves
<1>1. WinInit => PastInv
  BY WinAssumption DEF WinInit, PastInv, Fresh
<1>2. WinInv /\ PastInv /\ [WinNext]_wvars => PastInv'
  <2> SUFFICES ASSUME WinInv, PastInv, [WinNext]_wvars PROVE PastInv'
    OBVIOUS
  <2>1. CASE WinNext
    BY <2>1, StepPast
  <2>2. CASE UNCHANGED wvars
    <3>1. StatusNow' = StatusNow
      BY <2>2 DEF wvars, StatusNow, Returning
    <3>2. Stops' = Stops
      BY <2>2, <3>1, SameStops DEF wvars
    <3> QED BY <2>2, <3>2 DEF wvars, PastInv
  <2> QED BY <2>1, <2>2
<1>3. WinInv /\ PastInv /\ [WinNext]_wvars =>
        [(Aligned /\ regs'.at = "past") =>
            \A t \in ToSet(threads) \ {cur_thread} : ~ Runnable(t)]_wvars
  <2> SUFFICES ASSUME WinInv, PastInv, WinNext, Aligned, regs'.at = "past"
               PROVE  \A t \in ToSet(threads) \ {cur_thread} : ~ Runnable(t)
    OBVIOUS
  <2>1. Stops = {}
    BY StepPast
  <2> QED BY <2>1, NobodyLeft DEF WinInv
<1> QED BY <1>1, <1>2, <1>3, AlwaysWinInv, PTL DEF WinSpec, EndedLeaves
=============================================================================
