---------------------------- MODULE CortexMProofs ----------------------------
(***************************************************************************)
(* Safety of the interrupts of a Cortex-M for any set of external lines,   *)
(* any priorities and any load of the timer.  That the thread finds its    *)
(* registers again rests on EXC_RETURN naming the stack they were saved    *)
(* on; that requests are taken by priority, on appended requests staying   *)
(* behind those that were sorted.                                          *)
(***************************************************************************)
EXTENDS CortexM, SequenceTheorems, FiniteSetTheorems, TLAPS

-----------------------------------------------------------------------------
(* The queue of requests. *)

(* A queue of requests and its places. *)
LEMMA QueuePlaces ==
    ASSUME NEW q \in Seq(Irqs)
    PROVE  /\ Len(q) \in Nat /\ DOMAIN q = 1 .. Len(q)
           /\ \A k \in 1 .. Len(q) : q[k] \in Irqs
BY LenProperties, ElementOfSeq

(* set_pending makes a queue of interrupts. *)
LEMMA PendingQueue ==
    ASSUME NEW s \in SUBSET Lines, NEW q \in Pending(s)
    PROVE  q \in Seq(Irqs)
<1> DEFINE on == {n \in s : Enabled(n)}
<1>1. IsFiniteSet(on)
  BY CortexAssumption, FS_Subset
<1>2. Cardinality(on) \in Nat
  BY <1>1, FS_CardinalityType
<1>3. q \in [1 .. Cardinality(on) -> on] /\ on \subseteq Irqs
  BY DEF Pending, Irqs
<1> HIDE DEF on
<1>4. q \in [1 .. Cardinality(on) -> Irqs]
  BY <1>3
<1> QED BY <1>2, <1>4, IsASeq

(* The priority of any request is a level. *)
LEMMA PriorityLevel ==
    ASSUME prio \in [Ranked -> Levels], NEW i \in Irqs
    PROVE  get_priority(i) \in Nat
<1>1. SYSTICK \in Ranked
  BY DEF Ranked, Irqs, HARD_FAULT, SYSTICK
<1>2. i # HARD_FAULT => i \in Ranked
  BY DEF Ranked
<1>3. (IF i = HARD_FAULT THEN SYSTICK ELSE i) \in Ranked
  BY <1>1, <1>2
<1>4. get_priority(i) \in Levels
  BY <1>3 DEF get_priority
<1> QED BY <1>4, CortexAssumption

(* intrs.sort keeps the length of the queue and puts it in order. *)
LEMMA SortedQueue ==
    ASSUME prio \in [Ranked -> Levels], NEW q \in Seq(Irqs), NEW r \in Sorted(q)
    PROVE  /\ r \in Seq(Irqs) /\ Len(r) = Len(q)
           /\ \A i, j \in 1 .. Len(q) : i < j => get_priority(r[i]) <= get_priority(r[j])
<1>1. PICK o \in [DOMAIN q -> DOMAIN q] :
         /\ r = [k \in DOMAIN q |-> q[o[k]]]
         /\ \A i, j \in DOMAIN q : i < j =>
               \/ get_priority(q[o[i]]) < get_priority(q[o[j]])
               \/ get_priority(q[o[i]]) = get_priority(q[o[j]]) /\ o[i] < o[j]
  BY DEF Sorted
<1>2. /\ Len(q) \in Nat /\ DOMAIN q = 1 .. Len(q)
      /\ \A k \in 1 .. Len(q) : q[k] \in Irqs
  BY QueuePlaces
<1>3. r \in [1 .. Len(q) -> Irqs]
  BY <1>1, <1>2
<1>4. r \in Seq(Irqs) /\ Len(r) = Len(q)
  BY <1>2, <1>3, IsASeq, LenProperties
<1>5. ASSUME NEW i \in 1 .. Len(q), NEW j \in 1 .. Len(q), i < j
      PROVE  get_priority(r[i]) <= get_priority(r[j])
  <2>1. r[i] = q[o[i]] /\ r[j] = q[o[j]] /\ q[o[i]] \in Irqs /\ q[o[j]] \in Irqs
    BY <1>1, <1>2
  <2>2. get_priority(q[o[i]]) \in Nat /\ get_priority(q[o[j]]) \in Nat
    BY <2>1, PriorityLevel
  <2>3. \/ get_priority(q[o[i]]) < get_priority(q[o[j]])
        \/ get_priority(q[o[i]]) = get_priority(q[o[j]])
    BY <1>1, <1>2, <1>5, Zenon
  <2>4. ASSUME NEW a \in Nat, NEW b \in Nat, a < b \/ a = b PROVE a <= b
    BY <2>4
  <2> QED BY <2>1, <2>2, <2>3, <2>4
<1> QED BY <1>4, <1>5

-----------------------------------------------------------------------------
(* The invariant. *)

(* While the emulator runs there is one level of handlers: a handler was    *)
(* entered from the thread, and EXC_RETURN names the stack in use then,     *)
(* which handlers do not switch.                                            *)
StackInv ==
    runable =>
        IF where = "running"
        THEN /\ ipsr /\ exc = spsel
             /\ <<msp, psp>> = IF spsel THEN <<<<>>, <<Thread>>>> ELSE <<<<Thread>>, <<>>>>
        ELSE regs = Thread /\ ~ ipsr /\ msp = <<>> /\ psp = <<>>

CortexInv == CortexTypeOK /\ StackInv /\ TakenByPriority

(* The initial states satisfy the invariant. *)
LEMMA CortexInitInv == CortexInit => CortexInv
<1> SUFFICES ASSUME CortexInit PROVE CortexInv
  OBVIOUS
<1>1. CortexTypeOK
  <2>1. intrs \in Seq(Irqs) /\ Len(intrs) = 0
    BY EmptySeq DEF CortexInit
  <2>2. /\ batch \in 0 .. Len(intrs) /\ load \in 0 .. MaxLoad /\ val \in 0 .. MaxLoad
        /\ writes \in 0 .. MaxWrites
    BY <2>1, CortexAssumption, SMT DEF CortexInit
  <2>3. prio \in [Ranked -> Levels] /\ basepri \in Levels /\ iser \subseteq Lines
    BY CortexAssumption DEF CortexInit
  <2> QED BY <2>1, <2>2, <2>3 DEF CortexInit, CortexTypeOK
<1> QED BY <1>1 DEF CortexInit, CortexInv, StackInv, TakenByPriority

-----------------------------------------------------------------------------
(* What instructions do to the controller, whoever executes them. *)

(* What an instruction owes: its variables keep their types, the queue only *)
(* grows at its end, priorities change only with a note of it, and the      *)
(* stack in use stays.                                                      *)
Registers ==
    /\ iser' \subseteq Lines /\ prio' \in [Ranked -> Levels]
    /\ primask' \in BOOLEAN /\ faultmask' \in BOOLEAN /\ basepri' \in Levels
    /\ ctrl' \in {"off", "counting", "ticking"} /\ load' \in 0 .. MaxLoad /\ val' \in 0 .. MaxLoad
    /\ writes' \in 0 .. MaxWrites /\ fixed' \in BOOLEAN
    /\ fixed' => fixed /\ prio' = prio

QueueGrows == \E q \in Seq(Irqs) : intrs' = intrs \o q

(* The writes that set up. *)
LEMMA SetUpKeeps ==
    ASSUME CortexTypeOK,
           \/ \E n \in Lines : WriteISER(n) \/ WriteICER(n)
           \/ \E i \in Ranked, p \in Levels : WriteIPR(i, p)
           \/ WriteMasks \/ WriteSysTick
    PROVE  Registers /\ UNCHANGED <<intrs, spsel>>
<1>0. SetUp
  BY DEF WriteISER, WriteICER, WriteIPR, WriteMasks, WriteSysTick
<1>1. writes' \in 0 .. MaxWrites /\ UNCHANGED <<intrs, spsel>>
  BY <1>0, CortexAssumption DEF SetUp, CortexTypeOK
<1> USE DEF masks, systick
<1>2. ASSUME NEW n \in Lines, WriteISER(n) \/ WriteICER(n) PROVE Registers
  <2>1. iser' \subseteq Lines /\ UNCHANGED <<prio, masks, fixed, systick>>
    BY <1>2 DEF WriteISER, WriteICER, CortexTypeOK
  <2> QED BY <1>1, <2>1 DEF Registers, CortexTypeOK
<1>3. ASSUME NEW i \in Ranked, NEW p \in Levels, WriteIPR(i, p) PROVE Registers
  <2>1. prio' \in [Ranked -> Levels] /\ UNCHANGED <<iser, masks, systick>>
    BY <1>3 DEF WriteIPR, CortexTypeOK
  <2>2. fixed' = (fixed /\ prio' = prio)
    BY <1>3 DEF WriteIPR
  <2>3. fixed' \in BOOLEAN /\ (fixed' => fixed /\ prio' = prio)
    BY <2>2, Zenon
  <2> QED BY <1>1, <2>1, <2>3 DEF Registers, CortexTypeOK
<1>4. CASE WriteMasks
  <2>1. UNCHANGED <<iser, prio, fixed, systick>>
    BY <1>4 DEF WriteMasks
  <2>2. primask' \in BOOLEAN /\ faultmask' \in BOOLEAN /\ basepri' \in Levels
    BY <1>4 DEF WriteMasks, CortexTypeOK
  <2> QED BY <1>1, <2>1, <2>2 DEF Registers, CortexTypeOK
<1>5. CASE WriteSysTick
  <2>1. UNCHANGED <<iser, prio, masks, fixed>>
    BY <1>5 DEF WriteSysTick
  <2>2. ctrl' \in {"off", "counting", "ticking"} /\ load' \in 0 .. MaxLoad /\ val' \in 0 .. MaxLoad
    BY <1>5 DEF WriteSysTick, CortexTypeOK
  <2> QED BY <1>1, <2>1, <2>2 DEF Registers, CortexTypeOK
<1> QED BY <1>1, <1>2, <1>3, <1>4, <1>5

(* Nothing but the queue changes. *)
LEMMA QueueOnly ==
    ASSUME CortexTypeOK, UNCHANGED <<iser, prio, masks, fixed, systick, writes>>
    PROVE  Registers
BY DEF CortexTypeOK, Registers, masks, systick

(* Every instruction that writes a register of the controller. *)
LEMMA InstructionKeeps ==
    ASSUME CortexTypeOK, Instruction
    PROVE  Registers /\ QueueGrows /\ UNCHANGED spsel
<1>1. ASSUME NEW q \in Seq(Irqs), Request(q)
      PROVE  Registers /\ QueueGrows /\ UNCHANGED spsel
  BY <1>1, QueueOnly DEF Request, QueueGrows
<1>2. ASSUME NEW s \in SUBSET Lines, WriteISPR(s)
      PROVE  Registers /\ QueueGrows /\ UNCHANGED spsel
  BY <1>1, <1>2, PendingQueue DEF WriteISPR, PendingAscending
<1>3. CASE WriteICSR
  <2>1. <<PENDSV>> \in Seq(Irqs)
    BY DEF Irqs
  <2> QED BY <1>1, <1>3, <2>1 DEF WriteICSR
<1>4. ASSUME UNCHANGED intrs PROVE QueueGrows
  <2>1. intrs \in Seq(Irqs)
    BY DEF CortexTypeOK
  <2>2. intrs' = intrs \o <<>> /\ <<>> \in Seq(Irqs)
    BY <1>4, <2>1, ConcatEmptySeq, EmptySeq
  <2> QED BY <2>2 DEF QueueGrows
<1>5. CASE \/ \E n \in Lines : WriteISER(n) \/ WriteICER(n)
           \/ \E i \in Ranked, p \in Levels : WriteIPR(i, p)
           \/ WriteMasks \/ WriteSysTick
  BY <1>4, <1>5, SetUpKeeps
<1> QED BY <1>2, <1>3, <1>5 DEF Instruction

(* A queue that grew at its end: types, and the order of what was sorted. *)
LEMMA GrownQueue ==
    ASSUME CortexTypeOK, TakenByPriority, QueueGrows, Registers, UNCHANGED batch,
           where' = where
    PROVE  /\ intrs' \in Seq(Irqs) /\ batch' \in 0 .. Len(intrs')
           /\ TakenByPriority'
<1>1. PICK q \in Seq(Irqs) : intrs' = intrs \o q
  BY DEF QueueGrows
<1>2. intrs \in Seq(Irqs) /\ batch \in 0 .. Len(intrs) /\ prio \in [Ranked -> Levels]
  BY DEF CortexTypeOK
<1>3. /\ intrs' \in Seq(Irqs) /\ Len(intrs') = Len(intrs) + Len(q)
      /\ \A i \in 1 .. Len(intrs) : intrs'[i] = intrs[i]
  BY <1>1, <1>2, ConcatProperties, LenProperties
<1>4. Len(q) \in Nat /\ Len(intrs) \in Nat
  BY <1>2, LenProperties
<1>5. batch' \in 0 .. Len(intrs')
  BY <1>2, <1>3, <1>4
<1>6. TakenByPriority'
  <2> SUFFICES ASSUME where \in {"handlers", "running"}, fixed',
                      NEW i \in 1 .. batch, NEW j \in 1 .. batch, i < j
               PROVE  get_priority(intrs[i]) <= get_priority(intrs[j])
    BY <1>2, <1>3, <1>4, SMTT(30) DEF TakenByPriority, get_priority, Registers
  <2> QED BY DEF TakenByPriority, Registers
<1> QED BY <1>3, <1>5, <1>6

-----------------------------------------------------------------------------
(* The steps. *)

(* One instruction of the thread. *)
LEMMA ThreadStepKeeps ==
    ASSUME CortexInv, ThreadStep
    PROVE  CortexInv'
<1>1. /\ CortexTypeOK /\ StackInv /\ where = "main" /\ where' = "systick"
      /\ UNCHANGED <<batch, taken, runable, regs, msp, psp, ipsr, exc>>
  BY DEF CortexInv, ThreadStep
<1>2. spsel' \in BOOLEAN /\ Registers /\ QueueGrows
  <2>1. ASSUME UNCHANGED intrs PROVE QueueGrows
    <3>1. intrs \in Seq(Irqs)
      BY <1>1 DEF CortexTypeOK
    <3>2. intrs' = intrs \o <<>> /\ <<>> \in Seq(Irqs)
      BY <2>1, <3>1, ConcatEmptySeq, EmptySeq
    <3> QED BY <3>2 DEF QueueGrows
  <2>2. CASE UNCHANGED <<iser, prio, masks, intrs, fixed, systick, spsel, writes>>
    BY <1>1, <2>1, <2>2, QueueOnly DEF CortexTypeOK
  <2>3. CASE Instruction
    BY <1>1, <2>3, InstructionKeeps DEF CortexTypeOK
  <2>4. CASE /\ spsel' = ~ spsel
             /\ UNCHANGED <<iser, prio, masks, intrs, fixed, systick, writes>>
    BY <1>1, <2>1, <2>4, QueueOnly DEF CortexTypeOK
  <2>5. ASSUME NEW e \in Exceptions, intrs' = Append(intrs, e),
               UNCHANGED <<iser, prio, masks, fixed, systick, spsel, writes>>
        PROVE  spsel' \in BOOLEAN /\ Registers /\ QueueGrows
    <3>1. <<e>> \in Seq(Irqs) /\ intrs \in Seq(Irqs) /\ e \in Irqs
      BY <1>1 DEF Irqs, CortexTypeOK
    <3>2. intrs' = intrs \o <<e>>
      BY <2>5, <3>1, AppendIsConcat
    <3> QED BY <1>1, <2>5, <3>1, <3>2, QueueOnly DEF QueueGrows, CortexTypeOK
  <2> QED BY <2>2, <2>3, <2>4, <2>5 DEF ThreadStep
<1>3. intrs' \in Seq(Irqs) /\ batch' \in 0 .. Len(intrs')
  <2>1. PICK q \in Seq(Irqs) : intrs' = intrs \o q
    BY <1>2 DEF QueueGrows
  <2>2. intrs \in Seq(Irqs) /\ batch \in 0 .. Len(intrs)
    BY <1>1 DEF CortexTypeOK
  <2>3. /\ intrs' \in Seq(Irqs) /\ Len(intrs') = Len(intrs) + Len(q)
        /\ Len(q) \in Nat /\ Len(intrs) \in Nat
    BY <2>1, <2>2, ConcatProperties, LenProperties
  <2> QED BY <1>1, <2>2, <2>3
<1>4. CortexTypeOK'
  BY <1>1, <1>2, <1>3 DEF CortexTypeOK, Registers
<1>5. StackInv' /\ TakenByPriority'
  BY <1>1 DEF StackInv, TakenByPriority
<1> QED BY <1>4, <1>5 DEF CortexInv

(* SysTick counts. *)
LEMMA SysTickStepKeeps ==
    ASSUME CortexInv, SysTickStep
    PROVE  CortexInv'
<1>1. /\ CortexTypeOK /\ StackInv /\ where = "systick" /\ where' = "nvic"
      /\ UNCHANGED <<iser, prio, masks, batch, fixed, taken, ctrl, load, runable, cpu, writes>>
  BY DEF CortexInv, SysTickStep
<1>2. intrs \in Seq(Irqs) /\ SYSTICK \in Irqs /\ batch \in 0 .. Len(intrs) /\ Len(intrs) \in Nat
  BY <1>1, LenProperties DEF CortexTypeOK, Irqs
<1>3. val' \in 0 .. MaxLoad
  BY CortexAssumption DEF SysTickStep, CortexInv, CortexTypeOK
<1>4. intrs' = intrs \/ intrs' = Append(intrs, SYSTICK)
  BY DEF SysTickStep
<1>5. intrs' \in Seq(Irqs) /\ batch' \in 0 .. Len(intrs')
  BY <1>1, <1>2, <1>4, AppendProperties
<1>6. CortexTypeOK'
  BY <1>1, <1>3, <1>5 DEF CortexTypeOK, masks, cpu
<1>7. StackInv' /\ TakenByPriority'
  BY <1>1 DEF StackInv, TakenByPriority, cpu
<1> QED BY <1>6, <1>7 DEF CortexInv

(* The controller sorts what is queued. *)
LEMMA NvicStepKeeps ==
    ASSUME CortexInv, NvicStep
    PROVE  CortexInv'
<1>1. /\ CortexTypeOK /\ StackInv /\ where = "nvic" /\ where' = "handlers"
      /\ intrs' \in Sorted(intrs) /\ batch' = Len(intrs) /\ fixed' = TRUE
      /\ UNCHANGED <<iser, prio, masks, taken, systick, runable, cpu, writes>>
  BY DEF CortexInv, NvicStep
<1>2. intrs \in Seq(Irqs) /\ prio \in [Ranked -> Levels] /\ Len(intrs) \in Nat
  BY <1>1, LenProperties DEF CortexTypeOK
<1>3. PICK r \in Sorted(intrs) : intrs' = r
  BY <1>1
<1>4. /\ r \in Seq(Irqs) /\ Len(r) = Len(intrs)
      /\ \A i, j \in 1 .. Len(intrs) : i < j => get_priority(r[i]) <= get_priority(r[j])
  BY <1>2, SortedQueue
<1>5. CortexTypeOK'
  BY <1>1, <1>2, <1>3, <1>4 DEF CortexTypeOK, masks, systick, cpu
<1>6. StackInv'
  BY <1>1 DEF StackInv, cpu
<1>7. TakenByPriority'
  BY <1>1, <1>3, <1>4 DEF TakenByPriority, get_priority
<1> QED BY <1>5, <1>6, <1>7 DEF CortexInv

(* The controller is done, or the devices step. *)
LEMMA DevicesKeep ==
    ASSUME CortexInv, NvicDone \/ \E s \in SUBSET Lines : DevicesStep(s)
    PROVE  CortexInv'
<1>1. CASE NvicDone
  <2>1. CortexTypeOK'
    BY <1>1 DEF NvicDone, CortexInv, CortexTypeOK, masks, systick, cpu
  <2>2. StackInv' /\ TakenByPriority'
    BY <1>1 DEF NvicDone, CortexInv, StackInv, TakenByPriority, cpu
  <2> QED BY <2>1, <2>2 DEF CortexInv
<1>2. ASSUME NEW s \in SUBSET Lines, DevicesStep(s) PROVE CortexInv'
  <2>1. PICK q \in Pending(s) : intrs' = intrs \o q
    BY <1>2 DEF DevicesStep
  <2>2. q \in Seq(Irqs) /\ intrs \in Seq(Irqs) /\ batch \in 0 .. Len(intrs)
    BY PendingQueue DEF CortexInv, CortexTypeOK
  <2>3. /\ intrs' \in Seq(Irqs) /\ Len(intrs') = Len(intrs) + Len(q)
        /\ Len(q) \in Nat /\ Len(intrs) \in Nat
    BY <2>1, <2>2, ConcatProperties, LenProperties
  <2>4. batch' \in 0 .. Len(intrs')
    BY <1>2, <2>2, <2>3 DEF DevicesStep
  <2>5. CortexTypeOK'
    BY <1>2, <2>3, <2>4 DEF DevicesStep, CortexInv, CortexTypeOK, masks, systick, cpu
  <2>6. StackInv' /\ TakenByPriority'
    BY <1>2 DEF DevicesStep, CortexInv, StackInv, TakenByPriority, cpu
  <2> QED BY <2>5, <2>6 DEF CortexInv
<1> QED BY <1>1, <1>2

(* A request is taken: it is masked, or its handler is entered. *)
LEMMA TakeKeeps ==
    ASSUME CortexInv, Take
    PROVE  CortexInv'
<1>1. /\ CortexTypeOK /\ StackInv /\ TakenByPriority /\ where = "handlers"
      /\ intrs # <<>> /\ intrs' = Tail(intrs)
      /\ batch' = IF batch > 0 THEN batch - 1 ELSE 0
      /\ UNCHANGED <<iser, prio, masks, fixed, systick, runable, writes>>
  BY DEF CortexInv, Take
<1>2. intrs \in Seq(Irqs) /\ batch \in 0 .. Len(intrs) /\ Len(intrs) \in Nat
  BY <1>1, LenProperties DEF CortexTypeOK
<1>3. /\ intrs' \in Seq(Irqs) /\ Len(intrs') = Len(intrs) - 1 /\ Len(intrs) > 0
      /\ \A k \in 1 .. Len(intrs') : intrs'[k] = intrs[k + 1]
  BY <1>1, <1>2, HeadTailProperties, EmptySeq
<1>4. batch' \in 0 .. Len(intrs') /\ batch' \in Nat /\ batch \in Nat
  BY <1>1, <1>2, <1>3
<1>5. CASE UNCHANGED <<where, cpu>>
  <2>1. CortexTypeOK' /\ StackInv'
    BY <1>1, <1>3, <1>4, <1>5 DEF CortexTypeOK, StackInv, masks, systick, cpu
  <2> QED BY <2>1, <1>1, <1>2, <1>3, <1>4, <1>5
          DEF CortexInv, TakenByPriority, get_priority
<1>6. CASE where' = "running" /\ Enter(Head(intrs))
  <2>1. ipsr' = TRUE /\ exc' = using_psp /\ spsel' = spsel
    BY <1>6 DEF Enter
  <2>2. exc' \in BOOLEAN
    BY <1>1, <2>1 DEF using_psp, CortexTypeOK
  <2>3. CortexTypeOK'
    BY <1>1, <1>3, <1>4, <1>6, <2>1, <2>2 DEF CortexTypeOK, masks, systick
  <2>4. StackInv'
    <3> SUFFICES ASSUME runable
                 PROVE  /\ exc' = spsel'
                        /\ <<msp', psp'>> = IF spsel' THEN <<<<>>, <<Thread>>>>
                                                      ELSE <<<<Thread>>, <<>>>>
      BY <1>1, <1>6, <2>1 DEF StackInv
    <3>1. regs = Thread /\ ~ ipsr /\ msp = <<>> /\ psp = <<>>
      BY <1>1 DEF StackInv
    <3>2. using_psp = spsel
      BY <1>1, <3>1 DEF using_psp, CortexTypeOK
    <3>3. Append(<<>>, Thread) = <<Thread>>
      OBVIOUS
    <3> QED BY <1>6, <2>1, <3>1, <3>2, <3>3 DEF Enter
  <2>5. TakenByPriority'
    BY <1>1, <1>2, <1>3, <1>4, <1>6 DEF TakenByPriority, get_priority
  <2> QED BY <2>3, <2>4, <2>5 DEF CortexInv
<1> QED BY <1>5, <1>6 DEF Take

(* One instruction of a handler. *)
LEMMA HandlerStepKeeps ==
    ASSUME CortexInv, HandlerStep
    PROVE  CortexInv'
<1>1. /\ CortexTypeOK /\ StackInv /\ TakenByPriority /\ where = "running"
      /\ UNCHANGED <<batch, taken, where, runable, regs, msp, psp, ipsr, exc>>
  BY DEF CortexInv, HandlerStep
<1>2. Registers /\ QueueGrows /\ UNCHANGED spsel
  BY <1>1, InstructionKeeps DEF HandlerStep
<1>3. intrs' \in Seq(Irqs) /\ batch' \in 0 .. Len(intrs') /\ TakenByPriority'
  BY <1>1, <1>2, GrownQueue
<1>4. CortexTypeOK'
  BY <1>1, <1>2, <1>3 DEF CortexTypeOK, Registers
<1>5. StackInv'
  BY <1>1, <1>2 DEF StackInv
<1> QED BY <1>3, <1>4, <1>5 DEF CortexInv

(* A handler returns, to the stack EXC_RETURN names. *)
LEMMA HandlerReturnKeeps ==
    ASSUME CortexInv, HandlerReturn
    PROVE  CortexInv'
<1>1. /\ CortexTypeOK /\ StackInv /\ TakenByPriority
      /\ where = "running" /\ where' = "handlers"
      /\ ipsr' = FALSE /\ spsel' = exc /\ exc' = FALSE
      /\ UNCHANGED <<iser, prio, masks, intrs, batch, fixed, taken, systick, runable, writes>>
  BY DEF CortexInv, HandlerReturn
<1>2. CortexTypeOK'
  BY <1>1 DEF CortexTypeOK, masks, systick
<1>3. StackInv'
  <2> SUFFICES ASSUME runable PROVE regs' = Thread /\ msp' = <<>> /\ psp' = <<>>
    BY <1>1 DEF StackInv
  <2>1. exc = spsel /\ exc \in BOOLEAN
        /\ <<msp, psp>> = IF spsel THEN <<<<>>, <<Thread>>>> ELSE <<<<Thread>>, <<>>>>
    BY <1>1 DEF StackInv, CortexTypeOK
  <2>2. Last(<<Thread>>) = Thread /\ Front(<<Thread>>) = <<>>
    BY DEF Last, Front
  <2> QED BY <2>1, <2>2 DEF HandlerReturn
<1>4. TakenByPriority'
  BY <1>1 DEF TakenByPriority, get_priority
<1> QED BY <1>2, <1>3, <1>4 DEF CortexInv

(* A handler does not reach EXC_RETURN. *)
LEMMA HandlerCrashKeeps ==
    ASSUME CortexInv, HandlerCrash
    PROVE  CortexInv'
<1>1. /\ CortexTypeOK /\ TakenByPriority /\ where = "running" /\ where' = "handlers"
      /\ runable' = FALSE
      /\ UNCHANGED <<iser, prio, masks, batch, fixed, taken, systick, cpu, writes>>
  BY DEF CortexInv, HandlerCrash
<1>2. intrs \in Seq(Irqs) /\ batch \in 0 .. Len(intrs) /\ Len(intrs) \in Nat
  BY <1>1, LenProperties DEF CortexTypeOK
<1>3. /\ intrs' \in Seq(Irqs) /\ batch' \in 0 .. Len(intrs')
      /\ \A k \in 1 .. Len(intrs) : intrs'[k] = intrs[k]
  <2>1. CASE intrs' = intrs
    BY <1>1, <1>2, <2>1
  <2>2. ASSUME NEW e \in Exceptions, intrs' = Append(intrs, e)
        PROVE  /\ intrs' \in Seq(Irqs) /\ batch' \in 0 .. Len(intrs')
               /\ \A k \in 1 .. Len(intrs) : intrs'[k] = intrs[k]
    <3>1. e \in Irqs
      BY DEF Irqs
    <3> QED BY <1>1, <1>2, <2>2, <3>1, AppendProperties
  <2> QED BY <2>1, <2>2 DEF HandlerCrash
<1>4. CortexTypeOK'
  BY <1>1, <1>3 DEF CortexTypeOK, masks, systick, cpu
<1>5. StackInv'
  BY <1>1 DEF StackInv
<1>6. TakenByPriority'
  BY <1>1, <1>2, <1>3 DEF TakenByPriority, get_priority
<1> QED BY <1>4, <1>5, <1>6 DEF CortexInv

(* Every step keeps the invariant. *)
LEMMA CortexStepInv == CortexInv /\ [CortexNext]_cvars => CortexInv'
<1>1. ASSUME CortexInv, UNCHANGED cvars PROVE CortexInv'
  BY <1>1 DEF cvars, CortexInv, CortexTypeOK, StackInv, TakenByPriority, get_priority
<1> QED BY <1>1, ThreadStepKeeps, SysTickStepKeeps, NvicStepKeeps, DevicesKeep,
           TakeKeeps, HandlerStepKeeps, HandlerReturnKeeps, HandlerCrashKeeps
        DEF CortexNext, Emulator, HandlerEnd

(* The invariant holds throughout. *)
LEMMA AlwaysCortexInv == CortexSpec => []CortexInv
BY CortexInitInv, CortexStepInv, PTL DEF CortexSpec

(* Whatever is masked, requested or switched meanwhile, the thread goes on  *)
(* after its handlers with its own registers and stacks, up to a crash.     *)
THEOREM StacksAlwaysSound == CortexSpec => []StacksSound
<1>1. CortexInv => StacksSound
  BY DEF CortexInv, StacksSound, StackInv, ThreadResumes
<1> QED BY <1>1, AlwaysCortexInv, PTL

(* What was queued when the controller's step began is taken by priority,   *)
(* whatever handlers and crashes add to the queue.                          *)
THEOREM AlwaysTakenByPriority == CortexSpec => []TakenByPriority
<1>1. CortexInv => TakenByPriority
  BY DEF CortexInv
<1> QED BY <1>1, AlwaysCortexInv, PTL
=============================================================================
