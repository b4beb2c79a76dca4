------------------------------- MODULE CortexM -------------------------------
(***************************************************************************)
(* Interrupts of an emulated Cortex-M microcontroller: the main loop       *)
(* (qiling/os/mcu/mcu.py), the step of the peripherals (qiling/hw/hw.py),  *)
(* SysTick, the interrupt controller (qiling/hw/intc/cm_nvic.py) and the   *)
(* entry to and return from a handler (qiling/arch/cortex_m.py).           *)
(*                                                                         *)
(* The loop executes one instruction and steps the peripherals, SysTick    *)
(* first, the controller next and the devices last.  The controller calls  *)
(* the handlers of what is queued one after the other, each in a nested    *)
(* emulation to its end.  A register of the controller is the set of its   *)
(* bits; the pending bits, which only the guest reads, are left out.       *)
(***************************************************************************)
EXTENDS Integers, Sequences, FiniteSets, SequencesExt

CONSTANTS
    Lines,        \* the external interrupts, numbers of bits of ISER
    OFFSET,       \* bits of the number of a bit: 5
    Exceptions,   \* the exceptions instructions raise: SVCALL and HARD_FAULT
    Levels,       \* the priorities
    MaxLoad,      \* bound: the largest LOAD of SysTick
    MaxQueue,     \* bound: with so many requests queued the guest makes no more
    MaxWrites,    \* bound: how often the guest writes a register that sets up
    MaxCrashes    \* bound: how many handlers crash, each leaving its stack

HARD_FAULT == -13
SVCALL == -5
PENDSV == -2
SYSTICK == -1
Thread == -99     \* not an interrupt

Irqs == Lines \cup Exceptions \cup {PENDSV, SYSTICK}

Ranked == Irqs \ {HARD_FAULT}     \* those that have a priority of their own

ASSUME CortexAssumption ==
    /\ Lines \subseteq Nat /\ IsFiniteSet(Lines) /\ OFFSET \in Nat
    /\ Exceptions \subseteq {SVCALL, HARD_FAULT}
    /\ Levels \subseteq Nat /\ 0 \in Levels /\ IsFiniteSet(Levels)
    /\ MaxLoad \in Nat /\ MaxQueue \in Nat /\ MaxWrites \in Nat /\ MaxCrashes \in Nat

VARIABLES
    iser,         \* ISER: the external interrupts that are enabled
    prio,         \* IPR and SHP: the priorities
    primask, faultmask, basepri,
    intrs,        \* intrs of the controller: the requests queued
    batch,        \* how many of them were there when they were sorted
    fixed,        \* no priority has changed since
    taken,        \* the request taken from intrs last, in this step
    ctrl,         \* SysTick's CTRL: off, ENABLE only, ENABLE and TICKINT
    load, val,    \* LOAD and VAL
    where,        \* what the emulator is at
    runable,      \* os.runable
    regs,         \* whose the registers are: the thread's or a handler's
    msp, psp,     \* what is saved on the two stacks
    spsel,        \* CONTROL.SPSEL
    ipsr,         \* a handler is running
    exc,          \* the stack EXC_RETURN names, in LR
    writes        \* counts to MaxWrites

cpu == <<regs, msp, psp, spsel, ipsr, exc>>
masks == <<primask, faultmask, basepri>>
systick == <<ctrl, load, val>>
cvars == <<iser, prio, primask, faultmask, basepri, intrs, batch, fixed, taken,
           ctrl, load, val, where, runable, regs, msp, psp, spsel, ipsr, exc, writes>>

-----------------------------------------------------------------------------
(* The interrupt controller.                                               *)

(* The mask of one interrupt: MASK ^ (1 << n), with MASK the largest number *)
(* of a bit, whose own bits are the low ones.                               *)
DisableMask(n) ==
    LET low == {b \in Lines : b < OFFSET} IN
    IF n \in low THEN low \ {n} ELSE low \cup {n}

Enabled(i) == i \in Lines => i \in iser

(* set_pending of external interrupts one after the other, in any order:    *)
(* those that are enabled are queued.                                       *)
Pending(s) ==
    LET on == {n \in s : Enabled(n)}
    IN  {q \in [1 .. Cardinality(on) -> on] :
            \A i, j \in DOMAIN q : q[i] = q[j] => i = j}

(* A write of ISPR goes through its bits from the lowest on. *)
PendingAscending(s) ==
    {q \in Pending(s) : \A i, j \in DOMAIN q : i < j => q[i] < q[j]}

(* SHP[(IRQn & 0xf) - 4], whose index is -1 for a hard fault. *)
get_priority(i) == prio[IF i = HARD_FAULT THEN SYSTICK ELSE i]

(* Mutant: the requests stay in the order they came in. *)
SortedUnsorted(q) == {q}

(* intrs.sort, which is stable: before is a strict order, so that one       *)
(* permutation of the queue has it.                                         *)
Sorted(q) ==
    LET before(i, j) == \/ get_priority(q[i]) < get_priority(q[j])
                        \/ get_priority(q[i]) = get_priority(q[j]) /\ i < j
        orders == {o \in [DOMAIN q -> DOMAIN q] :
                      \A i, j \in DOMAIN q : i < j => before(o[i], o[j])}
    IN  {[k \in DOMAIN q |-> q[o[k]]] : o \in orders}

-----------------------------------------------------------------------------
(* What an instruction may do, of the thread or of a handler.              *)

(* A write to a register that sets up the controller, the masks or SysTick. *)
SetUp ==
    /\ writes < MaxWrites /\ writes' = writes + 1
    /\ UNCHANGED <<intrs, spsel>>

WriteISER(n) ==
    /\ SetUp
    /\ iser' = iser \cup {n}
    /\ UNCHANGED <<prio, masks, fixed, systick>>

WriteICER(n) ==
    /\ SetUp
    /\ iser' = iser \cap DisableMask(n)
    /\ UNCHANGED <<prio, masks, fixed, systick>>

WriteIPR(i, p) ==
    /\ SetUp
    /\ prio' = [prio EXCEPT ![i] = p]
    /\ fixed' = (fixed /\ prio' = prio)
    /\ UNCHANGED <<iser, masks, systick>>

WriteMasks ==
    /\ SetUp
    /\ \/ primask' = ~ primask /\ UNCHANGED <<faultmask, basepri>>
       \/ faultmask' = ~ faultmask /\ UNCHANGED <<primask, basepri>>
       \/ basepri' \in Levels /\ UNCHANGED <<primask, faultmask>>
    /\ UNCHANGED <<iser, prio, fixed, systick>>

(* CTRL, LOAD, which restarts the timer, or VAL. *)
WriteSysTick ==
    /\ SetUp
    /\ \/ ctrl' \in {"off", "counting", "ticking"} /\ UNCHANGED <<load, val>>
       \/ \E v \in 0 .. MaxLoad : load' = v /\ val' = v /\ UNCHANGED ctrl
       \/ val' \in 0 .. MaxLoad /\ UNCHANGED <<ctrl, load>>
    /\ UNCHANGED <<iser, prio, masks, fixed>>

(* A write that asks for an interrupt. *)
Request(q) ==
    /\ Len(intrs) < MaxQueue
    /\ intrs' = intrs \o q
    /\ UNCHANGED <<iser, prio, masks, fixed, systick, spsel, writes>>

WriteISPR(s) == \E q \in PendingAscending(s) : Request(q)

(* ICSR.PENDSVSET *)
WriteICSR == Request(<<PENDSV>>)

Instruction ==
    \/ \E n \in Lines : WriteISER(n) \/ WriteICER(n)
    \/ \E i \in Ranked, p \in Levels : WriteIPR(i, p)
    \/ WriteMasks
    \/ WriteSysTick
    \/ \E s \in SUBSET Lines : WriteISPR(s)
    \/ WriteICSR

-----------------------------------------------------------------------------
(* The main loop and the step of the peripherals.                          *)

(* One instruction of the thread: none of the above, one of them, a switch  *)
(* of the stack it uses, or an exception, which is queued.                  *)
ThreadStep ==
    /\ where = "main" /\ runable
    /\ \/ UNCHANGED <<iser, prio, masks, intrs, fixed, systick, spsel, writes>>
       \/ Instruction
       \/ /\ spsel' = ~ spsel
          /\ UNCHANGED <<iser, prio, masks, intrs, fixed, systick, writes>>
       \/ \E e \in Exceptions :
             /\ intrs' = Append(intrs, e)
             /\ UNCHANGED <<iser, prio, masks, fixed, systick, spsel, writes>>
    /\ where' = "systick"
    /\ UNCHANGED <<batch, taken, runable, regs, msp, psp, ipsr, exc>>

(* Mutant: the timer is not loaded again. *)
SysTickStepOnce ==
    /\ where = "systick"
    /\ \/ ctrl = "off" /\ UNCHANGED <<val, intrs>>
       \/ ctrl # "off" /\ val <= 0 /\ UNCHANGED <<val, intrs>>
       \/ /\ ctrl # "off" /\ val > 0
          /\ val' = val - 1
          /\ intrs' = IF val' = 0 /\ ctrl = "ticking" THEN Append(intrs, SYSTICK) ELSE intrs
    /\ where' = "nvic"
    /\ UNCHANGED <<iser, prio, masks, batch, fixed, taken, ctrl, load, runable, cpu, writes>>

SysTickStep ==
    /\ where = "systick"
    /\ \/ ctrl = "off" /\ UNCHANGED <<val, intrs>>
       \/ ctrl # "off" /\ val <= 0 /\ val' = load /\ UNCHANGED intrs
       \/ /\ ctrl # "off" /\ val > 0
          /\ val' = val - 1
          /\ intrs' = IF val' = 0 /\ ctrl = "ticking" THEN Append(intrs, SYSTICK) ELSE intrs
    /\ where' = "nvic"
    /\ UNCHANGED <<iser, prio, masks, batch, fixed, taken, ctrl, load, runable, cpu, writes>>

NvicStep ==
    /\ where = "nvic"
    /\ intrs' \in Sorted(intrs)
    /\ batch' = Len(intrs) /\ fixed' = TRUE
    /\ where' = "handlers"
    /\ UNCHANGED <<iser, prio, masks, taken, systick, runable, cpu, writes>>

NvicDone ==
    /\ where = "handlers" /\ intrs = <<>>
    /\ taken' = Thread /\ fixed' = TRUE
    /\ where' = "devices"
    /\ UNCHANGED <<iser, prio, masks, intrs, batch, systick, runable, cpu, writes>>

(* The step of the other peripherals, in the order they were created, each  *)
(* of which may make a request; then the loop looks whether it is to go on. *)
DevicesStep(s) ==
    /\ where = "devices"
    /\ intrs' \in {intrs \o q : q \in Pending(s)}
    /\ where' = "main"
    /\ UNCHANGED <<iser, prio, masks, batch, fixed, taken, systick, runable, cpu, writes>>

-----------------------------------------------------------------------------
(* The handlers.                                                           *)

Masked(i) ==
    \/ basepri # 0 /\ basepri <= get_priority(i)
    \/ primask /\ i # HARD_FAULT
    \/ faultmask

using_psp == ~ ipsr /\ spsel

(* Mutant: the registers always go to the main stack. *)
EnterMain(i) ==
    /\ msp' = Append(msp, regs) /\ UNCHANGED psp
    /\ ipsr' = TRUE
    /\ exc' = using_psp
    /\ regs' = i
    /\ UNCHANGED spsel

(* QlInterruptContext.__enter__ saves the registers on the stack in use. *)
Enter(i) ==
    /\ IF using_psp
       THEN psp' = Append(psp, regs) /\ UNCHANGED msp
       ELSE msp' = Append(msp, regs) /\ UNCHANGED psp
    /\ ipsr' = TRUE
    /\ exc' = using_psp
    /\ regs' = i
    /\ UNCHANGED spsel

(* The next request is taken from the queue.  One that is masked is gone. *)
Take ==
    /\ where = "handlers" /\ intrs # <<>>
    /\ intrs' = Tail(intrs)
    /\ taken' = Head(intrs)
    /\ batch' = IF batch > 0 THEN batch - 1 ELSE 0
    /\ IF Masked(Head(intrs))
       THEN UNCHANGED <<where, cpu>>
       ELSE where' = "running" /\ Enter(Head(intrs))
    /\ UNCHANGED <<iser, prio, masks, fixed, systick, runable, writes>>

(* Mutant: requests made by a handler go to their place by priority. *)
HandlerStepSorts ==
    /\ where = "running"
    /\ \E s \in SUBSET Lines :
          /\ Len(intrs) < MaxQueue
          /\ intrs' \in UNION {Sorted(intrs \o q) : q \in PendingAscending(s)}
          /\ UNCHANGED <<iser, prio, masks, fixed, systick, spsel, writes>>
    /\ UNCHANGED <<batch, taken, where, runable, regs, msp, psp, ipsr, exc>>

HandlerStep ==
    /\ where = "running"
    /\ Instruction
    /\ UNCHANGED <<batch, taken, where, runable, regs, msp, psp, ipsr, exc>>

(* The handler returns: __exit__ goes back to thread mode and to the stack  *)
(* EXC_RETURN names, and restores the registers from it.                    *)
HandlerReturn ==
    /\ where = "running"
    /\ ipsr' = FALSE
    /\ spsel' = exc
    /\ IF exc
       THEN regs' = Last(psp) /\ psp' = Front(psp) /\ UNCHANGED msp
       ELSE regs' = Last(msp) /\ msp' = Front(msp) /\ UNCHANGED psp
    /\ exc' = FALSE     \* LR is restored with the other registers
    /\ where' = "handlers"
    /\ UNCHANGED <<iser, prio, masks, intrs, batch, fixed, taken, systick, runable, writes>>

(* The handler raises an exception, or is not done after the instructions   *)
(* it may execute: its emulation stops short of EXC_RETURN, and the         *)
(* emulator stops.  What is queued is still handled.                        *)
HandlerCrash ==
    /\ where = "running" /\ Len(msp) + Len(psp) <= MaxCrashes
    /\ intrs' \in {intrs} \cup {Append(intrs, e) : e \in Exceptions}
    /\ intrs' = intrs \/ Len(intrs) < MaxQueue
    /\ runable' = FALSE
    /\ where' = "handlers"
    /\ UNCHANGED <<iser, prio, masks, batch, fixed, taken, systick, cpu, writes>>

-----------------------------------------------------------------------------
CortexInit ==
    /\ iser = {} /\ prio = [i \in Ranked |-> 0]
    /\ primask = FALSE /\ faultmask = FALSE /\ basepri = 0
    /\ intrs = <<>> /\ batch = 0 /\ fixed = TRUE /\ taken = Thread
    /\ ctrl = "off" /\ load = 0 /\ val = 0
    /\ where = "main" /\ runable = TRUE
    /\ regs = Thread /\ msp = <<>> /\ psp = <<>>
    /\ spsel = FALSE /\ ipsr = FALSE /\ exc = FALSE
    /\ writes = 0

Emulator ==
    \/ SysTickStep \/ NvicStep \/ NvicDone
    \/ \E s \in SUBSET Lines : DevicesStep(s)
    \/ Take

HandlerEnd == HandlerReturn \/ HandlerCrash

CortexNext == ThreadStep \/ Emulator \/ HandlerStep \/ HandlerEnd

(* The loop goes on by itself, and a handler gets no more than 0xffffff     *)
(* instructions, so that each ends.                                         *)
CortexSpec ==
    /\ CortexInit /\ [][CortexNext]_cvars
    /\ WF_cvars(ThreadStep) /\ WF_cvars(Emulator) /\ WF_cvars(HandlerEnd)

-----------------------------------------------------------------------------
(* The state has its types, and the queue does not outgrow its sources. *)
CortexTypeOK ==
    /\ iser \subseteq Lines
    /\ prio \in [Ranked -> Levels]
    /\ primask \in BOOLEAN /\ faultmask \in BOOLEAN /\ basepri \in Levels
    /\ intrs \in Seq(Irqs)
    /\ batch \in 0 .. Len(intrs) /\ fixed \in BOOLEAN
    /\ ctrl \in {"off", "counting", "ticking"} /\ load \in 0 .. MaxLoad /\ val \in 0 .. MaxLoad
    /\ where \in {"main", "systick", "nvic", "handlers", "running", "devices"}
    /\ runable \in BOOLEAN
    /\ spsel \in BOOLEAN /\ ipsr \in BOOLEAN /\ exc \in BOOLEAN
    /\ writes \in 0 .. MaxWrites

(* Until a handler crashes, the thread goes on with its own registers, in   *)
(* thread mode, and with both its stacks as they were; and while a handler  *)
(* runs, the thread's registers are on the stack the thread was using.      *)
ThreadResumes ==
    runable =>
        IF where = "running"
        THEN <<msp, psp>> = IF spsel THEN <<<<>>, <<Thread>>>> ELSE <<<<Thread>>, <<>>>>
        ELSE regs = Thread /\ ~ ipsr /\ msp = <<>> /\ psp = <<>>

(* The state has its types and the thread's registers are where they will   *)
(* be looked for.                                                           *)
StacksSound == CortexTypeOK /\ ThreadResumes

(* The requests that were queued when the controller's step began are taken *)
(* by priority, whatever handlers queue meanwhile, as long as they leave    *)
(* the priorities alone.                                                    *)
TakenByPriority ==
    (where \in {"handlers", "running"} /\ fixed) =>
        \A i, j \in 1 .. batch :
            i < j => get_priority(intrs[i]) <= get_priority(intrs[j])

(* A request that is queued is taken, though handlers may go on making      *)
(* requests of a higher priority for ever; unless the emulator stops.       *)
QueuedIsTaken ==
    \A i \in Irqs :
        (\E k \in DOMAIN intrs : intrs[k] = i) ~> (taken = i \/ ~ runable)

(* SysTick keeps on asking for its interrupt as long as it is on with a     *)
(* LOAD other than 0 that is left alone, and the main loop gets its turn.   *)
SysTickGoesOn ==
    (/\ []<>(where = "main" /\ runable)
     /\ <>[][/\ ctrl' = "ticking" /\ load' = load /\ load > 0
             /\ val' \in {val, val - 1} \/ val <= 0]_cvars)
        => []<>(taken = SYSTICK)
=============================================================================
