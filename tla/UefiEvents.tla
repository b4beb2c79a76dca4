----------------------------- MODULE UefiEvents -----------------------------
(***************************************************************************)
(* Modules, events and protocol notifications of emulated UEFI firmware    *)
(* (qiling/loader/pe_uefi.py, qiling/os/uefi): the boot services that make  *)
(* and signal events and install protocols, the hook that calls the queued *)
(* notifications one by one, and the trap at the end of each module.       *)
(*                                                                         *)
(* The emulator calls guest functions by writing return addresses on the   *)
(* guest's stack and changing its stack pointer, so the stack is in the    *)
(* model: mem holds a word per slot, slot 1 is the highest address and sp  *)
(* the slot in use that is lowest in memory.  A guest function may write   *)
(* anything below its return address and in the SHADOW slots above it, and *)
(* is taken to do so: these slots are junk once it runs.  A service called *)
(* by the guest is one step: the call, the handler and the unwinding.      *)
(* Both contexts' end_of_execution_ptr have the same trap and are one word.*)
(***************************************************************************)
EXTENDS Integers, Sequences, FiniteSets, SequencesExt

CONSTANTS
    ModuleList,   \* the modules in the order they are loaded
    Smm,          \* those of them that belong to the SMM context
    Handles,      \* bound: the images protocols are installed on and removed from
    Guids,        \* the protocols
    LoadedImage,  \* the GUID of the loaded image protocol
    NoGuid,       \* the Guid of an event nobody registered: ''
    SHADOW,       \* slots of the shadow space of a call: 4
    MaxEvents,    \* bound: events created
    StackDepth    \* bound: slots of the stack; nothing is called that needs more

Modules == ToSet(ModuleList)

ASSUME UefiAssumption ==
    /\ ModuleList \in Seq(Modules) /\ IsInjective(ModuleList) /\ ModuleList # <<>>
    /\ Smm \subseteq Modules
    /\ Handles \subseteq Modules
    /\ LoadedImage \in Guids /\ NoGuid \notin Guids
    /\ SHADOW \in Nat \ {0} /\ MaxEvents \in Nat
    /\ StackDepth \in Nat /\ SHADOW < StackDepth     \* the first module has its frame

VARIABLES
    modules,      \* loader.modules: those still to be executed
    images,       \* loaded_image_protocol_modules, SMM before DXE
    unload,       \* the images whose Unload field is set
    protocols,    \* the pairs of a handle and a protocol installed on it
    events,       \* loader.events: a dict, in its order
    created,      \* how many events were created
    notify_list,  \* loader.notify_list
    signalled,    \* the events that were queued, in the order they were
    called,       \* the events whose function was called, in that order
    hooks,        \* the addresses with a __notify_next hook
    mem, sp, pc,  \* the stack, the stack pointer and the program counter
    frames,       \* the sp of each guest function that was called, innermost last
    state         \* running, stopped by the trap or by the guest, or raised

evars == <<events, created, notify_list, signalled, called>>
svars == <<hooks, mem, sp, pc, frames>>
lvars == <<modules, images, unload, protocols>>
uvars == <<modules, images, unload, protocols, events, created, notify_list,
           signalled, called, hooks, mem, sp, pc, frames, state>>

Junk == [k |-> "junk", n |-> 0]
Eoe == [k |-> "eoe", n |-> 0]
Hook(h) == [k |-> "hook", n |-> h]
Guest(f) == [k |-> "guest", n |-> f]

Word == [k : {"junk", "eoe", "hook", "guest"}, n : 0 .. MaxEvents + Len(ModuleList)]

-----------------------------------------------------------------------------
(* The events.                                                             *)

Ids == {events[k].id : k \in DOMAIN events}

(* events[len(events)] = event: a live event that has this id is replaced.  *)
NewEvent(guid, args) ==
    LET event == [id |-> Len(events), obj |-> created + 1, guid |-> guid,
                  args |-> args, set |-> FALSE]
    IN  IF event.id \in Ids
        THEN [k \in DOMAIN events |->
                 IF events[k].id = event.id THEN event ELSE events[k]]
        ELSE Append(events, event)

(* The numbers of a set from the lowest up: there is one such sequence. *)
InOrder(S) == {o \in [1 .. Cardinality(S) -> S] : \A i, j \in DOMAIN o : i < j => o[i] < o[j]}

(* signal_event of the events at the places ks, in the order of the dict:   *)
(* those that are not set yet are queued.                                   *)
SignalEvents(evs, ks) ==
    /\ events' = [k \in DOMAIN evs |-> IF k \in ks THEN [evs[k] EXCEPT !.set = TRUE] ELSE evs[k]]
    /\ \E o \in InOrder({k \in ks : ~ evs[k].set}) :
          /\ notify_list' = notify_list \o [n \in DOMAIN o |-> evs[o[n]]]
          /\ signalled' = signalled \o [n \in DOMAIN o |-> evs[o[n]].obj]

Objs(q) == [k \in DOMAIN q |-> q[k].obj]

-----------------------------------------------------------------------------
(* The stack.                                                              *)

Push(m, s, w) == [m EXCEPT ![s + 1] = w]

(* call_native with a return address: the slots a guest function may write  *)
(* are junk from here on.                                                   *)
CallNative(s, ret) ==
    /\ s + SHADOW + 1 <= StackDepth
    /\ mem' = [k \in 1 .. StackDepth |->
                  IF k <= s THEN mem[k] ELSE IF k = s + SHADOW + 1 THEN ret ELSE Junk]
    /\ sp' = s + SHADOW + 1
    /\ frames' = Append(frames, s + SHADOW + 1)
    /\ pc' = Guest(Len(frames) + 1)

(* execute_protocol_notifications(from_hook = True), notify_list not empty: *)
(* the service pops next_hook instead of the address it was called from,    *)
(* which stays on the stack above a bogus shadow space.                     *)
DrainFromHook ==
    /\ sp + 1 + SHADOW < StackDepth
    /\ \E h \in 1 .. MaxEvents + 1 :
           /\ h \notin hooks /\ \A g \in 1 .. h - 1 : g \in hooks
           /\ hooks' = hooks \cup {h}
           /\ mem' = Push(Push(mem, sp, pc), sp + 1 + SHADOW, Hook(h))
           /\ sp' = sp + 1 + SHADOW
           /\ pc' = Hook(h)

(* Mutant: the trap's address is not pushed. *)
DrainFromTrapUnpushed ==
    \E h \in 1 .. MaxEvents + 1 :
        /\ h \notin hooks /\ \A g \in 1 .. h - 1 : g \in hooks
        /\ hooks' = hooks \cup {h}
        /\ sp' = sp + SHADOW
        /\ pc' = Hook(h)
        /\ UNCHANGED mem

(* execute_protocol_notifications() of the trap, notify_list not empty. *)
DrainFromTrap ==
    /\ sp + SHADOW < StackDepth
    /\ \E h \in 1 .. MaxEvents + 1 :
           /\ h \notin hooks /\ \A g \in 1 .. h - 1 : g \in hooks
           /\ hooks' = hooks \cup {h}
           /\ mem' = Push(mem, sp + SHADOW, Eoe)
           /\ sp' = sp + SHADOW + 1
           /\ pc' = Hook(h)

-----------------------------------------------------------------------------
(* The services the guest calls.                                           *)

InGuest == state = "running" /\ pc.k = "guest"

(* CreateEvent, CreateEventEx. *)
CreateEvent ==
    /\ InGuest /\ created < MaxEvents
    /\ events' = NewEvent(NoGuid, TRUE)
    /\ created' = created + 1
    /\ UNCHANGED <<notify_list, signalled, called, lvars, svars, state>>

(* An event whose arguments are not known until the protocol is installed. *)
SmmRegisterProtocolNotify(g) ==
    /\ InGuest /\ created < MaxEvents
    /\ events' = NewEvent(g, FALSE)
    /\ created' = created + 1
    /\ UNCHANGED <<notify_list, signalled, called, lvars, svars, state>>

RegisterProtocolNotify(i, g) ==
    /\ InGuest /\ i \in Ids
    /\ events' = [k \in DOMAIN events |->
                     IF events[k].id = i THEN [events[k] EXCEPT !.guid = g] ELSE events[k]]
    /\ UNCHANGED <<created, notify_list, signalled, called, lvars, svars, state>>

SignalEvent(i) ==
    /\ InGuest /\ i \in Ids
    /\ SignalEvents(events, {k \in DOMAIN events : events[k].id = i})
    /\ UNCHANGED <<created, called, lvars, svars, state>>

(* What the event has in notify_list stays there. *)
CloseEvent(i) ==
    /\ InGuest /\ i \in Ids
    /\ \E k \in DOMAIN events : events[k].id = i /\ events' = RemoveAt(events, k)
    /\ UNCHANGED <<created, notify_list, signalled, called, lvars, svars, state>>

(* CheckEvent of an event that is not there raises KeyError. *)
CheckEvent(i) ==
    /\ InGuest /\ i \notin Ids
    /\ state' = "raised"
    /\ UNCHANGED <<evars, lvars, svars>>

(* The events of a protocol have their arguments. *)
Filled(g) ==
    [k \in DOMAIN events |->
        IF events[k].guid = g THEN [events[k] EXCEPT !.args = TRUE] ELSE events[k]]

(* Mutant: the events are queued and the hook is left for later. *)
NotifyProtocolQueues(g) ==
    /\ SignalEvents(Filled(g), {k \in DOMAIN events : events[k].guid = g})
    /\ UNCHANGED svars

(* notify_protocol: the events of the protocol get their arguments if they  *)
(* have none and are signalled, and the notifications are set going.        *)
NotifyProtocol(g) ==
    /\ SignalEvents(Filled(g), {k \in DOMAIN events : events[k].guid = g})
    /\ IF notify_list' = <<>>
       THEN UNCHANGED svars
       ELSE DrainFromHook /\ UNCHANGED frames

InstallProtocolInterface(h, g) ==
    /\ InGuest
    /\ protocols' = protocols \cup {<<h, g>>}
    /\ NotifyProtocol(g)
    /\ UNCHANGED <<created, called, modules, images, unload, state>>

(* Nothing is signalled, and what is queued is called. *)
InstallMultipleProtocolInterfaces(h, gs) ==
    /\ InGuest
    /\ protocols' = protocols \cup {<<h, g>> : g \in gs}
    /\ IF notify_list = <<>>
       THEN UNCHANGED svars
       ELSE DrainFromHook /\ UNCHANGED frames
    /\ UNCHANGED <<evars, modules, images, unload, state>>

UninstallProtocolInterface(h, g) ==
    /\ InGuest /\ <<h, g>> \in protocols
    /\ protocols' = protocols \ {<<h, g>>}
    /\ UNCHANGED <<evars, modules, images, unload, svars, state>>

(* The module writes an address to the Unload field of its image.  External *)
(* to the emulator: the guest's own store.                                  *)
SetUnload(m) ==
    /\ InGuest /\ m \notin unload
    /\ unload' = unload \cup {m}
    /\ UNCHANGED <<evars, modules, images, protocols, svars, state>>

(* Exit and ExitBootServices stop the emulation where it is. *)
Exit ==
    /\ InGuest
    /\ state' = "exited"
    /\ UNCHANGED <<evars, lvars, svars>>

(* The ret of a guest function, which has put its stack pointer back. *)
Return ==
    /\ InGuest
    /\ pc' = mem[sp]
    /\ sp' = sp - 1
    /\ frames' = Front(frames)
    /\ UNCHANGED <<evars, lvars, hooks, mem, state>>

-----------------------------------------------------------------------------
(* The hooks of the emulator.                                              *)

(* Mutant: the last notification is called first. *)
NotifyNextLast ==
    /\ state = "running" /\ pc.k = "hook" /\ notify_list # <<>>
    /\ notify_list' = Front(notify_list)
    /\ called' = Append(called, Last(notify_list).obj)
    /\ CallNative(sp - SHADOW, pc)
    /\ UNCHANGED <<events, created, signalled, lvars, hooks, state>>

(* __notify_next with a notification left: an event signalled before its    *)
(* arguments were known raises when they are formatted.                     *)
NotifyNext ==
    /\ state = "running" /\ pc.k = "hook" /\ notify_list # <<>>
    /\ notify_list' = Tail(notify_list)
    /\ IF Head(notify_list).args
       THEN /\ called' = Append(called, Head(notify_list).obj)
            /\ CallNative(sp - SHADOW, pc)
            /\ UNCHANGED state
       ELSE /\ state' = "raised"
            /\ sp' = sp - SHADOW
            /\ UNCHANGED <<called, mem, pc, frames>>
    /\ UNCHANGED <<events, created, signalled, lvars, hooks>>

(* __notify_next with none left: the hook is torn down and the address that *)
(* started it is popped.                                                    *)
NotifyDone ==
    /\ state = "running" /\ pc.k = "hook" /\ notify_list = <<>>
    /\ hooks' = hooks \ {pc.n}
    /\ pc' = mem[sp - SHADOW]
    /\ sp' = sp - SHADOW - 1
    /\ UNCHANGED <<evars, lvars, mem, frames, state>>

AtTrap == state = "running" /\ pc.k = "eoe"

TrapNotifies ==
    /\ AtTrap /\ notify_list # <<>>
    /\ DrainFromTrap
    /\ UNCHANGED <<evars, lvars, frames, state>>

(* execute_next_module, on a stack that starts afresh. *)
ExecuteNextModule ==
    /\ AtTrap /\ notify_list = <<>> /\ modules # <<>>
    /\ modules' = Tail(modules)
    /\ CallNative(0, Eoe)
    /\ UNCHANGED <<evars, images, unload, protocols, hooks, state>>

(* Mutant: the images are unloaded whatever is queued. *)
TearDownQueued == AtTrap /\ modules = <<>>

TearDown == AtTrap /\ notify_list = <<>> /\ modules = <<>>

(* unload_modules: the images in their order, up to one that has an Unload  *)
(* function or lacks the protocol.                                          *)
Lacking(m) == <<m, LoadedImage>> \notin protocols

Unloading == {i \in DOMAIN images : Lacking(images[i]) \/ images[i] \in unload}

FirstUnloading == {i \in Unloading : \A j \in Unloading : i <= j}

UnloadModule(i) ==
    /\ TearDown /\ i \in FirstUnloading /\ ~ Lacking(images[i])
    /\ CallNative(sp, Eoe)
    /\ images' = RemoveAt(images, i)
    /\ UNCHANGED <<evars, modules, unload, protocols, hooks, state>>

(* protocols[handle][guid] raises KeyError. *)
UnloadRaises(i) ==
    /\ TearDown /\ i \in FirstUnloading /\ Lacking(images[i])
    /\ state' = "raised"
    /\ UNCHANGED <<evars, lvars, svars>>

(* Mutant: the unload functions of the first image are all there is. *)
TrapStopsEarly ==
    /\ TearDown /\ (images # <<>> => 1 \notin Unloading)
    /\ state' = "stopped"
    /\ UNCHANGED <<evars, lvars, svars>>

TrapStops ==
    /\ TearDown /\ Unloading = {}
    /\ state' = "stopped"
    /\ UNCHANGED <<evars, lvars, svars>>

-----------------------------------------------------------------------------
(* The images of a context, in the order they were loaded. *)
Images(S) ==
    {[k \in DOMAIN o |-> ModuleList[o[k]]] :
        o \in InOrder({k \in DOMAIN ModuleList : ModuleList[k] \in S})}

UefiInit ==
    /\ modules = Tail(ModuleList)
    /\ \E s \in Images(Smm), d \in Images(Modules \ Smm) : images = s \o d
    /\ unload = {}
    /\ protocols = Modules \X {LoadedImage}
    /\ events = <<>> /\ created = 0
    /\ notify_list = <<>> /\ signalled = <<>> /\ called = <<>>
    /\ hooks = {}
    /\ mem = [k \in 1 .. StackDepth |-> IF k = SHADOW + 1 THEN Eoe ELSE Junk]
    /\ sp = SHADOW + 1
    /\ pc = Guest(1)
    /\ frames = <<SHADOW + 1>>
    /\ state = "running"

EventService ==
    \/ CreateEvent
    \/ \E g \in Guids : SmmRegisterProtocolNotify(g)
    \/ \E i \in 0 .. MaxEvents, g \in Guids : RegisterProtocolNotify(i, g)
    \/ \E i \in 0 .. MaxEvents : SignalEvent(i) \/ CloseEvent(i) \/ CheckEvent(i)

ProtocolService ==
    \E h \in Handles :
        \/ \E g \in Guids : InstallProtocolInterface(h, g)
        \/ \E gs \in SUBSET Guids : InstallMultipleProtocolInterfaces(h, gs)
        \/ \E g \in Guids : UninstallProtocolInterface(h, g)

Trap ==
    \/ TrapNotifies
    \/ ExecuteNextModule
    \/ \E i \in DOMAIN images : UnloadModule(i) \/ UnloadRaises(i)
    \/ TrapStops

Emulator == NotifyNext \/ NotifyDone \/ Trap

UefiNext ==
    \/ EventService \/ ProtocolService
    \/ \E m \in Modules : SetUnload(m)
    \/ Exit \/ Return
    \/ Emulator

(* The emulator goes on as long as it is not stopped, and guest functions   *)
(* return: what a firmware that hangs leaves undone is not the emulator's.  *)
UefiSpec ==
    UefiInit /\ [][UefiNext]_uvars /\ WF_uvars(Emulator) /\ WF_uvars(Return)

-----------------------------------------------------------------------------
EventType ==
    [id : 0 .. MaxEvents, obj : 1 .. MaxEvents, guid : Guids \cup {NoGuid},
     args : BOOLEAN, set : BOOLEAN]

(* The state has its types: the stack does not grow past what its nesting   *)
(* allows, and no more hooks are alive than notifications were ever queued. *)
UefiTypeOK ==
    /\ modules \in Seq(Modules) /\ images \in Seq(Modules)
    /\ unload \subseteq Modules /\ protocols \subseteq Modules \X Guids
    /\ events \in Seq(EventType) /\ created \in 0 .. MaxEvents
    /\ notify_list \in Seq(EventType)
    /\ signalled \in Seq(1 .. MaxEvents) /\ called \in Seq(1 .. MaxEvents)
    /\ hooks \subseteq 1 .. MaxEvents
    /\ mem \in [1 .. StackDepth -> Word] /\ sp \in 0 .. StackDepth
    /\ pc \in Word /\ frames \in Seq(1 .. StackDepth)
    /\ state \in {"running", "stopped", "exited", "raised"}

(* Control and stack are consistent: no return, whether of a callback, of a *)
(* service that had notifications called or of the hook at its end, reaches *)
(* an address that is not one; the function that goes on is the innermost   *)
(* one not yet returned, with the stack pointer it had; and the trap is     *)
(* reached by the last one only.                                            *)
StackConsistent ==
    /\ pc.k # "junk"
    /\ pc.k = "guest" => /\ frames # <<>> /\ pc.n = Len(frames)
                         /\ sp = Last(frames)
    /\ pc.k = "hook" => pc.n \in hooks
    /\ pc.k = "eoe" => frames = <<>> /\ hooks = {}

(* The state has its types and control and stack are consistent. *)
StackSound == UefiTypeOK /\ StackConsistent

(* An event is queued at most once in its life, and callbacks are called in *)
(* the order of the signals, however the drains that call them are nested.  *)
DeliveredInOrder ==
    /\ called \o Objs(notify_list) = signalled \/ state = "raised"
    /\ IsInjective(signalled)

(* The trap stops the emulation when all the work is done: every module has *)
(* run, nothing is queued, no hook is left, and no image that is still on   *)
(* the list has an unload function.                                         *)
StopClean ==
    state = "stopped" =>
        /\ modules = <<>> /\ notify_list = <<>> /\ hooks = {} /\ frames = <<>>
        /\ ToSet(images) \cap unload = {}

(* A service that installs a protocol comes back to the function that       *)
(* called it only when all that was queued has been called, those signalled *)
(* by the callbacks themselves included.                                    *)
InstallDelivers ==
    [][(/\ pc'.k = "guest" /\ Len(frames') = Len(frames)
        /\ pc.k = "hook" \/ ~ protocols' \subseteq protocols)
          => notify_list' = <<>>]_uvars

(* A notification that is queued is called in the end, unless the guest     *)
(* stops the emulation or an exception does.                                *)
QueuedIsCalled ==
    \A o \in 1 .. MaxEvents :
        o \in ToSet(signalled) ~> (o \in ToSet(called) \/ state \in {"exited", "raised"})
=============================================================================
