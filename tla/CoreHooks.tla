----------------------------- MODULE CoreHooks -----------------------------
(***************************************************************************)
(* QlCoreHooks (qiling/core_hooks.py, core_hooks_types.py): the hooks a    *)
(* user registers and their dispatch when Unicorn reports an event.        *)
(*                                                                         *)
(* Qiling registers one hook with Unicorn per key (an event type, an       *)
(* instruction type, an address) and keeps a list of its own hooks for the *)
(* key.  A dispatcher iterates over that list while the callbacks it calls *)
(* may register, delete and clear hooks: the steps of a dispatch are       *)
(* Event, then CallHook or SkipHook for each turn of the loop, the API     *)
(* calls the callback makes, and CallbackReturns.                          *)
(***************************************************************************)
EXTENDS Integers, Sequences, SequencesExt

CONSTANTS
    Keys,        \* the keys of the three tables of hooks
    Kind,        \* the dispatcher of a key: "intr", "insn", "trace", "mem",
                 \* "fault" (invalid memory access), "invalid" or "addr"
    Hooks,       \* the hooks a user creates, each registered once
    KeysOf,      \* the keys the type of a hook selects
    Begin, End,  \* the range a hook watches
    Intno,       \* the interrupt a hook asked for; NoIntno for hook_intr
    NoIntno,
    Events       \* what Unicorn reports: [addr, size, intno]

ASSUME HooksAssumption ==
    /\ Kind \in [Keys -> {"intr", "insn", "trace", "mem", "fault",
                          "invalid", "addr"}]
    /\ KeysOf \in [Hooks -> SUBSET Keys]
    /\ Begin \in [Hooks -> Int] /\ End \in [Hooks -> Int]
    /\ Intno \in [Hooks -> Int] /\ NoIntno \in Int
    /\ Events \subseteq [addr : Int, size : Nat \ {0}, intno : Nat]

VARIABLES
    tab,         \* the list of hooks of each key
    handle,      \* the keys whose Unicorn handle is known
    uc_hooks,    \* the number of Unicorn hooks that dispatch each key
    status,      \* of each hook: "new", "on", "off" or "cleared"
    disp,        \* the dispatch under way, or the last one
    exc          \* ql._internal_exception: "none", "callback", "unhandled"

vars == <<tab, handle, uc_hooks, status, disp, exc>>

InsnKeys == {k \in Keys : Kind[k] = "insn"}

Idle == [phase |-> "idle"]

(* The variables of a dispatcher: its index into the list, whether a hook   *)
(* was called, and (for the properties) which, and if any was deleted.      *)
Dispatches ==
    [phase : {"loop", "callback", "blocked", "raised", "done"}, key : Keys,
     ev : Events, idx : Nat \ {0}, kept : SUBSET Seq(Hooks),
     handled : BOOLEAN, removed : BOOLEAN, called : Seq(Hooks)]

(* User code runs between dispatches and inside a callback. *)
UserRuns == disp.phase \in {"idle", "done", "callback"}

(* A user's call between dispatches ends our interest in the last one. *)
Forget(d) == IF d.phase = "callback" THEN d ELSE Idle

-----------------------------------------------------------------------------
(* ql_hook, hook_address and hook_intno: a Unicorn hook for a key that has  *)
(* none, and the hook at the end of the list of each of its keys.           *)
ql_hook(h) ==
    /\ UserRuns /\ status[h] = "new"
    /\ tab' = [k \in Keys |-> IF k \in KeysOf[h] THEN Append(tab[k], h) ELSE tab[k]]
    /\ handle' = handle \cup KeysOf[h]
    /\ uc_hooks' = [k \in Keys |-> IF k \in KeysOf[h] \ handle
                                   THEN uc_hooks[k] + 1 ELSE uc_hooks[k]]
    /\ status' = [status EXCEPT ![h] = "on"]
    /\ disp' = Forget(disp)
    /\ UNCHANGED exc

(* The keys hook_del looks at: an instruction hook is stored under its      *)
(* instruction type but looked up under UC_HOOK_INSN, where nothing is.     *)
DelKeys(h) == {k \in KeysOf[h] \ InsnKeys : Contains(tab[k], h)}

(* Mutant: the Unicorn hook of an emptied list is left in place. *)
DelKeepsHandle(h) ==
    /\ UserRuns /\ status[h] \in {"on", "cleared"}
    /\ tab' = [k \in Keys |-> IF k \in DelKeys(h) THEN RemoveFirst(tab[k], h) ELSE tab[k]]
    /\ status' = [status EXCEPT ![h] = IF @ = "on" THEN "off" ELSE @]
    /\ disp' = IF disp.phase = "callback"
               THEN [disp EXCEPT !.removed = TRUE] ELSE Idle
    /\ UNCHANGED <<handle, uc_hooks, exc>>

(* Mutant: the handle is dropped and the Unicorn hook not deleted. *)
DelForgetsUc(h) ==
    /\ UserRuns /\ status[h] \in {"on", "cleared"}
    /\ tab' = [k \in Keys |-> IF k \in DelKeys(h) THEN RemoveFirst(tab[k], h) ELSE tab[k]]
    /\ handle' = handle \ {k \in DelKeys(h) : Len(tab[k]) = 1}
    /\ status' = [status EXCEPT ![h] = IF @ = "on" THEN "off" ELSE @]
    /\ disp' = IF disp.phase = "callback"
               THEN [disp EXCEPT !.removed = TRUE] ELSE Idle
    /\ UNCHANGED <<uc_hooks, exc>>

hook_del(h) ==
    LET emptied == {k \in DelKeys(h) : Len(tab[k]) = 1}
    IN  /\ UserRuns /\ status[h] \in {"on", "cleared"}
        /\ tab' = [k \in Keys |-> IF k \in DelKeys(h)
                                  THEN RemoveFirst(tab[k], h) ELSE tab[k]]
        /\ handle' = handle \ emptied
        /\ uc_hooks' = [k \in Keys |-> IF k \in emptied
                                       THEN uc_hooks[k] - 1 ELSE uc_hooks[k]]
        /\ status' = [status EXCEPT ![h] = IF @ = "on" THEN "off" ELSE @]
        /\ disp' = IF disp.phase = "callback"
                   THEN [disp EXCEPT !.removed = TRUE] ELSE Idle
        /\ UNCHANGED exc

(* The tables are replaced: a dispatch under way keeps the list it had. *)
DropTables ==
    /\ tab' = [k \in Keys |-> <<>>]
    /\ handle' = {}
    /\ status' = [h \in Hooks |-> IF status[h] = "on" THEN "cleared" ELSE status[h]]
    /\ disp' = IF disp.phase = "callback" /\ disp.kept = {}
               THEN [disp EXCEPT !.kept = {tab[disp.key]}] ELSE Forget(disp)
    /\ UNCHANGED exc

clear_hooks ==
    /\ UserRuns
    /\ uc_hooks' = [k \in Keys |-> IF k \in handle THEN uc_hooks[k] - 1
                                                   ELSE uc_hooks[k]]
    /\ DropTables

(* As execve calls it: the Unicorn hooks stay, until a new engine is made   *)
(* (not for shellcode).                                                     *)
clear_ql_hooks ==
    /\ UserRuns
    /\ UNCHANGED uc_hooks
    /\ DropTables

-----------------------------------------------------------------------------
(* The hooks a dispatcher calls. *)

bound_check(h, addr, n) ==
    \/ End[h] < Begin[h]
    \/ Begin[h] <= addr /\ addr <= End[h]
    \/ Begin[h] <= addr + n - 1 /\ addr + n - 1 <= End[h]

(* HookIntr.check; a plain Hook accepts every interrupt. *)
check(h, intno) == Intno[h] = NoIntno \/ intno < 0 \/ Intno[h] = intno

Matches(h, k, ev) ==
    CASE Kind[k] = "intr" -> check(h, ev.intno)
      [] Kind[k] = "insn" -> bound_check(h, ev.addr, 1)
      [] Kind[k] \in {"trace", "mem", "fault"} -> bound_check(h, ev.addr, ev.size)
      [] Kind[k] \in {"invalid", "addr"} -> TRUE

(* Mutant: the dispatcher iterates over a copy of the list. *)
EventCopies(k, ev) ==
    /\ disp.phase \in {"idle", "done"} /\ exc = "none"
    /\ uc_hooks[k] > 0
    /\ disp' = [phase |-> "loop", key |-> k, ev |-> ev, idx |-> 1,
                kept |-> {tab[k]}, handled |-> FALSE, removed |-> FALSE,
                called |-> <<>>]
    /\ UNCHANGED <<tab, handle, uc_hooks, status, exc>>

(* Unicorn calls the dispatcher of a key, while no exception is pending. *)
Event(k, ev) ==
    /\ disp.phase \in {"idle", "done"} /\ exc = "none"
    /\ uc_hooks[k] > 0
    /\ Kind[k] = "addr" => \A h \in Range(tab[k]) : Begin[h] = ev.addr
    /\ disp' = [phase |-> "loop", key |-> k, ev |-> ev, idx |-> 1, kept |-> {},
                handled |-> FALSE, removed |-> FALSE, called |-> <<>>]
    /\ UNCHANGED <<tab, handle, uc_hooks, status, exc>>

(* The list iterated over: the one of the table unless that was replaced. *)
Current == IF disp.kept = {} THEN tab[disp.key] ELSE CHOOSE l \in disp.kept : TRUE

(* Mutant: the index is not advanced past a hook that is called. *)
CallHookStays ==
    /\ disp.phase = "loop" /\ disp.idx <= Len(Current)
    /\ Matches(Current[disp.idx], disp.key, disp.ev)
    /\ Len(disp.called) < 3
    /\ disp' = [disp EXCEPT !.phase = "callback", !.handled = TRUE,
                            !.called = Append(@, Current[disp.idx])]
    /\ UNCHANGED <<tab, handle, uc_hooks, status, exc>>

CallHook ==
    /\ disp.phase = "loop" /\ disp.idx <= Len(Current)
    /\ Matches(Current[disp.idx], disp.key, disp.ev)
    /\ disp' = [disp EXCEPT !.phase = "callback", !.idx = @ + 1,
                            !.handled = TRUE,
                            !.called = Append(@, Current[disp.idx])]
    /\ UNCHANGED <<tab, handle, uc_hooks, status, exc>>

(* Mutant: the loop ends at the first hook that does not match. *)
SkipEndsLoop ==
    /\ disp.phase = "loop" /\ disp.idx <= Len(Current)
    /\ ~ Matches(Current[disp.idx], disp.key, disp.ev)
    /\ disp' = [disp EXCEPT !.phase = "done"]
    /\ UNCHANGED <<tab, handle, uc_hooks, status, exc>>

SkipHook ==
    /\ disp.phase = "loop" /\ disp.idx <= Len(Current)
    /\ ~ Matches(Current[disp.idx], disp.key, disp.ev)
    /\ disp' = [disp EXCEPT !.idx = @ + 1]
    /\ UNCHANGED <<tab, handle, uc_hooks, status, exc>>

(* The callback returns nothing, returns QL_HOOK_BLOCK, or raises: then the *)
(* wrapper around the dispatcher stops the emulation and keeps the error.   *)
CallbackReturns(how) ==
    /\ disp.phase = "callback"
    /\ disp' = [disp EXCEPT !.phase = IF how = "none" THEN "loop" ELSE how]
    /\ exc' = IF how = "raised" THEN "callback" ELSE exc
    /\ UNCHANGED <<tab, handle, uc_hooks, status>>

(* The dispatchers that insist on a hook for the event. *)
MustHandle(k) == Kind[k] \in {"intr", "fault", "invalid"}

LoopEnds ==
    /\ disp.phase = "loop" /\ disp.idx > Len(Current)
    /\ disp' = [disp EXCEPT !.phase = "done"]
    /\ exc' = IF ~ disp.handled /\ MustHandle(disp.key) THEN "unhandled" ELSE exc
    /\ UNCHANGED <<tab, handle, uc_hooks, status>>

(* A blocked or failed dispatch is over as well. *)
LoopBroken ==
    /\ disp.phase \in {"blocked", "raised"}
    /\ disp' = Idle
    /\ UNCHANGED <<tab, handle, uc_hooks, status, exc>>

(* emu_start: "reset exception status before emulation starts". *)
emu_start ==
    /\ disp.phase \in {"idle", "done"} /\ exc # "none"
    /\ exc' = "none"
    /\ disp' = Idle
    /\ UNCHANGED <<tab, handle, uc_hooks, status>>

-----------------------------------------------------------------------------
Init ==
    /\ tab = [k \in Keys |-> <<>>]
    /\ handle = {}
    /\ uc_hooks = [k \in Keys |-> 0]
    /\ status = [h \in Hooks |-> "new"]
    /\ disp = Idle
    /\ exc = "none"

UserCalls ==
    \/ \E h \in Hooks : ql_hook(h) \/ hook_del(h)
    \/ clear_hooks
    \/ clear_ql_hooks

Dispatching ==
    \/ \E k \in Keys, ev \in Events : Event(k, ev)
    \/ CallHook
    \/ SkipHook
    \/ \E how \in {"none", "blocked", "raised"} : CallbackReturns(how)
    \/ LoopEnds
    \/ LoopBroken
    \/ emu_start

Next == UserCalls \/ Dispatching

Spec == Init /\ [][Next]_vars

-----------------------------------------------------------------------------
(* Tables, handles and the dispatch record are well formed. *)
TypeOK ==
    /\ tab \in [Keys -> Seq(Hooks)]
    /\ handle \subseteq Keys
    /\ uc_hooks \in [Keys -> Nat]
    /\ status \in [Hooks -> {"new", "on", "off", "cleared"}]
    /\ disp \in {Idle} \cup Dispatches
    /\ exc \in {"none", "callback", "unhandled"}

(* A key has a Unicorn handle exactly while it has hooks, whatever the      *)
(* callbacks register, delete or clear in the middle of a dispatch.         *)
HandleIffHooks ==
    \A k \in Keys : /\ k \in handle <=> tab[k] # <<>>
                    /\ k \in handle => uc_hooks[k] > 0

(* The tables are well formed and their keys are those Unicorn dispatches.  *)
TablesSound == TypeOK /\ HandleIffHooks

(* The Unicorn hooks of a key beyond the one its handle stands for. *)
Excess(k) == uc_hooks[k] - (IF k \in handle THEN 1 ELSE 0)

(* Unicorn calls a dispatcher once per event: no step registers a key twice *)
(* or leaves a Unicorn hook behind when the last hook goes, but for the     *)
(* clear_ql_hooks of execve, which drops the handles.                       *)
OneUcHook == [][clear_ql_hooks \/ \A k \in Keys : Excess(k)' = Excess(k)]_vars

(* The lists hook_del has taken a hook off.  The list of an instruction is  *)
(* never one of them (DelKeys), nor one that clear_hooks had replaced.      *)
TakenOff(h) == IF status[h] = "off" THEN KeysOf[h] \ InsnKeys ELSE {}

(* A hook that hook_del found and took off a list is not called for the key *)
(* of that list any more, not even by a dispatch that is iterating over it. *)
(* This is less than "Unregister an existing hook": hook_del does not find  *)
(* an instruction hook, which goes on being called, nor a hook of a list    *)
(* that clear_hooks replaced, which the dispatch under way goes on with.    *)
RemovedNotCalled ==
    [][\A h \in Hooks :
         (disp.phase = "loop" /\ disp'.phase = "callback" /\ disp.key \in TakenOff(h))
            => Last(disp'.called) # h]_vars

(* In one dispatch no hook is called twice, although the list changes       *)
(* under the iteration.                                                     *)
NoDoubleCall == disp.phase # "idle" => IsInjective(disp.called)

(* A dispatch in which no hook is deleted calls the matching hooks of the   *)
(* list, those that were added meanwhile included, in their order.          *)
AllMatchingCalled ==
    (disp.phase = "done" /\ ~ disp.removed) =>
        /\ Range(disp.called) =
              {h \in Range(Current) : Matches(h, disp.key, disp.ev)}
        /\ \A a, b \in DOMAIN disp.called : \A i, j \in DOMAIN Current :
              (a < b /\ Current[i] = disp.called[a] /\ Current[j] = disp.called[b])
                 => i < j
=============================================================================
