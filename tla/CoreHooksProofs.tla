--------------------------- MODULE CoreHooksProofs ---------------------------
(***************************************************************************)
(* Proofs about CoreHooks, for any keys, hooks, ranges and events, and for *)
(* lists of any length.                                                    *)
(***************************************************************************)
EXTENDS CoreHooks, SequenceTheorems, TLAPS

-----------------------------------------------------------------------------
(* Lists without duplicates. *)

(* The sequence without its i-th element (list.remove in hook_del). *)
LEMMA RemoveAtIs ==
    ASSUME NEW S, NEW s \in Seq(S), NEW i \in 1 .. Len(s)
    PROVE  /\ RemoveAt(s, i) \in Seq(S)
           /\ Len(RemoveAt(s, i)) = Len(s) - 1
           /\ \A j \in 1 .. Len(s) - 1 :
                 RemoveAt(s, i)[j] = IF j < i THEN s[j] ELSE s[j + 1]
<1> DEFINE l == SubSeq(s, 1, i - 1)
           r == SubSeq(s, i + 1, Len(s))
<1>1. Len(s) \in Nat
  BY LenProperties
<1>2. l \in Seq(S) /\ Len(l) = i - 1 /\ \A j \in 1 .. i - 1 : l[j] = s[j]
  BY <1>1, SMT
<1>3. r \in Seq(S) /\ Len(r) = Len(s) - i
      /\ \A j \in 1 .. Len(s) - i : r[j] = s[i + j]
  BY <1>1, SMT
<1>4. l \o r \in Seq(S) /\ Len(l \o r) = Len(s) - 1
      /\ \A j \in 1 .. Len(s) - 1 :
            (l \o r)[j] = IF j <= i - 1 THEN l[j] ELSE r[j - (i - 1)]
  <2> HIDE DEF l, r
  <2>1. Len(l) + Len(r) = Len(s) - 1
    BY <1>1, <1>2, <1>3
  <2>2. /\ l \o r \in Seq(S)
        /\ Len(l \o r) = Len(l) + Len(r)
        /\ \A j \in 1 .. Len(l) + Len(r) :
              (l \o r)[j] = IF j <= Len(l) THEN l[j] ELSE r[j - Len(l)]
    BY <1>2, <1>3, ConcatProperties, Zenon
  <2>3. Len(l) = i - 1
    BY <1>2
  <2> QED
    BY <2>1, <2>2, <2>3
<1>5. RemoveAt(s, i) = l \o r
  BY DEF RemoveAt
<1> HIDE DEF l, r
<1>6. ASSUME NEW j \in 1 .. Len(s) - 1
      PROVE  (l \o r)[j] = IF j < i THEN s[j] ELSE s[j + 1]
  <2>1. CASE j < i
    BY <1>1, <1>2, <1>4, <2>1
  <2>2. CASE ~ (j < i)
    <3>1. j - (i - 1) \in 1 .. Len(s) - i /\ i + (j - (i - 1)) = j + 1
      BY <1>1, <2>2
    <3>2. r[j - (i - 1)] = s[j + 1]
      BY <1>3, <3>1
    <3> QED
      BY <1>1, <1>4, <2>2, <3>2
  <2> QED
    BY <2>1, <2>2
<1> QED
  BY <1>4, <1>5, <1>6

(* The first occurrence in a list without duplicates is the only one. *)
LEMMA RemoveFirstIs ==
    ASSUME NEW S, NEW s \in Seq(S), IsInjective(s), NEW i \in 1 .. Len(s)
    PROVE  RemoveFirst(s, s[i]) = RemoveAt(s, i)
<1> DEFINE I == {j \in 1 .. Len(s) : s[j] = s[i]}
<1>1. I = {i}
  BY LenProperties DEF IsInjective
<1>2. Min(I) = i
  <2> HIDE DEF I
  <2> QED BY <1>1, LenProperties DEF Min
<1> QED
  BY <1>1, <1>2 DEF RemoveFirst, SelectInSeq

-----------------------------------------------------------------------------
(* The inductive invariant. *)

(* A hook is on a list at most once, only on the lists its type selects,    *)
(* and not after it was deleted or cleared, unless hook_del missed it.      *)
TabInv ==
    /\ \A k \in Keys : IsInjective(tab[k])
    /\ \A k \in Keys : \A i \in DOMAIN tab[k] :
          /\ k \in KeysOf[tab[k][i]]
          /\ \/ status[tab[k][i]] = "on"
             \/ k \in InsnKeys /\ status[tab[k][i]] = "off"

(* A list that was replaced under a dispatch holds cleared hooks only,      *)
(* which hook_del does not touch any more.                                  *)
KeptInv ==
    \A l \in disp.kept :
        /\ IsInjective(l)
        /\ \A i \in DOMAIN l :
              \/ status[l[i]] = "cleared"
              \/ disp.key \in InsnKeys /\ status[l[i]] = "off"

(* What was called is behind the index, if it is on the list at all: so it  *)
(* does not come up again although the list changes.                        *)
CalledInv ==
    /\ IsInjective(disp.called)
    /\ \A j \in DOMAIN disp.called :
          /\ status[disp.called[j]] # "new"
          /\ \A i \in DOMAIN Current :
                Current[i] = disp.called[j] => i < disp.idx

DispInv == disp # Idle => KeptInv /\ CalledInv

IInv == TypeOK /\ TabInv /\ DispInv /\ HandleIffHooks

-----------------------------------------------------------------------------
(* What an operation does to one list. *)

(* hook_del takes one place from each list the hook is found on. *)
LEMMA DelList ==
    ASSUME TypeOK, TabInv, NEW h \in Hooks, NEW k \in DelKeys(h)
    PROVE  \E p \in 1 .. Len(tab[k]) :
              LET s == tab[k]
                  t == RemoveFirst(s, h)
              IN  /\ s[p] = h
                  /\ t \in Seq(Hooks)
                  /\ Len(t) = Len(s) - 1
                  /\ \A j \in 1 .. Len(s) - 1 :
                        t[j] = IF j < p THEN s[j] ELSE s[j + 1]
<1>1. k \in Keys /\ tab[k] \in Seq(Hooks) /\ IsInjective(tab[k])
  BY HooksAssumption DEF DelKeys, TypeOK, TabInv
<1>2. PICK p \in 1 .. Len(tab[k]) : tab[k][p] = h
  BY DEF DelKeys, Contains
<1>3. RemoveFirst(tab[k], h) = RemoveAt(tab[k], p)
  BY <1>1, <1>2, RemoveFirstIs
<1> QED
  BY <1>1, <1>2, <1>3, RemoveAtIs

(* The places left hold the other hooks, once each. *)
LEMMA DelListKeeps ==
    ASSUME TypeOK, TabInv, NEW h \in Hooks, NEW k \in DelKeys(h)
    PROVE  LET t == RemoveFirst(tab[k], h)
           IN  /\ t \in Seq(Hooks)
               /\ Len(t) = Len(tab[k]) - 1
               /\ IsInjective(t)
               /\ \A i \in DOMAIN t : \E j \in DOMAIN tab[k] :
                     i <= j /\ t[i] = tab[k][j] /\ t[i] # h
<1> DEFINE s == tab[k]
           t == RemoveFirst(s, h)
<1>1. k \in Keys /\ s \in Seq(Hooks) /\ IsInjective(s)
  BY HooksAssumption DEF DelKeys, TypeOK, TabInv
<1>2. PICK p \in 1 .. Len(s) :
         /\ s[p] = h
         /\ t \in Seq(Hooks)
         /\ Len(t) = Len(s) - 1
         /\ \A j \in 1 .. Len(s) - 1 : t[j] = IF j < p THEN s[j] ELSE s[j + 1]
  BY DelList
<1> HIDE DEF s, t
<1>3. Len(s) \in Nat /\ DOMAIN s = 1 .. Len(s) /\ DOMAIN t = 1 .. Len(s) - 1
  BY <1>1, <1>2, LenProperties
<1>4. \A a, b \in 1 .. Len(s) : s[a] = s[b] => a = b
  BY <1>1, <1>3 DEF IsInjective
<1>5. \A a, b \in 1 .. Len(s) - 1 : t[a] = t[b] => a = b
  BY <1>2, <1>3, <1>4
<1>6. \A i \in 1 .. Len(s) - 1 : \E j \in 1 .. Len(s) :
          i <= j /\ t[i] = s[j] /\ t[i] # h
  BY <1>2, <1>3, <1>4
<1> QED
  BY <1>2, <1>3, <1>5, <1>6 DEF IsInjective, s, t

(* The elements of a list. *)
LEMMA ElementsOf ==
    ASSUME NEW l \in Seq(Hooks), NEW i \in DOMAIN l
    PROVE  l[i] \in Hooks
BY LenProperties

(* ql_hook adds a place at the end. *)
LEMMA AppendIs ==
    ASSUME NEW l \in Seq(Hooks), NEW h \in Hooks
    PROVE  /\ Append(l, h) \in Seq(Hooks)
           /\ Append(l, h) # <<>>
           /\ DOMAIN l = 1 .. Len(l) /\ Len(l) \in Nat
           /\ DOMAIN Append(l, h) = 1 .. Len(l) + 1
           /\ \A i \in 1 .. Len(l) : Append(l, h)[i] = l[i]
           /\ Append(l, h)[Len(l) + 1] = h
           /\ (IsInjective(l) /\ \A i \in DOMAIN l : l[i] # h)
                 => IsInjective(Append(l, h))
<1>1. /\ Append(l, h) \in Seq(Hooks) /\ Append(l, h) # <<>>
      /\ DOMAIN l = 1 .. Len(l) /\ Len(l) \in Nat
      /\ DOMAIN Append(l, h) = 1 .. Len(l) + 1
      /\ \A i \in 1 .. Len(l) : Append(l, h)[i] = l[i]
      /\ Append(l, h)[Len(l) + 1] = h
  BY AppendProperties, LenProperties
<1> QED
  BY <1>1 DEF IsInjective

-----------------------------------------------------------------------------
(* Every step preserves the invariant. *)

Untouched == UNCHANGED <<tab, handle, uc_hooks, status>>

(* The steps of a dispatch leave the tables alone. *)
LEMMA DispatchingUntouched == Dispatching => Untouched
BY DEF Dispatching, Event, CallHook, SkipHook, CallbackReturns, LoopEnds,
       LoopBroken, emu_start, Untouched

(* A dispatch that is not idle has all its variables. *)
LEMMA RunningType ==
    ASSUME TypeOK, disp.phase # "idle"
    PROVE  disp \in Dispatches /\ disp # Idle
BY DEF TypeOK, Idle

(* The next turn of the loop (for hook in hooks_list). *)
LEMMA AdvancedType ==
    ASSUME NEW d \in Dispatches
    PROVE  [d EXCEPT !.idx = d.idx + 1] \in Dispatches
<1>1. d.idx + 1 \in Nat \ {0}
  <2>1. d.idx \in Nat \ {0}
    BY DEF Dispatches
  <2> QED
    BY <2>1
<1>2. ASSUME NEW n \in Nat \ {0}
      PROVE  [d EXCEPT !.idx = n] \in Dispatches
  BY DEF Dispatches
<1> QED
  BY <1>1, <1>2

(* The list a dispatch iterates over is a list of hooks. *)
LEMMA CurrentType ==
    ASSUME TypeOK, disp # Idle
    PROVE  /\ disp \in Dispatches
           /\ Current \in Seq(Hooks)
           /\ disp.kept = {} => Current = tab[disp.key]
           /\ disp.kept # {} => Current \in disp.kept
BY DEF TypeOK, Current, Dispatches

(* The list a dispatch iterates over has no duplicates, and its hooks were  *)
(* registered and not deleted, those on instructions apart.                 *)
LEMMA CurrentIs ==
    ASSUME IInv, disp # Idle
    PROVE  /\ IsInjective(Current)
           /\ \A i \in DOMAIN Current :
                 /\ Current[i] \in Hooks
                 /\ status[Current[i]] # "new"
                 /\ disp.key \notin InsnKeys => status[Current[i]] # "off"
<1>1. /\ disp \in Dispatches /\ Current \in Seq(Hooks)
      /\ disp.kept = {} => Current = tab[disp.key]
      /\ disp.kept # {} => Current \in disp.kept
  BY CurrentType DEF IInv
<1>2. disp.key \in Keys
  BY <1>1 DEF Dispatches
<1>3. \A i \in DOMAIN Current : Current[i] \in Hooks
  BY <1>1, LenProperties
<1>4. KeptInv
  BY DEF IInv, DispInv
<1>5. CASE disp.kept = {}
  BY <1>1, <1>2, <1>3, <1>5 DEF IInv, TabInv
<1>6. CASE disp.kept # {}
  BY <1>1, <1>2, <1>3, <1>4, <1>6 DEF KeptInv
<1> QED
  BY <1>5, <1>6

(* The tables, handles and the record of the dispatch keep their types.     *)
LEMMA TypeStep ==
    ASSUME IInv, [Next]_vars
    PROVE  TypeOK'
<1> USE DEF IInv, TypeOK
<1>1. ASSUME NEW h \in Hooks, ql_hook(h)
      PROVE  TypeOK'
  <2>1. \A k \in Keys : Append(tab[k], h) \in Seq(Hooks)
    BY AppendIs
  <2>2. tab' \in [Keys -> Seq(Hooks)]
    BY <1>1, <2>1 DEF ql_hook
  <2>3. handle' \subseteq Keys /\ uc_hooks' \in [Keys -> Nat]
    <3>1. KeysOf[h] \subseteq Keys
      BY HooksAssumption
    <3>2. handle' \subseteq Keys
      BY <1>1, <3>1 DEF ql_hook
    <3> QED
      BY <1>1, <3>2 DEF ql_hook
  <2>4. status' \in [Hooks -> {"new", "on", "off", "cleared"}] /\ exc' = exc
    BY <1>1 DEF ql_hook
  <2>5. disp' \in {Idle} \cup Dispatches
    BY <1>1 DEF ql_hook, Forget
  <2> QED
    BY <2>2, <2>3, <2>4, <2>5
<1>2. ASSUME NEW h \in Hooks, hook_del(h)
      PROVE  TypeOK'
  <2>1. \A k \in DelKeys(h) : RemoveFirst(tab[k], h) \in Seq(Hooks)
    BY DelListKeeps
  <2>2. tab' \in [Keys -> Seq(Hooks)]
    BY <1>2, <2>1 DEF hook_del
  <2>3. \A k \in DelKeys(h) : k \in Keys /\ tab[k] # <<>>
    BY HooksAssumption DEF DelKeys, Contains
  <2>4. \A k \in DelKeys(h) : uc_hooks[k] \in Nat /\ uc_hooks[k] > 0
    BY <2>3 DEF HandleIffHooks
  <2>5. handle' \subseteq Keys /\ uc_hooks' \in [Keys -> Nat]
    BY <1>2, <2>4 DEF hook_del
  <2>6. status' \in [Hooks -> {"new", "on", "off", "cleared"}] /\ exc' = exc
    BY <1>2 DEF hook_del
  <2>7. disp' \in {Idle} \cup Dispatches
    BY <1>2 DEF hook_del, Dispatches, Idle
  <2> QED
    BY <2>2, <2>5, <2>6, <2>7
<1>3. ASSUME clear_hooks \/ clear_ql_hooks
      PROVE  TypeOK'
  <2>1. \A k \in handle : uc_hooks[k] - 1 \in Nat
    BY DEF HandleIffHooks
  <2>2. uc_hooks' \in [Keys -> Nat]
    BY <1>3, <2>1 DEF clear_hooks, clear_ql_hooks
  <2>3. /\ tab' \in [Keys -> Seq(Hooks)] /\ handle' \subseteq Keys
        /\ status' \in [Hooks -> {"new", "on", "off", "cleared"}] /\ exc' = exc
    <3>1. /\ tab' = [k \in Keys |-> <<>>] /\ handle' = {} /\ exc' = exc
          /\ status' = [h \in Hooks |-> IF status[h] = "on" THEN "cleared"
                                                            ELSE status[h]]
      BY <1>3 DEF clear_hooks, clear_ql_hooks, DropTables
    <3>2. <<>> \in Seq(Hooks)
      OBVIOUS
    <3> QED
      BY <3>1, <3>2
  <2>4. disp' \in {Idle} \cup Dispatches
    <3>1. CASE disp.phase = "callback" /\ disp.kept = {}
      <4>1. disp \in Dispatches
        BY <3>1, RunningType
      <4>2. {tab[disp.key]} \in SUBSET Seq(Hooks)
        BY <4>1 DEF Dispatches
      <4>3. [disp EXCEPT !.kept = {tab[disp.key]}] \in Dispatches
        BY <4>1, <4>2 DEF Dispatches
      <4> QED
        BY <1>3, <3>1, <4>3 DEF clear_hooks, clear_ql_hooks, DropTables
    <3>2. CASE ~ (disp.phase = "callback" /\ disp.kept = {})
      BY <1>3, <3>2 DEF clear_hooks, clear_ql_hooks, DropTables, Forget
    <3> QED
      BY <3>1, <3>2
  <2> QED
    BY <2>2, <2>3, <2>4
<1>4. ASSUME NEW k \in Keys, NEW ev \in Events, Event(k, ev)
      PROVE  TypeOK'
  BY <1>4 DEF Event, Dispatches
<1>5. ASSUME CallHook
      PROVE  TypeOK'
  <2>1. disp # Idle
    BY <1>5 DEF CallHook, Idle
  <2>2. disp \in Dispatches /\ Current \in Seq(Hooks)
    BY <2>1, CurrentType
  <2>3. Current[disp.idx] \in Hooks
    BY <1>5, <2>2, LenProperties DEF CallHook, Dispatches
  <2>4. Append(disp.called, Current[disp.idx]) \in Seq(Hooks)
    BY <2>2, <2>3, AppendIs DEF Dispatches
  <2>5. disp' \in Dispatches
    <3> DEFINE d == [disp EXCEPT !.idx = disp.idx + 1]
    <3>1. d \in Dispatches
      BY <2>2, AdvancedType
    <3>2. disp' = [d EXCEPT !.phase = "callback", !.handled = TRUE,
                            !.called = Append(disp.called, Current[disp.idx])]
      BY <1>5, <2>2 DEF CallHook, Dispatches
    <3> HIDE DEF d
    <3> QED
      BY ONLY <2>4, <3>1, <3>2 DEF Dispatches
  <2> QED
    BY <1>5, <2>5 DEF CallHook
<1>6. ASSUME SkipHook
      PROVE  TypeOK'
  <2>1. disp \in Dispatches
    BY <1>6, RunningType DEF SkipHook
  <2>2. disp' \in Dispatches
    <3>1. disp' = [disp EXCEPT !.idx = disp.idx + 1]
      BY <1>6 DEF SkipHook
    <3> QED
      BY <2>1, <3>1, AdvancedType
  <2> QED
    BY <1>6, <2>2 DEF SkipHook
<1>7. ASSUME NEW how \in {"none", "blocked", "raised"}, CallbackReturns(how)
      PROVE  TypeOK'
  <2>1. disp \in Dispatches
    BY <1>7, RunningType DEF CallbackReturns
  <2>2. disp' \in Dispatches
    <3>1. \E p \in {"loop", "blocked", "raised"} : disp' = [disp EXCEPT !.phase = p]
      BY <1>7 DEF CallbackReturns
    <3> QED
      BY ONLY <2>1, <3>1 DEF Dispatches
  <2> QED
    BY <1>7, <2>2 DEF CallbackReturns
<1>8. ASSUME LoopEnds
      PROVE  TypeOK'
  <2>1. disp \in Dispatches
    BY <1>8, RunningType DEF LoopEnds
  <2>2. disp' \in Dispatches
    BY <1>8, <2>1 DEF LoopEnds, Dispatches
  <2> QED
    BY <1>8, <2>2 DEF LoopEnds
<1>9. ASSUME LoopBroken \/ emu_start
      PROVE  TypeOK'
  BY <1>9 DEF LoopBroken, emu_start
<1>10. ASSUME UNCHANGED vars
       PROVE  TypeOK'
  BY <1>10 DEF vars
<1> QED
  BY <1>1, <1>2, <1>3, <1>4, <1>5, <1>6, <1>7, <1>8, <1>9, <1>10
     DEF Next, UserCalls, Dispatching

(* A registered hook stays once on each of its lists until it is deleted or *)
(* cleared.                                                                 *)
LEMMA TabStep ==
    ASSUME IInv, [Next]_vars
    PROVE  TabInv'
<1>0. TypeOK /\ TabInv
  BY DEF IInv
<1>1. ASSUME NEW h \in Hooks, ql_hook(h)
      PROVE  TabInv'
  <2>1. SUFFICES ASSUME NEW k \in Keys
                 PROVE  /\ IsInjective(tab'[k])
                        /\ \A i \in DOMAIN tab'[k] :
                              /\ k \in KeysOf[tab'[k][i]]
                              /\ \/ status'[tab'[k][i]] = "on"
                                 \/ k \in InsnKeys /\ status'[tab'[k][i]] = "off"
    BY DEF TabInv
  <2>2. /\ status[h] = "new"
        /\ status' = [status EXCEPT ![h] = "on"]
        /\ tab'[k] = IF k \in KeysOf[h] THEN Append(tab[k], h) ELSE tab[k]
    BY <1>1 DEF ql_hook
  <2>3. tab[k] \in Seq(Hooks) /\ DOMAIN tab[k] = 1 .. Len(tab[k])
    BY <1>0, LenProperties DEF TypeOK
  <2>4. /\ IsInjective(tab[k])
        /\ \A i \in DOMAIN tab[k] :
              /\ tab[k][i] \in Hooks /\ tab[k][i] # h
              /\ k \in KeysOf[tab[k][i]]
              /\ \/ status[tab[k][i]] = "on"
                 \/ k \in InsnKeys /\ status[tab[k][i]] = "off"
    BY <1>0, <2>2, <2>3 DEF TabInv
  <2>5. status' \in [Hooks -> {"new", "on", "off", "cleared"}]
        /\ status'[h] = "on" /\ \A g \in Hooks \ {h} : status'[g] = status[g]
    BY <1>0, <2>2 DEF TypeOK
  <2>6. CASE k \in KeysOf[h]
    <3>1. IsInjective(Append(tab[k], h))
      BY <2>3, <2>4, AppendIs
    <3>2. /\ Len(tab[k]) \in Nat
          /\ DOMAIN Append(tab[k], h) = 1 .. Len(tab[k]) + 1
          /\ \A i \in 1 .. Len(tab[k]) : Append(tab[k], h)[i] = tab[k][i]
          /\ Append(tab[k], h)[Len(tab[k]) + 1] = h
      BY <2>3, AppendIs
    <3>3. \A i \in 1 .. Len(tab[k]) + 1 : i \in 1 .. Len(tab[k]) \/ i = Len(tab[k]) + 1
      BY <3>2
    <3> QED
      BY <2>2, <2>3, <2>4, <2>5, <2>6, <3>1, <3>2, <3>3
  <2>7. CASE k \notin KeysOf[h]
    BY <2>2, <2>4, <2>5, <2>7
  <2> QED
    BY <2>6, <2>7
<1>2. ASSUME NEW h \in Hooks, hook_del(h)
      PROVE  TabInv'
  <2>1. SUFFICES ASSUME NEW k \in Keys
                 PROVE  /\ IsInjective(tab'[k])
                        /\ \A i \in DOMAIN tab'[k] :
                              /\ k \in KeysOf[tab'[k][i]]
                              /\ \/ status'[tab'[k][i]] = "on"
                                 \/ k \in InsnKeys /\ status'[tab'[k][i]] = "off"
    BY DEF TabInv
  <2>2. /\ status' = [status EXCEPT ![h] = IF @ = "on" THEN "off" ELSE @]
        /\ tab'[k] = IF k \in DelKeys(h) THEN RemoveFirst(tab[k], h) ELSE tab[k]
    BY <1>2 DEF hook_del
  <2>3. tab[k] \in Seq(Hooks) /\ DOMAIN tab[k] = 1 .. Len(tab[k])
    BY <1>0, LenProperties DEF TypeOK
  <2>4. /\ IsInjective(tab[k])
        /\ \A i \in DOMAIN tab[k] :
              /\ tab[k][i] \in Hooks
              /\ k \in KeysOf[tab[k][i]]
              /\ \/ status[tab[k][i]] = "on"
                 \/ k \in InsnKeys /\ status[tab[k][i]] = "off"
    BY <1>0, <2>3 DEF TabInv
  <2>5. /\ \A g \in Hooks \ {h} : status'[g] = status[g]
        /\ status[h] = "on" => status'[h] = "off"
        /\ status[h] = "off" => status'[h] = "off"
    BY <1>0, <2>2 DEF TypeOK
  <2>6. CASE k \in DelKeys(h)
    <3>1. /\ IsInjective(tab'[k])
          /\ \A i \in DOMAIN tab'[k] : \E j \in DOMAIN tab[k] :
                tab'[k][i] = tab[k][j] /\ tab'[k][i] # h
      <4> DEFINE t == RemoveFirst(tab[k], h)
      <4>1. /\ IsInjective(t)
            /\ \A i \in DOMAIN t : \E j \in DOMAIN tab[k] :
                  i <= j /\ t[i] = tab[k][j] /\ t[i] # h
        BY <1>0, <2>6, DelListKeeps
      <4>2. tab'[k] = t
        BY <2>2, <2>6
      <4> HIDE DEF t
      <4> QED
        BY <4>1, <4>2
    <3> QED
      BY <2>4, <2>5, <3>1
  <2>7. CASE k \notin DelKeys(h)
    <3>1. ASSUME NEW i \in DOMAIN tab[k], tab[k][i] = h
          PROVE  k \in InsnKeys
      BY <2>3, <2>4, <2>7, <3>1 DEF DelKeys, Contains
    <3> QED
      BY <2>2, <2>4, <2>5, <2>7, <3>1
  <2> QED
    BY <2>6, <2>7
<1>3. ASSUME clear_hooks \/ clear_ql_hooks
      PROVE  TabInv'
  <2>1. tab' = [k \in Keys |-> <<>>]
    BY <1>3 DEF clear_hooks, clear_ql_hooks, DropTables
  <2> QED
    BY <2>1 DEF TabInv, IsInjective
<1>4. ASSUME Untouched
      PROVE  TabInv'
  BY <1>0, <1>4 DEF Untouched, TabInv
<1>5. UNCHANGED vars => Untouched
  BY DEF vars, Untouched
<1> QED
  BY <1>1, <1>2, <1>3, <1>4, <1>5, DispatchingUntouched DEF Next, UserCalls

(* hook_del and ql_hook release and register the Unicorn hook of a list     *)
(* exactly when the list becomes empty or ceases to be.                     *)
LEMMA HandleStep ==
    ASSUME IInv, [Next]_vars
    PROVE  HandleIffHooks'
<1>0. TypeOK /\ TabInv /\ HandleIffHooks
  BY DEF IInv
<1>1. ASSUME NEW h \in Hooks, ql_hook(h)
      PROVE  HandleIffHooks'
  <2>1. SUFFICES ASSUME NEW k \in Keys
                 PROVE  /\ k \in handle' <=> tab'[k] # <<>>
                        /\ k \in handle' => uc_hooks'[k] > 0
    BY DEF HandleIffHooks
  <2>2. Append(tab[k], h) # <<>>
    BY <1>0, AppendIs DEF TypeOK
  <2>3. uc_hooks[k] \in Nat /\ (k \in handle <=> tab[k] # <<>>)
        /\ (k \in handle => uc_hooks[k] > 0)
    BY <1>0 DEF HandleIffHooks, TypeOK
  <2> QED
    BY <1>1, <2>2, <2>3 DEF ql_hook
<1>2. ASSUME NEW h \in Hooks, hook_del(h)
      PROVE  HandleIffHooks'
  <2>1. SUFFICES ASSUME NEW k \in Keys
                 PROVE  /\ k \in handle' <=> tab'[k] # <<>>
                        /\ k \in handle' => uc_hooks'[k] > 0
    BY DEF HandleIffHooks
  <2>2. uc_hooks[k] \in Nat /\ (k \in handle <=> tab[k] # <<>>)
        /\ (k \in handle => uc_hooks[k] > 0)
    BY <1>0 DEF HandleIffHooks, TypeOK
  <2>3. CASE k \in DelKeys(h)
    <3>1. Len(tab'[k]) = Len(tab[k]) - 1 /\ tab'[k] \in Seq(Hooks)
      <4>1. tab'[k] = RemoveFirst(tab[k], h)
        BY <1>2, <2>3 DEF hook_del
      <4> QED
        BY <1>0, <2>3, <4>1, DelListKeeps
    <3>2. tab[k] # <<>> /\ tab[k] \in Seq(Hooks)
      BY <1>0, <2>3 DEF DelKeys, Contains, TypeOK
    <3>3. tab'[k] = <<>> <=> Len(tab[k]) = 1
      <4>1. \A l \in Seq(Hooks) : Len(l) \in Nat /\ (l = <<>> <=> Len(l) = 0)
        BY EmptySeq, LenProperties
      <4>2. Len(tab[k]) \in Nat
        BY <3>2, <4>1
      <4>3. tab'[k] = <<>> <=> Len(tab'[k]) = 0
        BY <3>1, <4>1
      <4> QED
        BY <3>1, <4>2, <4>3
    <3> QED
      BY <1>2, <2>2, <2>3, <3>2, <3>3 DEF hook_del
  <2>4. CASE k \notin DelKeys(h)
    BY <1>2, <2>2, <2>4 DEF hook_del
  <2> QED
    BY <2>3, <2>4
<1>3. ASSUME clear_hooks \/ clear_ql_hooks
      PROVE  HandleIffHooks'
  <2>1. tab' = [k \in Keys |-> <<>>] /\ handle' = {}
    BY <1>3 DEF clear_hooks, clear_ql_hooks, DropTables
  <2> QED
    BY <2>1 DEF HandleIffHooks
<1>4. ASSUME Untouched
      PROVE  HandleIffHooks'
  BY <1>0, <1>4 DEF Untouched, HandleIffHooks
<1>5. UNCHANGED vars => Untouched
  BY DEF vars, Untouched
<1> QED
  BY <1>1, <1>2, <1>3, <1>4, <1>5, DispatchingUntouched DEF Next, UserCalls

(* Every step but clear_ql_hooks registers and deletes Unicorn hooks along   *)
(* with the handles.                                                        *)
LEMMA UcStep ==
    ASSUME IInv, Next, ~ clear_ql_hooks, NEW k \in Keys
    PROVE  Excess(k)' = Excess(k)
<1>0. TypeOK /\ HandleIffHooks
  BY DEF IInv
<1>0a. uc_hooks[k] \in Nat
  BY <1>0 DEF TypeOK
<1>1. ASSUME NEW h \in Hooks, ql_hook(h)
      PROVE  Excess(k)' = Excess(k)
  BY <1>0a, <1>1 DEF ql_hook, Excess
<1>2. ASSUME NEW h \in Hooks, hook_del(h)
      PROVE  Excess(k)' = Excess(k)
  <2>1. k \in DelKeys(h) => k \in handle
    <3>1. k \in DelKeys(h) => tab[k] # <<>>
      BY DEF DelKeys, Contains
    <3> QED
      BY <1>0, <3>1 DEF HandleIffHooks
  <2> QED
    BY <1>0a, <1>2, <2>1 DEF hook_del, Excess
<1>3. ASSUME clear_hooks
      PROVE  Excess(k)' = Excess(k)
  BY <1>0a, <1>3 DEF clear_hooks, DropTables, Excess
<1>4. ASSUME Untouched
      PROVE  Excess(k)' = Excess(k)
  BY <1>4 DEF Untouched, Excess
<1> QED
  BY <1>1, <1>2, <1>3, <1>4, DispatchingUntouched DEF Next, UserCalls

(* The record of the dispatch under way. *)
LEMMA DispStep ==
    ASSUME IInv, [Next]_vars
    PROVE  DispInv'
<1>0. TypeOK /\ TabInv
  BY DEF IInv
<1>0a. TypeOK'
  BY TypeStep
<1>1. ASSUME NEW h \in Hooks, ql_hook(h)
      PROVE  DispInv'
  <2>1. SUFFICES ASSUME disp.phase = "callback", disp' = disp
                 PROVE  KeptInv' /\ CalledInv'
    BY <1>1 DEF ql_hook, Forget, DispInv
  <2>2. disp \in Dispatches /\ disp # Idle /\ KeptInv /\ CalledInv
    BY <1>0, <2>1, RunningType DEF IInv, DispInv
  <2>3. /\ status[h] = "new"
        /\ \A g \in Hooks \ {h} : status'[g] = status[g]
        /\ status'[h] = "on"
    BY <1>0, <1>1 DEF ql_hook, TypeOK
  <2>4. KeptInv'
    BY <2>1, <2>2, <2>3, LenProperties DEF KeptInv, Dispatches
  <2>5. /\ disp.called \in Seq(Hooks)
        /\ \A j \in DOMAIN disp.called :
              disp.called[j] \in Hooks /\ disp.called[j] # h
    BY <2>2, <2>3, LenProperties DEF Dispatches, CalledInv
  <2>6. ASSUME NEW i \in DOMAIN Current', NEW j \in DOMAIN disp.called,
               (Current')[i] = disp.called[j]
        PROVE  i < disp.idx
    <3>1. CASE disp.kept # {}
      <4>1. Current' = Current
        BY <2>1, <3>1 DEF Current
      <4> QED
        BY <2>2, <2>6, <4>1 DEF CalledInv
    <3>2. CASE disp.kept = {}
      <4>1. disp.key \in Keys /\ tab[disp.key] \in Seq(Hooks)
        BY <1>0, <2>2 DEF Dispatches, TypeOK
      <4>2. Current = tab[disp.key] /\ Current' = tab'[disp.key]
        BY <2>1, <3>2 DEF Current
      <4>3. \/ Current' = Current
            \/ Current' = Append(Current, h)
        BY <1>1, <4>1, <4>2 DEF ql_hook
      <4>4. CASE Current' = Append(Current, h)
        <5>1. i \in 1 .. Len(Current) + 1 /\ Len(Current) \in Nat
          BY <2>6, <4>1, <4>2, <4>4, AppendIs
        <5>2. i # Len(Current) + 1
          BY <2>5, <2>6, <4>1, <4>2, <4>4, AppendIs
        <5>3. i \in DOMAIN Current /\ Current[i] = disp.called[j]
          BY <2>6, <4>1, <4>2, <4>4, <5>1, <5>2, AppendIs
        <5> QED
          BY <2>2, <5>3 DEF CalledInv
      <4> QED
        BY <2>2, <2>6, <4>3, <4>4 DEF CalledInv
    <3> QED
      BY <3>1, <3>2
  <2>7. CalledInv'
    BY <2>1, <2>2, <2>3, <2>5, <2>6 DEF CalledInv
  <2> QED
    BY <2>4, <2>7
<1>2. ASSUME NEW h \in Hooks, hook_del(h)
      PROVE  DispInv'
  <2>1. SUFFICES ASSUME disp.phase = "callback",
                        disp' = [disp EXCEPT !.removed = TRUE]
                 PROVE  KeptInv' /\ CalledInv'
    BY <1>2 DEF hook_del, DispInv
  <2>2. disp \in Dispatches /\ disp # Idle /\ KeptInv /\ CalledInv
    BY <1>0, <2>1, RunningType DEF IInv, DispInv
  <2>3. /\ disp'.kept = disp.kept /\ disp'.called = disp.called
        /\ disp'.key = disp.key /\ disp'.idx = disp.idx
    BY <2>1, <2>2 DEF Dispatches
  <2>4. /\ status[h] \in {"on", "cleared"}
        /\ \A g \in Hooks : status'[g] = status[g]
                              \/ (status[g] = "on" /\ status'[g] = "off")
    BY <1>0, <1>2 DEF hook_del, TypeOK
  <2>5. disp.called \in Seq(Hooks) /\ disp.kept \subseteq Seq(Hooks)
    BY <2>2 DEF Dispatches
  <2>6. KeptInv'
    BY <2>2, <2>3, <2>4, <2>5, LenProperties DEF KeptInv
  <2>7. \A j \in DOMAIN disp.called : status'[disp.called[j]] # "new"
    BY <2>2, <2>4, <2>5, LenProperties DEF CalledInv
  <2>8. ASSUME NEW i \in DOMAIN Current', NEW j \in DOMAIN disp.called,
               (Current')[i] = disp.called[j]
        PROVE  i < disp.idx
    <3>1. \/ Current' = Current
          \/ \A a \in DOMAIN Current' : \E b \in DOMAIN Current :
                a \in Nat /\ b \in Nat /\ a <= b /\ (Current')[a] = Current[b]
      <4>1. CASE disp.kept # {}
        BY <2>3, <4>1 DEF Current
      <4>2. CASE disp.kept = {}
        <5>1. disp.key \in Keys /\ Current = tab[disp.key] /\ Current' = tab'[disp.key]
          BY <2>2, <2>3, <4>2 DEF Current, Dispatches
        <5>2. CASE disp.key \in DelKeys(h)
          <6> DEFINE k == disp.key
                     t == RemoveFirst(tab[k], h)
          <6>1. /\ t \in Seq(Hooks)
                /\ \A a \in DOMAIN t : \E b \in DOMAIN tab[k] :
                      a <= b /\ t[a] = tab[k][b] /\ t[a] # h
            BY <1>0, <5>2, DelListKeeps
          <6>2. Current' = t
            BY <1>2, <5>1, <5>2 DEF hook_del
          <6>3. tab[k] \in Seq(Hooks)
            BY <1>0, <5>1 DEF TypeOK
          <6> HIDE DEF t
          <6>4. DOMAIN t \subseteq Nat /\ DOMAIN tab[k] \subseteq Nat
            BY <6>1, <6>3, LenProperties
          <6> QED
            BY <5>1, <6>1, <6>2, <6>4
        <5>3. CASE disp.key \notin DelKeys(h)
          BY <1>2, <5>1, <5>3 DEF hook_del
        <5> QED
          BY <5>2, <5>3
      <4> QED
        BY <4>1, <4>2
    <3>2. disp.idx \in Nat
      BY <2>2 DEF Dispatches
    <3>3. CASE Current' = Current
      BY <2>2, <2>8, <3>3 DEF CalledInv
    <3>4. CASE \A a \in DOMAIN Current' : \E b \in DOMAIN Current :
                a \in Nat /\ b \in Nat /\ a <= b /\ (Current')[a] = Current[b]
      <4>1. PICK b \in DOMAIN Current :
               i \in Nat /\ b \in Nat /\ i <= b /\ (Current')[i] = Current[b]
        BY <2>8, <3>4
      <4>2. b < disp.idx
        BY <2>2, <2>8, <4>1 DEF CalledInv
      <4> QED
        BY <3>2, <4>1, <4>2
    <3> QED
      BY <3>1, <3>3, <3>4
  <2>9. CalledInv'
    BY <2>2, <2>3, <2>7, <2>8 DEF CalledInv
  <2> QED
    BY <2>6, <2>9
<1>3. ASSUME clear_hooks \/ clear_ql_hooks
      PROVE  DispInv'
  <2>0. /\ disp' = IF disp.phase = "callback" /\ disp.kept = {}
                   THEN [disp EXCEPT !.kept = {tab[disp.key]}] ELSE Forget(disp)
        /\ status' = [g \in Hooks |-> IF status[g] = "on" THEN "cleared"
                                                          ELSE status[g]]
    BY <1>3 DEF clear_hooks, clear_ql_hooks, DropTables
  <2>1. SUFFICES ASSUME disp.phase = "callback"
                 PROVE  KeptInv' /\ CalledInv'
    BY <2>0 DEF Forget, DispInv
  <2>2. disp \in Dispatches /\ disp # Idle /\ KeptInv /\ CalledInv
    BY <1>0, <2>1, RunningType DEF IInv, DispInv
  <2>3. /\ disp'.called = disp.called
        /\ disp'.key = disp.key /\ disp'.idx = disp.idx
        /\ Current' = Current
        /\ disp'.kept = IF disp.kept = {} THEN {tab[disp.key]} ELSE disp.kept
    <3>1. CASE disp.kept = {}
      <4>1. disp' = [disp EXCEPT !.kept = {tab[disp.key]}]
        BY <2>0, <2>1, <3>1
      <4>2. /\ disp'.called = disp.called /\ disp'.key = disp.key
            /\ disp'.idx = disp.idx /\ disp'.kept = {tab[disp.key]}
        BY <2>2, <4>1 DEF Dispatches
      <4>3. Current' = tab[disp.key] /\ Current = tab[disp.key]
        BY <3>1, <4>2 DEF Current
      <4> QED
        BY <3>1, <4>2, <4>3
    <3>2. CASE disp.kept # {}
      <4>1. disp' = disp
        BY <2>0, <2>1, <3>2 DEF Forget
      <4>2. Current' = Current
        BY <3>2, <4>1 DEF Current
      <4> QED
        BY <3>2, <4>1, <4>2
    <3> QED
      BY <3>1, <3>2
  <2>4. \A g \in Hooks : \/ status[g] = "on" /\ status'[g] = "cleared"
                         \/ status[g] # "on" /\ status'[g] = status[g]
    <3>1. TAKE g \in Hooks
    <3>2. CASE status[g] = "on"
      BY <2>0, <3>2
    <3>3. CASE status[g] # "on"
      BY <2>0, <3>3
    <3> QED
      BY <3>2, <3>3
  <2>5. /\ disp.called \in Seq(Hooks) /\ disp.kept \subseteq Seq(Hooks)
        /\ disp.key \in Keys /\ tab[disp.key] \in Seq(Hooks)
    BY <1>0, <2>2 DEF Dispatches, TypeOK
  <2>6. KeptInv'
    <3>1. CASE disp.kept = {}
      <4> DEFINE l == tab[disp.key]
      <4>1. /\ IsInjective(l)
            /\ \A i \in DOMAIN l :
                  /\ l[i] \in Hooks
                  /\ \/ status[l[i]] = "on"
                     \/ disp.key \in InsnKeys /\ status[l[i]] = "off"
        BY <1>0, <2>5, ElementsOf DEF TabInv
      <4>2. \A i \in DOMAIN l :
               \/ status'[l[i]] = "cleared"
               \/ disp.key \in InsnKeys /\ status'[l[i]] = "off"
        BY <2>4, <4>1
      <4> HIDE DEF l
      <4> QED
        BY <2>3, <3>1, <4>1, <4>2 DEF KeptInv, l, InsnKeys
    <3>2. CASE disp.kept # {}
      <4>1. ASSUME NEW l \in disp.kept, NEW i \in DOMAIN l
            PROVE  \/ status'[l[i]] = "cleared"
                   \/ disp.key \in InsnKeys /\ status'[l[i]] = "off"
        <5>1. l[i] \in Hooks
          BY <2>5, ElementsOf
        <5> QED
          BY <2>2, <2>4, <5>1 DEF KeptInv
      <4> QED
        BY <2>2, <2>3, <3>2, <4>1 DEF KeptInv, InsnKeys
    <3> QED
      BY <3>1, <3>2
  <2>7. CalledInv'
    <3>1. \A j \in DOMAIN disp.called : status'[disp.called[j]] # "new"
      <4>1. \A j \in DOMAIN disp.called : disp.called[j] \in Hooks
        BY <2>5, ElementsOf
      <4> QED
        BY <2>2, <2>4, <4>1 DEF CalledInv
    <3> QED
      BY <2>2, <2>3, <3>1 DEF CalledInv
  <2> QED
    BY <2>6, <2>7
<1>4. ASSUME NEW k \in Keys, NEW ev \in Events, Event(k, ev)
      PROVE  DispInv'
  BY <1>4 DEF Event, DispInv, KeptInv, CalledInv, IsInjective
<1>5. ASSUME CallHook
      PROVE  DispInv'
  <2>1. disp \in Dispatches /\ disp # Idle /\ KeptInv /\ CalledInv
    BY <1>0, <1>5, RunningType DEF IInv, DispInv, CallHook
  <2>2. /\ disp'.kept = disp.kept /\ disp'.key = disp.key
        /\ disp'.idx = disp.idx + 1 /\ Current' = Current
        /\ disp'.called = Append(disp.called, Current[disp.idx])
        /\ status' = status
    BY <1>5, <2>1 DEF CallHook, Dispatches, Current
  <2>3. /\ Current \in Seq(Hooks) /\ disp.called \in Seq(Hooks)
        /\ disp.idx \in Nat /\ disp.idx \in DOMAIN Current
    BY <1>0, <1>5, <2>1, CurrentType, LenProperties DEF CallHook, Dispatches
  <2>4. /\ IsInjective(Current) /\ Current[disp.idx] \in Hooks
        /\ status[Current[disp.idx]] # "new"
    BY <2>1, <2>3, CurrentIs
  <2>5. \A j \in DOMAIN disp.called : disp.called[j] # Current[disp.idx]
    BY <2>1, <2>3 DEF CalledInv
  <2>6. IsInjective(disp'.called)
    BY <2>1, <2>2, <2>3, <2>4, <2>5, AppendIs DEF CalledInv
  <2>7. ASSUME NEW j \in DOMAIN disp'.called
        PROVE  /\ status'[disp'.called[j]] # "new"
               /\ \A i \in DOMAIN Current' :
                     (Current')[i] = disp'.called[j] => i < disp'.idx
    <3>1. DOMAIN Current \subseteq Nat
      BY <2>3, LenProperties
    <3>2. \/ j \in DOMAIN disp.called /\ disp'.called[j] = disp.called[j]
          \/ disp'.called[j] = Current[disp.idx]
      BY <2>2, <2>3, <2>4, AppendIs
    <3>3. CASE j \in DOMAIN disp.called /\ disp'.called[j] = disp.called[j]
      BY <2>1, <2>2, <2>3, <3>1, <3>3 DEF CalledInv
    <3>4. CASE disp'.called[j] = Current[disp.idx]
      BY <2>2, <2>3, <2>4, <3>1, <3>4 DEF IsInjective
    <3> QED
      BY <3>2, <3>3, <3>4
  <2>8. KeptInv'
    BY <2>1, <2>2 DEF KeptInv
  <2> QED
    BY <2>6, <2>7, <2>8 DEF DispInv, CalledInv
<1>6. ASSUME SkipHook
      PROVE  DispInv'
  <2>1. disp \in Dispatches /\ disp # Idle /\ KeptInv /\ CalledInv
    BY <1>0, <1>6, RunningType DEF IInv, DispInv, SkipHook
  <2>2. /\ disp'.kept = disp.kept /\ disp'.key = disp.key
        /\ disp'.idx = disp.idx + 1 /\ Current' = Current
        /\ disp'.called = disp.called /\ status' = status
    BY <1>6, <2>1 DEF SkipHook, Dispatches, Current
  <2>3. DOMAIN Current \subseteq Nat /\ disp.idx \in Nat
    BY <1>0, <2>1, CurrentType, LenProperties DEF Dispatches
  <2> QED
    BY <2>1, <2>2, <2>3 DEF DispInv, KeptInv, CalledInv
<1>7. ASSUME (\E how \in {"none", "blocked", "raised"} : CallbackReturns(how)) \/ LoopEnds
      PROVE  DispInv'
  <2>1. disp \in Dispatches /\ disp # Idle /\ KeptInv /\ CalledInv
    BY <1>0, <1>7, RunningType DEF IInv, DispInv, CallbackReturns, LoopEnds
  <2>2. \E p \in {"loop", "blocked", "raised", "done"} :
            disp' = [disp EXCEPT !.phase = p]
    <3>1. CASE LoopEnds
      BY <3>1 DEF LoopEnds
    <3>2. ASSUME NEW how \in {"none", "blocked", "raised"}, CallbackReturns(how)
          PROVE  <2>2
      BY <3>2 DEF CallbackReturns
    <3> QED
      BY <1>7, <3>1, <3>2
  <2>3. /\ disp'.kept = disp.kept /\ disp'.key = disp.key
        /\ disp'.idx = disp.idx /\ disp'.called = disp.called
    BY <2>1, <2>2 DEF Dispatches
  <2>4. tab' = tab /\ status' = status
    BY <1>7 DEF CallbackReturns, LoopEnds
  <2>5. Current' = Current
    BY <2>3, <2>4 DEF Current
  <2> QED
    BY <2>1, <2>3, <2>4, <2>5 DEF DispInv, KeptInv, CalledInv
<1>8. ASSUME LoopBroken \/ emu_start
      PROVE  DispInv'
  BY <1>8 DEF LoopBroken, emu_start, DispInv
<1>9. ASSUME UNCHANGED vars
      PROVE  DispInv'
  BY <1>9 DEF vars, IInv, DispInv, KeptInv, CalledInv, Current
<1> QED
  BY <1>1, <1>2, <1>3, <1>4, <1>5, <1>6, <1>7, <1>8, <1>9
     DEF Next, UserCalls, Dispatching

-----------------------------------------------------------------------------
(* The theorems. *)

(* The invariant is inductive. *)
LEMMA Inductive ==
    /\ Init => IInv
    /\ IInv /\ [Next]_vars => IInv'
<1>1. Init => IInv
  <2> SUFFICES ASSUME Init
               PROVE  IInv
    OBVIOUS
  <2>1. TypeOK
    BY DEF Init, TypeOK
  <2>2. TabInv /\ HandleIffHooks
    BY DEF Init, TabInv, HandleIffHooks, IsInjective
  <2>3. DispInv
    BY DEF Init, DispInv
  <2> QED
    BY <2>1, <2>2, <2>3 DEF IInv
<1> QED
  BY <1>1, TypeStep, TabStep, DispStep, HandleStep DEF IInv

(* The invariant holds in every reachable state. *)
LEMMA Invariance == Spec => []IInv
  BY Inductive, PTL DEF Spec

(* A key has a Unicorn handle exactly while it has hooks, for any sequence  *)
(* of ql_hook, hook_del, clear_hooks and the clear_ql_hooks of execve, also *)
(* in the middle of dispatches.                                             *)
THEOREM TablesAlwaysSound == Spec => []TablesSound
<1>1. IInv => TablesSound
  BY DEF IInv, TablesSound
<1> QED
  BY <1>1, Invariance, PTL

(* Only execve leaves Unicorn hooks without a handle; _ql_hook_internal,    *)
(* hook_del and clear_hooks register and delete them one for one.           *)
THEOREM OneUnicornHook == Spec => OneUcHook
<1>1. IInv /\ [Next]_vars =>
        [clear_ql_hooks \/ \A k \in Keys : Excess(k)' = Excess(k)]_vars
  BY UcStep
<1> QED
  BY <1>1, Invariance, PTL DEF Spec, OneUcHook

(* No dispatch calls a hook twice, whatever its callbacks do to the list    *)
(* (_hook_trace_cb and the other dispatchers).                              *)
THEOREM CalledOnce == Spec => []NoDoubleCall
<1>1. IInv => NoDoubleCall
  BY RunningType DEF IInv, DispInv, CalledInv, NoDoubleCall
<1> QED
  BY <1>1, Invariance, PTL

(* A dispatcher does not call a hook that hook_del took off its list, also  *)
(* if a callback of the same dispatch deleted it.  Instruction hooks are    *)
(* not found by hook_del and so are not among them.                         *)
THEOREM RemovedSilent == Spec => RemovedNotCalled
<1>1. IInv /\ [Next]_vars =>
        [\A h \in Hooks :
           (disp.phase = "loop" /\ disp'.phase = "callback" /\ disp.key \in TakenOff(h))
              => Last(disp'.called) # h]_vars
  <2> SUFFICES ASSUME IInv, Next, NEW h \in Hooks, disp.phase = "loop",
                      disp'.phase = "callback", disp.key \in TakenOff(h)
               PROVE  Last(disp'.called) # h
    OBVIOUS
  <2>a. status[h] = "off" /\ disp.key \notin InsnKeys
    BY DEF TakenOff
  <2>0. TypeOK /\ disp \in Dispatches /\ disp # Idle
    BY RunningType DEF IInv
  <2>1. CallHook
    <3>1. ~ UserRuns
      BY DEF UserRuns
    <3>2. ~ SkipHook /\ ~ LoopEnds
      BY <2>0 DEF SkipHook, LoopEnds, Dispatches
    <3> QED
      BY <3>1, <3>2 DEF Next, UserCalls, ql_hook, hook_del, clear_hooks,
                        clear_ql_hooks, Dispatching, Event, CallbackReturns,
                        LoopBroken, emu_start
  <2>2. disp'.called = Append(disp.called, Current[disp.idx])
    BY <2>0, <2>1 DEF CallHook, Dispatches
  <2>3. disp.idx \in DOMAIN Current /\ disp.called \in Seq(Hooks)
    BY <2>0, <2>1, CurrentType, LenProperties DEF CallHook, Dispatches
  <2>4. Current[disp.idx] \in Hooks /\ status[Current[disp.idx]] # "off"
    BY <2>a, <2>0, <2>3, CurrentIs
  <2>5. Last(disp'.called) = Current[disp.idx]
    BY <2>2, <2>3, <2>4, AppendProperties DEF Last
  <2> QED
    BY <2>a, <2>4, <2>5
<1> QED
  BY <1>1, Invariance, PTL DEF Spec, RemovedNotCalled

-----------------------------------------------------------------------------
(* What a dispatch has called. *)

(* The hooks that match the event of a dispatch. *)
Matching(d) == {h \in Hooks : Matches(h, d.key, d.ev)}

(* The loop has called the hooks of M among the first n - 1 of the list L,  *)
(* in the order of the list: c is the sequence of calls.                    *)
Progress(L, n, c, M) ==
    /\ n <= Len(L) + 1
    /\ \A i \in DOMAIN L : (i < n /\ L[i] \in M) => \E a \in DOMAIN c : c[a] = L[i]
    /\ \A a \in DOMAIN c : c[a] \in M /\ \E i \in DOMAIN L : i < n /\ c[a] = L[i]
    /\ \A a, b \in DOMAIN c : \A i, j \in DOMAIN L :
          (a < b /\ L[i] = c[a] /\ L[j] = c[b]) => i < j

(* So it is for every dispatch in which no hook was deleted. *)
ProgressInv ==
    (disp # Idle /\ ~ disp.removed)
       => Progress(Current, disp.idx, disp.called, Matching(disp))

(* A loop that came to its end has no hook left. *)
EndInv == disp.phase = "done" => disp.idx > Len(Current)

(* The hook at the index is called. *)
LEMMA ProgressCalls ==
    ASSUME NEW L \in Seq(Hooks), NEW c \in Seq(Hooks), NEW M,
           NEW n \in DOMAIN L, IsInjective(L), L[n] \in M, Progress(L, n, c, M)
    PROVE  Progress(L, n + 1, Append(c, L[n]), M)
<1> DEFINE d == Append(c, L[n])
<1>1. /\ DOMAIN L = 1 .. Len(L) /\ Len(L) \in Nat /\ L[n] \in Hooks
      /\ DOMAIN c = 1 .. Len(c) /\ Len(c) \in Nat
  BY LenProperties, ElementsOf
<1>2. /\ DOMAIN d = 1 .. Len(c) + 1
      /\ \A a \in DOMAIN c : d[a] = c[a]
      /\ d[Len(c) + 1] = L[n]
  BY <1>1, AppendIs
<1>3. \A a \in DOMAIN d : a \in DOMAIN c \/ a = Len(c) + 1
  BY <1>1, <1>2
<1>3a. \A a \in DOMAIN c : a \in DOMAIN d /\ a < Len(c) + 1
  BY <1>1, <1>2
<1>3b. Len(c) + 1 \in DOMAIN d
  BY <1>1, <1>2
<1> HIDE DEF d
<1>4. n + 1 <= Len(L) + 1
  BY <1>1
<1>5. ASSUME NEW i \in DOMAIN L, i < n + 1, L[i] \in M
      PROVE  \E a \in DOMAIN d : d[a] = L[i]
  <2>1. CASE i = n
    BY <2>1, <1>2, <1>3b
  <2>2. CASE i # n
    <3>1. i < n
      BY <1>1, <1>5, <2>2
    <3> QED
      BY <1>2, <1>3a, <1>5, <3>1 DEF Progress
  <2> QED
    BY <2>1, <2>2
<1>6. ASSUME NEW a \in DOMAIN d
      PROVE  d[a] \in M /\ \E i \in DOMAIN L : i < n + 1 /\ d[a] = L[i]
  <2>1. CASE a \in DOMAIN c
    <3>1. PICK i \in DOMAIN L : i < n /\ c[a] = L[i]
      BY <2>1 DEF Progress
    <3>2. i < n + 1
      BY <1>1, <3>1
    <3> QED
      BY <1>2, <2>1, <3>1, <3>2 DEF Progress
  <2>2. CASE a = Len(c) + 1
    <3>1. n < n + 1
      BY <1>1
    <3> QED
      BY <1>2, <2>2, <3>1
  <2> QED
    BY <1>3, <2>1, <2>2
<1>7. ASSUME NEW a \in DOMAIN d, NEW b \in DOMAIN d,
             NEW i \in DOMAIN L, NEW j \in DOMAIN L,
             a < b, L[i] = d[a], L[j] = d[b]
      PROVE  i < j
  <2>1. a \in DOMAIN c
    BY <1>1, <1>2, <1>7
  <2>2. CASE b \in DOMAIN c
    BY <1>2, <1>7, <2>1, <2>2 DEF Progress
  <2>3. CASE b = Len(c) + 1
    <3>1. j = n
      BY <1>2, <1>7, <2>3 DEF IsInjective
    <3>2. PICK k \in DOMAIN L : k < n /\ c[a] = L[k]
      BY <2>1 DEF Progress
    <3>3. i = k
      BY <1>2, <1>7, <2>1, <3>2 DEF IsInjective
    <3> QED
      BY <3>1, <3>2, <3>3
  <2> QED
    BY <1>3, <2>2, <2>3
<1>8. Progress(L, n + 1, d, M)
  BY <1>4, <1>5, <1>6, <1>7 DEF Progress
<1> QED
  BY <1>8 DEF d

(* The hook at the index does not match. *)
LEMMA ProgressSkips ==
    ASSUME NEW L \in Seq(Hooks), NEW c \in Seq(Hooks), NEW M,
           NEW n \in DOMAIN L, L[n] \notin M, Progress(L, n, c, M)
    PROVE  Progress(L, n + 1, c, M)
<1>1. DOMAIN L = 1 .. Len(L) /\ Len(L) \in Nat
  BY LenProperties
<1>2. n + 1 <= Len(L) + 1 /\ \A i \in DOMAIN L : i < n => i < n + 1
  BY <1>1
<1>3. \A i \in DOMAIN L : (i < n + 1 /\ i # n) => i < n
  BY <1>1
<1> QED
  BY <1>2, <1>3 DEF Progress

(* A hook not called yet is added to the list. *)
LEMMA ProgressGrows ==
    ASSUME NEW L \in Seq(Hooks), NEW c \in Seq(Hooks), NEW M, NEW n \in Nat,
           NEW h \in Hooks, \A a \in DOMAIN c : c[a] # h, Progress(L, n, c, M)
    PROVE  Progress(Append(L, h), n, c, M)
<1> DEFINE K == Append(L, h)
<1>1. DOMAIN L = 1 .. Len(L) /\ Len(L) \in Nat
  BY LenProperties
<1>2. /\ DOMAIN K = 1 .. Len(L) + 1 /\ Len(K) = Len(L) + 1
      /\ \A i \in DOMAIN L : K[i] = L[i]
      /\ K[Len(L) + 1] = h
  BY <1>1, AppendIs
<1>3. /\ \A i \in DOMAIN K : i \in DOMAIN L \/ i = Len(L) + 1
      /\ \A i \in DOMAIN L : i \in DOMAIN K
  BY <1>1, <1>2
<1> HIDE DEF K
<1>4. n <= Len(L) + 1 /\ n <= Len(K) + 1
  BY <1>1, <1>2 DEF Progress
<1>5. \A i \in DOMAIN K : i < n => i \in DOMAIN L
  BY <1>1, <1>2, <1>4
<1>6. \A i \in DOMAIN K, a \in DOMAIN c : K[i] = c[a] => i \in DOMAIN L
  BY <1>2, <1>3
<1>7. Progress(K, n, c, M)
  BY <1>2, <1>3, <1>4, <1>5, <1>6 DEF Progress
<1> QED
  BY <1>7 DEF K

(* The progress of a dispatch, step by step. *)
LEMMA ProgressStep ==
    ASSUME IInv, ProgressInv, [Next]_vars
    PROVE  ProgressInv'
<1>0. TypeOK
  BY DEF IInv
<1>a. ASSUME disp.phase # "idle", ~ disp.removed
      PROVE  Progress(Current, disp.idx, disp.called, Matching(disp))
  BY <1>0, <1>a, RunningType DEF ProgressInv
<1>b. ASSUME disp'.key = disp.key, disp'.ev = disp.ev
      PROVE  Matching(disp') = Matching(disp)
  BY <1>b DEF Matching
<1>1. ASSUME NEW h \in Hooks, ql_hook(h)
      PROVE  ProgressInv'
  <2>1. SUFFICES ASSUME disp.phase = "callback", disp' = disp, ~ disp.removed
                 PROVE  Progress(Current', disp.idx, disp.called, Matching(disp))
    BY <1>1 DEF ql_hook, Forget, ProgressInv
  <2>2. disp \in Dispatches /\ disp # Idle /\ CalledInv
    BY <1>0, <2>1, RunningType DEF IInv, DispInv
  <2>3. Progress(Current, disp.idx, disp.called, Matching(disp))
    BY <1>a, <2>1
  <2>4. /\ disp.called \in Seq(Hooks) /\ disp.idx \in Nat /\ disp.key \in Keys
        /\ Current \in Seq(Hooks)
    BY <1>0, <2>2, CurrentType DEF Dispatches
  <2>5. \A j \in DOMAIN disp.called : disp.called[j] # h
    BY <1>1, <2>2 DEF CalledInv, ql_hook
  <2>6. Current' = Current \/ Current' = Append(Current, h)
    <3>1. CASE disp.kept # {}
      BY <2>1, <3>1 DEF Current
    <3>2. CASE disp.kept = {}
      <4>1. Current = tab[disp.key] /\ Current' = tab'[disp.key]
        BY <2>1, <3>2 DEF Current
      <4> QED
        BY <1>1, <2>4, <4>1 DEF ql_hook
    <3> QED
      BY <3>1, <3>2
  <2>7. Progress(Append(Current, h), disp.idx, disp.called, Matching(disp))
    BY <2>3, <2>4, <2>5, ProgressGrows
  <2> QED
    BY <2>3, <2>6, <2>7
<1>2. ASSUME NEW h \in Hooks, hook_del(h)
      PROVE  ProgressInv'
  <2>1. CASE disp.phase = "callback"
    <3>1. disp' = [disp EXCEPT !.removed = TRUE] /\ disp \in Dispatches
      BY <1>0, <1>2, <2>1, RunningType DEF hook_del
    <3>2. disp'.removed
      BY <3>1 DEF Dispatches
    <3> QED
      BY <3>2 DEF ProgressInv
  <2>2. CASE disp.phase # "callback"
    BY <1>2, <2>2 DEF hook_del, ProgressInv
  <2> QED
    BY <2>1, <2>2
<1>3. ASSUME clear_hooks \/ clear_ql_hooks
      PROVE  ProgressInv'
  <2>0. disp' = IF disp.phase = "callback" /\ disp.kept = {}
                THEN [disp EXCEPT !.kept = {tab[disp.key]}] ELSE Forget(disp)
    BY <1>3 DEF clear_hooks, clear_ql_hooks, DropTables
  <2>1. SUFFICES ASSUME disp.phase = "callback"
                 PROVE  ProgressInv'
    BY <2>0 DEF Forget, ProgressInv
  <2>2. disp \in Dispatches /\ disp # Idle
    BY <1>0, <2>1, RunningType
  <2>3. CASE disp.kept = {}
    <3>1. disp' = [disp EXCEPT !.kept = {tab[disp.key]}]
      BY <2>0, <2>1, <2>3
    <3>2. /\ disp'.called = disp.called /\ disp'.key = disp.key
          /\ disp'.idx = disp.idx /\ disp'.kept = {tab[disp.key]}
          /\ disp'.ev = disp.ev /\ disp'.removed = disp.removed
      BY <2>2, <3>1 DEF Dispatches
    <3>3. Current' = Current
      BY <2>3, <3>2 DEF Current
    <3> QED
      BY <1>a, <1>b, <2>1, <3>2, <3>3 DEF ProgressInv
  <2>4. CASE disp.kept # {}
    <3>1. disp' = disp
      BY <2>0, <2>1, <2>4 DEF Forget
    <3>2. Current' = Current
      BY <2>4, <3>1 DEF Current
    <3> QED
      BY <3>1, <3>2 DEF ProgressInv
  <2> QED
    BY <2>3, <2>4
<1>4. ASSUME NEW k \in Keys, NEW ev \in Events, Event(k, ev)
      PROVE  ProgressInv'
  <2>1. disp'.idx = 1 /\ disp'.called = <<>>
    BY <1>4 DEF Event
  <2>2. TypeOK'
    BY TypeStep
  <2>3. SUFFICES ASSUME disp' # Idle
                 PROVE  Progress(Current', 1, <<>>, Matching(disp'))
    BY <2>1 DEF ProgressInv
  <2>4. Current' \in Seq(Hooks)
    <3>1. disp'.kept = {} /\ disp'.key = k
      BY <1>4 DEF Event
    <3> QED
      BY <2>2, <3>1 DEF Current, TypeOK
  <2>5. Progress(Current', 1, <<>>, Matching(disp'))
    <3>1. /\ Len(Current') \in Nat /\ DOMAIN Current' = 1 .. Len(Current')
          /\ DOMAIN <<>> = {}
      BY <2>4, LenProperties
    <3> QED
      BY <3>1 DEF Progress
  <2> QED
    BY <2>5
<1>5. ASSUME CallHook \/ SkipHook
      PROVE  ProgressInv'
  <2>1. disp \in Dispatches /\ disp # Idle
    BY <1>0, <1>5, RunningType DEF CallHook, SkipHook
  <2>2. /\ disp'.kept = disp.kept /\ disp'.key = disp.key /\ disp'.ev = disp.ev
        /\ disp'.idx = disp.idx + 1 /\ Current' = Current
        /\ disp'.removed = disp.removed
    <3>1. CASE CallHook
      BY <2>1, <3>1 DEF CallHook, Dispatches, Current
    <3>2. CASE SkipHook
      BY <2>1, <3>2 DEF SkipHook, Dispatches, Current
    <3> QED
      BY <1>5, <3>1, <3>2
  <2>3. /\ Current \in Seq(Hooks) /\ disp.called \in Seq(Hooks)
        /\ disp.idx \in DOMAIN Current /\ Current[disp.idx] \in Hooks
    BY <1>0, <1>5, <2>1, CurrentType, LenProperties DEF CallHook, SkipHook, Dispatches
  <2>4. IsInjective(Current)
    BY <2>1, CurrentIs
  <2>5. SUFFICES ASSUME ~ disp.removed
                 PROVE  Progress(Current, disp.idx + 1, disp'.called, Matching(disp))
    BY <1>b, <2>2 DEF ProgressInv
  <2>6. Progress(Current, disp.idx, disp.called, Matching(disp))
    BY <2>1, <2>5 DEF ProgressInv
  <2>7. CASE CallHook
    <3>1. disp'.called = Append(disp.called, Current[disp.idx])
      BY <2>1, <2>7 DEF CallHook, Dispatches
    <3>2. Current[disp.idx] \in Matching(disp)
      BY <2>3, <2>7 DEF CallHook, Matching
    <3> QED
      BY <2>3, <2>4, <2>6, <3>1, <3>2, ProgressCalls
  <2>8. CASE SkipHook
    <3>1. disp'.called = disp.called
      BY <2>1, <2>8 DEF SkipHook, Dispatches
    <3>2. Current[disp.idx] \notin Matching(disp)
      BY <2>8 DEF SkipHook, Matching
    <3> QED
      BY <2>3, <2>6, <3>1, <3>2, ProgressSkips
  <2> QED
    BY <1>5, <2>7, <2>8
<1>6. ASSUME (\E how \in {"none", "blocked", "raised"} : CallbackReturns(how)) \/ LoopEnds
      PROVE  ProgressInv'
  <2>1. disp \in Dispatches /\ disp # Idle
    BY <1>0, <1>6, RunningType DEF CallbackReturns, LoopEnds
  <2>2. \E p \in {"loop", "blocked", "raised", "done"} :
            disp' = [disp EXCEPT !.phase = p]
    <3>1. CASE LoopEnds
      BY <3>1 DEF LoopEnds
    <3>2. ASSUME NEW how \in {"none", "blocked", "raised"}, CallbackReturns(how)
          PROVE  <2>2
      BY <3>2 DEF CallbackReturns
    <3> QED
      BY <1>6, <3>1, <3>2
  <2>3. /\ disp'.kept = disp.kept /\ disp'.key = disp.key
        /\ disp'.idx = disp.idx /\ disp'.called = disp.called
        /\ disp'.ev = disp.ev /\ disp'.removed = disp.removed
    BY <2>1, <2>2 DEF Dispatches
  <2>4. tab' = tab
    BY <1>6 DEF CallbackReturns, LoopEnds
  <2>5. Current' = Current
    BY <2>3, <2>4 DEF Current
  <2> QED
    BY <1>b, <2>1, <2>3, <2>5 DEF ProgressInv
<1>7. ASSUME LoopBroken \/ emu_start
      PROVE  ProgressInv'
  BY <1>7 DEF LoopBroken, emu_start, ProgressInv
<1>8. ASSUME UNCHANGED vars
      PROVE  ProgressInv'
  BY <1>8 DEF vars, ProgressInv, Current
<1> QED
  BY <1>1, <1>2, <1>3, <1>4, <1>5, <1>6, <1>7, <1>8
     DEF Next, UserCalls, Dispatching

(* The list of a dispatch that ended does not change before it is forgotten. *)
LEMMA EndStep ==
    ASSUME IInv, EndInv, [Next]_vars
    PROVE  EndInv'
<1>1. SUFFICES ASSUME disp'.phase = "done"
               PROVE  disp'.idx > Len(Current')
  BY DEF EndInv
<1>2. CASE LoopEnds
  <2>1. disp \in Dispatches
    BY <1>2, RunningType DEF LoopEnds, IInv
  <2>2. disp'.idx = disp.idx /\ Current' = Current
    BY <1>2, <2>1 DEF LoopEnds, Dispatches, Current
  <2> QED
    BY <1>2, <2>2 DEF LoopEnds
<1>3. CASE UNCHANGED vars
  BY <1>1, <1>3 DEF vars, EndInv, Current
<1>4. CASE Next /\ ~ LoopEnds
  <2>0. TypeOK
    BY DEF IInv
  <2>1. ~ UserCalls
    <3>1. ASSUME UserCalls
          PROVE  disp'.phase # "done"
      <4>1. CASE disp.phase = "callback"
        <5>1. disp \in Dispatches
          BY <2>0, <4>1, RunningType
        <5>2. \/ disp' = disp
              \/ disp' = [disp EXCEPT !.removed = TRUE]
              \/ disp' = [disp EXCEPT !.kept = {tab[disp.key]}]
          BY <3>1, <4>1 DEF UserCalls, ql_hook, hook_del, clear_hooks,
                            clear_ql_hooks, DropTables, Forget
        <5>3. disp'.phase = disp.phase
          BY <5>1, <5>2 DEF Dispatches
        <5> QED
          BY <4>1, <5>3
      <4>2. CASE disp.phase # "callback"
        <5>1. disp' = Idle
          BY <3>1, <4>2 DEF UserCalls, ql_hook, hook_del, clear_hooks,
                            clear_ql_hooks, DropTables, Forget
        <5> QED
          BY <5>1 DEF Idle
      <4> QED
        BY <4>1, <4>2
    <3> QED
      BY <1>1, <3>1
  <2>2. ~ CallHook /\ ~ SkipHook
    <3>1. ASSUME CallHook \/ SkipHook
          PROVE  disp'.phase # "done"
      <4>1. disp \in Dispatches
        BY <2>0, <3>1, RunningType DEF CallHook, SkipHook
      <4> QED
        BY <3>1, <4>1 DEF CallHook, SkipHook, Dispatches
    <3> QED
      BY <1>1, <3>1
  <2>3. ~ \E how \in {"none", "blocked", "raised"} : CallbackReturns(how)
    <3>1. ASSUME NEW how \in {"none", "blocked", "raised"}, CallbackReturns(how)
          PROVE  FALSE
      <4>1. disp \in Dispatches
        BY <2>0, <3>1, RunningType DEF CallbackReturns
      <4>2. disp'.phase = IF how = "none" THEN "loop" ELSE how
        BY <3>1, <4>1 DEF CallbackReturns, Dispatches
      <4> QED
        BY <1>1, <4>2
    <3> QED
      BY <3>1
  <2>4. ~ \E k \in Keys, ev \in Events : Event(k, ev)
    BY <1>1 DEF Event
  <2>5. ~ LoopBroken /\ ~ emu_start
    BY <1>1 DEF LoopBroken, emu_start, Idle
  <2> QED
    BY <1>4, <2>1, <2>2, <2>3, <2>4, <2>5 DEF Next, Dispatching
<1> QED
  BY <1>2, <1>3, <1>4

(* A dispatch of any length, whose callbacks add hooks and clear the tables *)
(* but delete none, calls exactly the hooks of its list that match, in the  *)
(* order of the list (the loops of _hook_intr_cb to _hook_addr_cb).         *)
THEOREM MatchingAlwaysCalled == Spec => []AllMatchingCalled
<1>1. Init => ProgressInv
  BY DEF Init, ProgressInv
<1>2. IInv /\ EndInv /\ ProgressInv => AllMatchingCalled
  <2> SUFFICES ASSUME IInv, EndInv, ProgressInv, disp.phase = "done", ~ disp.removed
               PROVE  /\ Range(disp.called) =
                            {h \in Range(Current) : Matches(h, disp.key, disp.ev)}
                      /\ \A a, b \in DOMAIN disp.called : \A i, j \in DOMAIN Current :
                            (a < b /\ Current[i] = disp.called[a]
                               /\ Current[j] = disp.called[b]) => i < j
    BY DEF AllMatchingCalled
  <2>1. disp # Idle /\ Current \in Seq(Hooks) /\ disp.idx \in Nat
    BY RunningType, CurrentType DEF IInv, Dispatches
  <2>2. Progress(Current, disp.idx, disp.called, Matching(disp))
    BY <2>1 DEF ProgressInv
  <2>3. \A i \in DOMAIN Current : i < disp.idx
    BY <2>1, LenProperties DEF EndInv
  <2>4. \A i \in DOMAIN Current : Current[i] \in Hooks
    BY <2>1, LenProperties
  <2>5. ASSUME NEW x
        PROVE  x \in Range(disp.called) <=>
                  x \in Range(Current) /\ Matches(x, disp.key, disp.ev)
    BY <2>2, <2>3, <2>4 DEF Progress, Range, Matching
  <2>6. Range(disp.called) = {h \in Range(Current) : Matches(h, disp.key, disp.ev)}
    BY <2>5
  <2> QED
    BY <2>2, <2>6 DEF Progress
<1>3. Init => EndInv
  BY DEF Init, EndInv, Idle
<1>4. IInv /\ EndInv /\ [Next]_vars => EndInv'
  BY EndStep
<1>5. IInv /\ ProgressInv /\ [Next]_vars => ProgressInv'
  BY ProgressStep
<1> QED
  BY <1>1, <1>2, <1>3, <1>4, <1>5, Invariance, PTL DEF Spec

=============================================================================
