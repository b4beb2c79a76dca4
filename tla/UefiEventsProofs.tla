-------------------------- MODULE UefiEventsProofs --------------------------
(***************************************************************************)
(* Safety of the events and the notifications of UEFI firmware, for any    *)
(* modules, protocols, number of events and size of the shadow space.  The *)
(* order of delivery rests on no event being queued once it is set; that   *)
(* control comes back where it belongs, on the shape of the stack: which   *)
(* return address lies at which place of every frame, and which slots the  *)
(* functions called later leave alone.                                     *)
(***************************************************************************)
EXTENDS UefiEvents, SequenceTheorems, FiniteSetTheorems, TLAPS

-----------------------------------------------------------------------------
(* Sequences. *)

(* The places of a sequence and what is there. *)
LEMMA Places ==
    ASSUME NEW S, NEW s \in Seq(S)
    PROVE  /\ Len(s) \in Nat /\ DOMAIN s = 1 .. Len(s)
           /\ \A k \in 1 .. Len(s) : s[k] \in S
           /\ s = <<>> <=> Len(s) = 0
BY LenProperties, ElementOfSeq, EmptySeq

(* A function on the first numbers is a sequence. *)
LEMMA FunctionSeq ==
    ASSUME NEW S, NEW n \in Nat, NEW f \in [1 .. n -> S]
    PROVE  f \in Seq(S) /\ Len(f) = n /\ DOMAIN f = 1 .. n
<1>1. f \in Seq(S)
  BY IsASeq
<1>2. Len(f) \in Nat /\ 1 .. Len(f) = 1 .. n
  BY <1>1, LenProperties
<1> QED BY <1>1, <1>2

(* A sequence without its last element. *)
LEMMA FrontIs ==
    ASSUME NEW S, NEW s \in Seq(S), s # <<>>
    PROVE  /\ Front(s) \in Seq(S) /\ Len(Front(s)) = Len(s) - 1
           /\ \A k \in 1 .. Len(s) - 1 : Front(s)[k] = s[k]
<1>1. Len(s) \in Nat /\ Len(s) # 0 /\ \A k \in 1 .. Len(s) : s[k] \in S
  BY Places
<1>2. Len(s) - 1 \in Int /\ \A k \in 1 .. Len(s) - 1 : s[k] \in S
  BY <1>1
<1> DEFINE f == SubSeq(s, 1, Len(s) - 1)
<1>3. /\ f \in Seq(S) /\ Len(f) = IF 1 <= Len(s) - 1 THEN Len(s) - 1 - 1 + 1 ELSE 0
      /\ \A k \in 1 .. Len(s) - 1 - 1 + 1 : f[k] = s[1 + k - 1]
  BY <1>2, SubSeqProperties
<1>4. Front(s) = f
  BY DEF Front
<1> HIDE DEF f
<1>5. Len(f) = Len(s) - 1
  <2> DEFINE n == Len(s)
  <2>1. n \in Nat /\ n # 0 /\ Len(f) = IF 1 <= n - 1 THEN n - 1 - 1 + 1 ELSE 0
    BY <1>1, <1>3
  <2> HIDE DEF n
  <2>2. (IF 1 <= n - 1 THEN n - 1 - 1 + 1 ELSE 0) = n - 1
    BY <2>1
  <2>3. Len(f) = n - 1
    BY <2>1, <2>2
  <2> QED BY <2>3 DEF n
<1>6. ASSUME NEW k \in 1 .. Len(s) - 1 PROVE f[k] = s[k]
  <2>1. k \in 1 .. Len(s) - 1 - 1 + 1 /\ 1 + k - 1 = k
    BY <1>1
  <2> QED BY <1>3, <2>1
<1> QED BY <1>3, <1>4, <1>5, <1>6

(* RemoveAt keeps the others, and their order. *)
LEMMA RemoveAtIs ==
    ASSUME NEW S, NEW s \in Seq(S), NEW i \in 1 .. Len(s)
    PROVE  /\ RemoveAt(s, i) \in Seq(S) /\ Len(RemoveAt(s, i)) = Len(s) - 1
           /\ \A k \in 1 .. Len(s) - 1 : RemoveAt(s, i)[k] = s[IF k < i THEN k ELSE k + 1]
<1> DEFINE l == SubSeq(s, 1, i - 1)
           r == SubSeq(s, i + 1, Len(s))
<1>1. Len(s) \in Nat /\ i \in Int /\ \A k \in 1 .. Len(s) : s[k] \in S
  BY Places
<1>2. /\ l \in Seq(S) /\ Len(l) = i - 1
      /\ \A k \in 1 .. i - 1 : l[k] = s[k]
  <2>1. i - 1 \in Int /\ \A k \in 1 .. i - 1 : s[k] \in S
    BY <1>1
  <2>2. /\ l \in Seq(S) /\ Len(l) = IF 1 <= i - 1 THEN i - 1 - 1 + 1 ELSE 0
        /\ \A k \in 1 .. i - 1 - 1 + 1 : l[k] = s[1 + k - 1]
    BY <2>1, SubSeqProperties
  <2> HIDE DEF l
  <2> QED BY <1>1, <2>2
<1>3. /\ r \in Seq(S) /\ Len(r) = Len(s) - i
      /\ \A k \in 1 .. Len(s) - i : r[k] = s[i + k]
  <2>1. i + 1 \in Int /\ \A k \in i + 1 .. Len(s) : s[k] \in S
    BY <1>1
  <2>2. /\ r \in Seq(S) /\ Len(r) = IF i + 1 <= Len(s) THEN Len(s) - (i + 1) + 1 ELSE 0
        /\ \A k \in 1 .. Len(s) - (i + 1) + 1 : r[k] = s[i + 1 + k - 1]
    BY <1>1, <2>1, SubSeqProperties
  <2> HIDE DEF r
  <2> QED BY <1>1, <2>2
<1>4. RemoveAt(s, i) = l \o r
  BY DEF RemoveAt
<1> HIDE DEF l, r
<1>5. /\ l \o r \in Seq(S) /\ Len(l \o r) = Len(l) + Len(r)
      /\ \A k \in 1 .. Len(l) + Len(r) : (l \o r)[k] = IF k <= Len(l) THEN l[k] ELSE r[k - Len(l)]
  BY <1>2, <1>3, ConcatProperties
<1>6. ASSUME NEW k \in 1 .. Len(s) - 1
      PROVE  (l \o r)[k] = s[IF k < i THEN k ELSE k + 1]
  BY <1>1, <1>2, <1>3, <1>5
<1> QED BY <1>1, <1>2, <1>3, <1>4, <1>5, <1>6

(* The numbers up to m. *)
LEMMA UpTo ==
    ASSUME NEW m \in Nat
    PROVE  IsFiniteSet(1 .. m) /\ Cardinality(1 .. m) = m
<1>1. 1 \in Int /\ m \in Int
  OBVIOUS
<1>2. IsFiniteSet(1 .. m) /\ Cardinality(1 .. m) = IF 1 > m THEN 0 ELSE m - 1 + 1
  BY <1>1, FS_Interval
<1> QED BY <1>2

(* A sequence of different numbers up to m is no longer than m. *)
LEMMA InjectiveBounded ==
    ASSUME NEW m \in Nat, NEW s \in Seq(1 .. m), IsInjective(s)
    PROVE  Len(s) <= m
<1>1. Len(s) \in Nat /\ s \in [1 .. Len(s) -> 1 .. m]
  BY LenProperties
<1>2. s \in Injection(1 .. Len(s), 1 .. m)
  BY <1>1 DEF Injection
<1>3. IsFiniteSet(1 .. m) /\ Cardinality(1 .. m) = m
  BY UpTo
<1>4. Cardinality(1 .. Len(s)) = Len(s)
  BY <1>1, UpTo
<1> QED BY <1>2, <1>3, <1>4, FS_Injection

(* The numbers of a set in order are a sequence of different ones. *)
LEMMA InOrderIs ==
    ASSUME NEW m \in Nat, NEW S \in SUBSET (1 .. m), NEW o \in InOrder(S)
    PROVE  /\ o \in Seq(S) /\ DOMAIN o = 1 .. Len(o) /\ Len(o) \in Nat
           /\ \A i \in 1 .. Len(o) : o[i] \in S
           /\ \A i, j \in 1 .. Len(o) : o[i] = o[j] => i = j
<1>1. IsFiniteSet(S)
  BY UpTo, FS_Subset
<1>2. Cardinality(S) \in Nat
  BY <1>1, FS_CardinalityType
<1>3. o \in [1 .. Cardinality(S) -> S] /\ \A i, j \in DOMAIN o : i < j => o[i] < o[j]
  BY DEF InOrder
<1>4. o \in Seq(S) /\ Len(o) = Cardinality(S) /\ DOMAIN o = 1 .. Cardinality(S)
  BY <1>2, <1>3, IsASeq, LenProperties
<1>5. \A i \in 1 .. Cardinality(S) : o[i] \in S /\ o[i] \in 1 .. m
  BY <1>3
<1>6. \A i, j \in 1 .. Cardinality(S) : i < j => o[i] < o[j]
  BY <1>3, <1>4
<1>7. ASSUME NEW i \in 1 .. Cardinality(S), NEW j \in 1 .. Cardinality(S), o[i] = o[j]
      PROVE  i = j
  BY <1>2, <1>5, <1>6, <1>7
<1> QED BY <1>2, <1>4, <1>5, <1>7

(* What the events of a queue are. *)
LEMMA ObjsIs ==
    ASSUME NEW q \in Seq(EventType)
    PROVE  /\ Objs(q) \in Seq(1 .. MaxEvents) /\ Len(Objs(q)) = Len(q)
           /\ \A k \in 1 .. Len(q) : Objs(q)[k] = q[k].obj
<1>1. Len(q) \in Nat /\ DOMAIN q = 1 .. Len(q) /\ \A k \in 1 .. Len(q) : q[k] \in EventType
  BY Places
<1>2. \A k \in 1 .. Len(q) : q[k].obj \in 1 .. MaxEvents
  BY <1>1 DEF EventType
<1>3. Objs(q) \in [1 .. Len(q) -> 1 .. MaxEvents] /\ \A k \in 1 .. Len(q) : Objs(q)[k] = q[k].obj
  BY <1>1, <1>2 DEF Objs
<1> QED BY <1>1, <1>3, FunctionSeq

-----------------------------------------------------------------------------
(* The invariant. *)

EventTypes ==
    /\ events \in Seq(EventType) /\ created \in 0 .. MaxEvents
    /\ notify_list \in Seq(EventType)
    /\ signalled \in Seq(1 .. MaxEvents) /\ called \in Seq(1 .. MaxEvents)

(* Ids and objects are not shared, objects are numbered as they are made,   *)
(* and an event that was queued is set as long as it lives.                 *)
EventInv ==
    /\ Len(events) <= created
    /\ \A k \in DOMAIN events : events[k].obj <= created
    /\ \A n \in DOMAIN signalled : signalled[n] <= created
    /\ \A j, k \in DOMAIN events :
          events[j].id = events[k].id \/ events[j].obj = events[k].obj => j = k
    /\ \A k \in DOMAIN events, n \in DOMAIN signalled :
          events[k].obj = signalled[n] => events[k].set

EventPart == EventTypes /\ EventInv /\ DeliveredInOrder

(* The fields of an event. *)
LEMMA EventFields ==
    ASSUME NEW e \in EventType
    PROVE  /\ e.id \in 0 .. MaxEvents /\ e.obj \in 1 .. MaxEvents
           /\ e.guid \in Guids \cup {NoGuid} /\ e.args \in BOOLEAN /\ e.set \in BOOLEAN
BY DEF EventType

(* The invariant of the events, for each of them. *)
LEMMA EventFacts ==
    ASSUME EventPart
    PROVE  /\ MaxEvents \in Nat /\ created \in 0 .. MaxEvents
           /\ events \in Seq(EventType) /\ Len(events) \in Nat /\ Len(events) <= created
           /\ DOMAIN events = 1 .. Len(events)
           /\ signalled \in Seq(1 .. MaxEvents) /\ Len(signalled) \in Nat
           /\ DOMAIN signalled = 1 .. Len(signalled)
           /\ \A n \in 1 .. Len(signalled) : signalled[n] \in 1 .. MaxEvents /\ signalled[n] <= created
           /\ \A k \in 1 .. Len(events) :
                 /\ events[k] \in EventType
                 /\ events[k].id \in 0 .. MaxEvents /\ events[k].obj \in 1 .. MaxEvents
                 /\ events[k].obj <= created
           /\ \A j, k \in 1 .. Len(events) :
                 events[j].id = events[k].id \/ events[j].obj = events[k].obj => j = k
           /\ \A k \in 1 .. Len(events), n \in 1 .. Len(signalled) :
                 events[k].obj = signalled[n] => events[k].set
<1>1. MaxEvents \in Nat /\ created \in 0 .. MaxEvents /\ Len(events) <= created
  BY UefiAssumption DEF EventPart, EventTypes, EventInv
<1>2. events \in Seq(EventType) /\ signalled \in Seq(1 .. MaxEvents)
  BY DEF EventPart, EventTypes
<1>3. /\ Len(events) \in Nat /\ DOMAIN events = 1 .. Len(events)
      /\ \A k \in 1 .. Len(events) : events[k] \in EventType
  BY <1>2, Places
<1>4. /\ Len(signalled) \in Nat /\ DOMAIN signalled = 1 .. Len(signalled)
      /\ \A n \in 1 .. Len(signalled) : signalled[n] \in 1 .. MaxEvents
  BY <1>2, Places
<1>5. EventInv
  BY DEF EventPart
<1>6. \A k \in 1 .. Len(events) :
          events[k].id \in 0 .. MaxEvents /\ events[k].obj \in 1 .. MaxEvents
  BY <1>3, EventFields
<1>7. /\ \A n \in 1 .. Len(signalled) : signalled[n] <= created
      /\ \A k \in 1 .. Len(events) : events[k].obj <= created
      /\ \A j, k \in 1 .. Len(events) :
            events[j].id = events[k].id \/ events[j].obj = events[k].obj => j = k
      /\ \A k \in 1 .. Len(events), n \in 1 .. Len(signalled) :
            events[k].obj = signalled[n] => events[k].set
  BY <1>3, <1>4, <1>5, Zenon DEF EventInv
<1> QED BY <1>1, <1>2, <1>3, <1>4, <1>6, <1>7, Zenon

(* What is queued or was called is no more than what was ever signalled,    *)
(* and no event is signalled twice.                                         *)
LEMMA QueueBounded ==
    ASSUME EventPart, state # "raised"
    PROVE  Len(called) + Len(notify_list) <= MaxEvents
<1>1. /\ signalled \in Seq(1 .. MaxEvents) /\ called \in Seq(1 .. MaxEvents)
      /\ notify_list \in Seq(EventType)
      /\ called \o Objs(notify_list) = signalled /\ IsInjective(signalled)
  BY DEF EventPart, EventTypes, DeliveredInOrder
<1>2. MaxEvents \in Nat
  BY UefiAssumption
<1>3. Len(signalled) <= MaxEvents
  BY <1>1, <1>2, InjectiveBounded
<1>4. Objs(notify_list) \in Seq(1 .. MaxEvents) /\ Len(Objs(notify_list)) = Len(notify_list)
  BY <1>1, ObjsIs
<1>5. Len(called \o Objs(notify_list)) = Len(called) + Len(Objs(notify_list))
  BY <1>1, <1>4, ConcatProperties
<1> QED BY <1>1, <1>3, <1>4, <1>5

(* CreateEvent and SmmRegisterProtocolNotify: one event is new, the others  *)
(* stay but for the one whose id it takes.                                  *)
LEMMA NewEventKeeps ==
    ASSUME EventPart, NEW guid \in Guids \cup {NoGuid}, NEW args \in BOOLEAN,
           created < MaxEvents, events' = NewEvent(guid, args), created' = created + 1,
           UNCHANGED <<notify_list, signalled, called, state>>
    PROVE  EventPart'
<1> DEFINE event == [id |-> Len(events), obj |-> created + 1, guid |-> guid,
                     args |-> args, set |-> FALSE]
<1>1. /\ MaxEvents \in Nat /\ created \in Nat /\ Len(events) \in Nat
      /\ Len(events) <= created /\ DOMAIN events = 1 .. Len(events)
      /\ events \in Seq(EventType) /\ \A k \in 1 .. Len(events) : events[k] \in EventType
  BY UefiAssumption, Places DEF EventPart, EventTypes, EventInv
<1>2. event \in EventType
  <2>1. Len(events) \in 0 .. MaxEvents /\ created + 1 \in 1 .. MaxEvents
    BY <1>1
  <2> QED BY <2>1 DEF EventType
<1>3. event.id = Len(events) /\ event.obj = created + 1
  OBVIOUS
<1> HIDE DEF event
<1>4. /\ events' \in Seq(EventType) /\ Len(events') \in Nat /\ DOMAIN events' = 1 .. Len(events')
      /\ Len(events') <= created'
      /\ \A j \in 1 .. Len(events') :
            \/ events'[j] = event
            \/ j \in 1 .. Len(events) /\ events'[j] = events[j] /\ events[j].id # event.id
      /\ \A j, k \in 1 .. Len(events') : events'[j] = event /\ events'[k] = event => j = k
  <2>0. \A k \in 1 .. Len(events) : events[k].obj # event.obj
    BY <1>1, <1>3, EventFields DEF EventPart, EventInv
  <2>1. CASE event.id \in Ids
    <3>1. events' = [k \in DOMAIN events |-> IF events[k].id = event.id THEN event ELSE events[k]]
      BY <2>1 DEF NewEvent, event
    <3>2. events' \in [1 .. Len(events) -> EventType]
      BY <1>1, <1>2, <3>1
    <3>3. events' \in Seq(EventType) /\ Len(events') = Len(events)
      BY <1>1, <3>2, IsASeq, LenProperties
    <3>4. \A j \in 1 .. Len(events) :
              events'[j] = IF events[j].id = event.id THEN event ELSE events[j]
      BY <1>1, <3>1
    <3>5. ASSUME NEW j \in 1 .. Len(events), NEW k \in 1 .. Len(events),
                 events'[j] = event, events'[k] = event
          PROVE  j = k
      <4>1. events[j].id = event.id /\ events[k].id = event.id
        BY <2>0, <3>4, <3>5
      <4> QED BY <1>1, <4>1 DEF EventPart, EventInv
    <3>6. DOMAIN events' = 1 .. Len(events)
      BY <3>2
    <3>7. Len(events) <= created'
      BY <1>1
    <3>8. \A j \in 1 .. Len(events) :
            \/ events'[j] = event
            \/ j \in 1 .. Len(events) /\ events'[j] = events[j] /\ events[j].id # event.id
      BY <3>4
    <3> QED BY <1>1, <3>3, <3>5, <3>6, <3>7, <3>8
  <2>2. CASE event.id \notin Ids
    <3>1. events' = Append(events, event)
      BY <2>2 DEF NewEvent, event
    <3>2. /\ Append(events, event) \in Seq(EventType)
          /\ Len(Append(events, event)) = Len(events) + 1
          /\ \A i \in 1 .. Len(events) : Append(events, event)[i] = events[i]
          /\ Append(events, event)[Len(events) + 1] = event
      BY <1>1, <1>2, AppendProperties
    <3>3. \A j \in 1 .. Len(events) : events[j].id # event.id
      BY <1>1, <2>2 DEF Ids
    <3>4. \A j \in 1 .. Len(events) : events[j] # event
      BY <3>3
    <3>5. /\ events' \in Seq(EventType) /\ Len(events') = Len(events) + 1
          /\ \A i \in 1 .. Len(events) : events'[i] = events[i]
          /\ events'[Len(events) + 1] = event
      BY <3>1, <3>2
    <3>6. Len(events') \in Nat /\ DOMAIN events' = 1 .. Len(events')
      BY <3>5, Places
    <3>7. Len(events') <= created'
      BY <1>1, <3>5
    <3>8. \A j \in 1 .. Len(events') : j = Len(events) + 1 \/ j \in 1 .. Len(events)
      BY <1>1, <3>5
    <3>9. \A j, k \in 1 .. Len(events') : events'[j] = event /\ events'[k] = event => j = k
      BY <3>4, <3>5, <3>8
    <3> QED BY <3>3, <3>5, <3>6, <3>7, <3>8, <3>9
  <2> QED BY <2>1, <2>2
<1>5. EventTypes'
  <2>1. created' \in 0 .. MaxEvents
    BY <1>1
  <2> QED BY <1>4, <2>1 DEF EventPart, EventTypes
<1>6. EventInv'
  <2>1. /\ Len(signalled) \in Nat /\ DOMAIN signalled = 1 .. Len(signalled)
        /\ \A n \in 1 .. Len(signalled) : signalled[n] \in Nat /\ signalled[n] <= created
    BY EventFacts
  <2>2. \A k \in 1 .. Len(events) :
            /\ events[k].obj \in Nat /\ events[k].obj <= created
            /\ \A j \in 1 .. Len(events) :
                  events[j].id = events[k].id \/ events[j].obj = events[k].obj => j = k
            /\ \A n \in 1 .. Len(signalled) : events[k].obj = signalled[n] => events[k].set
    BY EventFacts
  <2>3. \A k \in DOMAIN events' : events'[k].obj <= created'
    BY <1>1, <1>3, <1>4, <2>2
  <2>4. \A n \in DOMAIN signalled' : signalled'[n] <= created'
    BY <1>1, <2>1
  <2>5. ASSUME NEW j \in 1 .. Len(events'), NEW k \in 1 .. Len(events'),
               events'[j].id = events'[k].id \/ events'[j].obj = events'[k].obj
        PROVE  j = k
    <3>1. CASE events'[j] = event /\ events'[k] = event
      BY <1>4, <3>1
    <3>2. CASE events'[j] = event /\ events'[k] # event
      BY <1>1, <1>3, <1>4, <2>2, <2>5, <3>2
    <3>3. CASE events'[j] # event /\ events'[k] = event
      BY <1>1, <1>3, <1>4, <2>2, <2>5, <3>3
    <3>4. CASE events'[j] # event /\ events'[k] # event
      BY <1>4, <2>2, <2>5, <3>4
    <3> QED BY <3>1, <3>2, <3>3, <3>4
  <2>6. ASSUME NEW k \in 1 .. Len(events'), NEW n \in 1 .. Len(signalled),
               events'[k].obj = signalled[n]
        PROVE  events'[k].set
    <3>1. events'[k] # event
      BY <1>1, <1>3, <2>1, <2>6
    <3>2. k \in 1 .. Len(events) /\ events'[k] = events[k]
      BY <1>4, <3>1
    <3> QED BY <2>2, <2>6, <3>2
  <2> QED BY <1>4, <2>1, <2>3, <2>4, <2>5, <2>6 DEF EventInv
<1>7. DeliveredInOrder'
  BY DEF EventPart, DeliveredInOrder, Objs
<1> QED BY <1>5, <1>6, <1>7 DEF EventPart

(* Events that differ from those of the dict in neither id, object nor set. *)
Alike(evs) ==
    /\ evs \in Seq(EventType) /\ Len(evs) = Len(events)
    /\ \A k \in 1 .. Len(events) :
          evs[k].id = events[k].id /\ evs[k].obj = events[k].obj /\ evs[k].set = events[k].set

(* Whoever is queued was made by now and is in its place of the order. *)
LEMMA ObjsConcat ==
    ASSUME NEW a \in Seq(EventType), NEW b \in Seq(EventType), NEW c \in Seq(1 .. MaxEvents)
    PROVE  c \o Objs(a \o b) = (c \o Objs(a)) \o Objs(b)
<1>1. /\ Objs(a) \in Seq(1 .. MaxEvents) /\ Len(Objs(a)) = Len(a)
      /\ \A k \in 1 .. Len(a) : Objs(a)[k] = a[k].obj
  BY ObjsIs
<1>2. /\ Objs(b) \in Seq(1 .. MaxEvents) /\ Len(Objs(b)) = Len(b)
      /\ \A k \in 1 .. Len(b) : Objs(b)[k] = b[k].obj
  BY ObjsIs
<1>3. /\ a \o b \in Seq(EventType) /\ Len(a \o b) = Len(a) + Len(b)
      /\ \A k \in 1 .. Len(a) + Len(b) : (a \o b)[k] = IF k <= Len(a) THEN a[k] ELSE b[k - Len(a)]
  BY ConcatProperties
<1>4. /\ Objs(a \o b) \in Seq(1 .. MaxEvents) /\ Len(Objs(a \o b)) = Len(a) + Len(b)
      /\ \A k \in 1 .. Len(a) + Len(b) : Objs(a \o b)[k] = (a \o b)[k].obj
  BY <1>3, ObjsIs
<1> DEFINE u == Objs(a)
           v == Objs(b)
           w == Objs(a \o b)
<1>5. Len(a) \in Nat /\ Len(b) \in Nat
  BY LenProperties
<1>6. /\ u \o v \in Seq(1 .. MaxEvents) /\ Len(u \o v) = Len(a) + Len(b)
      /\ \A k \in 1 .. Len(a) + Len(b) : (u \o v)[k] = IF k <= Len(a) THEN u[k] ELSE v[k - Len(a)]
  <2>1. u \in Seq(1 .. MaxEvents) /\ v \in Seq(1 .. MaxEvents) /\ Len(u) = Len(a) /\ Len(v) = Len(b)
    BY <1>1, <1>2
  <2> HIDE DEF u, v
  <2>2. /\ u \o v \in Seq(1 .. MaxEvents) /\ Len(u \o v) = Len(u) + Len(v)
        /\ \A k \in 1 .. Len(u) + Len(v) : (u \o v)[k] = IF k <= Len(u) THEN u[k] ELSE v[k - Len(u)]
    BY <2>1, ConcatProperties, Zenon
  <2> QED BY <2>1, <2>2
<1>7. ASSUME NEW k \in 1 .. Len(a) + Len(b) PROVE w[k] = (u \o v)[k]
  <2>1. CASE k <= Len(a)
    <3>1. k \in 1 .. Len(a)
      BY <1>5, <2>1
    <3> QED BY <1>1, <1>3, <1>4, <1>6, <2>1, <3>1
  <2>2. CASE ~ (k <= Len(a))
    <3>1. k - Len(a) \in 1 .. Len(b)
      BY <1>5, <2>2
    <3> QED BY <1>2, <1>3, <1>4, <1>6, <2>2, <3>1
  <2> QED BY <2>1, <2>2
<1>8. w = u \o v
  BY <1>4, <1>6, <1>7, SeqEqual
<1>9. c \o (u \o v) = (c \o u) \o v
  <2>1. c \in Seq(1 .. MaxEvents) /\ u \in Seq(1 .. MaxEvents) /\ v \in Seq(1 .. MaxEvents)
    BY <1>1, <1>2
  <2> HIDE DEF u, v
  <2>2. (c \o u) \o v = c \o (u \o v)
    BY <2>1, ConcatAssociative
  <2> QED BY <2>2
<1> HIDE DEF u, v, w
<1> QED BY <1>8, <1>9 DEF u, v, w

(* signal_event of some of the events, whatever else was changed of them. *)
LEMMA SignalKeeps ==
    ASSUME EventPart, NEW evs, Alike(evs), NEW ks \in SUBSET (1 .. Len(events)),
           SignalEvents(evs, ks), UNCHANGED <<created, called, state>>
    PROVE  EventPart'
<1>1. PICK o \in InOrder({k \in ks : ~ evs[k].set}) :
         /\ notify_list' = notify_list \o [n \in DOMAIN o |-> evs[o[n]]]
         /\ signalled' = signalled \o [n \in DOMAIN o |-> evs[o[n]].obj]
  BY DEF SignalEvents
<1> DEFINE q == [n \in DOMAIN o |-> evs[o[n]]]
           m == Len(o)
<1>2. Len(events) \in Nat /\ DOMAIN events = 1 .. Len(events) /\ MaxEvents \in Nat
  BY EventFacts
<1>3. /\ DOMAIN o = 1 .. m /\ m \in Nat
      /\ \A i \in 1 .. m : o[i] \in ks /\ ~ evs[o[i]].set
      /\ \A i, j \in 1 .. m : o[i] = o[j] => i = j
  <2> DEFINE free == {k \in ks : ~ evs[k].set}
  <2>1. o \in InOrder(free) /\ free \in SUBSET (1 .. Len(events))
    BY <1>1
  <2>2. \A k \in free : k \in ks /\ ~ evs[k].set
    OBVIOUS
  <2> HIDE DEF free
  <2>3. /\ DOMAIN o = 1 .. m /\ m \in Nat /\ \A i \in 1 .. m : o[i] \in free
        /\ \A i, j \in 1 .. m : o[i] = o[j] => i = j
    BY <1>2, <2>1, InOrderIs
  <2> QED BY <2>2, <2>3
<1>4. /\ evs \in Seq(EventType) /\ Len(evs) = Len(events) /\ DOMAIN evs = 1 .. Len(events)
      /\ \A k \in 1 .. Len(events) : evs[k] \in EventType
  BY Places DEF Alike
<1>5. q \in Seq(EventType) /\ Len(q) = m /\ \A n \in 1 .. m : q[n] = evs[o[n]]
  <2>1. q \in [1 .. m -> EventType]
    BY <1>3, <1>4
  <2> HIDE DEF q
  <2>2. q \in Seq(EventType) /\ Len(q) = m
    BY <1>3, <2>1, FunctionSeq
  <2> QED BY <1>3, <2>2 DEF q
<1>6. Objs(q) = [n \in DOMAIN o |-> evs[o[n]].obj]
  BY DEF Objs
<1>7. notify_list' = notify_list \o q /\ signalled' = signalled \o Objs(q)
  BY <1>1, <1>6
<1> HIDE DEF q
<1>8. /\ Objs(q) \in Seq(1 .. MaxEvents) /\ Len(Objs(q)) = m
      /\ \A n \in 1 .. m : Objs(q)[n] = evs[o[n]].obj
  <2>1. \A n \in 1 .. m : Objs(q)[n] = q[n].obj
    BY <1>5, ObjsIs
  <2> QED BY <1>5, <2>1, ObjsIs
<1> DEFINE r == Objs(q)
<1>9. \A n \in 1 .. m : o[n] \in 1 .. Len(events) /\ r[n] = events[o[n]].obj /\ ~ events[o[n]].set
  BY <1>3, <1>8 DEF Alike
<1> HIDE DEF r, m
<1>10. /\ signalled \o r \in Seq(1 .. MaxEvents) /\ Len(signalled \o r) = Len(signalled) + m
       /\ \A n \in 1 .. Len(signalled) + m :
             (signalled \o r)[n] = IF n <= Len(signalled) THEN signalled[n] ELSE r[n - Len(signalled)]
  <2>1. r \in Seq(1 .. MaxEvents) /\ Len(r) = m /\ signalled \in Seq(1 .. MaxEvents)
    BY <1>8, EventFacts DEF r
  <2>2. /\ signalled \o r \in Seq(1 .. MaxEvents) /\ Len(signalled \o r) = Len(signalled) + Len(r)
        /\ \A n \in 1 .. Len(signalled) + Len(r) :
             (signalled \o r)[n] = IF n <= Len(signalled) THEN signalled[n] ELSE r[n - Len(signalled)]
    BY <2>1, ConcatProperties, Zenon
  <2> QED BY <2>1, <2>2
<1>11. DOMAIN (signalled \o r) = 1 .. Len(signalled) + m
  BY <1>10, LenProperties
<1>12. Len(signalled) \in Nat
  BY EventFacts
<1>13. \A n \in 1 .. Len(signalled) + m :
          \/ n \in 1 .. Len(signalled) /\ (signalled \o r)[n] = signalled[n]
          \/ n - Len(signalled) \in 1 .. m /\ (signalled \o r)[n] = r[n - Len(signalled)]
  BY <1>3, <1>10, <1>12
<1> DEFINE S == signalled \o r
<1>14. /\ DOMAIN S = 1 .. Len(signalled) + m
       /\ \A n \in 1 .. Len(signalled) + m :
          \/ n \in 1 .. Len(signalled) /\ S[n] = signalled[n]
          \/ n - Len(signalled) \in 1 .. m /\ S[n] = r[n - Len(signalled)]
       /\ signalled' = S
  BY <1>7, <1>11, <1>13 DEF r
<1> HIDE DEF S
<1>15. IsInjective(S)
  <2> SUFFICES ASSUME NEW i \in 1 .. Len(signalled) + m, NEW j \in 1 .. Len(signalled) + m,
                      S[i] = S[j]
               PROVE  i = j
    BY <1>14 DEF IsInjective
  <2>1. ASSUME NEW a \in 1 .. Len(signalled), NEW b \in 1 .. m PROVE signalled[a] # r[b]
    <3>1. events[o[b]].obj = signalled[a] => events[o[b]].set
      BY <1>9, EventFacts, Zenon
    <3> QED BY <1>9, <3>1
  <2>2. CASE i \in 1 .. Len(signalled) /\ S[i] = signalled[i]
             /\ j \in 1 .. Len(signalled) /\ S[j] = signalled[j]
    BY <2>2, EventFacts DEF EventPart, DeliveredInOrder, IsInjective
  <2>3. CASE i - Len(signalled) \in 1 .. m /\ S[i] = r[i - Len(signalled)]
             /\ j - Len(signalled) \in 1 .. m /\ S[j] = r[j - Len(signalled)]
    <3>1. events[o[i - Len(signalled)]].obj = events[o[j - Len(signalled)]].obj
      BY <1>9, <2>3
    <3>2. o[i - Len(signalled)] = o[j - Len(signalled)]
      BY <1>9, <2>3, <3>1, EventFacts
    <3>3. i - Len(signalled) = j - Len(signalled)
      BY <1>3, <2>3, <3>2 DEF m
    <3> QED BY <1>12, <1>3, <3>3
  <2> QED BY <1>14, <2>1, <2>2, <2>3
<1>16. called \o Objs(notify_list') = S \/ state' = "raised"
  <2>1. notify_list \in Seq(EventType) /\ called \in Seq(1 .. MaxEvents)
    BY DEF EventPart, EventTypes
  <2>2. called \o Objs(notify_list \o q) = (called \o Objs(notify_list)) \o Objs(q)
    BY <1>5, <2>1, ObjsConcat
  <2>3. called \o Objs(notify_list) = signalled \/ state = "raised"
    BY DEF EventPart, DeliveredInOrder
  <2> QED BY <1>7, <2>2, <2>3 DEF S, r
<1>17. DeliveredInOrder'
  <2>1. Objs(notify_list') = Objs(notify_list)'
    BY DEF Objs
  <2> QED BY <1>14, <1>15, <1>16, <2>1 DEF DeliveredInOrder, IsInjective
<1> DEFINE E == [k \in DOMAIN evs |-> IF k \in ks THEN [evs[k] EXCEPT !.set = TRUE] ELSE evs[k]]
<1>18. /\ E \in Seq(EventType) /\ Len(E) = Len(events) /\ DOMAIN E = 1 .. Len(events)
       /\ \A k \in 1 .. Len(events) :
             /\ E[k].id = events[k].id /\ E[k].obj = events[k].obj
             /\ k \in ks \/ events[k].set => E[k].set
  <2>1. \A k \in 1 .. Len(events) :
           /\ [evs[k] EXCEPT !.set = TRUE] \in EventType
           /\ [evs[k] EXCEPT !.set = TRUE].id = evs[k].id
           /\ [evs[k] EXCEPT !.set = TRUE].obj = evs[k].obj
           /\ [evs[k] EXCEPT !.set = TRUE].set
    BY <1>4 DEF EventType
  <2>2. /\ E \in [1 .. Len(events) -> EventType]
        /\ \A k \in 1 .. Len(events) :
              E[k] = IF k \in ks THEN [evs[k] EXCEPT !.set = TRUE] ELSE evs[k]
    BY <1>4, <2>1
  <2> HIDE DEF E
  <2>3. E \in Seq(EventType) /\ Len(E) = Len(events) /\ DOMAIN E = 1 .. Len(events)
    BY <1>2, <2>2, FunctionSeq
  <2>4. ASSUME NEW k \in 1 .. Len(events)
        PROVE  /\ E[k].id = events[k].id /\ E[k].obj = events[k].obj
               /\ k \in ks \/ events[k].set => E[k].set
    <3>1. CASE k \in ks
      BY <2>1, <2>2, <3>1 DEF Alike
    <3>2. CASE k \notin ks
      BY <2>2, <3>2 DEF Alike
    <3> QED BY <3>1, <3>2
  <2> QED BY <2>3, <2>4
<1>19. events' = E
  BY DEF SignalEvents
<1> HIDE DEF E
<1>20. EventTypes'
  <2>1. notify_list \o q \in Seq(EventType)
    BY <1>5, ConcatProperties DEF EventPart, EventTypes
  <2>2. S \in Seq(1 .. MaxEvents)
    BY <1>10 DEF S
  <2> QED BY <1>7, <1>14, <1>18, <1>19, <2>1, <2>2 DEF EventPart, EventTypes
<1>21. EventInv'
  <2>1. Len(E) <= created' /\ \A k \in DOMAIN E : E[k].obj <= created'
    BY <1>18, EventFacts
  <2>2. \A n \in DOMAIN S : S[n] <= created'
    <3>1. \A n \in 1 .. Len(signalled) : signalled[n] <= created
      BY EventFacts
    <3>2. \A n \in 1 .. m : r[n] <= created
      BY <1>9, EventFacts
    <3> QED BY <1>14, <3>1, <3>2
  <2>3. \A j, k \in DOMAIN E : E[j].id = E[k].id \/ E[j].obj = E[k].obj => j = k
    BY <1>18, EventFacts
  <2>4. ASSUME NEW k \in DOMAIN E, NEW n \in DOMAIN S, E[k].obj = S[n] PROVE E[k].set
    <3>1. CASE n \in 1 .. Len(signalled) /\ S[n] = signalled[n]
      BY <1>18, <2>4, <3>1, EventFacts
    <3>2. CASE n - Len(signalled) \in 1 .. m /\ S[n] = r[n - Len(signalled)]
      <4> DEFINE l == o[n - Len(signalled)]
      <4>1. l \in 1 .. Len(events) /\ l \in ks /\ S[n] = events[l].obj
        BY <1>3, <1>9, <3>2 DEF m
      <4>2. events[k].obj = events[l].obj /\ k \in 1 .. Len(events)
        BY <1>18, <2>4, <4>1
      <4>3. k = l
        BY <4>1, <4>2, EventFacts
      <4> QED BY <1>18, <4>1, <4>3
    <3> QED BY <1>14, <2>4, <3>1, <3>2
  <2> QED BY <1>14, <1>19, <2>1, <2>2, <2>3, <2>4 DEF EventInv
<1> QED BY <1>17, <1>20, <1>21 DEF EventPart

(* A dict whose events are a part of those there were, in their order and   *)
(* with their ids, objects and set as they were.                            *)
LEMMA FewerKeep ==
    ASSUME EventPart, UNCHANGED <<created, notify_list, signalled, called, state>>,
           events' \in Seq(EventType), Len(events') <= Len(events),
           NEW p \in [1 .. Len(events') -> 1 .. Len(events)],
           \A j, k \in 1 .. Len(events') : p[j] = p[k] => j = k,
           \A k \in 1 .. Len(events') :
              /\ events'[k].id = events[p[k]].id /\ events'[k].obj = events[p[k]].obj
              /\ events'[k].set = events[p[k]].set
    PROVE  EventPart'
<1>1. DOMAIN events' = 1 .. Len(events') /\ Len(events') \in Nat
  BY Places
<1>2. \A k \in 1 .. Len(events') : p[k] \in 1 .. Len(events)
  OBVIOUS
<1>3. EventTypes'
  BY DEF EventPart, EventTypes
<1>4. DeliveredInOrder'
  BY DEF EventPart, DeliveredInOrder, Objs
<1>5. /\ Len(events) <= created /\ Len(events) \in Nat /\ created \in Nat
      /\ DOMAIN signalled = 1 .. Len(signalled)
      /\ \A n \in 1 .. Len(signalled) : signalled[n] <= created
      /\ \A k \in 1 .. Len(events) : events[k].obj <= created
      /\ \A j, k \in 1 .. Len(events) :
            events[j].id = events[k].id \/ events[j].obj = events[k].obj => j = k
      /\ \A k \in 1 .. Len(events), n \in 1 .. Len(signalled) :
            events[k].obj = signalled[n] => events[k].set
  BY EventFacts
<1>6. Len(events') <= created'
  BY <1>1, <1>5
<1>7. \A k \in DOMAIN events' : events'[k].obj <= created'
  BY <1>1, <1>2, <1>5
<1>8. \A j, k \in DOMAIN events' :
          events'[j].id = events'[k].id \/ events'[j].obj = events'[k].obj => j = k
  <2> SUFFICES ASSUME NEW j \in 1 .. Len(events'), NEW k \in 1 .. Len(events'),
                      events'[j].id = events'[k].id \/ events'[j].obj = events'[k].obj
               PROVE  j = k
    BY <1>1
  <2>1. events[p[j]].id = events[p[k]].id \/ events[p[j]].obj = events[p[k]].obj
    OBVIOUS
  <2>2. p[j] \in 1 .. Len(events) /\ p[k] \in 1 .. Len(events)
    BY <1>2
  <2>3. p[j] = p[k]
    BY <1>5, <2>1, <2>2, Zenon
  <2> QED BY <2>3
<1>9. \A k \in DOMAIN events', n \in DOMAIN signalled :
          events'[k].obj = signalled[n] => events'[k].set
  <2> SUFFICES ASSUME NEW k \in 1 .. Len(events'), NEW n \in 1 .. Len(signalled),
                      events'[k].obj = signalled[n]
               PROVE  events'[k].set
    BY <1>1, <1>5
  <2>1. events[p[k]].obj = signalled[n] => events[p[k]].set
    BY <1>2, <1>5, Zenon
  <2> QED BY <2>1
<1>10. EventInv'
  BY <1>5, <1>6, <1>7, <1>8, <1>9 DEF EventInv
<1> QED BY <1>3, <1>4, <1>10 DEF EventPart

(* CloseEvent *)
LEMMA CloseKeeps ==
    ASSUME EventPart, NEW i \in 1 .. Len(events), events' = RemoveAt(events, i),
           UNCHANGED <<created, notify_list, signalled, called, state>>
    PROVE  EventPart'
<1>1. events \in Seq(EventType) /\ Len(events) \in Nat
  BY EventFacts
<1>2. /\ events' \in Seq(EventType) /\ Len(events') = Len(events) - 1
      /\ \A k \in 1 .. Len(events) - 1 : events'[k] = events[IF k < i THEN k ELSE k + 1]
  BY <1>1, RemoveAtIs
<1> DEFINE p == [k \in 1 .. Len(events') |-> IF k < i THEN k ELSE k + 1]
<1>3. /\ p \in [1 .. Len(events') -> 1 .. Len(events)]
      /\ \A j, k \in 1 .. Len(events') : p[j] = p[k] => j = k
      /\ \A k \in 1 .. Len(events') : events'[k] = events[p[k]]
  BY <1>1, <1>2
<1>4. Len(events') <= Len(events)
  BY <1>1, <1>2
<1> HIDE DEF p
<1> QED BY <1>2, <1>3, <1>4, FewerKeep

(* The events change in their other fields only. *)
LEMMA AlikeKeeps ==
    ASSUME EventPart, Alike(events'),
           UNCHANGED <<created, notify_list, signalled, called, state>>
    PROVE  EventPart'
<1>1. /\ events' \in Seq(EventType) /\ Len(events') = Len(events) /\ Len(events) \in Nat
      /\ \A k \in 1 .. Len(events) :
          /\ events'[k].id = events[k].id /\ events'[k].obj = events[k].obj
          /\ events'[k].set = events[k].set
  BY EventFacts DEF Alike
<1> DEFINE p == [k \in 1 .. Len(events') |-> k]
<1>2. /\ p \in [1 .. Len(events') -> 1 .. Len(events)]
      /\ \A j, k \in 1 .. Len(events') : p[j] = p[k] => j = k
      /\ \A k \in 1 .. Len(events') : p[k] = k
  BY <1>1
<1>3. Len(events') <= Len(events)
  BY <1>1
<1> HIDE DEF p
<1> QED BY <1>1, <1>2, <1>3, FewerKeep

(* notify_protocol fills in the arguments, RegisterProtocolNotify the GUID. *)
LEMMA AlikeUpdates ==
    ASSUME EventPart, NEW g \in Guids, NEW i
    PROVE  /\ Alike(events) /\ Alike(Filled(g))
           /\ Alike([k \in DOMAIN events |->
                        IF events[k].id = i THEN [events[k] EXCEPT !.guid = g] ELSE events[k]])
<1>1. /\ events \in Seq(EventType) /\ Len(events) \in Nat /\ DOMAIN events = 1 .. Len(events)
      /\ \A k \in 1 .. Len(events) : events[k] \in EventType
  BY EventFacts
<1>2. \A e \in EventType :
         /\ [e EXCEPT !.args = TRUE] \in EventType /\ [e EXCEPT !.args = TRUE].id = e.id
         /\ [e EXCEPT !.args = TRUE].obj = e.obj /\ [e EXCEPT !.args = TRUE].set = e.set
  BY DEF EventType
<1>3. \A e \in EventType :
         /\ [e EXCEPT !.guid = g] \in EventType /\ [e EXCEPT !.guid = g].id = e.id
         /\ [e EXCEPT !.guid = g].obj = e.obj /\ [e EXCEPT !.guid = g].set = e.set
  BY DEF EventType
<1>4. ASSUME NEW evs \in [1 .. Len(events) -> EventType],
             \A k \in 1 .. Len(events) :
                evs[k].id = events[k].id /\ evs[k].obj = events[k].obj /\ evs[k].set = events[k].set
      PROVE  Alike(evs)
  BY <1>1, <1>4, FunctionSeq DEF Alike
<1>5. Alike(events)
  BY <1>1 DEF Alike
<1>6. Alike(Filled(g))
  <2>1. /\ Filled(g) \in [1 .. Len(events) -> EventType]
        /\ \A k \in 1 .. Len(events) : Filled(g)[k] =
              IF events[k].guid = g THEN [events[k] EXCEPT !.args = TRUE] ELSE events[k]
    BY <1>1, <1>2 DEF Filled
  <2>2. \A k \in 1 .. Len(events) :
            /\ Filled(g)[k].id = events[k].id /\ Filled(g)[k].obj = events[k].obj
            /\ Filled(g)[k].set = events[k].set
    BY <1>1, <1>2, <2>1
  <2> QED BY <1>4, <2>1, <2>2
<1> DEFINE evs == [k \in DOMAIN events |->
                      IF events[k].id = i THEN [events[k] EXCEPT !.guid = g] ELSE events[k]]
<1>7. Alike(evs)
  <2>1. /\ evs \in [1 .. Len(events) -> EventType]
        /\ \A k \in 1 .. Len(events) : evs[k] =
              IF events[k].id = i THEN [events[k] EXCEPT !.guid = g] ELSE events[k]
    BY <1>1, <1>3
  <2> HIDE DEF evs
  <2>2. \A k \in 1 .. Len(events) :
            evs[k].id = events[k].id /\ evs[k].obj = events[k].obj /\ evs[k].set = events[k].set
    BY <1>1, <1>3, <2>1
  <2> QED BY <1>4, <2>1, <2>2
<1> QED BY <1>5, <1>6, <1>7

(* The next notification is called or dropped with an exception. *)
LEMMA TakeKeeps ==
    ASSUME EventPart, notify_list # <<>>, notify_list' = Tail(notify_list),
           \/ called' = Append(called, Head(notify_list).obj) /\ UNCHANGED state
           \/ state' = "raised" /\ UNCHANGED called,
           UNCHANGED <<events, created, signalled>>
    PROVE  EventPart'
<1> DEFINE h == Head(notify_list).obj
           t == Tail(notify_list)
<1>1. /\ notify_list \in Seq(EventType) /\ called \in Seq(1 .. MaxEvents)
      /\ signalled \in Seq(1 .. MaxEvents) /\ Len(notify_list) \in Nat /\ Len(called) \in Nat
  BY LenProperties DEF EventPart, EventTypes
<1>2. /\ Head(notify_list) \in EventType /\ t \in Seq(EventType) /\ Len(t) = Len(notify_list) - 1
      /\ \A k \in 1 .. Len(t) : t[k] = notify_list[k + 1]
  BY <1>1, HeadTailProperties
<1>3. h \in 1 .. MaxEvents /\ h = notify_list[1].obj
  <2>1. Head(notify_list) = notify_list[1]
    BY <1>1
  <2> QED BY <1>2, <2>1, EventFields
<1> HIDE DEF h, t
<1>4. /\ Append(called, h) \in Seq(1 .. MaxEvents) /\ Len(Append(called, h)) = Len(called) + 1
      /\ \A i \in 1 .. Len(called) : Append(called, h)[i] = called[i]
      /\ Append(called, h)[Len(called) + 1] = h
  BY <1>1, <1>3, AppendProperties
<1>5. EventTypes'
  BY <1>1, <1>2, <1>4 DEF EventPart, EventTypes, h, t
<1>6. EventInv'
  BY DEF EventPart, EventInv
<1>7. Append(called, h) \o Objs(t) = called \o Objs(notify_list)
  <2>1. /\ Objs(t) \in Seq(1 .. MaxEvents) /\ Len(Objs(t)) = Len(t)
        /\ \A k \in 1 .. Len(t) : Objs(t)[k] = t[k].obj
    BY <1>2, ObjsIs
  <2>2. /\ Objs(notify_list) \in Seq(1 .. MaxEvents) /\ Len(Objs(notify_list)) = Len(notify_list)
        /\ \A k \in 1 .. Len(notify_list) : Objs(notify_list)[k] = notify_list[k].obj
    BY <1>1, ObjsIs
  <2> DEFINE a == Append(called, h)
             u == Objs(t)
             v == Objs(notify_list)
  <2>0. a \in Seq(1 .. MaxEvents) /\ u \in Seq(1 .. MaxEvents) /\ v \in Seq(1 .. MaxEvents)
    BY <1>4, <2>1, <2>2
  <2>3. /\ Len(a) = Len(called) + 1 /\ Len(u) = Len(notify_list) - 1 /\ Len(v) = Len(notify_list)
    BY <1>2, <1>4, <2>1, <2>2
  <2>4. /\ \A i \in 1 .. Len(called) : a[i] = called[i]
        /\ a[Len(called) + 1] = v[1]
        /\ \A k \in 1 .. Len(notify_list) - 1 : u[k] = v[k + 1]
    <3>1. Len(notify_list) # 0
      BY <1>1, Places
    <3>2. v[1] = h
      BY <1>1, <1>3, <2>2, <3>1
    <3>3. ASSUME NEW k \in 1 .. Len(notify_list) - 1 PROVE u[k] = v[k + 1]
      <4>1. k \in 1 .. Len(t) /\ k + 1 \in 1 .. Len(notify_list)
        BY <1>1, <1>2
      <4> QED BY <1>2, <2>1, <2>2, <4>1
    <3> QED BY <1>4, <3>2, <3>3
  <2> HIDE DEF a, u, v
  <2>5. /\ a \o u \in Seq(1 .. MaxEvents) /\ Len(a \o u) = Len(a) + Len(u)
        /\ \A i \in 1 .. Len(a) + Len(u) : (a \o u)[i] = IF i <= Len(a) THEN a[i] ELSE u[i - Len(a)]
    BY <2>0, ConcatProperties
  <2>6. /\ called \o v \in Seq(1 .. MaxEvents) /\ Len(called \o v) = Len(called) + Len(v)
        /\ \A i \in 1 .. Len(called) + Len(v) :
              (called \o v)[i] = IF i <= Len(called) THEN called[i] ELSE v[i - Len(called)]
    BY <1>1, <2>0, ConcatProperties
  <2>7. Len(a \o u) = Len(called \o v) /\ Len(a \o u) = Len(called) + Len(v)
    BY <1>1, <2>3, <2>5, <2>6
  <2>8. ASSUME NEW i \in 1 .. Len(called) + Len(v) PROVE (a \o u)[i] = (called \o v)[i]
    <3>0. Len(a) + Len(u) = Len(called) + Len(v)
      BY <1>1, <2>3
    <3>1. CASE i <= Len(called)
      <4>1. i \in 1 .. Len(called) /\ i <= Len(a)
        BY <1>1, <2>3, <3>1
      <4> QED BY <2>4, <2>5, <2>6, <3>0, <3>1, <4>1
    <3>2. CASE i = Len(called) + 1
      <4>1. i <= Len(a) /\ ~ (i <= Len(called)) /\ i - Len(called) = 1
        BY <1>1, <2>3, <3>2
      <4> QED BY <2>4, <2>5, <2>6, <3>0, <3>2, <4>1
    <3>3. CASE i > Len(called) + 1
      <4>1. /\ ~ (i <= Len(a)) /\ ~ (i <= Len(called)) /\ i - Len(a) \in 1 .. Len(notify_list) - 1
            /\ i - Len(called) = i - Len(a) + 1
        BY <1>1, <2>3, <3>3
      <4>2. u[i - Len(a)] = v[i - Len(a) + 1]
        BY <2>4, <4>1
      <4>3. (a \o u)[i] = u[i - Len(a)]
        BY <2>5, <3>0, <4>1
      <4>4. (called \o v)[i] = v[i - Len(called)]
        BY <2>6, <4>1
      <4> QED BY <4>1, <4>2, <4>3, <4>4
    <3>4. i <= Len(called) \/ i = Len(called) + 1 \/ i > Len(called) + 1
      BY <1>1, <2>3
    <3> QED BY <3>1, <3>2, <3>3, <3>4
  <2>9. a \o u = called \o v
    BY <2>5, <2>6, <2>7, <2>8, SeqEqual
  <2> QED BY <2>9 DEF a, u, v
<1>8. DeliveredInOrder'
  <2>1. Objs(notify_list)' = Objs(t)
    BY DEF Objs, t
  <2>2. IsInjective(signalled)'
    BY DEF EventPart, DeliveredInOrder, IsInjective
  <2>3. called \o Objs(notify_list) = signalled \/ state = "raised"
    BY DEF EventPart, DeliveredInOrder
  <2> QED BY <1>7, <2>1, <2>2, <2>3 DEF DeliveredInOrder, h
<1> QED BY <1>5, <1>6, <1>8 DEF EventPart

-----------------------------------------------------------------------------
(* The stack.  *)

StackTypes ==
    /\ hooks \subseteq 1 .. MaxEvents
    /\ mem \in [1 .. StackDepth -> Word] /\ sp \in 0 .. StackDepth
    /\ pc \in Word /\ frames \in Seq(1 .. StackDepth)

(* The word a frame begins with, m hooks deep: the function goes back to    *)
(* the trap or to the hook that called it.                                  *)
ReturnWord(m) == IF m = 1 THEN Eoe ELSE Hook(m - 1)

(* The first n frames: each is a callback of the one before it, of which    *)
(* the word below it says where its service goes back to, or the first: a   *)
(* module, an unload function (b = 0) or a callback of the trap (b = 1),    *)
(* which finds its address again under the frame.                           *)
FramesUpto(n, b) ==
    /\ \A i, j \in 1 .. n : i < j => frames[i] + SHADOW + 2 <= frames[j]
    /\ \A i \in 1 .. n : frames[i] > SHADOW
    /\ \A i \in 1 .. n : mem[frames[i]] = ReturnWord(i + b)
    /\ \A i \in 1 .. n - 1 : frames[i + 1] = frames[i] + SHADOW + 2
    /\ \A i \in 1 .. n - 1 : mem[frames[i] + 1] = Guest(i)
    /\ n > 0 /\ b = 1 => frames[1] > SHADOW + 1 /\ mem[frames[1] - SHADOW - 1] = Eoe

FramesInv(b) == FramesUpto(Len(frames), b)

(* The innermost function goes on; *)
InFunction(b) ==
    LET n == Len(frames) IN
    /\ n > 0 /\ pc = Guest(n) /\ sp = frames[n]
    /\ hooks = 1 .. n - 1 + b /\ n - 1 + b <= Len(called)

(* or a hook of its service does, over what is left of a callback; *)
InHook(b) ==
    LET n == Len(frames) IN
    /\ pc = Hook(n + b) /\ hooks = 1 .. n + b
    /\ n + b <= Len(called) + (IF notify_list = <<>> THEN 0 ELSE 1)
    /\ n = 0 => b = 1 /\ sp > SHADOW /\ mem[sp - SHADOW] = Eoe
    /\ n > 0 => sp = frames[n] + SHADOW + 1 /\ mem[sp - SHADOW] = Guest(n)

(* or the trap was reached, whose address is the word last popped. *)
InTrap ==
    /\ pc = Eoe /\ Len(frames) = 0 /\ hooks = {}
    /\ sp < StackDepth /\ mem[sp + 1] = Eoe

Nested ==
    state = "running" =>
        \E b \in {0, 1} : FramesInv(b) /\ (InFunction(b) \/ InHook(b) \/ InTrap)

StackPart == StackTypes /\ StackConsistent /\ Nested

(* The words are told apart by what they are. *)
LEMMA Words ==
    /\ \A n : Guest(n).k = "guest" /\ Guest(n).n = n /\ Hook(n).k = "hook" /\ Hook(n).n = n
    /\ Eoe.k = "eoe" /\ Junk.k = "junk"
BY DEF Guest, Hook, Eoe, Junk

(* The words the emulator writes. *)
LEMMA WordTypes ==
    /\ Eoe \in Word /\ Junk \in Word
    /\ \A n \in 0 .. MaxEvents + 1 : Guest(n) \in Word /\ Hook(n) \in Word
<1>1. MaxEvents \in Nat /\ Len(ModuleList) \in Nat /\ Len(ModuleList) # 0
  BY UefiAssumption, Places
<1>2. /\ 0 \in 0 .. MaxEvents + Len(ModuleList)
      /\ \A n \in 0 .. MaxEvents + 1 : n \in 0 .. MaxEvents + Len(ModuleList)
  BY <1>1
<1> QED BY <1>2 DEF Eoe, Junk, Guest, Hook, Word

(* The places of the stack. *)
LEMMA StackFacts ==
    ASSUME StackTypes
    PROVE  /\ SHADOW \in Nat /\ SHADOW >= 1 /\ StackDepth \in Nat /\ MaxEvents \in Nat
           /\ sp \in Nat /\ sp <= StackDepth /\ Len(frames) \in Nat
           /\ DOMAIN frames = 1 .. Len(frames)
           /\ \A i \in 1 .. Len(frames) : frames[i] \in 1 .. StackDepth
           /\ \A i \in 1 .. StackDepth : mem[i] \in Word
           /\ mem \in [1 .. StackDepth -> Word] /\ frames \in Seq(1 .. StackDepth)
<1>1. SHADOW \in Nat /\ SHADOW >= 1 /\ StackDepth \in Nat /\ MaxEvents \in Nat
  BY UefiAssumption
<1>2. frames \in Seq(1 .. StackDepth)
  BY DEF StackTypes
<1>3. /\ Len(frames) \in Nat /\ DOMAIN frames = 1 .. Len(frames)
      /\ \A i \in 1 .. Len(frames) : frames[i] \in 1 .. StackDepth
  BY <1>2, Places
<1>4. sp \in Nat /\ sp <= StackDepth
  BY <1>1 DEF StackTypes
<1>5. mem \in [1 .. StackDepth -> Word] /\ \A i \in 1 .. StackDepth : mem[i] \in Word
  BY DEF StackTypes
<1> QED BY <1>1, <1>2, <1>3, <1>4, <1>5

(* The shape of the stack makes control consistent. *)
LEMMA ShapeConsistent ==
    ASSUME StackTypes, NEW b \in {0, 1}, InFunction(b) \/ InHook(b) \/ InTrap
    PROVE  StackConsistent
<1>1. Len(frames) \in Nat /\ (frames = <<>> <=> Len(frames) = 0)
  BY Places DEF StackTypes
<1>2. CASE InFunction(b)
  <2>1. pc.k = "guest" /\ pc.n = Len(frames) /\ Len(frames) > 0 /\ sp = frames[Len(frames)]
    BY <1>2, Words DEF InFunction
  <2> QED BY <1>1, <2>1 DEF StackConsistent, Last
<1>3. CASE InHook(b)
  <2>1. pc.k = "hook" /\ pc.n = Len(frames) + b /\ hooks = 1 .. Len(frames) + b
        /\ (Len(frames) = 0 => b = 1)
    BY <1>3, Words DEF InHook
  <2>2. pc.n \in hooks
    BY <1>1, <2>1
  <2> QED BY <2>1, <2>2 DEF StackConsistent
<1>4. CASE InTrap
  <2>1. pc.k = "eoe" /\ Len(frames) = 0 /\ hooks = {}
    BY <1>4, Words DEF InTrap
  <2> QED BY <1>1, <2>1 DEF StackConsistent
<1> QED BY <1>2, <1>3, <1>4

(* The same of the next state. *)
LEMMA ShapeNext ==
    ASSUME StackTypes', NEW b \in {0, 1}, FramesInv(b)', InFunction(b)' \/ InHook(b)' \/ InTrap'
    PROVE  StackPart'
<1>1. StackConsistent'
  BY ShapeConsistent, PTL
<1> QED BY <1>1 DEF StackPart, Nested

(* What CallNative does to the stack. *)
LEMMA CallWrites ==
    ASSUME StackTypes, NEW s \in 0 .. StackDepth, NEW ret \in Word, CallNative(s, ret),
           Len(frames) <= MaxEvents, UNCHANGED hooks
    PROVE  /\ StackTypes' /\ s + SHADOW + 1 \in 1 .. StackDepth /\ sp' = s + SHADOW + 1
           /\ pc' = Guest(Len(frames) + 1)
           /\ \A k \in 1 .. s : mem'[k] = mem[k]
           /\ mem'[s + SHADOW + 1] = ret
           /\ Len(frames') = Len(frames) + 1 /\ DOMAIN frames' = 1 .. Len(frames) + 1
           /\ \A i \in 1 .. Len(frames) : frames'[i] = frames[i]
           /\ frames'[Len(frames) + 1] = s + SHADOW + 1
<1>1. /\ SHADOW \in Nat /\ SHADOW >= 1 /\ StackDepth \in Nat /\ MaxEvents \in Nat /\ Len(frames) \in Nat
      /\ frames \in Seq(1 .. StackDepth) /\ \A i \in 1 .. StackDepth : mem[i] \in Word
  BY StackFacts
<1> DEFINE f == s + SHADOW + 1
<1>2. f \in 1 .. StackDepth
  BY <1>1 DEF CallNative
<1>3. /\ mem' = [k \in 1 .. StackDepth |-> IF k <= s THEN mem[k] ELSE IF k = f THEN ret ELSE Junk]
      /\ sp' = f /\ frames' = Append(frames, f) /\ pc' = Guest(Len(frames) + 1)
  BY DEF CallNative
<1>4. f > s
  BY <1>1
<1> HIDE DEF f
<1>5. /\ frames' \in Seq(1 .. StackDepth) /\ Len(frames') = Len(frames) + 1
      /\ \A i \in 1 .. Len(frames) : frames'[i] = frames[i]
      /\ frames'[Len(frames) + 1] = f
  BY <1>1, <1>2, <1>3, AppendProperties
<1>6. DOMAIN frames' = 1 .. Len(frames) + 1
  BY <1>5, LenProperties
<1>7. mem' \in [1 .. StackDepth -> Word]
  BY <1>1, <1>3, WordTypes
<1>8. (\A k \in 1 .. s : mem'[k] = mem[k]) /\ mem'[f] = ret
  BY <1>1, <1>2, <1>3, <1>4
<1>9. pc' \in Word
  <2>1. Len(frames) + 1 \in 0 .. MaxEvents + 1
    BY <1>1
  <2> QED BY <1>3, <2>1, WordTypes
<1>10. sp' \in 0 .. StackDepth
  BY <1>1, <1>2, <1>3
<1>11. StackTypes'
  BY <1>5, <1>7, <1>9, <1>10 DEF StackTypes
<1> QED BY <1>2, <1>3, <1>5, <1>6, <1>8, <1>11 DEF f

(* The first frames are as they were if their part of the stack is. *)
LEMMA FramesStay ==
    ASSUME StackTypes, NEW b \in {0, 1}, NEW n \in Nat, n = Len(frames), FramesUpto(n, b),
           NEW m \in 0 .. n, \A i \in 1 .. m : frames'[i] = frames[i],
           m > 0 => \A k \in 1 .. frames[m] : mem'[k] = mem[k]
    PROVE  FramesUpto(m, b)'
<1>1. /\ SHADOW \in Nat /\ SHADOW >= 1 /\ StackDepth \in Nat
      /\ \A i \in 1 .. n : frames[i] \in 1 .. StackDepth
  BY StackFacts
<1>2. \A i, j \in 1 .. n : i < j => frames[i] + SHADOW + 2 <= frames[j]
  BY DEF FramesUpto
<1>3. \A i \in 1 .. n : frames[i] > SHADOW /\ mem[frames[i]] = ReturnWord(i + b)
  BY DEF FramesUpto
<1>4. \A i \in 1 .. n - 1 : frames[i + 1] = frames[i] + SHADOW + 2 /\ mem[frames[i] + 1] = Guest(i)
  BY DEF FramesUpto
<1>5. n > 0 /\ b = 1 => frames[1] > SHADOW + 1 /\ mem[frames[1] - SHADOW - 1] = Eoe
  BY DEF FramesUpto
<1>6. \A i, j \in 1 .. m : i < j => frames'[i] + SHADOW + 2 <= frames'[j]
  BY <1>2
<1>7. ASSUME NEW i \in 1 .. m
      PROVE  frames'[i] > SHADOW /\ mem'[frames'[i]] = ReturnWord(i + b)
  <2>1. /\ i \in 1 .. n /\ m \in 1 .. n /\ m > 0 /\ (i = m \/ i < m)
        /\ frames[i] \in 1 .. StackDepth /\ frames[m] \in 1 .. StackDepth
    BY <1>1
  <2>2. i < m => frames[i] + SHADOW + 2 <= frames[m]
    BY <1>2, <2>1
  <2>3. frames[i] \in 1 .. frames[m]
    BY <1>1, <2>1, <2>2
  <2> QED BY <1>3, <2>1, <2>3
<1>8. ASSUME NEW i \in 1 .. m - 1
      PROVE  frames'[i + 1] = frames'[i] + SHADOW + 2 /\ mem'[frames'[i] + 1] = Guest(i)
  <2>1. i \in 1 .. m /\ i + 1 \in 1 .. m /\ i \in 1 .. n - 1 /\ m > 0
    OBVIOUS
  <2>2. frames[i] + 1 \in 1 .. frames[m]
    <3>1. frames[i] + SHADOW + 2 <= frames[m]
      BY <1>2, <2>1
    <3>2. frames[i] \in Nat /\ frames[m] \in Nat /\ SHADOW \in Nat
      BY <1>1, <2>1
    <3> QED BY <3>1, <3>2
  <2> QED BY <1>4, <2>1, <2>2
<1>9. m > 0 /\ b = 1 => frames'[1] > SHADOW + 1 /\ mem'[frames'[1] - SHADOW - 1] = Eoe
  <2> SUFFICES ASSUME m > 0, b = 1 PROVE frames'[1] > SHADOW + 1 /\ mem'[frames'[1] - SHADOW - 1] = Eoe
    OBVIOUS
  <2>1. frames[1] > SHADOW + 1 /\ mem[frames[1] - SHADOW - 1] = Eoe /\ frames'[1] = frames[1]
    BY <1>5
  <2>2. frames[1] <= frames[m] /\ frames[1] \in Int /\ frames[m] \in Int
    BY <1>1, <1>2
  <2>3. frames[1] - SHADOW - 1 \in 1 .. frames[m]
    BY <1>1, <2>1, <2>2
  <2> QED BY <2>1, <2>3
<1> QED BY <1>6, <1>7, <1>8, <1>9 DEF FramesUpto

(* A hook calls the next notification. *)
LEMMA CallFromHook ==
    ASSUME StackTypes, NEW b \in {0, 1}, FramesInv(b), InHook(b),
           Len(called) \in Nat, Len(called') = Len(called) + 1,
           CallNative(sp - SHADOW, pc), UNCHANGED hooks
    PROVE  StackTypes' /\ FramesInv(b)' /\ InFunction(b)'
<1>0. PICK n \in Nat : n = Len(frames)
  BY StackFacts
<1> DEFINE s == sp - SHADOW
<1>1. /\ SHADOW \in Nat /\ SHADOW >= 1 /\ StackDepth \in Nat /\ MaxEvents \in Nat
      /\ sp \in Nat /\ sp <= StackDepth
      /\ \A i \in 1 .. n : frames[i] \in 1 .. StackDepth
  BY <1>0, StackFacts
<1>2. /\ pc = Hook(n + b) /\ hooks = 1 .. n + b
      /\ n = 0 => b = 1 /\ sp > SHADOW /\ mem[s] = Eoe
      /\ n > 0 => sp = frames[n] + SHADOW + 1 /\ mem[s] = Guest(n)
  BY <1>0 DEF InHook
<1>3. s \in 0 .. StackDepth /\ s >= 1 /\ s + SHADOW = sp /\ (n > 0 => s = frames[n] + 1)
  <2>1. CASE n = 0
    BY <1>1, <1>2, <2>1
  <2>2. CASE n > 0
    <3>1. frames[n] \in 1 .. StackDepth /\ sp = frames[n] + SHADOW + 1
      BY <1>1, <1>2, <2>2
    <3>2. SHADOW \in Nat /\ StackDepth \in Nat /\ sp \in Nat /\ sp <= StackDepth
      BY <1>1
    <3> DEFINE f == frames[n]
    <3>3. f \in 1 .. StackDepth /\ sp = f + SHADOW + 1
      BY <3>1
    <3> HIDE DEF f
    <3>4. s \in 0 .. StackDepth /\ s >= 1 /\ s + SHADOW = sp /\ s = f + 1
      BY <3>2, <3>3
    <3> QED BY <3>4 DEF f
  <2> QED BY <2>1, <2>2
<1>4. n <= MaxEvents
  <2>1. n + b \in hooks
    BY <1>2
  <2> QED BY <1>1, <2>1 DEF StackTypes
<1>5. pc \in Word
  BY DEF StackTypes
<1>6. /\ StackTypes' /\ s + SHADOW + 1 \in 1 .. StackDepth /\ sp' = s + SHADOW + 1
      /\ pc' = Guest(n + 1)
      /\ \A k \in 1 .. s : mem'[k] = mem[k]
      /\ mem'[s + SHADOW + 1] = pc
      /\ Len(frames') = n + 1
      /\ \A i \in 1 .. n : frames'[i] = frames[i]
      /\ frames'[n + 1] = s + SHADOW + 1
  <2> HIDE DEF s
  <2> QED BY <1>0, <1>3, <1>4, <1>5, CallWrites DEF s
<1> HIDE DEF s
<1>7. FramesUpto(n, b)'
  <2>1. n > 0 => \A k \in 1 .. frames[n] : mem'[k] = mem[k]
    <3> SUFFICES ASSUME n > 0, NEW k \in 1 .. frames[n] PROVE mem'[k] = mem[k]
      OBVIOUS
    <3>1. frames[n] \in Nat /\ s = frames[n] + 1
      BY <1>1, <1>3
    <3>2. k \in 1 .. s
      BY <3>1
    <3> QED BY <1>6, <3>2
  <2> QED BY <1>0, <1>6, <2>1, FramesStay DEF FramesInv
<1>8. FramesUpto(n + 1, b)'
  <2>1. ASSUME NEW i \in 1 .. n + 1, NEW j \in 1 .. n + 1, i < j
        PROVE  frames'[i] + SHADOW + 2 <= frames'[j]
    <3>1. CASE j = n + 1
      <4>1. i \in 1 .. n /\ n > 0
        BY <2>1, <3>1
      <4>2. frames'[n] + SHADOW + 2 = frames'[n + 1]
        <5>1. n \in 1 .. n
          BY <4>1
        <5>2. frames'[n] = frames[n] /\ frames'[n + 1] = s + SHADOW + 1
          BY <1>6, <5>1
        <5>3. s = frames[n] + 1 /\ frames[n] \in Nat /\ SHADOW \in Nat
          BY <1>1, <1>3, <4>1, <5>1
        <5> QED BY <5>2, <5>3
      <4>3. i < n => frames'[i] + SHADOW + 2 <= frames'[n]
        BY <1>7, <4>1 DEF FramesUpto
      <4>4. frames'[i] \in Int /\ frames'[n] \in Int
        <5>1. frames'[i] = frames[i] /\ frames'[n] = frames[n]
          BY <1>6, <4>1
        <5>2. frames[i] \in 1 .. StackDepth /\ frames[n] \in 1 .. StackDepth
          BY <1>1, <4>1
        <5> QED BY <5>1, <5>2
      <4>5. frames'[i] <= frames'[n]
        BY <1>1, <4>1, <4>3, <4>4
      <4> QED BY <1>1, <3>1, <4>2, <4>4, <4>5
    <3>2. CASE j # n + 1
      <4>1. i \in 1 .. n /\ j \in 1 .. n
        BY <2>1, <3>2
      <4> QED BY <1>7, <2>1, <4>1 DEF FramesUpto
    <3> QED BY <3>1, <3>2
  <2>2. \A i \in 1 .. n + 1 : i \in 1 .. n \/ i = n + 1
    OBVIOUS
  <2>3. frames'[n + 1] > SHADOW
    BY <1>1, <1>3, <1>6
  <2>4. mem'[frames'[n + 1]] = ReturnWord(n + 1 + b)
    <3>1. n + 1 + b # 1 /\ n + 1 + b - 1 = n + b
      BY <1>2
    <3>2. ReturnWord(n + 1 + b) = Hook(n + b)
      BY <3>1 DEF ReturnWord
    <3> QED BY <1>2, <1>6, <3>2
  <2>5. \A i \in 1 .. n + 1 : frames'[i] > SHADOW
    BY <1>7, <2>2, <2>3 DEF FramesUpto
  <2>6. \A i \in 1 .. n + 1 : mem'[frames'[i]] = ReturnWord(i + b)
    BY <1>7, <2>2, <2>4 DEF FramesUpto
  <2>7. ASSUME NEW i \in 1 .. n + 1 - 1
        PROVE  frames'[i + 1] = frames'[i] + SHADOW + 2 /\ mem'[frames'[i] + 1] = Guest(i)
    <3>1. CASE i = n
      <4>1. n > 0 /\ n \in 1 .. n /\ s \in 1 .. s
        BY <1>1, <1>3, <3>1
      <4>2. frames'[n + 1] = frames'[n] + SHADOW + 2 /\ mem'[frames'[n] + 1] = Guest(n)
        <5>1. frames'[n] = frames[n] /\ frames[n] \in Int /\ s = frames[n] + 1 /\ mem[s] = Guest(n)
          BY <1>1, <1>2, <1>3, <1>6, <4>1
        <5>2. mem'[s] = Guest(n) /\ frames'[n + 1] = s + SHADOW + 1
          BY <1>6, <4>1, <5>1
        <5>3. frames'[n] + 1 = s /\ frames'[n] + SHADOW + 2 = s + SHADOW + 1
          BY <1>1, <5>1
        <5> QED BY <5>2, <5>3
      <4> QED BY <3>1, <4>2
    <3>2. CASE i # n
      <4>1. i \in 1 .. n - 1
        BY <3>2
      <4> QED BY <1>7, <4>1 DEF FramesUpto
    <3> QED BY <3>1, <3>2
  <2>8. b = 1 => frames'[1] > SHADOW + 1 /\ mem'[frames'[1] - SHADOW - 1] = Eoe
    <3>1. CASE n > 0
      BY <1>7, <3>1 DEF FramesUpto
    <3>2. CASE n = 0
      <4>1. /\ frames'[1] = s + SHADOW + 1 /\ s + SHADOW + 1 > SHADOW + 1
            /\ s + SHADOW + 1 - SHADOW - 1 = s /\ s \in 1 .. s /\ mem[s] = Eoe
        <5>1. n + 1 = 1
          BY <3>2
        <5>2. frames'[1] = s + SHADOW + 1
          BY <1>6, <5>1
        <5>3. s + SHADOW + 1 > SHADOW + 1 /\ s + SHADOW + 1 - SHADOW - 1 = s /\ s \in 1 .. s
          BY <1>1, <1>3
        <5> QED BY <1>2, <3>2, <5>2, <5>3
      <4>2. mem'[s] = Eoe
        BY <1>6, <4>1
      <4>3. frames'[1] > SHADOW + 1 /\ frames'[1] - SHADOW - 1 = s
        <5> DEFINE f == frames'[1]
        <5>1. f = s + SHADOW + 1 /\ s \in Int /\ SHADOW \in Int /\ s >= 1
          BY <1>1, <1>3, <4>1
        <5> HIDE DEF f
        <5>2. f > SHADOW + 1 /\ f - SHADOW - 1 = s
          BY <5>1
        <5> QED BY <5>2 DEF f
      <4> QED BY <4>2, <4>3
    <3> QED BY <3>1, <3>2
  <2> QED BY <2>1, <2>5, <2>6, <2>7, <2>8 DEF FramesUpto
<1>9. InFunction(b)'
  <2>1. n + b <= Len(called) + 1
    BY <1>0 DEF InHook
  <2>2. n + 1 > 0 /\ n + 1 - 1 + b = n + b /\ n + b <= Len(called')
    BY <2>1
  <2>3. hooks' = 1 .. n + b
    BY <1>2
  <2>4. sp' = frames'[n + 1]
    BY <1>6
  <2> QED BY <1>6, <2>2, <2>3, <2>4 DEF InFunction
<1> QED BY <1>6, <1>8, <1>9 DEF FramesInv

(* The trap calls a module or an unload function, on a stack of its own. *)
LEMMA CallFromTrap ==
    ASSUME StackTypes, InTrap, NEW s \in {0, sp}, CallNative(s, Eoe), UNCHANGED hooks,
           Len(called') \in Nat
    PROVE  StackTypes' /\ FramesInv(0)' /\ InFunction(0)'
<1>1. /\ SHADOW \in Nat /\ SHADOW >= 1 /\ StackDepth \in Nat /\ MaxEvents \in Nat
      /\ Len(frames) = 0 /\ hooks = {} /\ s \in 0 .. StackDepth
  BY StackFacts DEF InTrap
<1>2. Len(frames) <= MaxEvents
  BY <1>1
<1>3. /\ StackTypes' /\ s + SHADOW + 1 \in 1 .. StackDepth /\ sp' = s + SHADOW + 1
      /\ pc' = Guest(Len(frames) + 1) /\ mem'[s + SHADOW + 1] = Eoe
      /\ Len(frames') = Len(frames) + 1 /\ frames'[Len(frames) + 1] = s + SHADOW + 1
  BY <1>1, <1>2, WordTypes, CallWrites
<1>4. Len(frames) + 1 = 1
  BY <1>1
<1>5. pc' = Guest(1) /\ Len(frames') = 1 /\ frames'[1] = s + SHADOW + 1 /\ mem'[frames'[1]] = Eoe
  BY <1>3, <1>4
<1>6. s + SHADOW + 1 > SHADOW
  BY <1>1
<1>7. frames'[1] > SHADOW
  BY <1>5, <1>6
<1>8. ReturnWord(1 + 0) = Eoe
  BY DEF ReturnWord
<1>9. FramesUpto(1, 0)'
  <2>1. \A i \in 1 .. 1 : i = 1
    OBVIOUS
  <2>2. 1 .. 1 - 1 = {}
    OBVIOUS
  <2>3. \A i \in 1 .. 1 : frames'[i] > SHADOW
    BY <1>7, <2>1
  <2>4. \A i \in 1 .. 1 : mem'[frames'[i]] = ReturnWord(i + 0)
    BY <1>5, <1>8, <2>1
  <2>5. \A i, j \in 1 .. 1 : i < j => frames'[i] + SHADOW + 2 <= frames'[j]
    BY <2>1
  <2>6. \A i \in 1 .. 1 - 1 : FALSE
    BY <2>2
  <2> QED BY <2>3, <2>4, <2>5, <2>6 DEF FramesUpto
<1>10. InFunction(0)'
  <2>1. 1 .. 1 - 1 + 0 = {} /\ 1 > 0 /\ 1 - 1 + 0 <= Len(called')
    OBVIOUS
  <2> QED BY <1>1, <1>3, <1>5, <2>1 DEF InFunction
<1> QED BY <1>3, <1>5, <1>9, <1>10 DEF FramesInv

(* The last hook of a drain goes back to what started it. *)
LEMMA HookEnds ==
    ASSUME StackTypes, NEW b \in {0, 1}, FramesInv(b), InHook(b),
           notify_list = <<>>, hooks' = hooks \ {pc.n}, pc' = mem[sp - SHADOW],
           sp' = sp - SHADOW - 1, UNCHANGED <<mem, frames, called>>, Len(called) \in Nat
    PROVE  StackTypes' /\ FramesInv(b)' /\ (InFunction(b)' \/ InTrap')
<1>0. PICK n \in Nat : n = Len(frames)
  BY StackFacts
<1>1. /\ SHADOW \in Nat /\ SHADOW >= 1 /\ StackDepth \in Nat /\ sp \in Nat /\ sp <= StackDepth
      /\ \A i \in 1 .. n : frames[i] \in 1 .. StackDepth
      /\ \A i \in 1 .. StackDepth : mem[i] \in Word
  BY <1>0, StackFacts
<1>2. /\ pc = Hook(n + b) /\ hooks = 1 .. n + b
      /\ n = 0 => b = 1 /\ sp > SHADOW /\ mem[sp - SHADOW] = Eoe
      /\ n > 0 => sp = frames[n] + SHADOW + 1 /\ mem[sp - SHADOW] = Guest(n)
  BY <1>0 DEF InHook
<1>3. n + b <= Len(called)
  BY <1>0 DEF InHook
<1>4. pc.n = n + b
  BY <1>2, Words
<1>5. hooks' = 1 .. n + b - 1
  BY <1>2, <1>4
<1>6. sp - SHADOW \in 1 .. StackDepth /\ sp' \in 0 .. StackDepth /\ sp' < StackDepth
      /\ sp' + 1 = sp - SHADOW
  BY <1>1, <1>2
<1>7. StackTypes'
  <2>1. pc' \in Word
    BY <1>1, <1>6
  <2> QED BY <1>6, <2>1 DEF StackTypes
<1>8. FramesInv(b)'
  BY DEF FramesInv, FramesUpto
<1>9. CASE n = 0
  <2>1. pc' = Eoe /\ Len(frames') = 0 /\ mem'[sp' + 1] = Eoe
    BY <1>0, <1>2, <1>6, <1>9
  <2>2. hooks' = {}
    BY <1>2, <1>5, <1>9
  <2> QED BY <1>6, <1>7, <1>8, <2>1, <2>2 DEF InTrap
<1>10. CASE n > 0
  <2>1. pc' = Guest(n) /\ Len(frames') = n
    BY <1>0, <1>2, <1>10
  <2>2. sp' = frames'[n]
    <3> DEFINE f == frames[n]
    <3>1. f \in Int /\ sp = f + SHADOW + 1 /\ SHADOW \in Int
      BY <1>1, <1>2, <1>10
    <3> HIDE DEF f
    <3>2. sp - SHADOW - 1 = f
      BY <3>1
    <3> QED BY <3>2 DEF f
  <2>3. n + b - 1 = n - 1 + b /\ n - 1 + b <= Len(called')
    BY <1>3
  <2> QED BY <1>5, <1>7, <1>8, <1>10, <2>1, <2>2, <2>3 DEF InFunction
<1> QED BY <1>9, <1>10

(* A function returns to the hook that called it, or to the trap. *)
LEMMA FunctionReturns ==
    ASSUME StackTypes, NEW b \in {0, 1}, FramesInv(b), InFunction(b),
           pc' = mem[sp], sp' = sp - 1, frames' = Front(frames),
           UNCHANGED <<hooks, mem, called, notify_list>>, Len(called) \in Nat
    PROVE  StackTypes' /\ FramesInv(b)' /\ (InHook(b)' \/ InTrap')
<1>0. PICK n \in Nat : n = Len(frames)
  BY StackFacts
<1>1. /\ SHADOW \in Nat /\ SHADOW >= 1 /\ StackDepth \in Nat /\ sp \in Nat /\ sp <= StackDepth
      /\ \A i \in 1 .. n : frames[i] \in 1 .. StackDepth
      /\ \A i \in 1 .. StackDepth : mem[i] \in Word
      /\ frames \in Seq(1 .. StackDepth)
  BY <1>0, StackFacts
<1>2. n > 0 /\ sp = frames[n] /\ hooks = 1 .. n - 1 + b /\ n - 1 + b <= Len(called)
  BY <1>0 DEF InFunction
<1>3. PICK m \in Nat : m = n - 1
  BY <1>2
<1>4. frames # <<>>
  BY <1>0, <1>1, <1>2, Places
<1>5. /\ frames' \in Seq(1 .. StackDepth) /\ Len(frames') = m
      /\ \A i \in 1 .. m : frames'[i] = frames[i]
  BY <1>0, <1>1, <1>3, <1>4, FrontIs
<1>6. FramesUpto(n, b)
  BY <1>0 DEF FramesInv
<1>7. FramesUpto(m, b)'
  <2>1. m \in 0 .. n
    BY <1>3
  <2> QED BY <1>0, <1>5, <1>6, <2>1, FramesStay
<1>8. sp \in 1 .. StackDepth /\ sp' + 1 = sp /\ sp' \in 0 .. StackDepth /\ sp' < StackDepth
  <2>1. sp \in 1 .. StackDepth
    BY <1>1, <1>2
  <2> QED BY <1>1, <2>1
<1>9. StackTypes'
  <2>1. pc' \in Word
    BY <1>1, <1>8
  <2> QED BY <1>5, <1>8, <2>1 DEF StackTypes
<1>10. pc' = ReturnWord(n + b)
  BY <1>2, <1>6 DEF FramesUpto
<1>11. hooks' = 1 .. m + b /\ m + b <= Len(called')
  BY <1>2, <1>3
<1>12. CASE m + b = 0
  <2>1. ReturnWord(n + b) = Eoe /\ n = 1 /\ b = 0 /\ m = 0
    <3>1. n + b = 1 /\ n = 1 /\ b = 0 /\ m = 0
      BY <1>2, <1>3, <1>12
    <3> QED BY <3>1 DEF ReturnWord
  <2>2. mem'[sp' + 1] = Eoe
    BY <1>8, <1>10, <2>1
  <2>3. hooks' = {}
    BY <1>11, <1>12
  <2> QED BY <1>5, <1>7, <1>8, <1>9, <1>10, <2>1, <2>2, <2>3 DEF InTrap, FramesInv
<1>13. CASE m + b # 0
  <2>1. ReturnWord(n + b) = Hook(m + b)
    <3>1. n + b # 1 /\ n + b - 1 = m + b
      BY <1>2, <1>3, <1>13
    <3> QED BY <3>1 DEF ReturnWord
  <2>2. m = 0 => b = 1 /\ sp' > SHADOW /\ mem'[sp' - SHADOW] = Eoe
    <3> SUFFICES ASSUME m = 0 PROVE b = 1 /\ sp' > SHADOW /\ mem'[sp' - SHADOW] = Eoe
      OBVIOUS
    <3>1. b = 1 /\ n = 1
      BY <1>3, <1>13
    <3>2. frames[1] > SHADOW + 1 /\ mem[frames[1] - SHADOW - 1] = Eoe
      BY <1>6, <3>1 DEF FramesUpto
    <3>3. sp' > SHADOW /\ sp' - SHADOW = frames[1] - SHADOW - 1
      BY <1>1, <1>2, <3>1, <3>2, SMTT(30)
    <3> QED BY <3>1, <3>2, <3>3
  <2>3. m > 0 => sp' = frames'[m] + SHADOW + 1 /\ mem'[sp' - SHADOW] = Guest(m)
    <3> SUFFICES ASSUME m > 0 PROVE sp' = frames'[m] + SHADOW + 1 /\ mem'[sp' - SHADOW] = Guest(m)
      OBVIOUS
    <3>1. m \in 1 .. n - 1 /\ m \in 1 .. n /\ m \in 1 .. m /\ m + 1 = n
      BY <1>3
    <3>2. frames[m + 1] = frames[m] + SHADOW + 2 /\ mem[frames[m] + 1] = Guest(m)
      BY <1>6, <3>1 DEF FramesUpto
    <3> DEFINE f == frames[m]
    <3>4. f \in Int /\ SHADOW \in Int /\ sp = f + SHADOW + 2
      <4>1. sp = frames[m + 1]
        BY <1>2, <3>1, Zenon
      <4>2. frames[m] \in Int /\ SHADOW \in Int
        BY <1>1, <3>1
      <4> QED BY <3>2, <4>1, <4>2
    <3> HIDE DEF f
    <3>5. sp' = f + SHADOW + 1 /\ sp' - SHADOW = f + 1
      BY <3>4
    <3>3. sp' = frames[m] + SHADOW + 1 /\ sp' - SHADOW = frames[m] + 1
      BY <3>5 DEF f
    <3> QED BY <1>5, <3>1, <3>2, <3>3
  <2>4. m + b <= Len(called') + (IF notify_list' = <<>> THEN 0 ELSE 1)
    BY <1>11
  <2>5. InHook(b)'
    BY <1>5, <1>10, <1>11, <2>1, <2>2, <2>3, <2>4 DEF InHook
  <2> QED BY <1>5, <1>7, <1>9, <2>5 DEF FramesInv
<1> QED BY <1>12, <1>13

(* The lowest address of the heap that has no hook, where the hooks are     *)
(* the first K.                                                             *)
LEMMA NextHook ==
    ASSUME NEW K \in Nat, NEW h \in 1 .. MaxEvents + 1,
           h \notin 1 .. K, \A g \in 1 .. h - 1 : g \in 1 .. K
    PROVE  h = K + 1 /\ (1 .. K) \cup {h} = 1 .. K + 1
<1>0. MaxEvents \in Nat
  BY UefiAssumption
<1>1. h > K
  BY <1>0
<1>2. h > 1 => h - 1 \in 1 .. K
  BY <1>0
<1>3. h = K + 1
  BY <1>0, <1>1, <1>2
<1> QED BY <1>3

(* A drain has a notification for every hook. *)
LEMMA RoomForHook ==
    ASSUME EventPart', state' # "raised", notify_list' # <<>>
    PROVE  Len(called') + 1 <= MaxEvents /\ Len(called') \in Nat
<1>1. /\ called' \in Seq(1 .. MaxEvents) /\ notify_list' \in Seq(EventType) /\ MaxEvents \in Nat
  BY UefiAssumption DEF EventPart, EventTypes
<1>2. Len(called') \in Nat /\ Len(notify_list') \in Nat /\ Len(notify_list') # 0
  <2>1. Len(called') \in Nat
    BY <1>1, Places
  <2>2. Len(notify_list') \in Nat /\ (notify_list' = <<>> <=> Len(notify_list') = 0)
    BY <1>1, Places
  <2> QED BY <2>1, <2>2
<1>3. Len(called') + Len(notify_list') <= MaxEvents
  <2>1. (state # "raised")'
    OBVIOUS
  <2>2. (Len(called) + Len(notify_list) <= MaxEvents)'
    BY <2>1, QueueBounded, PTL
  <2> QED BY <2>2
<1> QED BY <1>1, <1>2, <1>3

(* A service sets a drain going. *)
LEMMA HookStarts ==
    ASSUME StackTypes, NEW b \in {0, 1}, FramesInv(b), InFunction(b), DrainFromHook,
           EventPart', state' # "raised", notify_list' # <<>>, UNCHANGED <<called, frames>>
    PROVE  StackTypes' /\ FramesInv(b)' /\ InHook(b)'
<1>0. PICK n \in Nat : n = Len(frames)
  BY StackFacts
<1>1. /\ SHADOW \in Nat /\ SHADOW >= 1 /\ StackDepth \in Nat /\ sp \in Nat /\ sp <= StackDepth
      /\ \A i \in 1 .. n : frames[i] \in 1 .. StackDepth
      /\ mem \in [1 .. StackDepth -> Word] /\ frames \in Seq(1 .. StackDepth) /\ MaxEvents \in Nat
  BY <1>0, StackFacts
<1>2. n > 0 /\ pc = Guest(n) /\ sp = frames[n] /\ hooks = 1 .. n - 1 + b /\ n - 1 + b <= Len(called)
  BY <1>0 DEF InFunction
<1>3. Len(called) + 1 <= MaxEvents /\ Len(called) \in Nat
  BY RoomForHook
<1>4. PICK h \in 1 .. MaxEvents + 1 :
         /\ h \notin hooks /\ \A g \in 1 .. h - 1 : g \in hooks
         /\ hooks' = hooks \cup {h}
         /\ mem' = Push(Push(mem, sp, pc), sp + 1 + SHADOW, Hook(h))
         /\ sp' = sp + 1 + SHADOW
         /\ pc' = Hook(h)
  BY DEF DrainFromHook
<1>5. PICK K \in Nat : K = n - 1 + b
  BY <1>2
<1>6. h = K + 1 /\ hooks' = 1 .. K + 1
  <2>1. hooks = 1 .. K
    BY <1>2, <1>5
  <2> QED BY <1>4, <2>1, NextHook
<1>7. K + 1 = n + b /\ n + b <= MaxEvents /\ n + b <= Len(called) + 1
  <2>1. MaxEvents \in Int
    BY <1>1
  <2> QED BY <1>2, <1>3, <1>5, <2>1
<1>8. pc' = Hook(n + b) /\ hooks' = 1 .. n + b
  BY <1>4, <1>6, <1>7
<1>9. sp + 1 + SHADOW < StackDepth
  BY DEF DrainFromHook
<1>10. /\ mem' \in [1 .. StackDepth -> Word]
       /\ mem'[sp + 1] = Guest(n)
       /\ \A k \in 1 .. sp : mem'[k] = mem[k]
  <2>1. Guest(n) \in Word /\ Hook(h) \in Word
    <3>1. n \in 0 .. MaxEvents + 1 /\ h \in 0 .. MaxEvents + 1
      BY <1>1, <1>7
    <3> QED BY <3>1, WordTypes
  <2>2. mem' = [[mem EXCEPT ![sp + 1] = Guest(n)] EXCEPT ![sp + 1 + SHADOW + 1] = Hook(h)]
    BY <1>2, <1>4 DEF Push
  <2>3. /\ sp + 1 \in 1 .. StackDepth /\ sp + 1 + SHADOW + 1 \in 1 .. StackDepth
        /\ sp + 1 # sp + 1 + SHADOW + 1
        /\ \A k \in 1 .. sp : k \in 1 .. StackDepth /\ k # sp + 1 /\ k # sp + 1 + SHADOW + 1
    BY <1>1, <1>9
  <2> QED BY <1>1, <2>1, <2>2, <2>3
<1>11. StackTypes'
  <2>1. pc' \in Word
    <3>1. n + b \in 0 .. MaxEvents + 1
      BY <1>1, <1>7
    <3> QED BY <1>8, <3>1, WordTypes
  <2>2. sp' \in 0 .. StackDepth
    BY <1>1, <1>4, <1>9
  <2>3. hooks' \subseteq 1 .. MaxEvents
    BY <1>1, <1>7, <1>8
  <2> QED BY <1>1, <1>10, <2>1, <2>2, <2>3 DEF StackTypes
<1>12. FramesInv(b)'
  <2>1. FramesUpto(n, b)
    BY <1>0 DEF FramesInv
  <2>2. \A k \in 1 .. frames[n] : mem'[k] = mem[k]
    BY <1>2, <1>10
  <2>3. FramesUpto(n, b)'
    <3>1. n \in 0 .. n
      OBVIOUS
    <3> QED BY <1>0, <2>1, <2>2, <3>1, FramesStay
  <2> QED BY <1>0, <2>3 DEF FramesInv
<1>13. InHook(b)'
  <2>1. sp' = frames'[n] + SHADOW + 1 /\ sp' - SHADOW = sp + 1
    <3>1. sp' = sp + SHADOW + 1 /\ sp' - SHADOW = sp + 1
      BY <1>1, <1>4
    <3> QED BY <1>2, <3>1
  <2>2. n + b <= Len(called') + (IF notify_list' = <<>> THEN 0 ELSE 1)
    BY <1>7
  <2>3. Len(frames') = n /\ n # 0
    BY <1>0, <1>2
  <2>4. mem'[sp' - SHADOW] = Guest(n)
    BY <1>10, <2>1
  <2> QED BY <1>8, <2>1, <2>2, <2>3, <2>4 DEF InHook
<1> QED BY <1>11, <1>12, <1>13

(* The trap sets a drain going. *)
LEMMA TrapStarts ==
    ASSUME StackTypes, InTrap, DrainFromTrap,
           EventPart', state' # "raised", notify_list' # <<>>, UNCHANGED frames
    PROVE  StackTypes' /\ FramesInv(1)' /\ InHook(1)'
<1>1. /\ SHADOW \in Nat /\ SHADOW >= 1 /\ StackDepth \in Nat /\ sp \in Nat /\ sp <= StackDepth
      /\ mem \in [1 .. StackDepth -> Word] /\ frames \in Seq(1 .. StackDepth) /\ MaxEvents \in Nat
  BY StackFacts
<1>2. Len(frames) = 0 /\ hooks = {} /\ sp < StackDepth /\ mem[sp + 1] = Eoe
  BY DEF InTrap
<1>3. Len(called') + 1 <= MaxEvents /\ Len(called') \in Nat
  BY RoomForHook
<1>4. PICK h \in 1 .. MaxEvents + 1 :
         /\ h \notin hooks /\ \A g \in 1 .. h - 1 : g \in hooks
         /\ hooks' = hooks \cup {h}
         /\ mem' = Push(mem, sp + SHADOW, Eoe)
         /\ sp' = sp + SHADOW + 1
         /\ pc' = Hook(h)
  BY DEF DrainFromTrap
<1>5. h = 1
  <2>1. h > 1 => h - 1 \in 1 .. h - 1
    BY <1>1
  <2> QED BY <1>1, <1>2, <1>4, <2>1
<1>6. sp + SHADOW < StackDepth
  BY DEF DrainFromTrap
<1>7. mem' \in [1 .. StackDepth -> Word] /\ mem'[sp + 1] = Eoe
  <2>1. sp + SHADOW + 1 \in 1 .. StackDepth /\ sp + 1 \in 1 .. StackDepth
    BY <1>1, <1>2, <1>6
  <2>2. mem' = [mem EXCEPT ![sp + SHADOW + 1] = Eoe]
    BY <1>4 DEF Push
  <2> QED BY <1>1, <1>2, <2>1, <2>2, WordTypes
<1>8. pc' = Hook(1) /\ hooks' = 1 .. 1 /\ Len(frames') = 0
  BY <1>2, <1>4, <1>5
<1>9. StackTypes'
  <2>1. pc' \in Word /\ hooks' \subseteq 1 .. MaxEvents
    <3>1. 1 \in 0 .. MaxEvents + 1 /\ 1 .. 1 \subseteq 1 .. MaxEvents
      BY <1>1, <1>3
    <3> QED BY <1>8, <3>1, WordTypes
  <2>2. sp' \in 0 .. StackDepth
    BY <1>1, <1>4, <1>6
  <2> QED BY <1>1, <1>7, <2>1, <2>2 DEF StackTypes
<1>10. FramesUpto(0, 1)'
  BY DEF FramesUpto
<1>11. InHook(1)'
  <2>1. sp' > SHADOW /\ sp' - SHADOW = sp + 1
    BY <1>1, <1>4
  <2>2. 0 + 1 <= Len(called') + (IF notify_list' = <<>> THEN 0 ELSE 1) /\ 0 + 1 = 1
    BY <1>3
  <2>3. mem'[sp' - SHADOW] = Eoe
    BY <1>7, <2>1
  <2> QED BY <1>8, <2>1, <2>2, <2>3 DEF InHook
<1> QED BY <1>8, <1>9, <1>10, <1>11 DEF FramesInv

(* Which of the three it is shows in the program counter. *)
LEMMA Control ==
    ASSUME StackPart, state = "running"
    PROVE  \E b \in {0, 1} : /\ FramesInv(b)
                             /\ pc.k = "guest" => InFunction(b)
                             /\ pc.k = "hook" => InHook(b)
                             /\ pc.k = "eoe" => InTrap
<1>1. PICK b \in {0, 1} : FramesInv(b) /\ (InFunction(b) \/ InHook(b) \/ InTrap)
  BY DEF StackPart, Nested
<1>2. InFunction(b) => pc.k = "guest"
  BY Words DEF InFunction
<1>3. InHook(b) => pc.k = "hook"
  BY Words DEF InHook
<1>4. InTrap => pc.k = "eoe"
  BY Words DEF InTrap
<1>5. (pc.k = "guest" => InFunction(b)) /\ (pc.k = "hook" => InHook(b)) /\ (pc.k = "eoe" => InTrap)
  BY <1>1, <1>2, <1>3, <1>4
<1> QED BY <1>1, <1>5

(* A step that leaves the stack alone. *)
LEMMA StackRests ==
    ASSUME StackPart, UNCHANGED <<hooks, mem, sp, pc, frames, called>>,
           state' # "running" \/ (InGuest /\ UNCHANGED state)
    PROVE  StackPart'
<1>1. StackTypes'
  BY DEF StackPart, StackTypes
<1>2. StackConsistent'
  BY DEF StackPart, StackConsistent
<1>3. Nested'
  <2>1. CASE state' # "running"
    BY <2>1 DEF Nested
  <2>2. CASE InGuest /\ UNCHANGED state
    <3>1. PICK b \in {0, 1} : FramesInv(b) /\ InFunction(b)
      BY <2>2, Control DEF InGuest
    <3>2. FramesInv(b)'
      BY <3>1 DEF FramesInv, FramesUpto
    <3>3. InFunction(b)'
      BY <3>1 DEF InFunction
    <3> QED BY <3>2, <3>3 DEF Nested
  <2> QED BY <2>1, <2>2
<1> QED BY <1>1, <1>2, <1>3 DEF StackPart

-----------------------------------------------------------------------------
(* The whole invariant and its steps. *)

LoaderTypes ==
    /\ modules \in Seq(Modules) /\ images \in Seq(Modules)
    /\ unload \subseteq Modules /\ protocols \subseteq Modules \X Guids
    /\ state \in {"running", "stopped", "exited", "raised"}

UefiInv == LoaderTypes /\ EventPart /\ StackPart /\ StopClean

(* The images of a context are modules. *)
LEMMA ImagesAre ==
    ASSUME NEW S, NEW q \in Images(S)
    PROVE  q \in Seq(Modules)
<1>1. ModuleList \in Seq(Modules)
  BY UefiAssumption
<1>2. /\ Len(ModuleList) \in Nat /\ DOMAIN ModuleList = 1 .. Len(ModuleList)
      /\ \A k \in 1 .. Len(ModuleList) : ModuleList[k] \in Modules
  BY <1>1, Places
<1> DEFINE T == {k \in DOMAIN ModuleList : ModuleList[k] \in S}
<1>3. PICK o \in InOrder(T) : q = [k \in DOMAIN o |-> ModuleList[o[k]]]
  BY DEF Images
<1>4. T \in SUBSET (1 .. Len(ModuleList))
  BY <1>2
<1> HIDE DEF T
<1>5. DOMAIN o = 1 .. Len(o) /\ Len(o) \in Nat /\ \A i \in 1 .. Len(o) : o[i] \in T
  BY <1>2, <1>4, InOrderIs
<1>6. q \in [1 .. Len(o) -> Modules]
  BY <1>2, <1>3, <1>4, <1>5
<1> QED BY <1>5, <1>6, FunctionSeq

(* The initial states satisfy the invariant. *)
LEMMA UefiInitInv ==
    ASSUME UefiInit
    PROVE  UefiInv
<1>1. LoaderTypes
  <2>1. modules \in Seq(Modules)
    <3>1. ModuleList \in Seq(Modules) /\ ModuleList # <<>>
      BY UefiAssumption
    <3> QED BY <3>1, HeadTailProperties DEF UefiInit
  <2>2. images \in Seq(Modules)
    <3>1. PICK s \in Images(Smm), d \in Images(Modules \ Smm) : images = s \o d
      BY DEF UefiInit
    <3>2. s \in Seq(Modules) /\ d \in Seq(Modules)
      BY ImagesAre
    <3> QED BY <3>1, <3>2, ConcatProperties
  <2>3. protocols \subseteq Modules \X Guids
    BY UefiAssumption DEF UefiInit
  <2> QED BY <2>1, <2>2, <2>3 DEF UefiInit, LoaderTypes
<1>2. EventPart
  <2>1. <<>> \in Seq(EventType) /\ <<>> \in Seq(1 .. MaxEvents) /\ Len(<<>>) = 0
    BY EmptySeq
  <2>2. DOMAIN <<>> = {}
    OBVIOUS
  <2>3. created = 0 /\ 0 \in 0 .. MaxEvents
    BY UefiAssumption DEF UefiInit
  <2>4. EventTypes
    BY <2>1, <2>3 DEF UefiInit, EventTypes
  <2>5. EventInv
    BY <2>1, <2>2, <2>3 DEF UefiInit, EventInv
  <2>6. Objs(<<>>) = <<>>
    BY <2>2 DEF Objs
  <2>7. <<>> \o <<>> = <<>>
    BY <2>1, ConcatEmptySeq
  <2>8. DeliveredInOrder
    BY <2>2, <2>6, <2>7 DEF UefiInit, DeliveredInOrder, IsInjective
  <2> QED BY <2>4, <2>5, <2>8 DEF EventPart
<1>3. StackTypes
  <2>1. SHADOW + 1 \in 1 .. StackDepth /\ SHADOW + 1 \in 0 .. StackDepth
    BY UefiAssumption
  <2>2. <<SHADOW + 1>> \in Seq(1 .. StackDepth)
    BY <2>1
  <2>3. Guest(1) \in Word
    <3>1. 1 \in 0 .. MaxEvents + 1
      BY UefiAssumption
    <3> QED BY <3>1, WordTypes
  <2>4. mem \in [1 .. StackDepth -> Word]
    BY WordTypes DEF UefiInit
  <2> QED BY <2>1, <2>2, <2>3, <2>4 DEF UefiInit, StackTypes
<1>4. Len(frames) = 1 /\ frames[1] = SHADOW + 1
  BY DEF UefiInit
<1>5. FramesInv(0)
  <2>1. \A i \in 1 .. 1 : i = 1
    OBVIOUS
  <2>2. \A i \in 1 .. 1 - 1 : FALSE
    OBVIOUS
  <2>3. frames[1] > SHADOW /\ mem[frames[1]] = ReturnWord(1 + 0)
    <3>1. SHADOW + 1 > SHADOW /\ SHADOW + 1 \in 1 .. StackDepth
      BY UefiAssumption
    <3>2. mem[SHADOW + 1] = Eoe
      BY <3>1 DEF UefiInit
    <3>3. ReturnWord(1 + 0) = Eoe
      BY DEF ReturnWord
    <3> QED BY <1>4, <3>1, <3>2, <3>3
  <2>4. \A i \in 1 .. 1 : frames[i] > SHADOW
    BY <2>1, <2>3
  <2>5. \A i \in 1 .. 1 : mem[frames[i]] = ReturnWord(i + 0)
    BY <2>1, <2>3
  <2>6. \A i, j \in 1 .. 1 : i < j => frames[i] + SHADOW + 2 <= frames[j]
    BY <2>1
  <2> QED BY <1>4, <2>2, <2>4, <2>5, <2>6 DEF FramesInv, FramesUpto
<1>6. InFunction(0)
  <2>1. 1 .. 1 - 1 + 0 = {} /\ 1 > 0 /\ 1 - 1 + 0 <= 0
    OBVIOUS
  <2>2. Len(called) = 0
    BY EmptySeq DEF UefiInit
  <2> QED BY <1>4, <2>1, <2>2 DEF UefiInit, InFunction
<1>7. StackConsistent
  BY <1>3, <1>6, ShapeConsistent
<1> QED BY <1>1, <1>2, <1>3, <1>5, <1>6, <1>7 DEF UefiInv, StackPart, Nested, StopClean, UefiInit

(* A step that does not stop the emulation owes nothing to StopClean. *)
LEMMA NotStopped == ASSUME state' # "stopped" PROVE StopClean'
BY DEF StopClean

(* A step that leaves the events alone and raises no exception. *)
LEMMA EventsRest ==
    ASSUME EventPart, UNCHANGED <<events, created, notify_list, signalled, called>>,
           UNCHANGED state \/ state # "raised"
    PROVE  EventPart'
<1>1. EventTypes'
  BY DEF EventPart, EventTypes
<1>2. EventInv'
  BY DEF EventPart, EventInv
<1>3. (called \o Objs(notify_list) = signalled)' \/ state' = "raised"
  BY DEF EventPart, DeliveredInOrder, Objs
<1>4. IsInjective(signalled)'
  BY DEF EventPart, DeliveredInOrder, IsInjective
<1> QED BY <1>1, <1>2, <1>3, <1>4 DEF EventPart, DeliveredInOrder

(* The emulation ends where it is. *)
LEMMA StateOnly ==
    ASSUME EventPart, StackPart, LoaderTypes, UNCHANGED <<evars, lvars, svars>>,
           state # "raised", state' \in {"exited", "raised"}
    PROVE  UefiInv'
<1>1. EventPart'
  BY EventsRest DEF evars
<1>2. StackPart'
  BY StackRests DEF evars, svars
<1>3. LoaderTypes'
  BY DEF LoaderTypes, lvars
<1>4. StopClean'
  BY NotStopped
<1> QED BY <1>1, <1>2, <1>3, <1>4 DEF UefiInv

(* The services that make, signal and close events. *)
LEMMA EventServiceStep ==
    ASSUME UefiInv, EventService
    PROVE  UefiInv'
<1> USE DEF svars, lvars
<1>1. EventPart /\ StackPart /\ LoaderTypes
  BY DEF UefiInv
<1>2. ASSUME InGuest, UNCHANGED <<called, lvars, svars, state>>, EventPart' PROVE UefiInv'
  <2>1. LoaderTypes'
    BY <1>1, <1>2 DEF LoaderTypes
  <2>2. StackPart'
    BY <1>1, <1>2, StackRests
  <2>3. StopClean'
    BY <1>2, NotStopped DEF InGuest
  <2> QED BY <1>2, <2>1, <2>2, <2>3 DEF UefiInv
<1>3. CASE CreateEvent
  <2>1. EventPart'
    BY <1>1, <1>3, NewEventKeeps DEF CreateEvent
  <2> QED BY <1>2, <1>3, <2>1 DEF CreateEvent
<1>4. ASSUME NEW g \in Guids, SmmRegisterProtocolNotify(g) PROVE UefiInv'
  <2>1. EventPart'
    BY <1>1, <1>4, NewEventKeeps DEF SmmRegisterProtocolNotify
  <2> QED BY <1>2, <1>4, <2>1 DEF SmmRegisterProtocolNotify
<1>5. ASSUME NEW i \in 0 .. MaxEvents, NEW g \in Guids, RegisterProtocolNotify(i, g) PROVE UefiInv'
  <2>1. Alike(events')
    BY <1>1, <1>5, AlikeUpdates DEF RegisterProtocolNotify
  <2>2. EventPart'
    BY <1>1, <1>5, <2>1, AlikeKeeps DEF RegisterProtocolNotify
  <2> QED BY <1>2, <1>5, <2>2 DEF RegisterProtocolNotify
<1>6. ASSUME NEW i \in 0 .. MaxEvents, SignalEvent(i) PROVE UefiInv'
  <2>1. LoadedImage \in Guids
    BY UefiAssumption
  <2>2. Alike(events)
    BY <1>1, <2>1, AlikeUpdates
  <2>3. {k \in DOMAIN events : events[k].id = i} \in SUBSET (1 .. Len(events))
    BY <1>1, EventFacts
  <2>4. EventPart'
    BY <1>1, <1>6, <2>2, <2>3, SignalKeeps DEF SignalEvent
  <2> QED BY <1>2, <1>6, <2>4 DEF SignalEvent
<1>7. ASSUME NEW i \in 0 .. MaxEvents, CloseEvent(i) PROVE UefiInv'
  <2>1. PICK k \in DOMAIN events : events' = RemoveAt(events, k)
    BY <1>7 DEF CloseEvent
  <2>2. k \in 1 .. Len(events)
    BY <1>1, EventFacts
  <2>3. EventPart'
    BY <1>1, <1>7, <2>1, <2>2, CloseKeeps DEF CloseEvent
  <2> QED BY <1>2, <1>7, <2>3 DEF CloseEvent
<1>8. ASSUME NEW i \in 0 .. MaxEvents, CheckEvent(i) PROVE UefiInv'
  <2>1. state' = "raised" /\ UNCHANGED <<evars, lvars, svars>>
    BY <1>8 DEF CheckEvent
  <2>2. state # "raised"
    BY <1>8 DEF CheckEvent, InGuest
  <2> QED BY <1>1, <2>1, <2>2, StateOnly
<1> QED BY <1>3, <1>4, <1>5, <1>6, <1>7, <1>8 DEF EventService

(* The services that install protocols, and have notifications called. *)
LEMMA ProtocolServiceStep ==
    ASSUME UefiInv, ProtocolService
    PROVE  UefiInv'
<1> USE DEF svars
<1>1. EventPart /\ StackPart /\ LoaderTypes
  BY DEF UefiInv
<1>2. ASSUME InGuest, EventPart', UNCHANGED <<called, frames, state>>,
             UNCHANGED svars \/ (notify_list' # <<>> /\ DrainFromHook)
      PROVE  StackPart'
  <2>1. CASE UNCHANGED svars
    BY <1>1, <1>2, <2>1, StackRests
  <2>2. CASE notify_list' # <<>> /\ DrainFromHook
    <3>1. PICK b \in {0, 1} : FramesInv(b) /\ InFunction(b)
      BY <1>1, <1>2, Control DEF InGuest
    <3>2. state' # "raised" /\ StackTypes
      BY <1>1, <1>2 DEF InGuest, StackPart
    <3>3. StackTypes' /\ FramesInv(b)' /\ InHook(b)'
      BY <1>2, <2>2, <3>1, <3>2, HookStarts
    <3> QED BY <3>3, ShapeNext
  <2> QED BY <1>2, <2>1, <2>2
<1>3. ASSUME InGuest, UNCHANGED <<modules, images, unload, state>>, protocols' \subseteq Modules \X Guids,
             EventPart', StackPart'
      PROVE  UefiInv'
  <2>1. LoaderTypes'
    BY <1>1, <1>3 DEF LoaderTypes
  <2>2. StopClean'
    BY <1>3, NotStopped DEF InGuest
  <2> QED BY <1>3, <2>1, <2>2 DEF UefiInv
<1>4. ASSUME NEW h \in Handles, NEW gs \in SUBSET Guids
      PROVE  protocols \cup {<<h, g>> : g \in gs} \subseteq Modules \X Guids
  BY <1>1, UefiAssumption DEF LoaderTypes
<1>5. ASSUME NEW h \in Handles, NEW g \in Guids, InstallProtocolInterface(h, g) PROVE UefiInv'
  <2>1. Alike(Filled(g))
    BY <1>1, AlikeUpdates
  <2>2. {k \in DOMAIN events : events[k].guid = g} \in SUBSET (1 .. Len(events))
    BY <1>1, EventFacts
  <2>3. /\ InGuest /\ NotifyProtocol(g) /\ protocols' = protocols \cup {<<h, g>>}
        /\ UNCHANGED <<created, called, modules, images, unload, state>>
    BY <1>5 DEF InstallProtocolInterface
  <2>4. EventPart'
    BY <1>1, <2>1, <2>2, <2>3, SignalKeeps DEF NotifyProtocol
  <2>5. UNCHANGED svars \/ (notify_list' # <<>> /\ DrainFromHook /\ UNCHANGED frames)
    BY <2>3 DEF NotifyProtocol
  <2>6. StackPart'
    BY <1>2, <2>3, <2>4, <2>5
  <2>7. protocols' \subseteq Modules \X Guids
    BY <1>1, <2>3, UefiAssumption DEF LoaderTypes
  <2> QED BY <1>3, <2>3, <2>4, <2>6, <2>7
<1>6. ASSUME NEW h \in Handles, NEW gs \in SUBSET Guids, InstallMultipleProtocolInterfaces(h, gs)
      PROVE  UefiInv'
  <2>1. /\ InGuest /\ protocols' = protocols \cup {<<h, g>> : g \in gs}
        /\ UNCHANGED <<evars, modules, images, unload, state>>
        /\ UNCHANGED svars \/ (notify_list # <<>> /\ DrainFromHook /\ UNCHANGED frames)
    BY <1>6 DEF InstallMultipleProtocolInterfaces
  <2>2. EventPart'
    BY <1>1, <2>1, EventsRest DEF evars
  <2>3. StackPart'
    BY <1>2, <2>1, <2>2 DEF evars
  <2> QED BY <1>3, <1>4, <2>1, <2>2, <2>3
<1>7. ASSUME NEW h \in Handles, NEW g \in Guids, UninstallProtocolInterface(h, g) PROVE UefiInv'
  <2>1. /\ InGuest /\ protocols' = protocols \ {<<h, g>>}
        /\ UNCHANGED <<evars, modules, images, unload, svars, state>>
    BY <1>7 DEF UninstallProtocolInterface
  <2>2. EventPart'
    BY <1>1, <2>1, EventsRest DEF evars
  <2>3. StackPart'
    BY <1>2, <2>1, <2>2 DEF evars
  <2>4. protocols' \subseteq Modules \X Guids
    BY <1>1, <2>1 DEF LoaderTypes
  <2> QED BY <1>3, <2>1, <2>2, <2>3, <2>4
<1> QED BY <1>5, <1>6, <1>7 DEF ProtocolService

(* What the guest does by itself: a store to the Unload field of an image,  *)
(* a service that ends the emulation, the return of a function.             *)
LEMMA GuestStep ==
    ASSUME UefiInv, (\E m \in Modules : SetUnload(m)) \/ Exit \/ Return
    PROVE  UefiInv'
<1>1. EventPart /\ StackPart /\ LoaderTypes
  BY DEF UefiInv
<1>2. ASSUME NEW m \in Modules, SetUnload(m) PROVE UefiInv'
  <2>1. /\ InGuest /\ unload' = unload \cup {m}
        /\ UNCHANGED <<evars, modules, images, protocols, svars, state>>
    BY <1>2 DEF SetUnload
  <2>2. EventPart'
    BY <1>1, <2>1, EventsRest DEF evars
  <2>3. StackPart'
    BY <1>1, <2>1, StackRests DEF evars, svars
  <2>4. LoaderTypes'
    BY <1>1, <2>1 DEF LoaderTypes
  <2>5. StopClean'
    BY <2>1, NotStopped DEF InGuest
  <2> QED BY <2>2, <2>3, <2>4, <2>5 DEF UefiInv
<1>3. CASE Exit
  <2>1. state' = "exited" /\ state # "raised" /\ UNCHANGED <<evars, lvars, svars>>
    BY <1>3 DEF Exit, InGuest
  <2> QED BY <1>1, <2>1, StateOnly
<1>4. CASE Return
  <2>1. /\ InGuest /\ pc' = mem[sp] /\ sp' = sp - 1 /\ frames' = Front(frames)
        /\ UNCHANGED <<evars, lvars, hooks, mem, state>>
    BY <1>4 DEF Return
  <2>2. EventPart'
    BY <1>1, <2>1, EventsRest DEF evars
  <2>3. PICK b \in {0, 1} : FramesInv(b) /\ InFunction(b)
    BY <1>1, <2>1, Control DEF InGuest
  <2>4. StackTypes /\ Len(called) \in Nat
    BY <1>1, LenProperties DEF StackPart, EventPart, EventTypes
  <2>5. StackTypes' /\ FramesInv(b)' /\ (InHook(b)' \/ InTrap')
    BY <2>1, <2>3, <2>4, FunctionReturns DEF evars
  <2>6. StackPart'
    BY <2>5, ShapeNext
  <2>7. LoaderTypes'
    BY <1>1, <2>1 DEF LoaderTypes, lvars
  <2>8. StopClean'
    BY <2>1, NotStopped DEF InGuest
  <2> QED BY <2>2, <2>6, <2>7, <2>8 DEF UefiInv
<1> QED BY <1>2, <1>3, <1>4

(* The hook of a drain. *)
LEMMA HookStep ==
    ASSUME UefiInv, NotifyNext \/ NotifyDone
    PROVE  UefiInv'
<1>1. EventPart /\ StackPart /\ LoaderTypes
  BY DEF UefiInv
<1>2. state = "running" /\ pc.k = "hook" /\ UNCHANGED lvars /\ UNCHANGED <<events, created, signalled>>
  BY DEF NotifyNext, NotifyDone, evars
<1>3. PICK b \in {0, 1} : FramesInv(b) /\ InHook(b)
  BY <1>1, <1>2, Control
<1>4. StackTypes /\ called \in Seq(1 .. MaxEvents) /\ Len(called) \in Nat
  BY <1>1, LenProperties DEF StackPart, EventPart, EventTypes
<1>5. ASSUME EventPart', StackPart', state' \in {"running", "raised"} PROVE UefiInv'
  <2>1. LoaderTypes'
    BY <1>1, <1>2, <1>5 DEF LoaderTypes, lvars
  <2>2. StopClean'
    BY <1>5, NotStopped
  <2> QED BY <1>5, <2>1, <2>2 DEF UefiInv
<1>6. CASE NotifyNext /\ Head(notify_list).args
  <2>1. /\ notify_list # <<>> /\ notify_list' = Tail(notify_list)
        /\ called' = Append(called, Head(notify_list).obj)
        /\ CallNative(sp - SHADOW, pc) /\ UNCHANGED <<state, hooks>>
    BY <1>6 DEF NotifyNext
  <2>2. EventPart'
    BY <1>1, <1>2, <2>1, TakeKeeps
  <2>3. Len(called') = Len(called) + 1
    <3>1. Head(notify_list).obj \in 1 .. MaxEvents
      <4>1. Head(notify_list) \in EventType
        BY <1>1, <2>1, HeadTailProperties DEF EventPart, EventTypes
      <4> QED BY <4>1, EventFields
    <3> QED BY <1>4, <2>1, <3>1, AppendProperties
  <2>4. StackTypes' /\ FramesInv(b)' /\ InFunction(b)'
    BY <1>3, <1>4, <2>1, <2>3, CallFromHook
  <2>5. StackPart'
    BY <2>4, ShapeNext
  <2> QED BY <1>2, <1>5, <2>1, <2>2, <2>5
<1>7. CASE NotifyNext /\ ~ Head(notify_list).args
  <2>1. /\ notify_list # <<>> /\ notify_list' = Tail(notify_list)
        /\ state' = "raised" /\ sp' = sp - SHADOW
        /\ UNCHANGED <<called, mem, pc, frames, hooks>>
    BY <1>7 DEF NotifyNext
  <2>2. EventPart'
    BY <1>1, <1>2, <2>1, TakeKeeps
  <2>3. sp' \in 0 .. StackDepth
    <3>1. /\ SHADOW \in Nat /\ SHADOW >= 1 /\ StackDepth \in Nat /\ sp \in Nat /\ sp <= StackDepth
          /\ Len(frames) \in Nat /\ \A i \in 1 .. Len(frames) : frames[i] \in 1 .. StackDepth
      BY <1>4, StackFacts
    <3>2. sp > SHADOW
      <4>1. CASE Len(frames) = 0
        BY <1>3, <4>1 DEF InHook
      <4>2. CASE Len(frames) > 0
        <5> DEFINE f == frames[Len(frames)]
        <5>1. f \in 1 .. StackDepth /\ sp = f + SHADOW + 1
          BY <1>3, <3>1, <4>2 DEF InHook
        <5> HIDE DEF f
        <5> QED BY <3>1, <5>1
      <4> QED BY <3>1, <4>1, <4>2
    <3> QED BY <2>1, <3>1, <3>2
  <2>4. StackTypes'
    BY <1>4, <2>1, <2>3 DEF StackTypes
  <2>5. StackConsistent'
    BY <1>1, <1>2, <2>1 DEF StackPart, StackConsistent
  <2>6. Nested'
    BY <2>1 DEF Nested
  <2> QED BY <1>5, <2>1, <2>2, <2>4, <2>5, <2>6 DEF StackPart
<1>8. CASE NotifyDone
  <2>1. /\ notify_list = <<>> /\ hooks' = hooks \ {pc.n} /\ pc' = mem[sp - SHADOW]
        /\ sp' = sp - SHADOW - 1 /\ UNCHANGED <<evars, mem, frames, state>>
    BY <1>8 DEF NotifyDone
  <2>2. EventPart'
    BY <1>1, <2>1, EventsRest DEF evars
  <2>3. StackTypes' /\ FramesInv(b)' /\ (InFunction(b)' \/ InTrap')
    BY <1>3, <1>4, <2>1, HookEnds DEF evars
  <2>4. StackPart'
    BY <2>3, ShapeNext
  <2> QED BY <1>2, <1>5, <2>1, <2>2, <2>4
<1> QED BY <1>6, <1>7, <1>8

(* The trap. *)
LEMMA TrapStep ==
    ASSUME UefiInv, Trap
    PROVE  UefiInv'
<1>1. EventPart /\ StackPart /\ LoaderTypes
  BY DEF UefiInv
<1>2. state = "running" /\ pc.k = "eoe"
  BY DEF Trap, TrapNotifies, ExecuteNextModule, UnloadModule, UnloadRaises, TrapStops,
         TearDown, AtTrap
<1>3. InTrap /\ StackTypes /\ Len(called) \in Nat
  BY <1>1, <1>2, Control, LenProperties DEF StackPart, EventPart, EventTypes
<1>4. ASSUME UNCHANGED <<evars, state>>, StackPart', LoaderTypes' PROVE UefiInv'
  <2>1. EventPart'
    BY <1>1, <1>4, EventsRest DEF evars
  <2>2. StopClean'
    BY <1>2, <1>4, NotStopped
  <2> QED BY <1>4, <2>1, <2>2 DEF UefiInv
<1>5. ASSUME NEW s \in {0, sp}, CallNative(s, Eoe), UNCHANGED <<hooks, called>> PROVE StackPart'
  <2>1. StackTypes' /\ FramesInv(0)' /\ InFunction(0)'
    BY <1>3, <1>5, CallFromTrap
  <2> QED BY <2>1, ShapeNext
<1>6. CASE TrapNotifies
  <2>1. notify_list # <<>> /\ DrainFromTrap /\ UNCHANGED <<evars, lvars, frames, state>>
    BY <1>6 DEF TrapNotifies
  <2>2. EventPart'
    BY <1>1, <2>1, EventsRest DEF evars
  <2>3. notify_list' # <<>> /\ state' # "raised" /\ UNCHANGED called
    BY <1>2, <2>1 DEF evars
  <2>4. StackTypes' /\ FramesInv(1)' /\ InHook(1)'
    BY <1>3, <2>1, <2>2, <2>3, TrapStarts
  <2>5. StackPart'
    BY <2>4, ShapeNext
  <2>6. LoaderTypes'
    BY <1>1, <2>1 DEF LoaderTypes, lvars
  <2> QED BY <1>4, <2>1, <2>5, <2>6
<1>7. CASE ExecuteNextModule
  <2>1. /\ modules # <<>> /\ modules' = Tail(modules) /\ CallNative(0, Eoe)
        /\ UNCHANGED <<evars, images, unload, protocols, hooks, state>>
    BY <1>7 DEF ExecuteNextModule
  <2>2. StackPart'
    BY <1>5, <2>1 DEF evars
  <2>3. modules' \in Seq(Modules)
    BY <1>1, <2>1, HeadTailProperties DEF LoaderTypes
  <2>4. LoaderTypes'
    BY <1>1, <2>1, <2>3 DEF LoaderTypes
  <2> QED BY <1>4, <2>1, <2>2, <2>4
<1>8. ASSUME NEW i \in DOMAIN images, UnloadModule(i) PROVE UefiInv'
  <2>1. /\ CallNative(sp, Eoe) /\ images' = RemoveAt(images, i)
        /\ UNCHANGED <<evars, modules, unload, protocols, hooks, state>>
    BY <1>8 DEF UnloadModule
  <2>2. StackPart'
    BY <1>5, <2>1 DEF evars
  <2>3. images' \in Seq(Modules)
    <3>1. images \in Seq(Modules) /\ i \in 1 .. Len(images)
      BY <1>1, Places DEF LoaderTypes
    <3> QED BY <2>1, <3>1, RemoveAtIs
  <2>4. LoaderTypes'
    BY <1>1, <2>1, <2>3 DEF LoaderTypes
  <2> QED BY <1>4, <2>1, <2>2, <2>4
<1>9. ASSUME NEW i \in DOMAIN images, UnloadRaises(i) PROVE UefiInv'
  <2>1. state' = "raised" /\ UNCHANGED <<evars, lvars, svars>>
    BY <1>9 DEF UnloadRaises
  <2> QED BY <1>1, <1>2, <2>1, StateOnly
<1>10. CASE TrapStops
  <2>1. /\ notify_list = <<>> /\ modules = <<>> /\ Unloading = {} /\ state' = "stopped"
        /\ UNCHANGED <<evars, lvars, svars>>
    BY <1>10 DEF TrapStops, TearDown
  <2>2. EventPart'
    BY <1>1, <1>2, <2>1, EventsRest DEF evars
  <2>3. StackPart'
    BY <1>1, <2>1, StackRests DEF evars, svars
  <2>4. LoaderTypes'
    BY <1>1, <2>1 DEF LoaderTypes, lvars
  <2>5. frames = <<>> /\ hooks = {}
    BY <1>1, <1>2 DEF StackPart, StackConsistent
  <2>6. ToSet(images) \cap unload = {}
    BY <2>1 DEF ToSet, Unloading
  <2>7. StopClean'
    BY <2>1, <2>5, <2>6 DEF StopClean, evars, lvars, svars, ToSet
  <2> QED BY <2>2, <2>3, <2>4, <2>7 DEF UefiInv
<1> QED BY <1>6, <1>7, <1>8, <1>9, <1>10 DEF Trap

-----------------------------------------------------------------------------
(* The theorems. *)

(* A step that changes nothing keeps the invariant. *)
LEMMA UefiStutter ==
    ASSUME UefiInv, UNCHANGED uvars
    PROVE  UefiInv'
<1>1. LoaderTypes'
  BY DEF UefiInv, LoaderTypes, uvars
<1>2. EventPart'
  BY EventsRest DEF UefiInv, uvars
<1>3. StackTypes' /\ StackConsistent'
  BY DEF UefiInv, StackPart, StackTypes, StackConsistent, uvars
<1>4. Nested'
  <2> SUFFICES ASSUME state' = "running" PROVE Nested'
    BY DEF Nested
  <2>1. PICK b \in {0, 1} : FramesInv(b) /\ (InFunction(b) \/ InHook(b) \/ InTrap)
    BY DEF UefiInv, StackPart, Nested, uvars
  <2>2. FramesInv(b)'
    BY <2>1 DEF FramesInv, FramesUpto, uvars
  <2>3. InFunction(b)' \/ InHook(b)' \/ InTrap'
    BY <2>1 DEF InFunction, InHook, InTrap, uvars
  <2> QED BY <2>2, <2>3 DEF Nested
<1>5. StopClean'
  BY DEF UefiInv, StopClean, ToSet, uvars
<1> QED BY <1>1, <1>2, <1>3, <1>4, <1>5 DEF UefiInv, StackPart

(* The invariant holds throughout, for any modules, protocols, number of    *)
(* events and size of the stack.                                            *)
THEOREM AlwaysUefiInv == UefiSpec => []UefiInv
<1>1. UefiInit => UefiInv
  BY UefiInitInv
<1>2. UefiInv /\ [UefiNext]_uvars => UefiInv'
  <2> SUFFICES ASSUME UefiInv, [UefiNext]_uvars PROVE UefiInv'
    OBVIOUS
  <2>1. CASE EventService
    BY <2>1, EventServiceStep
  <2>2. CASE ProtocolService
    BY <2>2, ProtocolServiceStep
  <2>3. CASE (\E m \in Modules : SetUnload(m)) \/ Exit \/ Return
    BY <2>3, GuestStep
  <2>4. CASE NotifyNext \/ NotifyDone
    BY <2>4, HookStep
  <2>5. CASE Trap
    BY <2>5, TrapStep
  <2>6. CASE UNCHANGED uvars
    BY <2>6, UefiStutter
  <2> QED BY <2>1, <2>2, <2>3, <2>4, <2>5, <2>6 DEF UefiNext, Emulator
<1> QED BY <1>1, <1>2, PTL DEF UefiSpec

(* However callbacks, services and the trap nest their calls on the guest's *)
(* stack, no return reaches an address that is not one, and the function    *)
(* that goes on is the innermost one, with its own stack pointer            *)
(* (execute_protocol_notifications, call_native).                           *)
THEOREM StackAlwaysSound == UefiSpec => []StackSound
<1>1. UefiInv => StackSound
  BY DEF UefiInv, StackSound, UefiTypeOK, LoaderTypes, EventPart, EventTypes, StackPart, StackTypes
<1> QED BY <1>1, AlwaysUefiInv, PTL

(* No event is queued twice, and callbacks are called in the order of the   *)
(* signals (signal_event, notify_protocol, __notify_next).                  *)
THEOREM AlwaysDeliveredInOrder == UefiSpec => []DeliveredInOrder
<1>1. UefiInv => DeliveredInOrder
  BY DEF UefiInv, EventPart
<1> QED BY <1>1, AlwaysUefiInv, PTL

(* When the trap stops the emulation nothing is left to do                  *)
(* (__module_exit_trap, unload_modules).                                    *)
THEOREM StopsClean == UefiSpec => []StopClean
<1>1. UefiInv => StopClean
  BY DEF UefiInv
<1> QED BY <1>1, AlwaysUefiInv, PTL

(* A service that installs a protocol goes back to its caller only when     *)
(* all that was queued has been called (execute_protocol_notifications).    *)
THEOREM InstallAlwaysDelivers == UefiSpec => InstallDelivers
<1> DEFINE Back == /\ pc'.k = "guest" /\ Len(frames') = Len(frames)
                   /\ pc.k = "hook" \/ ~ protocols' \subseteq protocols
<1>1. ASSUME UefiInv, UefiNext, Back PROVE notify_list' = <<>>
  <2>1. CASE pc.k = "hook"
    <3>1. NotifyNext \/ NotifyDone
      BY <1>1, <2>1 DEF UefiNext, EventService, CreateEvent, SmmRegisterProtocolNotify,
         RegisterProtocolNotify, SignalEvent, CloseEvent, CheckEvent, ProtocolService,
         InstallProtocolInterface, InstallMultipleProtocolInterfaces, UninstallProtocolInterface,
         SetUnload, Exit, Return, Emulator, Trap, TrapNotifies, ExecuteNextModule,
         UnloadModule, UnloadRaises, TrapStops, TearDown, AtTrap, InGuest
    <3>2. CASE NotifyNext
      <4>1. pc' # pc
        BY <1>1, <2>1
      <4>2. CallNative(sp - SHADOW, pc)
        BY <3>2, <4>1 DEF NotifyNext
      <4>3. Len(frames') = Len(frames) + 1 /\ Len(frames) \in Nat
        <5>1. frames \in Seq(1 .. StackDepth)
          BY <1>1 DEF UefiInv, StackPart, StackTypes
        <5>2. frames' = Append(frames, sp - SHADOW + SHADOW + 1)
          BY <4>2 DEF CallNative
        <5>3. frames \in Seq(Int) /\ sp - SHADOW + SHADOW + 1 \in Int
          <6>1. sp \in Int /\ SHADOW \in Int
            BY <1>1, StackFacts DEF UefiInv, StackPart
          <6>2. \A i \in 1 .. Len(frames) : frames[i] \in Int
            BY <1>1, StackFacts DEF UefiInv, StackPart
          <6>3. frames \in [1 .. Len(frames) -> Int] /\ Len(frames) \in Nat
            BY <5>1, <6>2, LenProperties
          <6> QED BY <6>1, <6>3, FunctionSeq
        <5> QED BY <5>2, <5>3, AppendProperties, LenProperties
      <4> QED BY <1>1, <4>3
    <3>3. CASE NotifyDone
      BY <3>3 DEF NotifyDone, evars
    <3> QED BY <3>1, <3>2, <3>3
  <2>2. CASE ~ protocols' \subseteq protocols
    <3>1. PICK h \in Handles : \/ \E g \in Guids : InstallProtocolInterface(h, g)
                               \/ \E gs \in SUBSET Guids : InstallMultipleProtocolInterfaces(h, gs)
      BY <1>1, <2>2 DEF UefiNext, EventService, CreateEvent, SmmRegisterProtocolNotify,
         RegisterProtocolNotify, SignalEvent, CloseEvent, CheckEvent, ProtocolService,
         UninstallProtocolInterface, SetUnload, Exit, Return, Emulator, NotifyNext, NotifyDone,
         Trap, TrapNotifies, ExecuteNextModule, UnloadModule, UnloadRaises, TrapStops, lvars
    <3>2. \A x : pc' # Hook(x)
      BY <1>1, Words
    <3>3. ~ DrainFromHook
      BY <3>2 DEF DrainFromHook
    <3> QED BY <3>1, <3>3 DEF InstallProtocolInterface, NotifyProtocol,
                              InstallMultipleProtocolInterfaces, evars
  <2> QED BY <1>1, <2>1, <2>2
<1>2. UefiInv /\ [UefiNext]_uvars => [Back => notify_list' = <<>>]_uvars
  BY <1>1
<1> QED BY <1>2, AlwaysUefiInv, PTL DEF UefiSpec, InstallDelivers
=============================================================================
