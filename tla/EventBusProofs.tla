--------------------------- MODULE EventBusProofs ---------------------------
(* The invariants of EventBus, for any number of processes, streams and events. *)
EXTENDS EventBus, TLAPS

-----------------------------------------------------------------------------
(* Queues *)

\* What Append does to a queue of ids.
LEMMA AppendQueue ==
    ASSUME NEW s \in Seq(Nat), NEW e \in Nat
    PROVE  /\ Append(s, e) \in Seq(Nat)
           /\ ToSet(Append(s, e)) = ToSet(s) \cup {e}
  <1>1. Append(s, e) \in Seq(Nat) /\ Len(Append(s, e)) = Len(s) + 1
        /\ Append(s, e)[Len(s) + 1] = e
        /\ \A i \in 1..Len(s) : Append(s, e)[i] = s[i]
    OBVIOUS
  <1>2. DOMAIN s = 1..Len(s) /\ DOMAIN Append(s, e) = 1..(Len(s) + 1) /\ Len(s) \in Nat
    BY <1>1
  <1>3. ToSet(Append(s, e)) \subseteq ToSet(s) \cup {e}
    <2> SUFFICES ASSUME NEW i \in 1..(Len(s) + 1) PROVE Append(s, e)[i] \in ToSet(s) \cup {e}
      BY <1>2 DEF ToSet
    <2>1. CASE i = Len(s) + 1
      BY <1>1, <2>1
    <2>2. CASE i # Len(s) + 1
      <3>1. i \in 1..Len(s)
        BY <1>2, <2>2
      <3> QED BY <1>1, <1>2, <3>1 DEF ToSet
    <2> QED BY <2>1, <2>2
  <1>4. ToSet(s) \cup {e} \subseteq ToSet(Append(s, e))
    <2>1. \A i \in 1..Len(s) : i \in 1..(Len(s) + 1)
      BY <1>2
    <2>2. Len(s) + 1 \in 1..(Len(s) + 1)
      BY <1>2
    <2> QED BY <1>1, <1>2, <2>1, <2>2 DEF ToSet
  <1> QED BY <1>1, <1>3, <1>4

\* What Head and Tail do to a queue of ids.
LEMMA TailQueue ==
    ASSUME NEW s \in Seq(Nat), s # << >>
    PROVE  /\ Tail(s) \in Seq(Nat)
           /\ Head(s) \in Nat
           /\ ToSet(s) = {Head(s)} \cup ToSet(Tail(s))
  <1>1. Tail(s) \in Seq(Nat) /\ Len(s) \in Nat \ {0} /\ Len(Tail(s)) = Len(s) - 1
        /\ Head(s) = s[1] /\ \A i \in 1..(Len(s) - 1) : Tail(s)[i] = s[i + 1]
    OBVIOUS
  <1>2. DOMAIN s = 1..Len(s) /\ DOMAIN Tail(s) = 1..(Len(s) - 1)
    BY <1>1
  <1>3. ToSet(s) \subseteq {Head(s)} \cup ToSet(Tail(s))
    <2> SUFFICES ASSUME NEW i \in 1..Len(s) PROVE s[i] \in {Head(s)} \cup ToSet(Tail(s))
      BY <1>2 DEF ToSet
    <2>1. CASE i = 1
      BY <1>1, <2>1
    <2>2. CASE i # 1
      <3>1. i - 1 \in 1..(Len(s) - 1) /\ (i - 1) + 1 = i
        BY <1>1, <2>2
      <3>2. Tail(s)[i - 1] = s[i]
        BY <1>1, <3>1
      <3> QED BY <1>2, <3>1, <3>2 DEF ToSet
    <2> QED BY <2>1, <2>2
  <1>4. {Head(s)} \cup ToSet(Tail(s)) \subseteq ToSet(s)
    <2>1. 1 \in DOMAIN s /\ \A i \in 1..(Len(s) - 1) : i + 1 \in DOMAIN s
      BY <1>1, <1>2
    <2> QED BY <1>1, <1>2, <2>1 DEF ToSet
  <1>5. Head(s) \in Nat
    BY <1>1, <1>2
  <1> QED BY <1>1, <1>3, <1>4, <1>5

LEMMA EmptyQueue == << >> \in Seq(Nat) /\ ToSet(<< >>) = {} /\ \A s \in Seq(Nat) : s # << >> => Head(s) \in ToSet(s)
  <1>1. << >> \in Seq(Nat) /\ DOMAIN << >> = {}
    OBVIOUS
  <1>2. \A s \in Seq(Nat) : s # << >> => Head(s) \in ToSet(s)
    BY TailQueue
  <1> QED BY <1>1, <1>2 DEF ToSet

\* Queue s has the ids in the order of their publication, source by source.
Ordered(s, ev) ==
    \A i, j \in DOMAIN s : i < j /\ ev[s[i]].src = ev[s[j]].src => s[i] < s[j]

\* Every id of A that has the source of an id of B is below it.
Below(A, B, ev) == \A x \in A, y \in B : ev[x].src = ev[y].src => x < y

LEMMA OrderedAppend ==
    ASSUME NEW s \in Seq(Nat), NEW e \in Nat, NEW ev,
           Ordered(s, ev), Below(ToSet(s), {e}, ev)
    PROVE  Ordered(Append(s, e), ev)
  <1>1. Append(s, e)[Len(s) + 1] = e /\ \A i \in 1..Len(s) : Append(s, e)[i] = s[i]
    OBVIOUS
  <1>2. DOMAIN s = 1..Len(s) /\ DOMAIN Append(s, e) = 1..(Len(s) + 1) /\ Len(s) \in Nat
    OBVIOUS
  <1> SUFFICES ASSUME NEW i \in 1..(Len(s) + 1), NEW j \in 1..(Len(s) + 1), i < j,
                      ev[Append(s, e)[i]].src = ev[Append(s, e)[j]].src
               PROVE  Append(s, e)[i] < Append(s, e)[j]
    BY <1>2 DEF Ordered
  <1>3. i \in 1..Len(s)
    BY <1>2
  <1>4. CASE j = Len(s) + 1
    <2>1. s[i] \in ToSet(s)
      BY <1>2, <1>3 DEF ToSet
    <2> QED BY <1>1, <1>3, <1>4, <2>1 DEF Below
  <1>5. CASE j \in 1..Len(s)
    BY <1>1, <1>2, <1>3, <1>5 DEF Ordered
  <1> QED BY <1>2, <1>4, <1>5

LEMMA OrderedTail ==
    ASSUME NEW s \in Seq(Nat), NEW ev, s # << >>, Ordered(s, ev)
    PROVE  Ordered(Tail(s), ev) /\ Below({Head(s)}, ToSet(Tail(s)), ev)
  <1>1. Len(s) \in Nat \ {0} /\ Len(Tail(s)) = Len(s) - 1
        /\ Head(s) = s[1] /\ \A i \in 1..(Len(s) - 1) : Tail(s)[i] = s[i + 1]
    OBVIOUS
  <1>2. DOMAIN s = 1..Len(s) /\ DOMAIN Tail(s) = 1..(Len(s) - 1)
    BY <1>1
  <1>3. 1 \in DOMAIN s /\ \A i \in 1..(Len(s) - 1) : i + 1 \in DOMAIN s /\ 1 < i + 1
    BY <1>1, <1>2
  <1>4. Ordered(Tail(s), ev)
    <2> SUFFICES ASSUME NEW i \in 1..(Len(s) - 1), NEW j \in 1..(Len(s) - 1), i < j,
                        ev[Tail(s)[i]].src = ev[Tail(s)[j]].src
                 PROVE  Tail(s)[i] < Tail(s)[j]
      BY <1>2 DEF Ordered
    <2>1. i + 1 < j + 1
      BY <1>1
    <2> QED BY <1>1, <1>3, <2>1 DEF Ordered
  <1>5. Below({Head(s)}, ToSet(Tail(s)), ev)
    <2> SUFFICES ASSUME NEW i \in 1..(Len(s) - 1), ev[Head(s)].src = ev[Tail(s)[i]].src
                 PROVE  Head(s) < Tail(s)[i]
      BY <1>2 DEF Below, ToSet
    <2> QED BY <1>1, <1>3 DEF Ordered
  <1> QED BY <1>4, <1>5

LEMMA OrderedEmpty == \A ev : Ordered(<< >>, ev)
  <1>1. DOMAIN << >> = {}
    OBVIOUS
  <1> QED BY <1>1 DEF Ordered

\* The order is of the events that are in the queue: later ones do not disturb it.
LEMMA OrderedKept ==
    ASSUME NEW s, NEW ev, NEW ev2, \A x \in ToSet(s) : ev2[x] = ev[x], Ordered(s, ev)
    PROVE  Ordered(s, ev2)
  BY DEF Ordered, ToSet

LEMMA BelowKept ==
    ASSUME NEW A, NEW B, NEW ev, NEW ev2, \A x \in A \cup B : ev2[x] = ev[x], Below(A, B, ev)
    PROVE  Below(A, B, ev2)
  BY DEF Below

-----------------------------------------------------------------------------
(* Types *)

Ids == 1..Len(events)
Kinds == {"review", "other", "created"}
Event == [src : Processes, kind : Kinds, task : Tasks]

\* One event more, and the ones before as they were.
LEMMA EventAdded ==
    ASSUME events \in Seq(Event), NEW event \in Event, events' = Append(events, event)
    PROVE  /\ events' \in Seq(Event)
           /\ Len(events) + 1 \in Nat
           /\ Published' = Published \cup {Len(events) + 1}
           /\ Len(events) + 1 \notin Published
           /\ \A x \in Published : x \in Nat /\ x < Len(events) + 1 /\ events'[x] = events[x]
           /\ events'[Len(events) + 1] = event
  <1>1. Len(events) \in Nat /\ DOMAIN events = 1..Len(events)
    OBVIOUS
  <1>2. events' \in Seq(Event) /\ Len(events') = Len(events) + 1
        /\ DOMAIN events' = 1..(Len(events) + 1)
        /\ events'[Len(events) + 1] = event
        /\ \A x \in 1..Len(events) : events'[x] = events[x]
    OBVIOUS
  <1> QED BY <1>1, <1>2 DEF Published

\* What publishing adds has the types of the variables it is added to.
LEMMA PublishTypes ==
    ASSUME TypeOK, NEW p \in Processes, NEW event \in Event, NEW big \in BOOLEAN,
           PublishBy(p, event, big)
    PROVE  /\ events' \in Seq(Event)
           /\ Published' = Published \cup {Len(events) + 1}
           /\ Len(events) + 1 \in Nat
           /\ made' \in Seq(Nat) /\ Len(made') = Len(events')
           /\ fed' \in [Streams -> Seq(Nat)] /\ \A s \in Streams : ToSet(fed'[s]) \subseteq Published'
           /\ \A queue \in {inbox', waiting', mail'} :
                /\ queue \in [Processes -> Seq(Nat)]
                /\ \A q \in Processes : ToSet(queue[q]) \subseteq Published'
           /\ owed' \in [Streams -> SUBSET (Published')]
           /\ at' = at /\ attached' = attached
  <1> DEFINE e == Len(events) + 1
  <1>1. /\ events' \in Seq(Event) /\ Published' = Published \cup {e} /\ e \in Nat
    BY EventAdded DEF PublishBy, TypeOK, Event, Kinds
  <1>2. made' \in Seq(Nat) /\ Len(made') = Len(events')
    <2>1. events \in Seq(Event) /\ made \in Seq(Nat) /\ Len(made) = Len(events)
          /\ events' = Append(events, event) /\ made' = Append(made, 0)
      BY DEF TypeOK, Event, Kinds, PublishBy
    <2> QED BY <2>1
  <1>3. \A s \in Streams : Append(fed[s], e) \in Seq(Nat) /\ ToSet(Append(fed[s], e)) = ToSet(fed[s]) \cup {e}
    BY <1>1, AppendQueue DEF TypeOK
  <1>4. fed' \in [Streams -> Seq(Nat)] /\ \A s \in Streams : ToSet(fed'[s]) \subseteq Published'
    BY <1>1, <1>3 DEF PublishBy, Feed, TypeOK
  <1>5. \A q \in Processes : /\ inbox[q] \in Seq(Nat) /\ ToSet(inbox[q]) \subseteq Published
                             /\ waiting[q] \in Seq(Nat) /\ ToSet(waiting[q]) \subseteq Published
                             /\ mail[q] \in Seq(Nat) /\ ToSet(mail[q]) \subseteq Published
    BY DEF TypeOK
  <1>6. /\ Append(inbox[p], e) \in Seq(Nat) /\ ToSet(Append(inbox[p], e)) = ToSet(inbox[p]) \cup {e}
        /\ Append(waiting[p], e) \in Seq(Nat) /\ ToSet(Append(waiting[p], e)) = ToSet(waiting[p]) \cup {e}
    BY <1>1, <1>5, AppendQueue
  <1>7. inbox' \in [Processes -> Seq(Nat)] /\ \A q \in Processes : ToSet(inbox'[q]) \subseteq Published'
    BY <1>1, <1>5, <1>6 DEF PublishBy, TypeOK
  <1>8. waiting' \in [Processes -> Seq(Nat)] /\ \A q \in Processes : ToSet(waiting'[q]) \subseteq Published'
    <2>1. CASE big
      BY <1>1, <1>5, <2>1 DEF PublishBy, TypeOK
    <2>2. CASE ~big
      BY <1>1, <1>5, <1>6, <2>2 DEF PublishBy, TypeOK
    <2> QED BY <2>1, <2>2
  <1>9. mail' \in [Processes -> Seq(Nat)] /\ \A q \in Processes : ToSet(mail'[q]) \subseteq Published'
    BY <1>1, <1>5 DEF PublishBy, TypeOK
  <1>10. owed' \in [Streams -> SUBSET (Published')]
    BY <1>1 DEF PublishBy, TypeOK
  <1>11. at' = at /\ attached' = attached
    BY DEF PublishBy
  <1> QED BY <1>1, <1>2, <1>4, <1>7, <1>8, <1>9, <1>10, <1>11

\* A row more for an event that was published.
LEMMA RowTypes ==
    ASSUME TypeOK, NEW e \in Published, MakeRow(e)
    PROVE  /\ made' \in Seq(Nat) /\ Len(made') = Len(events) /\ unread' \subseteq Published
           /\ made[e] = 0 => made'[e] = 1
           /\ \A x \in Published : x # e => made'[x] = made[x]
  <1>1. /\ made \in Seq(Nat) /\ Len(made) = Len(events) /\ events \in Seq(Event)
        /\ made' = [made EXCEPT ![e] = @ + 1]
    BY DEF TypeOK, MakeRow, Event, Kinds
  <1>2. /\ DOMAIN made' = 1..Len(made) /\ Len(made) \in Nat
        /\ Published = 1..Len(made) /\ \A i \in 1..Len(made) : made[i] \in Nat
    BY <1>1 DEF Published
  <1>3. \A i \in 1..Len(made) : made'[i] \in Nat
    BY <1>1, <1>2
  <1>4. made' = [i \in 1..Len(made) |-> made'[i]]
    BY <1>1, <1>2
  <1>5. made' \in Seq(Nat) /\ Len(made') = Len(events)
    BY <1>1, <1>2, <1>3, <1>4
  <1>6. /\ made[e] = 0 => made'[e] = 1
        /\ \A x \in Published : x # e => made'[x] = made[x]
    BY <1>1, <1>2
  <1> QED BY <1>5, <1>6 DEF TypeOK, MakeRow

LEMMA TypeInit == Init => TypeOK
  <1> SUFFICES ASSUME Init PROVE TypeOK
    OBVIOUS
  <1>1. /\ events \in Seq([src : Processes, kind : {"review", "other", "created"}, task : Tasks])
        /\ Published = {} /\ made \in Seq(Nat) /\ Len(made) = Len(events)
    BY DEF Init, Published
  <1>2. fed \in [Streams -> Seq(Nat)] /\ \A s \in Streams : ToSet(fed[s]) \subseteq Published
    BY EmptyQueue DEF Init
  <1>3. \A queue \in {inbox, waiting, mail} :
          /\ queue \in [Processes -> Seq(Nat)]
          /\ \A p \in Processes : ToSet(queue[p]) \subseteq Published
    BY EmptyQueue DEF Init
  <1>4. doing \in [Processes -> [step : {"idle", "announce", "send"}, id : Nat]]
        /\ \A p \in Processes : doing[p].step = "idle"
    BY DEF Init, Nothing
  <1>5. faults \in 0..MaxFaults
    BY BusAssumption DEF Init
  <1> QED BY <1>1, <1>2, <1>3, <1>4, <1>5 DEF Init, TypeOK

LEMMA TypeStep == TypeOK /\ [Next]_vars => TypeOK'
  <1> SUFFICES ASSUME TypeOK, [Next]_vars PROVE TypeOK'
    OBVIOUS
  <1> USE BusAssumption
  <1>q. \A p \in Processes : /\ inbox[p] \in Seq(Nat) /\ ToSet(inbox[p]) \subseteq Published
                             /\ waiting[p] \in Seq(Nat) /\ ToSet(waiting[p]) \subseteq Published
                             /\ mail[p] \in Seq(Nat) /\ ToSet(mail[p]) \subseteq Published
    BY DEF TypeOK
  <1>f. \A s \in Streams : fed[s] \in Seq(Nat) /\ ToSet(fed[s]) \subseteq Published
    BY DEF TypeOK
  <1>h. \A p \in Processes, queue \in {inbox, waiting, mail} : queue[p] # << >> =>
           /\ Tail(queue[p]) \in Seq(Nat) /\ ToSet(Tail(queue[p])) \subseteq Published
           /\ Head(queue[p]) \in Published /\ Head(queue[p]) \in Nat
    BY <1>q, TailQueue
  <1>1. ASSUME NEW p \in Processes, NEW kind \in {"review", "other"}, NEW t \in Tasks \ gone,
               NEW big \in BOOLEAN, Publish(p, kind, t, big)
        PROVE  TypeOK'
    <2> DEFINE event == [src |-> p, kind |-> kind, task |-> t]
    <2>1. event \in Event /\ PublishBy(p, event, big)
      BY <1>1 DEF Publish, Event, Kinds, TypeOK
    <2>2. promised' \in Nat
      BY <1>1 DEF Publish, TypeOK
    <2>3. UNCHANGED <<doing, gone, unread, failed, faults>>
      BY <1>1 DEF Publish, notes
    <2>4. \A q \in Processes : doing[q].step # "idle" => doing[q].id \in Published'
      <3>1. Published \subseteq Published'
        BY <2>1, PublishTypes
      <3> QED BY <3>1 DEF TypeOK
    <2> HIDE DEF event
    <2>5. /\ events' \in Seq(Event) /\ made' \in Seq(Nat) /\ Len(made') = Len(events')
          /\ Published' = Published \cup {Len(events) + 1}
      BY <2>1, PublishTypes
    <2>6. fed' \in [Streams -> Seq(Nat)] /\ \A s \in Streams : ToSet(fed'[s]) \subseteq Published'
      BY <2>1, PublishTypes
    <2>7. \A queue \in {inbox', waiting', mail'} :
             /\ queue \in [Processes -> Seq(Nat)]
             /\ \A q \in Processes : ToSet(queue[q]) \subseteq Published'
      BY <2>1, PublishTypes
    <2>8. owed' \in [Streams -> SUBSET (Published')] /\ at' = at /\ attached' = attached
      BY <2>1, PublishTypes
    <2>9. /\ events' \in Seq([src : Processes, kind : {"review", "other", "created"}, task : Tasks])
          /\ made' \in Seq(Nat) /\ Len(made') = Len(events')
      BY <2>5 DEF Event, Kinds
    <2>10. /\ at' \in [Streams -> Processes \cup {Off}] /\ attached' \in [Processes -> BOOLEAN]
           /\ doing' \in [Processes -> [step : {"idle", "announce", "send"}, id : Nat]]
           /\ \A q \in Processes : doing'[q].step # "idle" => doing'[q].id \in Published'
           /\ faults' \in 0..MaxFaults
      BY <2>3, <2>4, <2>8 DEF TypeOK
    <2>11. gone' \subseteq Tasks /\ unread' \subseteq Published' /\ failed' \subseteq Published'
      BY <2>3, <2>5 DEF TypeOK
    <2> QED BY <2>2, <2>6, <2>7, <2>8, <2>9, <2>10, <2>11 DEF TypeOK
  <1>2. ASSUME NEW p \in Processes, Notify(p) PROVE TypeOK'
    <2> DEFINE e == Head(waiting[p])
    <2>1. /\ Tail(waiting[p]) \in Seq(Nat) /\ ToSet(Tail(waiting[p])) \subseteq Published
          /\ e \in Published /\ e \in Nat
      BY <1>2, <1>h DEF Notify
    <2>2. waiting' \in [Processes -> Seq(Nat)] /\ \A q \in Processes : ToSet(waiting'[q]) \subseteq Published
      BY <1>2, <1>q, <2>1 DEF Notify, Returned, TypeOK
    <2>3. \A q \in Processes : Append(mail[q], e) \in Seq(Nat) /\ ToSet(Append(mail[q], e)) \subseteq Published
      BY <1>q, <2>1, AppendQueue
    <2>4. mail' \in [Processes -> Seq(Nat)] /\ \A q \in Processes : ToSet(mail'[q]) \subseteq Published
      BY <1>2, <1>q, <2>3 DEF Notify
    <2>5. doing' \in [Processes -> [step : {"idle", "announce", "send"}, id : Nat]]
          /\ \A q \in Processes : doing'[q].step # "idle" => doing'[q].id \in Published
      BY <1>2 DEF Notify, Returned, Nothing, TypeOK
    <2>6. owed' \in [Streams -> SUBSET Published]
      BY <1>2 DEF Notify, Loses, TypeOK
    <2> QED BY <1>2, <2>2, <2>4, <2>5, <2>6 DEF Notify, TypeOK, notes, Published
  <1>3. ASSUME NEW p \in Processes, NotifyFails(p) PROVE TypeOK'
    <2>1. Tail(waiting[p]) \in Seq(Nat) /\ ToSet(Tail(waiting[p])) \subseteq Published
      BY <1>3, <1>h DEF NotifyFails
    <2>2. waiting' \in [Processes -> Seq(Nat)] /\ \A q \in Processes : ToSet(waiting'[q]) \subseteq Published
      BY <1>3, <1>q, <2>1 DEF NotifyFails, Returned, TypeOK
    <2>3. doing' \in [Processes -> [step : {"idle", "announce", "send"}, id : Nat]]
          /\ \A q \in Processes : doing'[q].step # "idle" => doing'[q].id \in Published
      BY <1>3 DEF NotifyFails, Returned, Nothing, TypeOK
    <2>4. owed' \in [Streams -> SUBSET Published] /\ faults' \in 0..MaxFaults
      BY <1>3 DEF NotifyFails, Loses, TypeOK, Fault
    <2> QED BY <1>3, <2>2, <2>3, <2>4 DEF NotifyFails, TypeOK, notes, Published
  <1>4. ASSUME NEW p \in Processes, OnNotification(p) PROVE TypeOK'
    <2> DEFINE e == Head(mail[p])
    <2>1. /\ Tail(mail[p]) \in Seq(Nat) /\ ToSet(Tail(mail[p])) \subseteq Published
          /\ e \in Published /\ e \in Nat
      BY <1>4, <1>h DEF OnNotification
    <2>2. mail' \in [Processes -> Seq(Nat)] /\ \A q \in Processes : ToSet(mail'[q]) \subseteq Published
      BY <1>4, <1>q, <2>1 DEF OnNotification, TypeOK
    <2>3. \A s \in Streams : Append(fed[s], e) \in Seq(Nat) /\ ToSet(Append(fed[s], e)) \subseteq Published
      BY <1>f, <2>1, AppendQueue
    <2>4. fed' \in [Streams -> Seq(Nat)] /\ \A s \in Streams : ToSet(fed'[s]) \subseteq Published
      <3>1. CASE Foreign(p, e)
        <4>1. fed' = [s \in Streams |-> IF at[s] = p THEN Append(fed[s], e) ELSE fed[s]]
          BY <1>4, <3>1 DEF OnNotification, Feed
        <4> QED BY <1>f, <2>3, <4>1
      <3>2. CASE ~Foreign(p, e)
        <4>1. fed' = fed
          BY <1>4, <3>2 DEF OnNotification
        <4> QED BY <1>f, <4>1 DEF TypeOK
      <3> QED BY <3>1, <3>2
    <2> QED BY <1>4, <2>2, <2>4 DEF OnNotification, Mirror, TypeOK, notes, Published
  <1>5. ASSUME NEW p \in Processes, Listen(p) PROVE TypeOK'
    <2> DEFINE e == Head(inbox[p])
    <2>1. /\ Tail(inbox[p]) \in Seq(Nat) /\ ToSet(Tail(inbox[p])) \subseteq Published
          /\ e \in Published /\ e \in Nat
      BY <1>5, <1>h DEF Listen
    <2>2. inbox' \in [Processes -> Seq(Nat)] /\ \A q \in Processes : ToSet(inbox'[q]) \subseteq Published
      BY <1>5, <1>q, <2>1 DEF Listen, TypeOK
    <2>a. ASSUME Notable(e)
          PROVE  /\ made' \in Seq(Nat) /\ Len(made') = Len(events) /\ unread' \subseteq Published
                 /\ doing' \in [Processes -> [step : {"idle", "announce", "send"}, id : Nat]]
                 /\ \A q \in Processes : doing'[q].step # "idle" => doing'[q].id \in Published
      <3>1. MakeRow(e) /\ doing' = [doing EXCEPT ![p] = [step |-> "announce", id |-> e]]
        BY <1>5, <2>a DEF Listen
      <3>2. made' \in Seq(Nat) /\ Len(made') = Len(events) /\ unread' \subseteq Published
        BY <2>1, <3>1, RowTypes
      <3> QED BY <2>1, <3>1, <3>2 DEF TypeOK
    <2>b. ASSUME ~Notable(e)
          PROVE  UNCHANGED <<made, unread, doing>>
      BY <1>5, <2>b DEF Listen, TypeOK
    <2>3. made' \in Seq(Nat) /\ Len(made') = Len(events) /\ unread' \subseteq Published
      BY <2>a, <2>b DEF TypeOK
    <2>4. doing' \in [Processes -> [step : {"idle", "announce", "send"}, id : Nat]]
          /\ \A q \in Processes : doing'[q].step # "idle" => doing'[q].id \in Published
      BY <2>a, <2>b DEF TypeOK
    <2> QED BY <1>5, <2>2, <2>3, <2>4 DEF Listen, TypeOK, mirror, streams, Published
  <1>6. ASSUME NEW p \in Processes, ListenFails(p) PROVE TypeOK'
    <2>1. Tail(inbox[p]) \in Seq(Nat) /\ ToSet(Tail(inbox[p])) \subseteq Published
          /\ Head(inbox[p]) \in Published
      BY <1>6, <1>h DEF ListenFails
    <2>2. inbox' \in [Processes -> Seq(Nat)] /\ \A q \in Processes : ToSet(inbox'[q]) \subseteq Published
      BY <1>6, <1>q, <2>1 DEF ListenFails, TypeOK
    <2>3. failed' \subseteq Published /\ faults' \in 0..MaxFaults
      BY <1>6, <2>1 DEF ListenFails, Fault, TypeOK
    <2>4. made' \in Seq(Nat) /\ Len(made') = Len(events) /\ unread' \subseteq Published
      BY <1>6, <2>1, RowTypes DEF ListenFails, TypeOK
    <2> QED BY <1>6, <2>2, <2>3, <2>4 DEF ListenFails, TypeOK, mirror, streams, Published
  <1>7. ASSUME NEW p \in Processes, Announce(p) PROVE TypeOK'
    <2> DEFINE event == [src |-> p, kind |-> "created", task |-> events[doing[p].id].task]
    <2>1. event \in Event /\ PublishBy(p, event, FALSE)
      <3>1. doing[p].id \in Published
        BY <1>7 DEF Announce, TypeOK
      <3>2. events \in Seq(Event)
        BY DEF TypeOK, Event, Kinds
      <3>3. events[doing[p].id] \in Event
        BY <3>1, <3>2 DEF Published
      <3> QED BY <1>7, <3>3 DEF Announce, Event, Kinds
    <2>2. Published' = Published \cup {Len(events) + 1} /\ Len(events) + 1 \in Nat
      BY <2>1, PublishTypes
    <2>3. doing' \in [Processes -> [step : {"idle", "announce", "send"}, id : Nat]]
          /\ \A q \in Processes : doing'[q].step # "idle" => doing'[q].id \in Published'
      BY <1>7, <2>2 DEF Announce, TypeOK
    <2> HIDE DEF event
    <2>4. /\ events' \in Seq([src : Processes, kind : {"review", "other", "created"}, task : Tasks])
          /\ made' \in Seq(Nat) /\ Len(made') = Len(events')
      BY <2>1, PublishTypes DEF Event, Kinds
    <2>5. /\ fed' \in [Streams -> Seq(Nat)] /\ \A s \in Streams : ToSet(fed'[s]) \subseteq Published'
          /\ \A queue \in {inbox', waiting', mail'} :
               /\ queue \in [Processes -> Seq(Nat)]
               /\ \A q \in Processes : ToSet(queue[q]) \subseteq Published'
          /\ owed' \in [Streams -> SUBSET (Published')] /\ at' = at /\ attached' = attached
      BY <2>1, PublishTypes
    <2>6. /\ promised' = promised /\ faults' = faults /\ failed' = failed
          /\ gone' = gone /\ unread' = unread
      BY <1>7 DEF Announce, notes
    <2>7. /\ at' \in [Streams -> Processes \cup {Off}] /\ attached' \in [Processes -> BOOLEAN]
          /\ promised' \in Nat /\ faults' \in 0..MaxFaults
          /\ gone' \subseteq Tasks /\ unread' \subseteq Published' /\ failed' \subseteq Published'
      BY <2>2, <2>5, <2>6 DEF TypeOK
    <2> QED BY <2>3, <2>4, <2>5, <2>7 DEF TypeOK
  <1>8. ASSUME NEW p \in Processes, Attach(p) PROVE TypeOK'
    BY <1>8 DEF Attach, TypeOK, streams, notes, Published
  <1>9. ASSUME NEW p \in Processes, Detach(p) PROVE TypeOK'
    <2>1. mail' \in [Processes -> Seq(Nat)] /\ \A q \in Processes : ToSet(mail'[q]) \subseteq Published
      BY <1>9, <1>q, EmptyQueue DEF Detach, TypeOK
    <2>2. owed' \in [Streams -> SUBSET Published] /\ faults' \in 0..MaxFaults
          /\ attached' \in [Processes -> BOOLEAN]
      BY <1>9 DEF Detach, Loses, Fault, TypeOK
    <2> QED BY <1>9, <2>1, <2>2 DEF Detach, TypeOK, notes, Published
  <1>10. ASSUME NEW p \in Processes, Crash(p) PROVE TypeOK'
    <2>1. \A queue \in {inbox', waiting', mail'} :
             /\ queue \in [Processes -> Seq(Nat)]
             /\ \A q \in Processes : ToSet(queue[q]) \subseteq Published
      <3>1. inbox' \in [Processes -> Seq(Nat)] /\ \A q \in Processes : ToSet(inbox'[q]) \subseteq Published
        BY <1>10, <1>q, EmptyQueue DEF Crash, TypeOK
      <3>2. waiting' \in [Processes -> Seq(Nat)] /\ \A q \in Processes : ToSet(waiting'[q]) \subseteq Published
        BY <1>10, <1>q, EmptyQueue DEF Crash, TypeOK
      <3>3. mail' \in [Processes -> Seq(Nat)] /\ \A q \in Processes : ToSet(mail'[q]) \subseteq Published
        BY <1>10, <1>q, EmptyQueue DEF Crash, TypeOK
      <3> QED BY <3>1, <3>2, <3>3
    <2>2. fed' \in [Streams -> Seq(Nat)] /\ \A s \in Streams : ToSet(fed'[s]) \subseteq Published
      BY <1>10, <1>f, EmptyQueue DEF Crash, TypeOK
    <2>3. doing' \in [Processes -> [step : {"idle", "announce", "send"}, id : Nat]]
          /\ \A q \in Processes : doing'[q].step # "idle" => doing'[q].id \in Published
      BY <1>10 DEF Crash, Nothing, TypeOK
    <2>4. /\ at' \in [Streams -> Processes \cup {Off}] /\ attached' \in [Processes -> BOOLEAN]
          /\ owed' \in [Streams -> SUBSET Published] /\ faults' \in 0..MaxFaults
          /\ failed' \subseteq Published
      BY <1>10, <1>q DEF Crash, Fault, TypeOK
    <2> QED BY <1>10, <2>1, <2>2, <2>3, <2>4 DEF Crash, TypeOK, notes, Published
  <1>11. ASSUME NEW s \in Streams, NEW p \in Processes, Connect(s, p) PROVE TypeOK'
    <2>1. fed' \in [Streams -> Seq(Nat)] /\ \A r \in Streams : ToSet(fed'[r]) \subseteq Published
      BY <1>11, <1>f, EmptyQueue DEF Connect, TypeOK
    <2> QED BY <1>11, <2>1 DEF Connect, TypeOK, mirror, notes, Published
  <1>12. ASSUME NEW s \in Streams, Disconnect(s) PROVE TypeOK'
    <2>1. fed' \in [Streams -> Seq(Nat)] /\ \A r \in Streams : ToSet(fed'[r]) \subseteq Published
      BY <1>12, <1>f, EmptyQueue DEF Disconnect, TypeOK
    <2> QED BY <1>12, <2>1 DEF Disconnect, TypeOK, mirror, notes, Published
  <1>13. ASSUME NEW t \in Tasks, DismissTask(t) \/ DeleteTask(t) PROVE TypeOK'
    BY <1>13 DEF DismissTask, MarkRead, DeleteTask, Of, TypeOK, mirror, streams, Published
  <1>14. CASE MarkAllRead
    BY <1>14 DEF MarkAllRead, TypeOK, mirror, streams, Published
  <1>15. CASE UNCHANGED vars
    BY <1>15 DEF vars, TypeOK, mirror, streams, notes, Published
  <1> QED BY <1>1, <1>2, <1>3, <1>4, <1>5, <1>6, <1>7, <1>8, <1>9, <1>10, <1>11, <1>12, <1>13,
             <1>14, <1>15 DEF Next, Work

\* Every queue holds ids of published events, and every variable has its type.
THEOREM TypeCorrect == Spec => []TypeOK
  <1>1. Init => TypeOK
    BY TypeInit
  <1>2. TypeOK /\ [Next]_vars => TypeOK'
    BY TypeStep
  <1> QED BY <1>1, <1>2, PTL DEF Spec

-----------------------------------------------------------------------------
(* Notification rows *)

\* A queue of the notification listener holds events of its own process, in order, for
\* which no row was made yet: so the row of its head is the first.
OwnQueue ==
    \A p \in Processes :
        /\ Ordered(inbox[p], events)
        /\ \A x \in ToSet(inbox[p]) : events[x].src = p /\ made[x] = 0

RowInv == OwnQueue /\ NotifiedOnce

\* made counts from 0, so NotifiedOnce leaves 0 and 1.
LEMMA MadeIsNat == TypeOK => \A e \in Published : made[e] \in Nat
  <1> SUFFICES ASSUME TypeOK PROVE \A e \in Published : made[e] \in Nat
    OBVIOUS
  <1>1. events \in Seq(Event) /\ made \in Seq(Nat) /\ Len(made) = Len(events)
    BY DEF TypeOK, Event, Kinds
  <1>2. Published = 1..Len(events)
    BY <1>1 DEF Published
  <1> QED BY <1>1, <1>2

LEMMA EventsTyped == TypeOK => \A e \in Published : events[e].src \in Processes /\ events[e].task \in Tasks
  <1> SUFFICES ASSUME TypeOK, NEW e \in Published
               PROVE  events[e].src \in Processes /\ events[e].task \in Tasks
    OBVIOUS
  <1>1. events \in Seq(Event)
    BY DEF TypeOK, Event, Kinds
  <1>2. events[e] \in Event
    BY <1>1 DEF Published
  <1> QED BY <1>2 DEF Event

LEMMA RowInit == Init => RowInv
  BY EmptyQueue, OrderedEmpty DEF Init, RowInv, OwnQueue, NotifiedOnce, Published

LEMMA RowPublish ==
    ASSUME TypeOK, RowInv, NEW p \in Processes, NEW event \in Event, NEW big \in BOOLEAN,
           event.src = p, PublishBy(p, event, big), UNCHANGED <<gone, failed>>
    PROVE  RowInv'
  <1> DEFINE e == Len(events) + 1
  <1>1. /\ Published' = Published \cup {e} /\ e \in Nat /\ e \notin Published
        /\ \A x \in Published : x \in Nat /\ x < e /\ events'[x] = events[x]
        /\ events'[e] = event
    BY EventAdded DEF PublishBy, TypeOK, Event, Kinds
  <1>2. made'[e] = 0 /\ \A x \in Published : made'[x] = made[x]
    <2>1. events \in Seq(Event) /\ made \in Seq(Nat) /\ Len(made) = Len(events)
          /\ made' = Append(made, 0)
      BY DEF TypeOK, Event, Kinds, PublishBy
    <2>2. Published = 1..Len(made)
      BY <2>1 DEF Published
    <2> QED BY <2>1, <2>2
  <1> HIDE DEF e
  <1>3. \A q \in Processes : inbox[q] \in Seq(Nat) /\ ToSet(inbox[q]) \subseteq Published
    BY DEF TypeOK
  <1>4. inbox' = [inbox EXCEPT ![p] = Append(@, e)] /\ inbox \in [Processes -> Seq(Nat)]
    BY DEF PublishBy, e, TypeOK
  <1>5. Append(inbox[p], e) \in Seq(Nat) /\ ToSet(Append(inbox[p], e)) = ToSet(inbox[p]) \cup {e}
    BY <1>1, <1>3, AppendQueue
  <1>6. \A q \in Processes : Ordered(inbox[q], events')
    BY <1>1, <1>3, OrderedKept DEF RowInv, OwnQueue
  <1>7. Below(ToSet(inbox[p]), {e}, events')
    BY <1>1, <1>3 DEF Below
  <1>8. Ordered(Append(inbox[p], e), events')
    BY <1>1, <1>3, <1>6, <1>7, OrderedAppend
  <1>9. OwnQueue'
    <2> SUFFICES ASSUME NEW q \in Processes
                 PROVE  /\ Ordered(inbox'[q], events')
                        /\ \A x \in ToSet(inbox'[q]) : events'[x].src = q /\ made'[x] = 0
      BY DEF OwnQueue
    <2>1. CASE q = p
      <3>1. inbox'[q] = Append(inbox[p], e)
        BY <1>4, <2>1
      <3> QED BY <1>1, <1>2, <1>3, <1>5, <1>8, <2>1, <3>1 DEF RowInv, OwnQueue
    <2>2. CASE q # p
      <3>1. inbox'[q] = inbox[q]
        BY <1>4, <2>2
      <3> QED BY <1>1, <1>2, <1>3, <1>6, <3>1 DEF RowInv, OwnQueue
    <2> QED BY <2>1, <2>2
  <1>10. NotifiedOnce'
    <2>1. \A x \in Published' : made'[x] > 0 => made'[x] = 1 /\ events'[x].kind = "review"
      BY <1>1, <1>2 DEF RowInv, NotifiedOnce
    <2>2. ASSUME NEW x \in Published', Notable(x)'
          PROVE  made'[x] = 1 \/ x \in failed' \/ x \in ToSet(inbox'[events'[x].src])
      <3>1. CASE x = e
        BY <1>1, <1>4, <1>5, <3>1
      <3>2. CASE x \in Published
        <4>1. Notable(x)
          BY <1>1, <2>2, <3>2 DEF Notable
        <4>2. made[x] = 1 \/ x \in failed \/ x \in ToSet(inbox[events[x].src])
          BY <3>2, <4>1 DEF RowInv, NotifiedOnce
        <4>3. events[x].src \in Processes
          BY <3>2, EventsTyped
        <4>4. ToSet(inbox[events[x].src]) \subseteq ToSet(inbox'[events[x].src])
          BY <1>4, <1>5, <4>3
        <4> QED BY <1>1, <1>2, <3>2, <4>2, <4>4
      <3> QED BY <1>1, <3>1, <3>2
    <2> QED BY <2>1, <2>2 DEF NotifiedOnce
  <1> QED BY <1>9, <1>10 DEF RowInv

LEMMA RowStep == TypeOK /\ RowInv /\ [Next]_vars => RowInv'
  <1> SUFFICES ASSUME TypeOK, RowInv, [Next]_vars PROVE RowInv'
    OBVIOUS
  <1>q. \A p \in Processes : inbox[p] \in Seq(Nat) /\ ToSet(inbox[p]) \subseteq Published
    BY DEF TypeOK
  <1>m. \A e \in Published : made[e] \in Nat
    BY MadeIsNat
  <1>s. \A e \in Published : events[e].src \in Processes
    BY EventsTyped
  <1>h. ASSUME NEW p \in Processes, inbox[p] # << >>
        PROVE  /\ Head(inbox[p]) \in Published
               /\ ToSet(inbox[p]) = {Head(inbox[p])} \cup ToSet(Tail(inbox[p]))
               /\ Ordered(Tail(inbox[p]), events)
               /\ Head(inbox[p]) \notin ToSet(Tail(inbox[p]))
    <2>1. /\ Head(inbox[p]) \in Published /\ Head(inbox[p]) \in Nat
          /\ ToSet(inbox[p]) = {Head(inbox[p])} \cup ToSet(Tail(inbox[p]))
      BY <1>h, <1>q, TailQueue
    <2>2. Ordered(inbox[p], events)
      BY DEF RowInv, OwnQueue
    <2>3. Ordered(Tail(inbox[p]), events) /\ Below({Head(inbox[p])}, ToSet(Tail(inbox[p])), events)
      BY <1>h, <1>q, <2>2, OrderedTail
    <2> QED BY <2>1, <2>3 DEF Below
  \* The head of a listener's queue leaves it, and is notable no more or accounted for.
  <1>t. ASSUME NEW p \in Processes, inbox[p] # << >>, inbox' = [inbox EXCEPT ![p] = Tail(@)],
               UNCHANGED <<events, gone>>, failed \subseteq failed',
               \A x \in Published : x # Head(inbox[p]) => made'[x] = made[x],
               made'[Head(inbox[p])] > 0 =>
                  made'[Head(inbox[p])] = 1 /\ events[Head(inbox[p])].kind = "review",
               Notable(Head(inbox[p])) =>
                  made'[Head(inbox[p])] = 1 \/ Head(inbox[p]) \in failed'
        PROVE  RowInv'
    <2> DEFINE h == Head(inbox[p])
    <2>1. /\ h \in Published /\ ToSet(inbox[p]) = {h} \cup ToSet(Tail(inbox[p]))
          /\ Ordered(Tail(inbox[p]), events) /\ h \notin ToSet(Tail(inbox[p]))
      BY <1>t, <1>h
    <2>2. inbox'[p] = Tail(inbox[p]) /\ \A q \in Processes : q # p => inbox'[q] = inbox[q]
      BY <1>t DEF TypeOK
    <2>3. events[h].src = p
      BY <2>1 DEF RowInv, OwnQueue
    <2>a. /\ events' = events /\ gone' = gone /\ Published' = Published
          /\ \A x \in Published : x # h => made'[x] = made[x]
          /\ made'[h] > 0 => made'[h] = 1 /\ events[h].kind = "review"
          /\ Notable(h) => made'[h] = 1 \/ h \in failed'
          /\ failed \subseteq failed'
      BY <1>t DEF Published
    <2> HIDE DEF h
    <2>4. OwnQueue'
      <3> SUFFICES ASSUME NEW q \in Processes
                   PROVE  /\ Ordered(inbox'[q], events)
                          /\ \A x \in ToSet(inbox'[q]) : events[x].src = q /\ made'[x] = 0
        BY <2>a DEF OwnQueue
      <3>1. CASE q = p
        <4>1. \A x \in ToSet(Tail(inbox[p])) : x \in Published /\ x # h
          BY <1>q, <2>1
        <4> QED BY <2>a, <2>1, <2>2, <3>1, <4>1 DEF RowInv, OwnQueue
      <3>2. CASE q # p
        <4>1. \A x \in ToSet(inbox[q]) : x \in Published /\ x # h
          BY <1>q, <2>3, <3>2 DEF RowInv, OwnQueue
        <4> QED BY <2>a, <2>2, <3>2, <4>1 DEF RowInv, OwnQueue
      <3> QED BY <3>1, <3>2
    <2>5. \A x \in Published : made'[x] > 0 => made'[x] = 1 /\ events[x].kind = "review"
      BY <2>a DEF RowInv, NotifiedOnce
    <2>6. ASSUME NEW x \in Published, Notable(x)
          PROVE  made'[x] = 1 \/ x \in failed' \/ x \in ToSet(inbox'[events[x].src])
      <3>1. CASE x = h
        BY <2>a, <2>6, <3>1
      <3>2. CASE x # h
        <4>1. made[x] = 1 \/ x \in failed \/ x \in ToSet(inbox[events[x].src])
          BY <2>6 DEF RowInv, NotifiedOnce
        <4>2. x \in ToSet(inbox[events[x].src]) => x \in ToSet(inbox'[events[x].src])
          BY <1>s, <2>1, <2>2, <3>2
        <4> QED BY <2>a, <3>2, <4>1, <4>2
      <3> QED BY <3>1, <3>2
    <2>7. \A x \in Published : Notable(x)' = Notable(x)
      BY <2>a DEF Notable
    <2> QED BY <2>a, <2>4, <2>5, <2>6, <2>7 DEF RowInv, NotifiedOnce
  \* Rows, queues and deletions are not touched, except that more tasks may be deleted.
  <1>u. ASSUME UNCHANGED <<events, inbox, made, failed>>, gone \subseteq gone' PROVE RowInv'
    <2>1. \A x : Notable(x)' => Notable(x)
      BY <1>u DEF Notable
    <2> QED BY <1>u, <2>1 DEF RowInv, OwnQueue, NotifiedOnce, Published
  <1>1. ASSUME NEW p \in Processes, NEW kind \in {"review", "other"}, NEW t \in Tasks \ gone,
               NEW big \in BOOLEAN, Publish(p, kind, t, big)
        PROVE  RowInv'
    <2>1. [src |-> p, kind |-> kind, task |-> t] \in Event
      BY DEF Event, Kinds
    <2> QED BY <1>1, <2>1, RowPublish DEF Publish, notes
  <1>2. ASSUME NEW p \in Processes, Announce(p) PROVE RowInv'
    <2>1. doing[p].id \in Published
      BY <1>2 DEF Announce, TypeOK
    <2>2. [src |-> p, kind |-> "created", task |-> events[doing[p].id].task] \in Event
      BY <2>1, EventsTyped DEF Event, Kinds
    <2> QED BY <1>2, <2>2, RowPublish DEF Announce, notes
  <1>3. ASSUME NEW p \in Processes, Listen(p) PROVE RowInv'
    <2> DEFINE h == Head(inbox[p])
    <2>1. inbox[p] # << >> /\ inbox' = [inbox EXCEPT ![p] = Tail(@)]
          /\ UNCHANGED <<events, gone, failed>>
      BY <1>3 DEF Listen
    <2>2. h \in Published /\ made[h] = 0
      BY <1>h, <2>1 DEF RowInv, OwnQueue
    <2>3. CASE Notable(h)
      <3>1. MakeRow(h)
        BY <1>3, <2>3 DEF Listen
      <3>3. made'[h] = 1 /\ \A x \in Published : x # h => made'[x] = made[x]
        BY <2>2, <3>1, RowTypes
      <3> QED BY <1>t, <2>1, <2>3, <3>3 DEF Notable
    <2>4. CASE ~Notable(h)
      <3>1. made' = made
        BY <1>3, <2>4 DEF Listen
      <3>2. /\ failed \subseteq failed' /\ \A x \in Published : x # h => made'[x] = made[x]
            /\ ~(made'[h] > 0)
        BY <2>1, <2>2, <3>1
      <3> QED BY <1>t, <2>1, <2>4, <3>2
    <2> QED BY <2>3, <2>4
  <1>4. ASSUME NEW p \in Processes, ListenFails(p) PROVE RowInv'
    <2> DEFINE h == Head(inbox[p])
    <2>1. /\ inbox[p] # << >> /\ inbox' = [inbox EXCEPT ![p] = Tail(@)] /\ Notable(h)
          /\ UNCHANGED <<events, gone>> /\ failed' = failed \cup {h}
          /\ MakeRow(h) \/ UNCHANGED <<made, unread>>
      BY <1>4 DEF ListenFails
    <2>2. h \in Published /\ made[h] = 0 /\ events[h].kind = "review"
      BY <1>h, <2>1 DEF RowInv, OwnQueue, Notable
    <2>3. /\ made'[h] \in {0, 1}
          /\ \A x \in Published : x # h => made'[x] = made[x]
      BY <2>1, <2>2, RowTypes
    <2>4. failed \subseteq failed' /\ h \in failed' /\ (made'[h] > 0 => made'[h] = 1)
      BY <2>1, <2>3
    <2> QED BY <1>t, <2>1, <2>2, <2>3, <2>4
  <1>5. ASSUME NEW p \in Processes, Crash(p) PROVE RowInv'
    <2>1. /\ inbox' = [inbox EXCEPT ![p] = << >>] /\ inbox \in [Processes -> Seq(Nat)]
          /\ UNCHANGED <<events, made, gone>>
          /\ failed' = failed \cup {e \in ToSet(inbox[p]) : events[e].kind = "review"}
      BY <1>5 DEF Crash, notes, TypeOK
    <2>2. OwnQueue'
      BY <2>1, EmptyQueue, OrderedEmpty DEF RowInv, OwnQueue
    <2>3. \A x \in Published : Notable(x) =>
             made[x] = 1 \/ x \in failed' \/ x \in ToSet(inbox'[events[x].src])
      BY <1>s, <2>1 DEF RowInv, NotifiedOnce, Notable
    <2> QED BY <2>1, <2>2, <2>3 DEF RowInv, NotifiedOnce, Notable, Published
  <1>6. ASSUME NEW p \in Processes,
               Notify(p) \/ NotifyFails(p) \/ OnNotification(p) \/ Attach(p) \/ Detach(p)
        PROVE  RowInv'
    BY <1>6, <1>u DEF Notify, NotifyFails, OnNotification, Mirror, Attach, Detach, notes
  <1>7. ASSUME NEW s \in Streams, NEW p \in Processes, Connect(s, p) PROVE RowInv'
    BY <1>7, <1>u DEF Connect, notes
  <1>11. ASSUME NEW s \in Streams, Disconnect(s) PROVE RowInv'
    BY <1>11, <1>u DEF Disconnect, notes
  <1>8. ASSUME NEW t \in Tasks, DismissTask(t) \/ DeleteTask(t) PROVE RowInv'
    BY <1>8, <1>u DEF DismissTask, MarkRead, DeleteTask
  <1>9. CASE MarkAllRead
    BY <1>9, <1>u DEF MarkAllRead
  <1>10. CASE UNCHANGED vars
    BY <1>10, <1>u DEF vars, notes
  <1> QED BY <1>1, <1>2, <1>3, <1>4, <1>5, <1>6, <1>7, <1>11, <1>8, <1>9, <1>10 DEF Next, Work

\* However many processes listen, and whichever crash, a move to review gives one
\* notification row and no other event gives any.
THEOREM OneRowEach == Spec => []NotifiedOnce
  <1>1. Init => TypeOK /\ RowInv
    BY TypeInit, RowInit
  <1>2. (TypeOK /\ RowInv) /\ [Next]_vars => (TypeOK /\ RowInv)'
    BY TypeStep, RowStep
  <1>3. RowInv => NotifiedOnce
    BY DEF RowInv
  <1> QED BY <1>1, <1>2, <1>3, PTL DEF Spec

-----------------------------------------------------------------------------
(* The order of the streams *)

\* What a stream has been shown of other processes than its own
Mirrored(s) == {x \in ToSet(fed[s]) : events[x].src # at[s]}

\* An event passes from its publisher's waiting calls to the mail of a process and on to
\* its streams: each place is in order, and what is further on is older.
CallsInOrder ==
    \A p \in Processes : /\ Ordered(waiting[p], events)
                         /\ \A x \in ToSet(waiting[p]) : events[x].src = p
MailInOrder ==
    \A p \in Processes : /\ Ordered(mail[p], events)
                         /\ \A q \in Processes : Below(ToSet(mail[p]), ToSet(waiting[q]), events)
StreamsBehind ==
    \A s \in Streams :
        /\ Ordered(fed[s], events)
        /\ at[s] = Off => fed[s] = << >>
        /\ at[s] # Off => /\ Below(Mirrored(s), ToSet(mail[at[s]]), events)
                          /\ \A q \in Processes : Below(Mirrored(s), ToSet(waiting[q]), events)

OrderInv == CallsInOrder /\ MailInOrder /\ StreamsBehind

LEMMA OrderGivesStreams == TypeOK /\ OrderInv => StreamInOrder
  BY DEF OrderInv, StreamsBehind, Ordered, StreamInOrder

LEMMA OrderInit == Init => OrderInv
  BY EmptyQueue, OrderedEmpty
  DEF Init, OrderInv, CallsInOrder, MailInOrder, StreamsBehind, Below, Mirrored

\* Below is about members only.
LEMMA BelowSubset ==
    ASSUME NEW A, NEW B, NEW ev, NEW A2 \in SUBSET A, NEW B2 \in SUBSET B, Below(A, B, ev)
    PROVE  Below(A2, B2, ev)
  BY DEF Below

LEMMA BelowOneMore ==
    ASSUME NEW A, NEW B, NEW ev, NEW e, NEW A2 \in SUBSET A, NEW B2 \in SUBSET (B \cup {e}),
           Below(A, B, ev), Below(A, {e}, ev)
    PROVE  Below(A2, B2, ev)
  BY DEF Below

LEMMA OrderPublish ==
    ASSUME TypeOK, OrderInv, NEW p \in Processes, NEW event \in Event, NEW big \in BOOLEAN,
           event.src = p, PublishBy(p, event, big)
    PROVE  OrderInv'
  <1> DEFINE e == Len(events) + 1
  <1>1. /\ Published' = Published \cup {e} /\ e \in Nat /\ e \notin Published
        /\ \A x \in Published : x \in Nat /\ x < e /\ events'[x] = events[x]
        /\ events'[e] = event
    BY EventAdded DEF PublishBy, TypeOK, Event, Kinds
  <1>2. /\ fed' = [s \in Streams |-> IF at[s] = p THEN Append(fed[s], e) ELSE fed[s]]
        /\ waiting' = IF big THEN waiting ELSE [waiting EXCEPT ![p] = Append(@, e)]
        /\ at' = at /\ mail' = mail
    BY DEF PublishBy, Feed
  <1> HIDE DEF e
  <1>3. \A q \in Processes : /\ waiting[q] \in Seq(Nat) /\ ToSet(waiting[q]) \subseteq Published
                             /\ mail[q] \in Seq(Nat) /\ ToSet(mail[q]) \subseteq Published
    BY DEF TypeOK
  <1>4. \A s \in Streams : fed[s] \in Seq(Nat) /\ ToSet(fed[s]) \subseteq Published
    BY DEF TypeOK
  <1>5. \A q \in Processes : Ordered(waiting[q], events') /\ Ordered(mail[q], events')
    BY <1>1, <1>3, OrderedKept DEF OrderInv, CallsInOrder, MailInOrder
  <1>6. \A s \in Streams : Ordered(fed[s], events')
    BY <1>1, <1>4, OrderedKept DEF OrderInv, StreamsBehind
  <1>7. /\ Append(waiting[p], e) \in Seq(Nat)
        /\ ToSet(Append(waiting[p], e)) = ToSet(waiting[p]) \cup {e}
        /\ Ordered(Append(waiting[p], e), events')
    <2>1. Below(ToSet(waiting[p]), {e}, events')
      BY <1>1, <1>3 DEF Below
    <2> QED BY <1>1, <1>3, <1>5, <2>1, AppendQueue, OrderedAppend
  <1>8. \A q \in Processes : /\ Ordered(waiting'[q], events')
                             /\ \A x \in ToSet(waiting'[q]) : events'[x].src = q
                             /\ ToSet(waiting'[q]) \subseteq ToSet(waiting[q]) \cup {e}
    <2> SUFFICES ASSUME NEW q \in Processes
                 PROVE  /\ Ordered(waiting'[q], events')
                        /\ \A x \in ToSet(waiting'[q]) : events'[x].src = q
                        /\ ToSet(waiting'[q]) \subseteq ToSet(waiting[q]) \cup {e}
      OBVIOUS
    <2>1. \A x \in ToSet(waiting[q]) : events'[x].src = q
      BY <1>1, <1>3 DEF OrderInv, CallsInOrder
    <2>2. CASE ~big /\ q = p
      <3>1. waiting'[q] = Append(waiting[p], e)
        BY <1>2, <2>2 DEF TypeOK
      <3> QED BY <1>1, <1>7, <2>1, <2>2, <3>1
    <2>3. CASE big \/ q # p
      <3>1. waiting'[q] = waiting[q]
        BY <1>2, <2>3 DEF TypeOK
      <3> QED BY <1>5, <2>1, <3>1
    <2> QED BY <2>2, <2>3
  <1>9. ASSUME NEW A \in SUBSET Published, NEW q \in Processes, Below(A, ToSet(waiting[q]), events)
        PROVE  Below(A, ToSet(waiting'[q]), events')
    <2>1. Below(A, ToSet(waiting[q]), events')
      BY <1>1, <1>3, <1>9, BelowKept
    <2> QED BY <1>1, <1>8, <2>1 DEF Below
  <1>10. MailInOrder'
    BY <1>2, <1>3, <1>5, <1>9 DEF OrderInv, MailInOrder
  <1>11. ASSUME NEW s \in Streams
         PROVE  /\ Ordered(fed'[s], events')
                /\ at'[s] = Off => fed'[s] = << >>
                /\ Mirrored(s)' = Mirrored(s)
    <2>1. CASE at[s] = p
      <3>1. fed'[s] = Append(fed[s], e)
        BY <1>2, <2>1
      <3>2. Below(ToSet(fed[s]), {e}, events')
        BY <1>1, <1>4 DEF Below
      <3>3. Ordered(fed'[s], events') /\ ToSet(fed'[s]) = ToSet(fed[s]) \cup {e}
        BY <1>1, <1>4, <1>6, <3>1, <3>2, AppendQueue, OrderedAppend
      <3>4. Mirrored(s)' = Mirrored(s)
        BY <1>1, <1>2, <1>4, <2>1, <3>3 DEF Mirrored
      <3> QED BY <1>2, <2>1, <3>3, <3>4, BusAssumption
    <2>2. CASE at[s] # p
      <3>1. fed'[s] = fed[s]
        BY <1>2, <2>2
      <3>2. Mirrored(s)' = Mirrored(s)
        BY <1>1, <1>2, <1>4, <3>1 DEF Mirrored
      <3> QED BY <1>2, <1>6, <3>1, <3>2 DEF OrderInv, StreamsBehind
    <2> QED BY <2>1, <2>2
  <1>12. StreamsBehind'
    <2> SUFFICES ASSUME NEW s \in Streams, at[s] # Off
                 PROVE  /\ Below(Mirrored(s), ToSet(mail[at[s]]), events')
                        /\ \A q \in Processes : Below(Mirrored(s), ToSet(waiting'[q]), events')
      BY <1>2, <1>11 DEF StreamsBehind
    <2>1. at[s] \in Processes /\ Mirrored(s) \subseteq Published
      BY <1>4 DEF TypeOK, Mirrored
    <2>2. /\ Below(Mirrored(s), ToSet(mail[at[s]]), events)
          /\ \A q \in Processes : Below(Mirrored(s), ToSet(waiting[q]), events)
      BY DEF OrderInv, StreamsBehind
    <2>3. Below(Mirrored(s), ToSet(mail[at[s]]), events')
      BY <1>1, <1>3, <2>1, <2>2, BelowKept
    <2> QED BY <1>9, <2>1, <2>2, <2>3
  <1>13. CallsInOrder'
    BY <1>8 DEF CallsInOrder
  <1> QED BY <1>10, <1>12, <1>13 DEF OrderInv

LEMMA OrderStep == TypeOK /\ OrderInv /\ [Next]_vars => OrderInv'
  <1> SUFFICES ASSUME TypeOK, OrderInv, [Next]_vars PROVE OrderInv'
    OBVIOUS
  <1>w. \A q \in Processes : /\ waiting[q] \in Seq(Nat) /\ ToSet(waiting[q]) \subseteq Published
                             /\ mail[q] \in Seq(Nat) /\ ToSet(mail[q]) \subseteq Published
    BY DEF TypeOK
  <1>f. \A s \in Streams : fed[s] \in Seq(Nat) /\ ToSet(fed[s]) \subseteq Published
    BY DEF TypeOK
  <1>c. \A q \in Processes : Ordered(waiting[q], events) /\ \A x \in ToSet(waiting[q]) : events[x].src = q
    BY DEF OrderInv, CallsInOrder
  <1>m. \A q \in Processes : /\ Ordered(mail[q], events)
                             /\ \A r \in Processes : Below(ToSet(mail[q]), ToSet(waiting[r]), events)
    BY DEF OrderInv, MailInOrder
  <1>b. \A s \in Streams :
           /\ Ordered(fed[s], events)
           /\ at[s] = Off => fed[s] = << >>
           /\ at[s] # Off => /\ Below(Mirrored(s), ToSet(mail[at[s]]), events)
                             /\ \A q \in Processes : Below(Mirrored(s), ToSet(waiting[q]), events)
    BY DEF OrderInv, StreamsBehind
  <1>a. \A s \in Streams : at[s] # Off => at[s] \in Processes
    BY DEF TypeOK
  \* The head of a process's calls goes; everything behind it stays in order.
  <1>r. ASSUME NEW p \in Processes, waiting[p] # << >>, waiting' = [waiting EXCEPT ![p] = Tail(@)]
        PROVE  /\ \A q \in Processes : Ordered(waiting'[q], events)
                                       /\ ToSet(waiting'[q]) \subseteq ToSet(waiting[q])
               /\ Below({Head(waiting[p])}, ToSet(waiting'[p]), events)
               /\ Head(waiting[p]) \in ToSet(waiting[p]) /\ Head(waiting[p]) \in Nat
    <2>1. waiting'[p] = Tail(waiting[p]) /\ \A q \in Processes : q # p => waiting'[q] = waiting[q]
      BY <1>r DEF TypeOK
    <2>2. /\ ToSet(waiting[p]) = {Head(waiting[p])} \cup ToSet(Tail(waiting[p]))
          /\ Head(waiting[p]) \in Nat
      BY <1>r, <1>w, TailQueue
    <2>3. Ordered(Tail(waiting[p]), events) /\ Below({Head(waiting[p])}, ToSet(Tail(waiting[p])), events)
      BY <1>r, <1>w, <1>c, OrderedTail
    <2> QED BY <1>c, <2>1, <2>2, <2>3
  \* Queues may only get shorter, and streams may only end or begin.
  <1>u. ASSUME UNCHANGED events,
               \A q \in Processes : /\ Ordered(waiting'[q], events)
                                    /\ ToSet(waiting'[q]) \subseteq ToSet(waiting[q])
                                    /\ Ordered(mail'[q], events)
                                    /\ ToSet(mail'[q]) \subseteq ToSet(mail[q]),
               \A s \in Streams : \/ at'[s] = at[s] /\ fed'[s] = fed[s]
                                  \/ fed'[s] = << >>
        PROVE  OrderInv'
    <2>1. CallsInOrder'
      BY <1>u, <1>c DEF CallsInOrder
    <2>2. MailInOrder'
      BY <1>u, <1>m DEF MailInOrder, Below
    <2>3. StreamsBehind'
      <3> SUFFICES ASSUME NEW s \in Streams
                   PROVE  /\ Ordered(fed'[s], events)
                          /\ at'[s] = Off => fed'[s] = << >>
                          /\ at'[s] # Off =>
                               /\ Below(Mirrored(s)', ToSet(mail'[at'[s]]), events)
                               /\ \A q \in Processes : Below(Mirrored(s)', ToSet(waiting'[q]), events)
        BY <1>u DEF StreamsBehind
      <3>1. CASE at'[s] = at[s] /\ fed'[s] = fed[s]
        <4>1. Mirrored(s)' = Mirrored(s)
          BY <1>u, <3>1 DEF Mirrored
        <4>2. ASSUME at[s] # Off
              PROVE  /\ Below(Mirrored(s), ToSet(mail'[at[s]]), events)
                     /\ \A q \in Processes : Below(Mirrored(s), ToSet(waiting'[q]), events)
          <5>1. at[s] \in Processes
            BY <1>a, <4>2
          <5>2. ToSet(mail'[at[s]]) \in SUBSET ToSet(mail[at[s]])
            BY <1>u, <5>1
          <5>3. \A q \in Processes : ToSet(waiting'[q]) \in SUBSET ToSet(waiting[q])
            BY <1>u
          <5>4. /\ Below(Mirrored(s), ToSet(mail[at[s]]), events)
                /\ \A q \in Processes : Below(Mirrored(s), ToSet(waiting[q]), events)
            BY <1>b, <4>2
          <5> QED BY <5>2, <5>3, <5>4, BelowSubset
        <4> QED BY <1>b, <3>1, <4>1, <4>2
      <3>2. CASE fed'[s] = << >>
        <4>1. Mirrored(s)' = {} /\ Ordered(fed'[s], events)
          BY <3>2, EmptyQueue, OrderedEmpty DEF Mirrored
        <4> QED BY <3>2, <4>1 DEF Below
      <3> QED BY <1>u, <3>1, <3>2
    <2> QED BY <2>1, <2>2, <2>3 DEF OrderInv
  <1>1. ASSUME NEW p \in Processes, NEW kind \in {"review", "other"}, NEW t \in Tasks \ gone,
               NEW big \in BOOLEAN, Publish(p, kind, t, big)
        PROVE  OrderInv'
    <2>1. [src |-> p, kind |-> kind, task |-> t] \in Event
      BY DEF Event, Kinds, TypeOK
    <2> QED BY <1>1, <2>1, OrderPublish DEF Publish
  <1>2. ASSUME NEW p \in Processes, Announce(p) PROVE OrderInv'
    <2>1. doing[p].id \in Published
      BY <1>2 DEF Announce, TypeOK
    <2>2. [src |-> p, kind |-> "created", task |-> events[doing[p].id].task] \in Event
      BY <2>1, EventsTyped DEF Event, Kinds
    <2> QED BY <1>2, <2>2, OrderPublish DEF Announce
  <1>3. ASSUME NEW p \in Processes, Notify(p) PROVE OrderInv'
    <2> DEFINE e == Head(waiting[p])
    <2>1. /\ waiting[p] # << >> /\ waiting' = [waiting EXCEPT ![p] = Tail(@)]
          /\ mail' = [q \in Processes |-> IF attached[q] THEN Append(mail[q], e) ELSE mail[q]]
          /\ UNCHANGED <<events, at, fed>>
      BY <1>3 DEF Notify, Returned
    <2>2. /\ \A q \in Processes : Ordered(waiting'[q], events)
                                  /\ ToSet(waiting'[q]) \subseteq ToSet(waiting[q])
          /\ Below({e}, ToSet(waiting'[p]), events)
          /\ e \in ToSet(waiting[p]) /\ e \in Nat /\ events[e].src = p
      BY <1>r, <1>c, <2>1
    <2> HIDE DEF e
    <2>3. ASSUME NEW q \in Processes
          PROVE  /\ Ordered(mail'[q], events)
                 /\ ToSet(mail'[q]) \subseteq ToSet(mail[q]) \cup {e}
      <3>1. Below(ToSet(mail[q]), {e}, events)
        BY <1>m, <2>2 DEF Below
      <3>2. /\ Ordered(Append(mail[q], e), events)
            /\ ToSet(Append(mail[q], e)) = ToSet(mail[q]) \cup {e}
        BY <1>w, <1>m, <2>2, <3>1, OrderedAppend, AppendQueue
      <3> QED BY <1>m, <2>1, <3>2
    <2>4. \A q \in Processes : Below({e}, ToSet(waiting'[q]), events)
      BY <1>c, <2>2 DEF Below
    <2>5. MailInOrder'
      <3> SUFFICES ASSUME NEW q \in Processes
                   PROVE  /\ Ordered(mail'[q], events)
                          /\ \A r \in Processes : Below(ToSet(mail'[q]), ToSet(waiting'[r]), events)
        BY <2>1 DEF MailInOrder
      <3> SUFFICES ASSUME NEW r \in Processes, NEW x \in ToSet(mail'[q]), NEW y \in ToSet(waiting'[r]),
                          events[x].src = events[y].src
                   PROVE  x < y
        BY <2>3 DEF Below
      <3>1. CASE x = e
        BY <2>4, <3>1 DEF Below
      <3>2. CASE x # e
        <4>1. x \in ToSet(mail[q]) /\ y \in ToSet(waiting[r])
          BY <2>2, <2>3, <3>2
        <4> QED BY <1>m, <4>1 DEF Below
      <3> QED BY <3>1, <3>2
    <2>6. CallsInOrder'
      <3> SUFFICES ASSUME NEW q \in Processes
                   PROVE  /\ Ordered(waiting'[q], events)
                          /\ \A x \in ToSet(waiting'[q]) : events[x].src = q
        BY <2>1 DEF CallsInOrder
      <3> QED BY <1>c, <2>2
    <2>7. \A s \in Streams : Mirrored(s)' = Mirrored(s)
      BY <2>1 DEF Mirrored
    <2>8. ASSUME NEW s \in Streams, at[s] # Off
          PROVE  /\ Below(Mirrored(s), ToSet(mail'[at[s]]), events)
                 /\ \A q \in Processes : Below(Mirrored(s), ToSet(waiting'[q]), events)
      <3>1. at[s] \in Processes
        BY <1>a, <2>8
      <3>2. /\ Below(Mirrored(s), ToSet(mail[at[s]]), events)
            /\ \A q \in Processes : Below(Mirrored(s), ToSet(waiting[q]), events)
        BY <1>b, <2>8
      <3>3. Below(Mirrored(s), {e}, events)
        BY <2>2, <3>2 DEF Below
      <3>4. ToSet(mail'[at[s]]) \in SUBSET (ToSet(mail[at[s]]) \cup {e})
        BY <2>3, <3>1
      <3>5. Below(Mirrored(s), ToSet(mail'[at[s]]), events)
        BY <3>2, <3>3, <3>4, BelowOneMore
      <3>6. \A q \in Processes : ToSet(waiting'[q]) \in SUBSET ToSet(waiting[q])
        BY <2>2
      <3> QED BY <3>2, <3>5, <3>6, BelowSubset
    <2>9. StreamsBehind'
      BY <1>b, <2>1, <2>7, <2>8 DEF StreamsBehind
    <2> QED BY <2>5, <2>6, <2>9 DEF OrderInv
  <1>4. ASSUME NEW p \in Processes, OnNotification(p) PROVE OrderInv'
    <2> DEFINE e == Head(mail[p])
    <2>1. /\ mail[p] # << >> /\ mail' = [mail EXCEPT ![p] = Tail(@)]
          /\ UNCHANGED <<events, at, waiting>>
          /\ IF Foreign(p, e) THEN Feed(p, e) ELSE UNCHANGED fed
      BY <1>4 DEF OnNotification
    <2>2. /\ ToSet(mail[p]) = {e} \cup ToSet(Tail(mail[p])) /\ e \in Nat
          /\ Ordered(Tail(mail[p]), events) /\ Below({e}, ToSet(Tail(mail[p])), events)
      BY <1>w, <1>m, <2>1, TailQueue, OrderedTail
    <2>3. mail'[p] = Tail(mail[p]) /\ \A q \in Processes : q # p => mail'[q] = mail[q]
      BY <2>1 DEF TypeOK
    <2> HIDE DEF e
    <2>4. \A q \in Processes : Ordered(mail'[q], events) /\ ToSet(mail'[q]) \subseteq ToSet(mail[q])
      BY <1>m, <2>2, <2>3
    <2>5. CASE ~Foreign(p, e)
      BY <1>u, <1>c, <2>1, <2>4, <2>5
    <2>6. CASE Foreign(p, e)
      <3>1. fed' = [s \in Streams |-> IF at[s] = p THEN Append(fed[s], e) ELSE fed[s]]
        BY <2>1, <2>6 DEF Feed
      <3>2. events[e].src # p
        BY <2>6 DEF Foreign
      <3>3. CallsInOrder'
        BY <1>c, <2>1 DEF CallsInOrder
      <3>4. MailInOrder'
        BY <1>m, <2>1, <2>4 DEF MailInOrder, Below
      <3>5. StreamsBehind'
        <4> SUFFICES ASSUME NEW s \in Streams
                     PROVE  /\ Ordered(fed'[s], events)
                            /\ at[s] = Off => fed'[s] = << >>
                            /\ at[s] # Off =>
                                 /\ Below(Mirrored(s)', ToSet(mail'[at[s]]), events)
                                 /\ \A q \in Processes : Below(Mirrored(s)', ToSet(waiting[q]), events)
          BY <2>1 DEF StreamsBehind
        <4>1. CASE at[s] # p
          <5>1. fed'[s] = fed[s] /\ Mirrored(s)' = Mirrored(s)
            BY <2>1, <3>1, <4>1 DEF Mirrored
          <5> QED BY <1>a, <1>b, <2>3, <4>1, <5>1
        <4>2. CASE at[s] = p
          <5>1. fed'[s] = Append(fed[s], e)
            BY <3>1, <4>2
          <5>2. at[s] # Off
            BY <4>2, BusAssumption
          <5>3. Below(Mirrored(s), {e}, events)
            BY <1>b, <2>2, <4>2, <5>2 DEF Below
          <5>4. Below(ToSet(fed[s]), {e}, events)
            BY <3>2, <4>2, <5>3 DEF Mirrored, Below
          <5>5. Ordered(fed'[s], events) /\ ToSet(fed'[s]) = ToSet(fed[s]) \cup {e}
            BY <1>b, <1>f, <2>2, <5>1, <5>4, OrderedAppend, AppendQueue
          <5>6. Mirrored(s)' \subseteq Mirrored(s) \cup {e}
            BY <2>1, <5>5 DEF Mirrored
          <5>7. Below(Mirrored(s)', ToSet(mail'[p]), events)
            BY <1>b, <2>2, <2>3, <4>2, <5>2, <5>6 DEF Below
          <5>8. \A q \in Processes : Below(Mirrored(s)', ToSet(waiting[q]), events)
            BY <1>b, <1>m, <2>2, <5>2, <5>6 DEF Below
          <5> QED BY <4>2, <5>2, <5>5, <5>7, <5>8
        <4> QED BY <4>1, <4>2
      <3> QED BY <3>3, <3>4, <3>5 DEF OrderInv
    <2> QED BY <2>5, <2>6
  <1>5. ASSUME NEW p \in Processes, NotifyFails(p) PROVE OrderInv'
    <2>1. waiting[p] # << >> /\ waiting' = [waiting EXCEPT ![p] = Tail(@)]
          /\ UNCHANGED <<events, at, fed, mail>>
      BY <1>5 DEF NotifyFails, Returned
    <2>2. \A q \in Processes : Ordered(waiting'[q], events)
                               /\ ToSet(waiting'[q]) \subseteq ToSet(waiting[q])
      BY <1>r, <2>1
    <2> QED BY <1>u, <1>m, <2>1, <2>2
  <1>6. ASSUME NEW p \in Processes, Detach(p) PROVE OrderInv'
    <2>1. mail' = [mail EXCEPT ![p] = << >>] /\ UNCHANGED <<events, at, fed, waiting>>
      BY <1>6 DEF Detach
    <2>2. \A q \in Processes : Ordered(mail'[q], events) /\ ToSet(mail'[q]) \subseteq ToSet(mail[q])
      <3>1. \A q \in Processes : mail'[q] = IF q = p THEN << >> ELSE mail[q]
        BY <2>1 DEF TypeOK
      <3>2. Ordered(<< >>, events) /\ ToSet(<< >>) = {}
        BY EmptyQueue, OrderedEmpty
      <3> QED BY <1>m, <3>1, <3>2
    <2> QED BY <1>u, <1>c, <2>1, <2>2
  <1>7. ASSUME NEW p \in Processes, Crash(p) PROVE OrderInv'
    <2>1. /\ mail' = [mail EXCEPT ![p] = << >>] /\ waiting' = [waiting EXCEPT ![p] = << >>]
          /\ at' = [s \in Streams |-> IF at[s] = p THEN Off ELSE at[s]]
          /\ fed' = [s \in Streams |-> IF at[s] = p THEN << >> ELSE fed[s]]
          /\ UNCHANGED events
      BY <1>7 DEF Crash
    <2>2. \A q \in Processes : /\ Ordered(mail'[q], events) /\ ToSet(mail'[q]) \subseteq ToSet(mail[q])
                               /\ Ordered(waiting'[q], events)
                               /\ ToSet(waiting'[q]) \subseteq ToSet(waiting[q])
      <3>1. \A q \in Processes : /\ mail'[q] = IF q = p THEN << >> ELSE mail[q]
                                 /\ waiting'[q] = IF q = p THEN << >> ELSE waiting[q]
        BY <2>1 DEF TypeOK
      <3>2. Ordered(<< >>, events) /\ ToSet(<< >>) = {}
        BY EmptyQueue, OrderedEmpty
      <3> QED BY <1>c, <1>m, <3>1, <3>2
    <2>3. \A s \in Streams : (at'[s] = at[s] /\ fed'[s] = fed[s]) \/ fed'[s] = << >>
      BY <2>1
    <2> QED BY <1>u, <2>1, <2>2, <2>3
  <1>8. ASSUME NEW s \in Streams, NEW p \in Processes, Connect(s, p) PROVE OrderInv'
    <2>1. /\ at' = [at EXCEPT ![s] = p] /\ fed' = [fed EXCEPT ![s] = << >>]
          /\ UNCHANGED <<events, waiting, mail>>
      BY <1>8 DEF Connect, mirror
    <2>2. \A r \in Streams : (at'[r] = at[r] /\ fed'[r] = fed[r]) \/ fed'[r] = << >>
      BY <2>1 DEF TypeOK
    <2> QED BY <1>u, <1>c, <1>m, <2>1, <2>2
  <1>9. ASSUME NEW s \in Streams, Disconnect(s) PROVE OrderInv'
    <2>1. /\ at' = [at EXCEPT ![s] = Off] /\ fed' = [fed EXCEPT ![s] = << >>]
          /\ UNCHANGED <<events, waiting, mail>>
      BY <1>9 DEF Disconnect, mirror
    <2>2. \A r \in Streams : (at'[r] = at[r] /\ fed'[r] = fed[r]) \/ fed'[r] = << >>
      BY <2>1 DEF TypeOK
    <2> QED BY <1>u, <1>c, <1>m, <2>1, <2>2
  \* The rest touches neither events nor queues nor streams.
  <1>k. ASSUME UNCHANGED <<events, at, fed, waiting, mail>> PROVE OrderInv'
    BY <1>k, <1>u, <1>c, <1>m
  <1>10. ASSUME NEW p \in Processes, Attach(p) \/ Listen(p) \/ ListenFails(p) PROVE OrderInv'
    BY <1>10, <1>k DEF Attach, Listen, ListenFails, streams, mirror
  <1>11. ASSUME NEW t \in Tasks, DismissTask(t) \/ DeleteTask(t) PROVE OrderInv'
    BY <1>11, <1>k DEF DismissTask, MarkRead, DeleteTask, streams, mirror
  <1>12. CASE MarkAllRead \/ UNCHANGED vars
    BY <1>12, <1>k DEF MarkAllRead, vars, streams, mirror
  <1> QED BY <1>1, <1>2, <1>3, <1>4, <1>5, <1>6, <1>7, <1>8, <1>9, <1>10, <1>11, <1>12
          DEF Next, Work

\* A stream shows no event twice and those of one process in their order, through
\* reconnections, lost mail and crashes.
THEOREM StreamsOrdered == Spec => []StreamInOrder
  <1>1. Init => TypeOK /\ OrderInv
    BY TypeInit, OrderInit
  <1>2. (TypeOK /\ OrderInv) /\ [Next]_vars => (TypeOK /\ OrderInv)'
    BY TypeStep, OrderStep
  <1>3. TypeOK /\ OrderInv => StreamInOrder
    BY OrderGivesStreams
  <1> QED BY <1>1, <1>2, <1>3, PTL DEF Spec

-----------------------------------------------------------------------------
(* Nothing is dropped unnoticed *)

\* Only a connected stream is owed anything; the events of its own process it has at once,
\* so the echo that _on_notification throws away is one it has seen.
OwedByConnected ==
    \A s \in Streams : \A e \in owed[s] :
        /\ at[s] \in Processes
        /\ events[e].src = at[s] => e \in ToSet(fed[s])

GapInv == OwedByConnected /\ NoSilentGap

LEMMA GapInit == Init => GapInv
  BY DEF Init, GapInv, OwedByConnected, NoSilentGap

\* An event that is shown, waited for or in the mail.
OnItsWay(s, e) ==
    \/ e \in ToSet(fed[s])
    \/ e \in ToSet(waiting[events[e].src])
    \/ e \in ToSet(mail[at[s]])

LEMMA GapPublish ==
    ASSUME TypeOK, GapInv, NEW p \in Processes, NEW event \in Event, NEW big \in BOOLEAN,
           event.src = p, PublishBy(p, event, big)
    PROVE  GapInv'
  <1> DEFINE e == Len(events) + 1
  <1>1. /\ Published' = Published \cup {e} /\ e \in Nat /\ e \notin Published
        /\ \A x \in Published : x \in Nat /\ x < e /\ events'[x] = events[x]
        /\ events'[e] = event
    BY EventAdded DEF PublishBy, TypeOK, Event, Kinds
  <1>2. /\ fed' = [s \in Streams |-> IF at[s] = p THEN Append(fed[s], e) ELSE fed[s]]
        /\ waiting' = IF big THEN waiting ELSE [waiting EXCEPT ![p] = Append(@, e)]
        /\ owed' = [s \in Streams |-> IF at[s] = p \/ (at[s] # Off /\ ~big)
                                      THEN owed[s] \cup {e} ELSE owed[s]]
        /\ at' = at /\ mail' = mail
    BY DEF PublishBy, Feed
  <1> HIDE DEF e
  <1>3. \A s \in Streams : owed[s] \subseteq Published /\ at[s] \in Processes \cup {Off}
    BY DEF TypeOK
  <1>4. \A s \in Streams : ToSet(Append(fed[s], e)) = ToSet(fed[s]) \cup {e}
    BY <1>1, AppendQueue DEF TypeOK
  <1>5. ToSet(Append(waiting[p], e)) = ToSet(waiting[p]) \cup {e}
    BY <1>1, AppendQueue DEF TypeOK
  <1>6. \A s \in Streams : /\ ToSet(fed[s]) \subseteq ToSet(fed'[s])
                           /\ at[s] = p => e \in ToSet(fed'[s])
    BY <1>2, <1>4
  <1>7. /\ \A q \in Processes : ToSet(waiting[q]) \subseteq ToSet(waiting'[q])
        /\ ~big => e \in ToSet(waiting'[p])
    <2>1. CASE big
      BY <1>2, <2>1
    <2>2. CASE ~big
      <3>1. waiting'[p] = Append(waiting[p], e) /\ \A q \in Processes : q # p => waiting'[q] = waiting[q]
        BY <1>2, <2>2 DEF TypeOK
      <3> QED BY <1>5, <3>1
    <2> QED BY <2>1, <2>2
  <1> SUFFICES ASSUME NEW s \in Streams, NEW x \in owed'[s]
               PROVE  /\ at[s] \in Processes
                      /\ events'[x].src = at[s] => x \in ToSet(fed'[s])
                      /\ \/ x \in ToSet(fed'[s])
                         \/ x \in ToSet(waiting'[events'[x].src])
                         \/ x \in ToSet(mail[at[s]])
    BY <1>2 DEF GapInv, OwedByConnected, NoSilentGap
  <1>8. CASE x \in owed[s]
    <2>1. x \in Published /\ events'[x] = events[x] /\ events[x].src \in Processes
      BY <1>1, <1>3, <1>8, EventsTyped
    <2>2. /\ at[s] \in Processes
          /\ events[x].src = at[s] => x \in ToSet(fed[s])
          /\ OnItsWay(s, x)
      BY <1>8 DEF GapInv, OwedByConnected, NoSilentGap, OnItsWay
    <2>3. x \in ToSet(fed[s]) => x \in ToSet(fed'[s])
      BY <1>6
    <2>4. x \in ToSet(waiting[events[x].src]) => x \in ToSet(waiting'[events'[x].src])
      BY <1>7, <2>1
    <2>5. (events'[x].src = at[s]) = (events[x].src = at[s])
      BY <2>1
    <2> QED BY <2>2, <2>3, <2>4, <2>5 DEF OnItsWay
  <1>9. CASE x \notin owed[s]
    <2>1. x = e /\ (at[s] = p \/ (at[s] # Off /\ ~big))
      BY <1>2, <1>9
    <2>2. at[s] \in Processes /\ events'[x].src = p
      BY <1>1, <1>3, <2>1, BusAssumption
    <2>3. CASE at[s] = p
      BY <1>6, <2>1, <2>2, <2>3
    <2>4. CASE at[s] # p
      BY <1>7, <2>1, <2>2, <2>4
    <2> QED BY <2>3, <2>4
  <1> QED BY <1>8, <1>9

LEMMA GapStep == TypeOK /\ GapInv /\ [Next]_vars => GapInv'
  <1> SUFFICES ASSUME TypeOK, GapInv, [Next]_vars PROVE GapInv'
    OBVIOUS
  <1>w. \A q \in Processes : waiting[q] \in Seq(Nat) /\ mail[q] \in Seq(Nat)
    BY DEF TypeOK
  <1>f. \A s \in Streams : fed[s] \in Seq(Nat)
    BY DEF TypeOK
  <1>g. ASSUME NEW s \in Streams, NEW e \in owed[s]
        PROVE  /\ at[s] \in Processes /\ events[e].src \in Processes
               /\ events[e].src = at[s] => e \in ToSet(fed[s])
               /\ OnItsWay(s, e)
    <2>1. e \in Published
      BY DEF TypeOK
    <2> QED BY <2>1, EventsTyped DEF GapInv, OwedByConnected, NoSilentGap, OnItsWay
  \* What is to be shown of a step that publishes nothing
  <1>u. ASSUME UNCHANGED events,
               \A s \in Streams : \A e \in owed'[s] :
                  /\ e \in owed[s] /\ at'[s] = at[s]
                  /\ ToSet(fed[s]) \subseteq ToSet(fed'[s])
                  /\ OnItsWay(s, e) => OnItsWay(s, e)'
        PROVE  GapInv'
    <2> SUFFICES ASSUME NEW s \in Streams, NEW e \in owed'[s]
                 PROVE  /\ at'[s] \in Processes
                        /\ events'[e].src = at'[s] => e \in ToSet(fed'[s])
                        /\ OnItsWay(s, e)'
      BY DEF GapInv, OwedByConnected, NoSilentGap, OnItsWay
    <2>1. /\ e \in owed[s] /\ at'[s] = at[s] /\ ToSet(fed[s]) \subseteq ToSet(fed'[s])
          /\ OnItsWay(s, e) => OnItsWay(s, e)'
      BY <1>u
    <2> QED BY <1>u, <1>g, <2>1
  \* Of the calls of a process, all but the head keep waiting.
  <1>r. ASSUME NEW p \in Processes, waiting[p] # << >>, waiting' = [waiting EXCEPT ![p] = Tail(@)]
        PROVE  \A q \in Processes : \A x \in ToSet(waiting[q]) :
                  x = Head(waiting[p]) \/ x \in ToSet(waiting'[q])
    <2>1. ToSet(waiting[p]) = {Head(waiting[p])} \cup ToSet(Tail(waiting[p]))
      BY <1>r, <1>w, TailQueue
    <2>2. waiting'[p] = Tail(waiting[p]) /\ \A q \in Processes : q # p => waiting'[q] = waiting[q]
      BY <1>r DEF TypeOK
    <2> QED BY <2>1, <2>2
  <1>1. ASSUME NEW p \in Processes, NEW kind \in {"review", "other"}, NEW t \in Tasks \ gone,
               NEW big \in BOOLEAN, Publish(p, kind, t, big)
        PROVE  GapInv'
    <2>1. [src |-> p, kind |-> kind, task |-> t] \in Event
      BY DEF Event, Kinds, TypeOK
    <2> QED BY <1>1, <2>1, GapPublish DEF Publish
  <1>2. ASSUME NEW p \in Processes, Announce(p) PROVE GapInv'
    <2>1. doing[p].id \in Published
      BY <1>2 DEF Announce, TypeOK
    <2>2. [src |-> p, kind |-> "created", task |-> events[doing[p].id].task] \in Event
      BY <2>1, EventsTyped DEF Event, Kinds
    <2> QED BY <1>2, <2>2, GapPublish DEF Announce
  <1>3. ASSUME NEW p \in Processes, Notify(p) PROVE GapInv'
    <2> DEFINE h == Head(waiting[p])
    <2>1. /\ waiting[p] # << >> /\ waiting' = [waiting EXCEPT ![p] = Tail(@)]
          /\ mail' = [q \in Processes |-> IF attached[q] THEN Append(mail[q], h) ELSE mail[q]]
          /\ Loses({q \in Processes : ~attached[q]}, {h})
          /\ UNCHANGED <<events, at, fed>>
      BY <1>3 DEF Notify, Returned
    <2>2. h \in Nat /\ \A q \in Processes : \A x \in ToSet(waiting[q]) : x = h \/ x \in ToSet(waiting'[q])
      BY <1>r, <1>w, <2>1, TailQueue
    <2> HIDE DEF h
    <2>3. \A q \in Processes : /\ ToSet(mail[q]) \subseteq ToSet(mail'[q])
                               /\ attached[q] => h \in ToSet(mail'[q])
      BY <1>w, <2>1, <2>2, AppendQueue
    <2>4. ASSUME NEW s \in Streams, NEW e \in owed'[s]
          PROVE  e \in owed[s] /\ (OnItsWay(s, e) => OnItsWay(s, e)')
      <3>1. e \in owed[s] /\ (e = h => ~(at[s] \in Processes /\ ~attached[at[s]]))
        BY <2>1, <2>4 DEF Loses
      <3>2. at[s] \in Processes /\ events[e].src \in Processes
        BY <1>g, <3>1
      <3>3. e = h => e \in ToSet(mail'[at[s]])
        BY <2>3, <3>1, <3>2
      <3> QED BY <2>1, <2>2, <2>3, <3>1, <3>2, <3>3 DEF OnItsWay
    <2> QED BY <1>u, <2>1, <2>4
  <1>4. ASSUME NEW p \in Processes, NotifyFails(p) PROVE GapInv'
    <2> DEFINE h == Head(waiting[p])
    <2>1. /\ waiting[p] # << >> /\ waiting' = [waiting EXCEPT ![p] = Tail(@)]
          /\ Loses(Processes, {h}) /\ UNCHANGED <<events, at, fed, mail>>
      BY <1>4 DEF NotifyFails, Returned
    <2>2. \A q \in Processes : \A x \in ToSet(waiting[q]) : x = h \/ x \in ToSet(waiting'[q])
      BY <1>r, <2>1
    <2> HIDE DEF h
    <2>3. ASSUME NEW s \in Streams, NEW e \in owed'[s]
          PROVE  e \in owed[s] /\ (OnItsWay(s, e) => OnItsWay(s, e)')
      <3>1. e \in owed[s] /\ (at[s] \in Processes => e # h)
        BY <2>1, <2>3 DEF Loses
      <3>2. at[s] \in Processes /\ events[e].src \in Processes
        BY <1>g, <3>1
      <3> QED BY <2>1, <2>2, <3>1, <3>2 DEF OnItsWay
    <2> QED BY <1>u, <2>1, <2>3
  <1>5. ASSUME NEW p \in Processes, OnNotification(p) PROVE GapInv'
    <2> DEFINE h == Head(mail[p])
    <2>1. /\ mail[p] # << >> /\ mail' = [mail EXCEPT ![p] = Tail(@)]
          /\ UNCHANGED <<events, at, waiting, owed>>
          /\ IF Foreign(p, h) THEN Feed(p, h) ELSE UNCHANGED fed
      BY <1>5 DEF OnNotification
    <2>2. h \in Nat /\ ToSet(mail[p]) = {h} \cup ToSet(Tail(mail[p]))
      BY <1>w, <2>1, TailQueue
    <2>3. mail'[p] = Tail(mail[p]) /\ \A q \in Processes : q # p => mail'[q] = mail[q]
      BY <2>1 DEF TypeOK
    <2> HIDE DEF h
    <2>4. \A s \in Streams : /\ ToSet(fed[s]) \subseteq ToSet(fed'[s])
                             /\ Foreign(p, h) /\ at[s] = p => h \in ToSet(fed'[s])
      <3>1. \A s \in Streams : ToSet(Append(fed[s], h)) = ToSet(fed[s]) \cup {h}
        BY <1>f, <2>2, AppendQueue
      <3>2. CASE Foreign(p, h)
        BY <2>1, <3>1, <3>2 DEF Feed
      <3>3. CASE ~Foreign(p, h)
        BY <2>1, <3>3
      <3> QED BY <3>2, <3>3
    <2>5. ASSUME NEW s \in Streams, NEW e \in owed[s] PROVE OnItsWay(s, e)'
      <3>1. /\ at[s] \in Processes /\ events[e].src \in Processes
            /\ events[e].src = at[s] => e \in ToSet(fed[s])
            /\ OnItsWay(s, e)
        BY <1>g
      <3>2. CASE e \in ToSet(fed[s])
        BY <2>4, <3>2 DEF OnItsWay
      <3>3. CASE e \in ToSet(waiting[events[e].src])
        BY <2>1, <3>3 DEF OnItsWay
      <3>4. CASE e \in ToSet(mail[at[s]]) /\ e \notin ToSet(fed[s])
        <4>1. CASE at[s] = p /\ e = h
          BY <2>4, <3>1, <3>4, <4>1 DEF OnItsWay, Foreign
        <4>2. CASE ~(at[s] = p /\ e = h)
          BY <2>1, <2>2, <2>3, <3>1, <3>4, <4>2 DEF OnItsWay
        <4> QED BY <4>1, <4>2
      <3> QED BY <3>1, <3>2, <3>3, <3>4 DEF OnItsWay
    <2> QED BY <1>u, <2>1, <2>4, <2>5
  <1>6. ASSUME NEW p \in Processes, Detach(p) PROVE GapInv'
    <2>1. /\ Loses({p}, ToSet(mail[p])) /\ mail' = [mail EXCEPT ![p] = << >>]
          /\ UNCHANGED <<events, at, fed, waiting>>
      BY <1>6 DEF Detach
    <2>2. \A q \in Processes : q # p => mail'[q] = mail[q]
      BY <2>1 DEF TypeOK
    <2>3. ASSUME NEW s \in Streams, NEW e \in owed'[s]
          PROVE  e \in owed[s] /\ (OnItsWay(s, e) => OnItsWay(s, e)')
      <3>1. e \in owed[s] /\ (at[s] = p => e \notin ToSet(mail[p]))
        BY <2>1, <2>3 DEF Loses
      <3>2. at[s] \in Processes
        BY <1>g, <3>1
      <3> QED BY <2>1, <2>2, <3>1, <3>2 DEF OnItsWay
    <2> QED BY <1>u, <2>1, <2>3
  <1>7. ASSUME NEW p \in Processes, Crash(p) PROVE GapInv'
    <2>1. /\ mail' = [mail EXCEPT ![p] = << >>] /\ waiting' = [waiting EXCEPT ![p] = << >>]
          /\ at' = [s \in Streams |-> IF at[s] = p THEN Off ELSE at[s]]
          /\ fed' = [s \in Streams |-> IF at[s] = p THEN << >> ELSE fed[s]]
          /\ owed' = [s \in Streams |-> IF at[s] = p THEN {} ELSE owed[s] \ ToSet(waiting[p])]
          /\ UNCHANGED events
      BY <1>7 DEF Crash
    <2>2. \A q \in Processes : q # p => mail'[q] = mail[q] /\ waiting'[q] = waiting[q]
      BY <2>1 DEF TypeOK
    <2>3. ASSUME NEW s \in Streams, NEW e \in owed'[s]
          PROVE  /\ e \in owed[s] /\ at'[s] = at[s] /\ fed'[s] = fed[s]
                 /\ OnItsWay(s, e) => OnItsWay(s, e)'
      <3>1. at[s] # p /\ e \in owed[s] /\ e \notin ToSet(waiting[p]) /\ at'[s] = at[s] /\ fed'[s] = fed[s]
        BY <2>1, <2>3
      <3>2. at[s] \in Processes /\ events[e].src \in Processes
        BY <1>g, <3>1
      <3> QED BY <2>1, <2>2, <3>1, <3>2 DEF OnItsWay
    <2> QED BY <1>u, <2>1, <2>3
  <1>8. ASSUME NEW s \in Streams, NEW p \in Processes, Connect(s, p) PROVE GapInv'
    <2>1. /\ owed' = [owed EXCEPT ![s] = {}] /\ fed' = [fed EXCEPT ![s] = << >>]
          /\ at' = [at EXCEPT ![s] = p] /\ UNCHANGED <<events, waiting, mail>>
      BY <1>8 DEF Connect, mirror
    <2>2. \A r \in Streams : \/ owed'[r] = {}
                             \/ owed'[r] = owed[r] /\ fed'[r] = fed[r] /\ at'[r] = at[r]
      BY <2>1 DEF TypeOK
    <2> QED BY <1>u, <2>1, <2>2 DEF OnItsWay
  <1>9. ASSUME NEW s \in Streams, Disconnect(s) PROVE GapInv'
    <2>1. /\ owed' = [owed EXCEPT ![s] = {}] /\ fed' = [fed EXCEPT ![s] = << >>]
          /\ at' = [at EXCEPT ![s] = Off] /\ UNCHANGED <<events, waiting, mail>>
      BY <1>9 DEF Disconnect, mirror
    <2>2. \A r \in Streams : \/ owed'[r] = {}
                             \/ owed'[r] = owed[r] /\ fed'[r] = fed[r] /\ at'[r] = at[r]
      BY <2>1 DEF TypeOK
    <2> QED BY <1>u, <2>1, <2>2 DEF OnItsWay
  <1>k. ASSUME UNCHANGED <<events, streams, waiting, mail>> PROVE GapInv'
    BY <1>k, <1>u DEF streams, OnItsWay
  <1>10. ASSUME NEW p \in Processes, Attach(p) \/ Listen(p) \/ ListenFails(p) PROVE GapInv'
    BY <1>10, <1>k DEF Attach, Listen, ListenFails, mirror
  <1>11. ASSUME NEW t \in Tasks, DismissTask(t) \/ DeleteTask(t) PROVE GapInv'
    BY <1>11, <1>k DEF DismissTask, MarkRead, DeleteTask, mirror
  <1>12. CASE MarkAllRead \/ UNCHANGED vars
    BY <1>12, <1>k DEF MarkAllRead, vars, mirror
  <1> QED BY <1>1, <1>2, <1>3, <1>4, <1>5, <1>6, <1>7, <1>8, <1>9, <1>10, <1>11, <1>12 DEF Next, Work

\* What a connected stream was promised it has been shown, or it is still on its way.
THEOREM NothingDropped == Spec => []NoSilentGap
  <1>1. Init => TypeOK /\ GapInv
    BY TypeInit, GapInit
  <1>2. (TypeOK /\ GapInv) /\ [Next]_vars => (TypeOK /\ GapInv)'
    BY TypeStep, GapStep
  <1>3. GapInv => NoSilentGap
    BY DEF GapInv
  <1> QED BY <1>1, <1>2, <1>3, PTL DEF Spec
=============================================================================
