------------------------------ MODULE EventBus ------------------------------
(***************************************************************************)
(* The event bus of one project: publish in one server process, its SSE     *)
(* streams, the mirror through Postgres NOTIFY to the other processes, and  *)
(* the notification listener every process runs                             *)
(* (src/src/shared/events.py, src/src/gateway/sse.py,                       *)
(* src/src/gateway/notification_listener.py).                               *)
(*                                                                         *)
(* The queues are unbounded and first in first out, so the events put into  *)
(* a stream's queue are the frames it yields.  A NOTIFY reaches the         *)
(* connections that LISTEN when it commits, in one order for all of them,   *)
(* and nothing later.                                                       *)
(***************************************************************************)
EXTENDS Naturals, Sequences, SequencesExt

CONSTANTS Processes,   \* server processes
          Streams,     \* SSE connections
          Tasks,
          MaxEvents,   \* bound: events published
          MaxFaults,   \* bound: crashes, lost connections and database errors
          Off          \* no process

ASSUME BusAssumption ==
    /\ MaxEvents \in Nat /\ MaxFaults \in Nat
    /\ Off \notin Processes

VARIABLES events,   \* the events published, by id
          promised, \* how many there will be once every announcement is made
          at,       \* the process a stream is connected to, or Off
          fed,      \* the ids put into a stream's queue
          inbox,    \* the queue of a process's notification listener
          doing,    \* what that listener is in the middle of
          waiting,  \* publish calls that hold, or wait for, _publisher_lock
          attached, \* whether the LISTEN connection of a process is up
          mail,     \* notifications under way to it
          gone,     \* tasks that were deleted
          unread,   \* the events with an unread notification row
          made,     \* history: rows ever inserted for each of them
          owed,     \* history: events published while a stream is connected, less the
                    \* ones that the mirror is known to have dropped on the way to it
          failed,   \* history: moves to review whose listener failed or stopped
          faults

streams == <<at, fed, owed>>
mirror == <<waiting, attached, mail>>
notes == <<gone, unread>>
vars == <<events, made, promised, streams, inbox, doing, mirror, notes, failed, faults>>

Published == DOMAIN events
Nothing == [step |-> "idle", id |-> 0]

TypeOK ==
    /\ events \in Seq([src : Processes, kind : {"review", "other", "created"}, task : Tasks])
    /\ made \in Seq(Nat) /\ Len(made) = Len(events)
    /\ promised \in Nat
    /\ at \in [Streams -> Processes \cup {Off}]
    /\ fed \in [Streams -> Seq(Nat)] /\ \A s \in Streams : ToSet(fed[s]) \subseteq Published
    /\ \A queue \in {inbox, waiting, mail} :
          /\ queue \in [Processes -> Seq(Nat)]
          /\ \A p \in Processes : ToSet(queue[p]) \subseteq Published
    /\ doing \in [Processes -> [step : {"idle", "announce", "send"}, id : Nat]]
    /\ \A p \in Processes : doing[p].step # "idle" => doing[p].id \in Published
    /\ attached \in [Processes -> BOOLEAN]
    /\ gone \subseteq Tasks /\ unread \subseteq Published /\ failed \subseteq Published
    /\ owed \in [Streams -> SUBSET Published]
    /\ faults \in 0..MaxFaults

Init ==
    /\ events = << >>
    /\ promised = 0
    /\ at = [s \in Streams |-> Off]
    /\ fed = [s \in Streams |-> << >>]
    /\ inbox = [p \in Processes |-> << >>]
    /\ doing = [p \in Processes |-> Nothing]
    /\ waiting = [p \in Processes |-> << >>]
    /\ attached = [p \in Processes |-> FALSE]
    /\ mail = [p \in Processes |-> << >>]
    /\ gone = {}
    /\ unread = {}
    /\ made = << >>
    /\ owed = [s \in Streams |-> {}]
    /\ failed = {}
    /\ faults = 0

Fault == faults < MaxFaults /\ faults' = faults + 1

-----------------------------------------------------------------------------
(* Publishing *)

\* _fan_out to the project's subscribers in process p
Feed(p, e) ==
    fed' = [s \in Streams |-> IF at[s] = p THEN Append(fed[s], e) ELSE fed[s]]

\* The processes ps will not get the events es.
Loses(ps, es) == owed' = [s \in Streams |-> IF at[s] \in ps THEN owed[s] \ es ELSE owed[s]]

\* publish: the streams and the listener of the process at once, then the mirror,
\* which an event too large for NOTIFY does not reach.
PublishBy(p, event, big) ==
    LET e == Len(events) + 1 IN
    /\ events' = Append(events, event)
    /\ made' = Append(made, 0)
    /\ Feed(p, e)
    /\ inbox' = [inbox EXCEPT ![p] = Append(@, e)]
    /\ waiting' = IF big THEN waiting ELSE [waiting EXCEPT ![p] = Append(@, e)]
    /\ owed' = [s \in Streams |-> IF at[s] = p \/ (at[s] # Off /\ ~big)
                                  THEN owed[s] \cup {e} ELSE owed[s]]
    /\ UNCHANGED <<at, attached, mail>>

\* A request handler, after its commit
Publish(p, kind, t, big) ==
    /\ promised' = promised + (IF kind = "review" THEN 2 ELSE 1)
    /\ promised' <= MaxEvents
    /\ PublishBy(p, [src |-> p, kind |-> kind, task |-> t], big)
    /\ UNCHANGED <<doing, notes, failed, faults>>

\* The call whose turn it was has returned; if the listener made it, it goes on.
Returned(p) ==
    /\ waiting' = [waiting EXCEPT ![p] = Tail(@)]
    /\ doing' = [doing EXCEPT ![p] = IF @.step = "send" /\ @.id = Head(waiting[p])
                                     THEN Nothing ELSE @]

\* _notify under the publisher's lock
Notify(p) ==
    /\ waiting[p] # << >>
    /\ LET e == Head(waiting[p]) IN
       /\ mail' = [q \in Processes |-> IF attached[q] THEN Append(mail[q], e) ELSE mail[q]]
       /\ Loses({q \in Processes : ~attached[q]}, {e})
    /\ Returned(p)
    /\ UNCHANGED <<events, made, promised, at, fed, inbox, attached, notes, failed, faults>>

\* It could not connect or execute: the mirror is best effort. An execute that raises although
\* the NOTIFY was committed leaves what Notify leaves.
NotifyFails(p) ==
    /\ Fault
    /\ waiting[p] # << >>
    /\ Loses(Processes, {Head(waiting[p])})
    /\ Returned(p)
    /\ UNCHANGED <<events, made, promised, at, fed, inbox, attached, mail, notes, failed>>

-----------------------------------------------------------------------------
(* Listening *)

\* Mutant: the echo of the process's own NOTIFY is delivered again.
ForeignOrEcho(p, e) == e \in Published /\ p \in Processes

\* Mutant: the comparison with the source is turned round.
OwnOnly(p, e) == events[e].src = p

Foreign(p, e) == events[e].src # p

\* Mutant: a mirrored event reaches the notification listener as well.
MirrorToListener(p, e) == inbox' = [inbox EXCEPT ![p] = IF Foreign(p, e) THEN Append(@, e) ELSE @]

\* _fan_out with include_global=False
Mirror(p, e) == e \in Published /\ p \in Processes /\ UNCHANGED inbox

\* _on_notification
OnNotification(p) ==
    /\ mail[p] # << >>
    /\ LET e == Head(mail[p]) IN
       /\ IF Foreign(p, e) THEN Feed(p, e) ELSE UNCHANGED fed
       /\ Mirror(p, e)
    /\ mail' = [mail EXCEPT ![p] = Tail(@)]
    /\ UNCHANGED <<events, made, promised, at, doing, waiting, attached, owed, notes, failed, faults>>

\* _listener_loop: the connection is made, at start-up or up to 15 seconds after it broke.
Attach(p) ==
    /\ ~attached[p]
    /\ attached' = [attached EXCEPT ![p] = TRUE]
    /\ UNCHANGED <<events, made, promised, streams, inbox, doing, waiting, mail, notes, failed, faults>>

Detach(p) ==
    /\ Fault
    /\ attached[p]
    /\ attached' = [attached EXCEPT ![p] = FALSE]
    /\ Loses({p}, ToSet(mail[p]))
    /\ mail' = [mail EXCEPT ![p] = << >>]
    /\ UNCHANGED <<events, made, promised, at, fed, inbox, doing, waiting, notes, failed>>

-----------------------------------------------------------------------------
(* The SSE streams *)

Connect(s, p) ==
    /\ at[s] = Off
    /\ at' = [at EXCEPT ![s] = p]
    /\ fed' = [fed EXCEPT ![s] = << >>]
    /\ owed' = [owed EXCEPT ![s] = {}]
    /\ UNCHANGED <<events, made, promised, inbox, doing, mirror, notes, failed, faults>>

Disconnect(s) ==
    /\ at[s] # Off
    /\ at' = [at EXCEPT ![s] = Off]
    /\ fed' = [fed EXCEPT ![s] = << >>]
    /\ owed' = [owed EXCEPT ![s] = {}]
    /\ UNCHANGED <<events, made, promised, inbox, doing, mirror, notes, failed, faults>>

-----------------------------------------------------------------------------
(* run_notification_listener: one event at a time, to the end of its dispatch *)

\* A task that moved to review, and that is still there, gets a notification row.
Notable(e) == events[e].kind = "review" /\ events[e].task \notin gone

MakeRow(e) ==
    /\ unread' = unread \cup {e}
    /\ made' = [made EXCEPT ![e] = @ + 1]

Listen(p) ==
    /\ doing[p] = Nothing /\ inbox[p] # << >>
    /\ LET e == Head(inbox[p]) IN
       IF Notable(e)
       THEN /\ MakeRow(e)
            /\ doing' = [doing EXCEPT ![p] = [step |-> "announce", id |-> e]]
       ELSE UNCHANGED <<unread, made, doing>>
    /\ inbox' = [inbox EXCEPT ![p] = Tail(@)]
    /\ UNCHANGED <<events, promised, streams, mirror, gone, failed, faults>>

\* The database refused the row, or took it and could not be read again: the error is logged
\* and the event is done with.
ListenFails(p) ==
    /\ Fault
    /\ doing[p] = Nothing /\ inbox[p] # << >>
    /\ Notable(Head(inbox[p]))
    /\ MakeRow(Head(inbox[p])) \/ UNCHANGED <<made, unread>>
    /\ failed' = failed \cup {Head(inbox[p])}
    /\ inbox' = [inbox EXCEPT ![p] = Tail(@)]
    /\ UNCHANGED <<events, promised, streams, doing, mirror, gone>>

\* NOTIFICATION_CREATED, which the listener itself will find in its queue and ignore.
Announce(p) ==
    /\ doing[p].step = "announce"
    /\ PublishBy(p, [src |-> p, kind |-> "created", task |-> events[doing[p].id].task], FALSE)
    /\ doing' = [doing EXCEPT ![p] = [step |-> "send", id |-> Len(events) + 1]]
    /\ UNCHANGED <<promised, notes, failed, faults>>

-----------------------------------------------------------------------------
(* Notifications and tasks through the board *)

Of(t) == {e \in Published : events[e].task = t}

MarkRead(e) ==
    /\ e \in unread
    /\ unread' = unread \ {e}
    /\ UNCHANGED <<events, made, promised, streams, inbox, doing, mirror, gone, failed, faults>>

\* dismiss-task marks one unread notification of the task.
DismissTask(t) == \E e \in Of(t) : MarkRead(e)

MarkAllRead ==
    /\ unread # {}
    /\ unread' = {}
    /\ UNCHANGED <<events, made, promised, streams, inbox, doing, mirror, gone, failed, faults>>

\* Its notifications go with a deleted task.
DeleteTask(t) ==
    /\ t \notin gone
    /\ gone' = gone \cup {t}
    /\ unread' = unread \ Of(t)
    /\ UNCHANGED <<events, made, promised, streams, inbox, doing, mirror, failed, faults>>

-----------------------------------------------------------------------------
(* A process stops and starts again: its queues, streams and calls are gone. *)
Crash(p) ==
    /\ Fault
    /\ at' = [s \in Streams |-> IF at[s] = p THEN Off ELSE at[s]]
    /\ fed' = [s \in Streams |-> IF at[s] = p THEN << >> ELSE fed[s]]
    /\ inbox' = [inbox EXCEPT ![p] = << >>]
    /\ doing' = [doing EXCEPT ![p] = Nothing]
    /\ waiting' = [waiting EXCEPT ![p] = << >>]
    /\ attached' = [attached EXCEPT ![p] = FALSE]
    /\ mail' = [mail EXCEPT ![p] = << >>]
    /\ owed' = [s \in Streams |-> IF at[s] = p THEN {} ELSE owed[s] \ ToSet(waiting[p])]
    /\ failed' = failed \cup {e \in ToSet(inbox[p]) : events[e].kind = "review"}
    /\ UNCHANGED <<events, made, promised, notes>>

Work(p) == Notify(p) \/ OnNotification(p) \/ Listen(p) \/ Announce(p)

Next ==
    \/ \E p \in Processes :
         \/ \E kind \in {"review", "other"}, t \in Tasks \ gone, big \in BOOLEAN :
              Publish(p, kind, t, big)
         \/ Work(p)
         \/ NotifyFails(p) \/ ListenFails(p) \/ Attach(p) \/ Detach(p) \/ Crash(p)
         \/ \E s \in Streams : Connect(s, p)
    \/ \E s \in Streams : Disconnect(s)
    \/ \E t \in Tasks : DismissTask(t) \/ DeleteTask(t)
    \/ MarkAllRead

Spec == Init /\ [][Next]_vars

-----------------------------------------------------------------------------
(* Properties *)

\* A move to review gives one notification row, made by the process that published
\* it however many processes listen; no other event gives one. Until the row is made
\* the event waits in that process's queue, unless the task is deleted or the listener
\* fails or stops.
NotifiedOnce ==
    /\ \A e \in Published : made[e] > 0 => made[e] = 1 /\ events[e].kind = "review"
    /\ \A e \in Published : Notable(e) =>
          made[e] = 1 \/ e \in failed \/ e \in ToSet(inbox[events[e].src])

\* A stream never shows an event twice, and shows the events of one process in the
\* order in which that process published them, mirrored or not.
StreamInOrder ==
    \A s \in Streams : \A i, j \in DOMAIN fed[s] :
        i < j /\ events[fed[s][i]].src = events[fed[s][j]].src => fed[s][i] < fed[s][j]

\* A connected stream has been shown every event published by any process since it
\* connected, or the event is still under way to it: in a publish call that waits for
\* the lock, or in the mail of the stream's process. Nothing is dropped unnoticed.
NoSilentGap ==
    \A s \in Streams : \A e \in owed[s] :
        \/ e \in ToSet(fed[s])
        \/ e \in ToSet(waiting[events[e].src])
        \/ e \in ToSet(mail[at[s]])
=============================================================================
