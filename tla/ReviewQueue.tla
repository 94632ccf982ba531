----------------------------- MODULE ReviewQueue -----------------------------
(***************************************************************************)
(* The review engine's queue in one server process                         *)
(* (src/src/gateway/review_engine.py): RateLimiter with its reservations,  *)
(* ReviewEngineConsumer.handle up to the start of the review,              *)
(* _schedule_rate_limit_retry, _run_rate_limit_retry, and the lock that    *)
(* lets one review run at a time. What a review does is in ReviewLoop.     *)
(*                                                                         *)
(* The event loop runs a handler up to its first await without interleaving, *)
(* so the whole decision on a push is one action. Timers are punctual: one *)
(* that is due runs before the clock moves and before the next webhook.    *)
(* The clock counts from 0 and stops when no push may come and no retry    *)
(* sleeps.                                                                 *)
(***************************************************************************)
EXTENDS Integers, Sequences, FiniteSets, Bags

CONSTANTS
    Prs,
    MaxPushes,      \* bound: webhooks of one run
    LastPush,       \* bound: the time after which no webhook comes
    Window,         \* RATE_LIMIT_WINDOW_SECONDS
    Buffer,         \* RATE_LIMIT_RETRY_BUFFER_SECONDS
    Limits,         \* the values of review_max_per_hour
    NoPr, NoTime, NoPush

Pushes == 1..MaxPushes

ASSUME PushAssumption ==
    /\ MaxPushes \in Nat /\ LastPush \in Nat
    /\ Window \in Nat \ {0} /\ Buffer \in Nat
    /\ Limits \subseteq Nat
    /\ NoPr \notin Prs /\ NoTime \notin Nat /\ NoPush \notin Nat

VARIABLES
    max,            \* _max
    now,            \* time.monotonic()
    pr,             \* history: the pull request of each push that has arrived
    stage,          \* where the handler or the retry of a push is
    stamp,          \* _timestamps: when the push was counted
    reservations,   \* _reservations: a bag of wake times
    wake,           \* _t381_wake of the retry of a push
    pending,        \* _pending_retries
    line            \* the order in which the lock was asked for

limiter == <<max, stamp, reservations>>
vars == <<limiter, now, pr, stage, wake, pending, line>>

Stages == {"none", "refused", "sleeping", "waiting", "reviewing", "stopping",
           "superseded", "done"}

TypeOK ==
    /\ max \in Limits /\ now \in Nat
    /\ pr \in [Pushes -> Prs \cup {NoPr}]
    /\ stage \in [Pushes -> Stages]
    /\ stamp \in [Pushes -> Nat \cup {NoTime}]
    /\ IsABag(reservations) /\ BagToSet(reservations) \subseteq Nat
    /\ wake \in [Pushes -> Nat \cup {NoTime}]
    /\ pending \in [Prs -> Pushes \cup {NoPush}]
    /\ line \in Seq(Pushes)

Init ==
    /\ max \in Limits /\ now = 0
    /\ pr = [e \in Pushes |-> NoPr]
    /\ stage = [e \in Pushes |-> "none"]
    /\ stamp = [e \in Pushes |-> NoTime]
    /\ reservations = EmptyBag
    /\ wake = [e \in Pushes |-> NoTime]
    /\ pending = [p \in Prs |-> NoPush]
    /\ line = <<>>

-----------------------------------------------------------------------------
(* RateLimiter *)

Active == {e \in Pushes : stamp[e] # NoTime /\ now - stamp[e] < Window}

\* The list of reservations, in no order: one slot for each, with its wake time.
Slots(bag) == UNION {{t} \X (1..bag[t]) : t \in BagToSet(bag)}
Reserved(bag) == Cardinality(Slots(bag))

One(t) == SetToBag({t})

Allow == Cardinality(Active) + Reserved(reservations) < max

\* can_reserve, once the reservation given up by an older retry is out of the bag
CanReserve(bag) == Reserved(bag) < max

\* The starts already planned: active timestamps and reservations, a list sorted by time.
ScheduledTimes(bag) == {stamp[e] : e \in Active} \cup BagToSet(bag)
PlannedUpTo(bag, t) ==
    Cardinality({e \in Active : stamp[e] <= t}) + Cardinality({s \in Slots(bag) : s[1] <= t})
\* t is the k-th planned start, counted from 0.
IsPlanned(bag, k, t) ==
    /\ PlannedUpTo(bag, t) > k
    /\ \A s \in ScheduledTimes(bag) : s < t => PlannedUpTo(bag, s) <= k

LaterOf(a, b) == IF a > b THEN a ELSE b

\* Mutant: every retry wakes when the oldest start leaves the window.
SharedWake(bag, w) ==
    IF Cardinality(Active) + Reserved(bag) < max THEN w = now
    ELSE \E t \in ScheduledTimes(bag) : IsPlanned(bag, 0, t) /\ w = LaterOf(t + Window, now)

\* w is the wake time that reserve computes.
Wake(bag, w) ==
    LET n == Cardinality(Active) + Reserved(bag)
    IN  IF n < max THEN w = now
        ELSE \E t \in ScheduledTimes(bag) :
                /\ IsPlanned(bag, n - max, t)
                /\ w = LaterOf(t + Window, now)

WakeTimes(bag) == {now} \cup {t + Window : t \in ScheduledTimes(bag)}

-----------------------------------------------------------------------------
(* The retry task that a newer push of the same pull request replaces *)

\* The task exists and is not done.
Live(e) == e # NoPush /\ stage[e] \in {"sleeping", "waiting", "reviewing"}

\* cancel(): a review that runs still has to unwind and give the lock back.
Cancelled(p) ==
    IF ~Live(pending[p]) THEN stage
    ELSE [stage EXCEPT ![pending[p]] = IF @ = "reviewing" THEN "stopping" ELSE "superseded"]

\* Mutant: the reservation of the replaced retry is kept.
NotReleased(p) == reservations

\* release_reservation: removes one equal wake time, if there is one.
Released(p) ==
    IF ~Live(pending[p]) THEN reservations
    ELSE reservations (-) One(wake[pending[p]])

-----------------------------------------------------------------------------
(* Steps *)

\* Events of the loop that the same tick has ready are handled in order: timers first.
Due(e) == stage[e] = "sleeping" /\ now >= wake[e] + Buffer
Punctual == \A e \in Pushes : ~Due(e)

Arrive(e, p) ==
    /\ Punctual /\ now <= LastPush
    /\ pr[e] = NoPr /\ \A d \in Pushes : d < e => pr[d] # NoPr
    /\ pr' = [pr EXCEPT ![e] = p]
    /\ UNCHANGED <<max, now>>

\* Mutant: the sleeping retry of the pull request is left alone.
HandleAllowedOnly(e, p) ==
    /\ Allow
    /\ Arrive(e, p)
    /\ stamp' = [stamp EXCEPT ![e] = now]
    /\ stage' = [stage EXCEPT ![e] = "waiting"]
    /\ line' = Append(line, e)
    /\ UNCHANGED <<reservations, wake, pending>>

\* handle, when there is a slot: the push takes the place of a pending retry.
HandleAllowed(e, p) ==
    /\ Allow
    /\ Arrive(e, p)
    /\ stamp' = [stamp EXCEPT ![e] = now]
    /\ stage' = [Cancelled(p) EXCEPT ![e] = "waiting"]
    /\ reservations' = Released(p)
    /\ pending' = [pending EXCEPT ![p] = NoPush]
    /\ line' = Append(line, e)
    /\ UNCHANGED wake

\* handle and _schedule_rate_limit_retry: a retry is scheduled.
HandleDeferred(e, p) ==
    /\ ~Allow /\ max # 0 /\ CanReserve(Released(p))
    /\ Arrive(e, p)
    /\ \E w \in WakeTimes(Released(p)) :
        /\ Wake(Released(p), w)
        /\ reservations' = Released(p) (+) One(w)
        /\ wake' = [wake EXCEPT ![e] = w]
    /\ stage' = [Cancelled(p) EXCEPT ![e] = "sleeping"]
    /\ pending' = [pending EXCEPT ![p] = e]
    /\ UNCHANGED <<stamp, line>>

\* handle and _schedule_rate_limit_retry: every slot is promised already.
HandleRefused(e, p) ==
    /\ ~Allow /\ max # 0 /\ ~CanReserve(Released(p))
    /\ Arrive(e, p)
    /\ stage' = [Cancelled(p) EXCEPT ![e] = "refused"]
    /\ reservations' = Released(p)
    /\ pending' = [pending EXCEPT ![p] = NoPush]
    /\ UNCHANGED <<stamp, wake, line>>

\* handle with review_max_per_hour = 0
HandleBlocked(e, p) ==
    /\ ~Allow /\ max = 0
    /\ Arrive(e, p)
    /\ stage' = [stage EXCEPT ![e] = "refused"]
    /\ UNCHANGED <<stamp, reservations, wake, pending, line>>

\* Mutant: the retry's start is not counted.
RetryFiresUncounted(e) ==
    /\ Due(e)
    /\ reservations' = reservations (-) One(wake[e])
    /\ stage' = [stage EXCEPT ![e] = "waiting"]
    /\ line' = Append(line, e)
    /\ UNCHANGED <<max, now, pr, stamp, wake, pending>>

\* _run_rate_limit_retry after its sleep: the reservation becomes a timestamp.
RetryFires(e) ==
    /\ Due(e)
    /\ reservations' = reservations (-) One(wake[e])
    /\ stamp' = [stamp EXCEPT ![e] = now]
    /\ stage' = [stage EXCEPT ![e] = "waiting"]
    /\ line' = Append(line, e)
    /\ UNCHANGED <<max, now, pr, wake, pending>>

\* asyncio.Lock serves its waiters in order; a cancelled one has left.
ReviewStarts(e) ==
    /\ stage[e] = "waiting"
    /\ \A d \in Pushes : stage[d] \notin {"reviewing", "stopping"}
    /\ \E i \in DOMAIN line :
        /\ line[i] = e
        /\ \A j \in 1..(i - 1) : stage[line[j]] # "waiting"
    /\ stage' = [stage EXCEPT ![e] = "reviewing"]
    /\ UNCHANGED <<limiter, now, pr, wake, pending, line>>

\* _review_pr returned or raised; the retry removes its own entry only.
ReviewEnds(e) ==
    /\ stage[e] = "reviewing"
    /\ stage' = [stage EXCEPT ![e] = "done"]
    /\ pending' = [pending EXCEPT ![pr[e]] = IF @ = e THEN NoPush ELSE @]
    /\ UNCHANGED <<limiter, now, pr, wake, line>>

\* Mutant: a cancelled review keeps the lock.
ReviewUnwindsLocked(e) == stage[e] = "stopping" /\ UNCHANGED vars

\* The cancelled review has unwound.
ReviewUnwinds(e) ==
    /\ stage[e] = "stopping"
    /\ stage' = [stage EXCEPT ![e] = "superseded"]
    /\ UNCHANGED <<limiter, now, pr, wake, pending, line>>

TimePasses ==
    /\ Punctual
    /\ now < LastPush \/ \E e \in Pushes : stage[e] = "sleeping"
    /\ now' = now + 1
    /\ UNCHANGED <<limiter, pr, stage, wake, pending, line>>

-----------------------------------------------------------------------------
Handle(e, p) ==
    \/ HandleAllowed(e, p) \/ HandleDeferred(e, p)
    \/ HandleRefused(e, p) \/ HandleBlocked(e, p)

Review(e) == ReviewStarts(e) \/ ReviewEnds(e) \/ ReviewUnwinds(e)

Next ==
    \/ \E e \in Pushes : (\E p \in Prs : Handle(e, p)) \/ RetryFires(e) \/ Review(e)
    \/ TimePasses

Spec == Init /\ [][Next]_vars

\* Webhooks need not come. Timers fire and the clock runs, every review ends (its
\* reviewers run under timeouts), and the lock passes on.
FairSpec ==
    /\ Spec
    /\ WF_vars(TimePasses)
    /\ \A e \in Pushes : WF_vars(RetryFires(e)) /\ WF_vars(Review(e))

-----------------------------------------------------------------------------
(* Properties *)

\* "at most N events per hour": no window holds more admissions than the limit,
\* although a retry is admitted without looking at the window when its timer fires.
RateHeld ==
    \A e \in Pushes : stamp[e] # NoTime =>
        Cardinality({d \in Pushes : /\ stamp[d] # NoTime
                                    /\ stamp[d] <= stamp[e]
                                    /\ stamp[e] - stamp[d] < Window}) <= max

\* The bag, which is changed by value from three places, holds exactly the wake times
\* of the retries that still sleep: none is leaked by a replaced push, none is removed twice.
Sleepers(t) == {e \in Pushes : stage[e] = "sleeping" /\ wake[e] = t}
ReservationsMatch ==
    /\ BagToSet(reservations) = {wake[e] : e \in {d \in Pushes : stage[d] = "sleeping"}}
    /\ \A t \in BagToSet(reservations) : reservations[t] = Cardinality(Sleepers(t))

\* A retry that sleeps is the registered one and carries the newest push of its pull
\* request, so no delayed review looks at an older commit after a newer one came.
NewestOf(p, e) == \A d \in Pushes : pr[d] = p => d <= e
PendingNewest ==
    \A e \in Pushes : stage[e] = "sleeping" => pending[pr[e]] = e /\ NewestOf(pr[e], e)

\* "Will retry after ~N minutes" is true: a push that was promised a retry is reviewed,
\* or a newer push of the same pull request has come.
PromiseKept ==
    \A e \in Pushes :
        stage[e] = "sleeping" ~> stage[e] = "done" \/ (pr[e] # NoPr /\ ~NewestOf(pr[e], e))

\* "The net-zero swap always succeeds": a push whose arrival stopped the pending retry of
\* its pull request is admitted or has a retry of its own.
SwapSucceeds ==
    [][\A e \in Pushes, p \in Prs :
        Arrive(e, p) /\ Live(pending[p]) => stage'[e] # "refused"]_vars

\* The queue implements the promise: timers, reservations and the lock are its means.
Promise == INSTANCE ReviewPromise WITH
    admitted <- stamp,
    promised <- [p \in Prs |->
        IF pending[p] # NoPush /\ stage[pending[p]] = "sleeping" THEN pending[p] ELSE NoPush]
KeepsPromise == Promise!Spec
=============================================================================
