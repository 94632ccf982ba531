---------------------------- MODULE ReviewPromise ----------------------------
(***************************************************************************)
(* What the rate limit of reviews promises, with no timer, reservation,    *)
(* task or lock in it (the comments of RateLimiter and of the skip comment *)
(* in src/src/gateway/review_engine.py). A push is admitted, promised a    *)
(* retry, or refused; at most max reviews are admitted in any Window; only *)
(* the newest push of a pull request is ever promised; and a promise is    *)
(* kept unless a newer push of the same pull request takes its place.      *)
(***************************************************************************)
EXTENDS Integers, FiniteSets

CONSTANTS
    Prs, MaxPushes, Window, Limits,
    NoPr, NoTime, NoPush

Pushes == 1..MaxPushes

VARIABLES
    max,        \* the limit, chosen when the process starts
    now,
    pr,         \* the pull request of each push that has arrived
    promised,   \* per pull request, the push that waits for its retry
    admitted    \* when each push was admitted to review

vars == <<max, now, pr, promised, admitted>>

Init ==
    /\ max \in Limits
    /\ now = 0
    /\ pr = [e \in Pushes |-> NoPr]
    /\ promised = [p \in Prs |-> NoPush]
    /\ admitted = [e \in Pushes |-> NoTime]

Room == Cardinality({e \in Pushes : admitted[e] # NoTime /\ now - admitted[e] < Window}) < max

\* Push e of pull request p is the next to arrive.
Arrive(e, p) ==
    /\ pr[e] = NoPr /\ \A d \in Pushes : d < e => pr[d] # NoPr
    /\ pr' = [pr EXCEPT ![e] = p]
    /\ UNCHANGED <<max, now>>

Admit(e, p) ==
    /\ Room
    /\ Arrive(e, p)
    /\ promised' = [promised EXCEPT ![p] = NoPush]
    /\ admitted' = [admitted EXCEPT ![e] = now]

Defer(e, p) ==
    /\ max > 0
    /\ Arrive(e, p)
    /\ promised' = [promised EXCEPT ![p] = e]
    /\ UNCHANGED admitted

Refuse(e, p) ==
    /\ Arrive(e, p)
    /\ promised' = [promised EXCEPT ![p] = NoPush]
    /\ UNCHANGED admitted

\* A kept promise: the push is the newest of its pull request, and there is room.
Retry(p) ==
    /\ promised[p] # NoPush
    /\ \A d \in Pushes : pr[d] = p => d <= promised[p]
    /\ Room
    /\ admitted' = [admitted EXCEPT ![promised[p]] = now]
    /\ promised' = [promised EXCEPT ![p] = NoPush]
    /\ UNCHANGED <<max, now, pr>>

TimePasses ==
    /\ now' = now + 1
    /\ UNCHANGED <<max, pr, promised, admitted>>

Next ==
    \/ \E e \in Pushes, p \in Prs : Admit(e, p) \/ Defer(e, p) \/ Refuse(e, p)
    \/ \E p \in Prs : Retry(p)
    \/ TimePasses

Spec == Init /\ [][Next]_vars /\ \A p \in Prs : WF_vars(Retry(p))
=============================================================================
