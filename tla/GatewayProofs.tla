--------------------------- MODULE GatewayProofs ---------------------------
(***************************************************************************)
(* Proofs about the gateway. ReviewQueue: which push a sleeping retry      *)
(* reviews, that the reservations are those of the sleeping retries and no *)
(* window holds more starts than the limit, and that the queue implements  *)
(* ReviewPromise. Webhooks: that an event an agent must react to ends in   *)
(* an inbox unless its handler raises, that a foreign one reaches nobody   *)
(* but the owner of its PR's task, and which deliveries can put an older   *)
(* head SHA over a newer one.                                              *)
(***************************************************************************)
EXTENDS ReviewQueue, Webhooks, FiniteSetTheorems, FunctionTheorems, WellFoundedInduction, TLAPS

-----------------------------------------------------------------------------
(* ReviewQueue: the newest push is the one that waits *)

\* The part of the type invariant that the argument rests on
QueueTypes ==
    /\ pr \in [Pushes -> Prs \cup {NoPr}]
    /\ stage \in [Pushes -> Stages]
    /\ pending \in [Prs -> Pushes \cup {NoPush}]

\* Pushes arrive in order, and a push that has not arrived has no handler.
Arrivals ==
    /\ \A e \in Pushes : pr[e] = NoPr => stage[e] = "none"
    /\ \A d, e \in Pushes : d < e /\ pr[d] = NoPr => pr[e] = NoPr

\* The registry files a push under its own pull request.
PendingOwn == \A p \in Prs : pending[p] # NoPush => pr[pending[p]] = p

\* A limit of 0 schedules no retry.
NoRetryAtZero == \A e \in Pushes : stage[e] = "sleeping" => max # 0

NewestInv == QueueTypes /\ Arrivals /\ PendingOwn /\ NoRetryAtZero /\ PendingNewest

LEMMA NewestInit == Init => NewestInv
  <1> SUFFICES ASSUME Init PROVE NewestInv
    OBVIOUS
  <1>1. /\ pr = [e \in Pushes |-> NoPr] /\ stage = [e \in Pushes |-> "none"]
        /\ pending = [p \in Prs |-> NoPush]
    BY DEF Init
  <1> QED BY <1>1 DEF NewestInv, QueueTypes, Stages, Arrivals, PendingOwn, NoRetryAtZero, PendingNewest

\* What a newer push of p does to the retries: no retry of p is left asleep, and no other
\* push changes from awake to asleep.
LEMMA ReplacedRetry ==
  ASSUME NewestInv, NEW p \in Prs
  PROVE  /\ Cancelled(p) \in [Pushes -> Stages]
         /\ \A d \in Pushes : Cancelled(p)[d] = "sleeping" => stage[d] = "sleeping" /\ pr[d] # p
         /\ \A d \in Pushes : Cancelled(p)[d] = "none" <=> stage[d] = "none"
  <1>1. /\ pr \in [Pushes -> Prs \cup {NoPr}] /\ stage \in [Pushes -> Stages]
        /\ pending \in [Prs -> Pushes \cup {NoPush}]
    BY DEF NewestInv, QueueTypes
  <1>2. \A d \in Pushes : stage[d] = "sleeping" => pending[pr[d]] = d
    BY DEF NewestInv, PendingNewest
  <1>3. \A d \in Pushes : d # NoPush
    BY PushAssumption DEF Pushes
  <1>4. CASE ~Live(pending[p])
    <2>1. Cancelled(p) = stage
      BY <1>4 DEF Cancelled
    <2>2. \A d \in Pushes : stage[d] = "sleeping" => pr[d] # p
      BY <1>2, <1>3, <1>4 DEF Live
    <2> QED BY <1>1, <2>1, <2>2
  <1>5. CASE Live(pending[p])
    <2>1. pending[p] \in Pushes /\ stage[pending[p]] \in {"sleeping", "waiting", "reviewing"}
      BY <1>1, <1>5 DEF Live
    <2>2. PICK st \in {"stopping", "superseded"} : Cancelled(p) = [stage EXCEPT ![pending[p]] = st]
      BY <1>5 DEF Cancelled
    <2>3. Cancelled(p) \in [Pushes -> Stages]
      BY <1>1, <2>1, <2>2 DEF Stages
    <2>4. \A d \in Pushes : Cancelled(p)[d] = IF d = pending[p] THEN st ELSE stage[d]
      BY <1>1, <2>1, <2>2
    <2>5. \A d \in Pushes : Cancelled(p)[d] = "sleeping" => stage[d] = "sleeping" /\ pr[d] # p
      BY <1>2, <2>4
    <2>6. \A d \in Pushes : Cancelled(p)[d] = "none" <=> stage[d] = "none"
      BY <2>1, <2>4
    <2> QED BY <2>3, <2>5, <2>6
  <1> QED BY <1>4, <1>5

LEMMA NewestStep == NewestInv /\ [Next]_vars => NewestInv'
  <1> SUFFICES ASSUME NewestInv, [Next]_vars PROVE NewestInv'
    OBVIOUS
  <1>1. /\ pr \in [Pushes -> Prs \cup {NoPr}] /\ stage \in [Pushes -> Stages]
        /\ pending \in [Prs -> Pushes \cup {NoPush}]
    BY DEF NewestInv, QueueTypes
  <1>2. \A d \in Pushes : /\ pr[d] = NoPr => stage[d] = "none"
                          /\ stage[d] = "sleeping" => max # 0 /\ pending[pr[d]] = d /\ NewestOf(pr[d], d)
    BY DEF NewestInv, Arrivals, NoRetryAtZero, PendingNewest
  <1>3. \A d, e \in Pushes : d < e /\ pr[d] = NoPr => pr[e] = NoPr
    BY DEF NewestInv, Arrivals
  <1>4. \A p \in Prs : pending[p] # NoPush => pr[pending[p]] = p
    BY DEF NewestInv, PendingOwn
  <1>5. Pushes \subseteq Int /\ NoPush \notin Pushes /\ NoPr \notin Prs
    BY PushAssumption DEF Pushes
  \* A push e of p arrives: whatever its own stage becomes, no older push of p stays asleep,
  \* and e is registered if it sleeps.
  <1>h. ASSUME NEW e \in Pushes, NEW p \in Prs, Arrive(e, p), stage' \in [Pushes -> Stages],
               \A d \in Pushes : d # e => (stage'[d] = "none" <=> stage[d] = "none"),
               \A d \in Pushes : d # e /\ stage'[d] = "sleeping" => stage[d] = "sleeping" /\ pr[d] # p,
               stage'[e] = "sleeping" => max # 0 /\ pending'[p] = e,
               pending' \in [Prs -> Pushes \cup {NoPush}],
               \A q \in Prs : q # p => pending'[q] = pending[q],
               pending'[p] \in {pending[p], e, NoPush}
        PROVE  NewestInv'
    <2>1. /\ pr[e] = NoPr /\ (\A d \in Pushes : d < e => pr[d] # NoPr)
          /\ pr' = [pr EXCEPT ![e] = p] /\ max' = max
      BY <1>h DEF Arrive
    <2>2. pr'[e] = p /\ (\A d \in Pushes : d # e => pr'[d] = pr[d]) /\ pr' \in [Pushes -> Prs \cup {NoPr}]
      BY <1>1, <2>1
    <2>3. QueueTypes'
      BY <1>h, <2>2 DEF QueueTypes
    <2>4. Arrivals'
      <3>1. \A d \in Pushes : pr'[d] = NoPr => stage'[d] = "none"
        BY <1>2, <1>5, <1>h, <2>2
      <3>2. ASSUME NEW c \in Pushes, NEW d \in Pushes, c < d, pr'[c] = NoPr PROVE pr'[d] = NoPr
        <4>1. c # e /\ pr[c] = NoPr
          BY <1>5, <2>2, <3>2
        <4>2. d # e /\ pr[d] = NoPr
          BY <1>3, <2>1, <3>2, <4>1
        <4> QED BY <2>2, <4>2
      <3> QED BY <3>1, <3>2 DEF Arrivals
    <2>5. PendingOwn'
      <3> SUFFICES ASSUME NEW q \in Prs, pending'[q] # NoPush PROVE pr'[pending'[q]] = q
        BY DEF PendingOwn
      <3>1. CASE q = p /\ pending'[p] = e
        BY <2>2, <3>1
      <3>2. CASE pending'[q] = pending[q]
        <4>1. pending[q] \in Pushes /\ pr[pending[q]] = q
          BY <1>1, <1>4, <3>2
        <4>2. pending[q] # e
          BY <1>5, <2>1, <4>1
        <4> QED BY <2>2, <3>2, <4>1, <4>2
      <3> QED BY <1>h, <3>1, <3>2
    <2>6. NoRetryAtZero'
      BY <1>2, <1>h, <2>1 DEF NoRetryAtZero
    <2>7. PendingNewest'
      <3> SUFFICES ASSUME NEW d \in Pushes, stage'[d] = "sleeping"
                   PROVE  pending'[pr'[d]] = d /\ \A c \in Pushes : pr'[c] = pr'[d] => c <= d
        BY DEF PendingNewest, NewestOf
      <3>1. CASE d = e
        <4>1. ASSUME NEW c \in Pushes, pr'[c] = p PROVE c <= e
          <5> SUFFICES ASSUME c # e, ~(c <= e) PROVE FALSE
            BY <1>5
          <5>1. e < c /\ pr[c] = p
            BY <1>5, <2>2, <4>1
          <5> QED BY <1>3, <1>5, <2>1, <5>1
        <4> QED BY <1>h, <2>2, <3>1, <4>1
      <3>2. CASE d # e
        <4>1. stage[d] = "sleeping" /\ pr[d] # p /\ pr'[d] = pr[d]
          BY <1>h, <2>2, <3>2
        <4>2. pr[d] \in Prs /\ pending[pr[d]] = d /\ \A c \in Pushes : pr[c] = pr[d] => c <= d
          BY <1>1, <1>2, <4>1 DEF NewestOf
        <4> QED BY <1>h, <2>2, <4>1, <4>2
      <3> QED BY <3>1, <3>2
    <2> QED BY <2>3, <2>4, <2>5, <2>6, <2>7 DEF NewestInv
  \* A step that moves a push that has arrived to another stage, and puts none to sleep
  <1>m. ASSUME NEW e \in Pushes, NEW st \in Stages, st \notin {"sleeping", "none"}, stage[e] # "none",
               stage' = [stage EXCEPT ![e] = st], UNCHANGED <<pr, max>>,
               pending' \in [Prs -> Pushes \cup {NoPush}],
               \A q \in Prs : pending'[q] = pending[q] \/ (pending[q] = e /\ pending'[q] = NoPush)
        PROVE  NewestInv'
    <2>1. /\ stage' \in [Pushes -> Stages] /\ stage'[e] = st
          /\ \A d \in Pushes : d # e => stage'[d] = stage[d]
      BY <1>1, <1>m
    <2>2. QueueTypes'
      BY <1>1, <1>m, <2>1 DEF QueueTypes
    <2>3. Arrivals'
      BY <1>2, <1>3, <1>m, <2>1 DEF Arrivals
    <2>4. PendingOwn'
      BY <1>4, <1>m DEF PendingOwn
    <2>5. NoRetryAtZero'
      BY <1>2, <1>m, <2>1 DEF NoRetryAtZero
    <2>6. PendingNewest'
      <3> SUFFICES ASSUME NEW d \in Pushes, stage'[d] = "sleeping"
                   PROVE  pending'[pr[d]] = d /\ \A c \in Pushes : pr[c] = pr[d] => c <= d
        BY <1>m DEF PendingNewest, NewestOf
      <3>1. d # e /\ stage[d] = "sleeping"
        BY <1>m, <2>1
      <3>2. pr[d] \in Prs /\ pending[pr[d]] = d /\ \A c \in Pushes : pr[c] = pr[d] => c <= d
        BY <1>1, <1>2, <3>1 DEF NewestOf
      <3> QED BY <1>m, <3>1, <3>2
    <2> QED BY <2>2, <2>3, <2>4, <2>5, <2>6 DEF NewestInv
  <1>6. ASSUME NEW e \in Pushes, NEW p \in Prs, HandleAllowed(e, p) PROVE NewestInv'
    <2>1. /\ Arrive(e, p) /\ stage' = [Cancelled(p) EXCEPT ![e] = "waiting"]
          /\ pending' = [pending EXCEPT ![p] = NoPush]
      BY <1>6 DEF HandleAllowed
    <2>2. /\ stage' \in [Pushes -> Stages] /\ stage'[e] = "waiting"
          /\ \A d \in Pushes : d # e => stage'[d] = Cancelled(p)[d]
      BY <2>1, ReplacedRetry DEF Stages
    <2>3. /\ pending' \in [Prs -> Pushes \cup {NoPush}] /\ pending'[p] = NoPush
          /\ \A q \in Prs : q # p => pending'[q] = pending[q]
      BY <1>1, <2>1
    <2> QED BY <1>h, <2>1, <2>2, <2>3, ReplacedRetry
  <1>7. ASSUME NEW e \in Pushes, NEW p \in Prs, HandleDeferred(e, p) PROVE NewestInv'
    <2>1. /\ Arrive(e, p) /\ stage' = [Cancelled(p) EXCEPT ![e] = "sleeping"]
          /\ pending' = [pending EXCEPT ![p] = e] /\ max # 0
      BY <1>7 DEF HandleDeferred
    <2>2. /\ stage' \in [Pushes -> Stages]
          /\ \A d \in Pushes : d # e => stage'[d] = Cancelled(p)[d]
      BY <2>1, ReplacedRetry DEF Stages
    <2>3. /\ pending' \in [Prs -> Pushes \cup {NoPush}] /\ pending'[p] = e
          /\ \A q \in Prs : q # p => pending'[q] = pending[q]
      BY <1>1, <2>1
    <2> QED BY <1>h, <2>1, <2>2, <2>3, ReplacedRetry
  <1>8. ASSUME NEW e \in Pushes, NEW p \in Prs, HandleRefused(e, p) PROVE NewestInv'
    <2>1. /\ Arrive(e, p) /\ stage' = [Cancelled(p) EXCEPT ![e] = "refused"]
          /\ pending' = [pending EXCEPT ![p] = NoPush]
      BY <1>8 DEF HandleRefused
    <2>2. /\ stage' \in [Pushes -> Stages] /\ stage'[e] = "refused"
          /\ \A d \in Pushes : d # e => stage'[d] = Cancelled(p)[d]
      BY <2>1, ReplacedRetry DEF Stages
    <2>3. /\ pending' \in [Prs -> Pushes \cup {NoPush}] /\ pending'[p] = NoPush
          /\ \A q \in Prs : q # p => pending'[q] = pending[q]
      BY <1>1, <2>1
    <2> QED BY <1>h, <2>1, <2>2, <2>3, ReplacedRetry
  <1>9. ASSUME NEW e \in Pushes, NEW p \in Prs, HandleBlocked(e, p) PROVE NewestInv'
    <2>1. /\ Arrive(e, p) /\ max = 0 /\ stage' = [stage EXCEPT ![e] = "refused"] /\ pending' = pending
      BY <1>9 DEF HandleBlocked
    <2>2. /\ stage' \in [Pushes -> Stages] /\ stage'[e] = "refused"
          /\ \A d \in Pushes : d # e => stage'[d] = stage[d]
      BY <1>1, <2>1 DEF Stages
    <2>3. \A d \in Pushes : stage[d] # "sleeping"
      BY <1>2, <2>1
    <2> QED BY <1>1, <1>h, <2>1, <2>2, <2>3
  <1>w. ASSUME NEW e \in Pushes, NEW st \in {"waiting", "reviewing", "superseded"}, stage[e] # "none",
               stage' = [stage EXCEPT ![e] = st], UNCHANGED <<pr, max, pending>>
        PROVE  NewestInv'
    <2>1. st \in Stages /\ st \notin {"sleeping", "none"}
      BY DEF Stages
    <2>2. /\ pending' \in [Prs -> Pushes \cup {NoPush}]
          /\ \A q \in Prs : pending'[q] = pending[q] \/ (pending[q] = e /\ pending'[q] = NoPush)
      BY <1>1, <1>w
    <2> QED BY <1>m, <1>w, <2>1, <2>2
  <1>10. ASSUME NEW e \in Pushes, RetryFires(e) PROVE NewestInv'
    <2>1. /\ stage[e] = "sleeping" /\ stage' = [stage EXCEPT ![e] = "waiting"]
          /\ UNCHANGED <<pr, max, pending>>
      BY <1>10 DEF RetryFires, Due
    <2> QED BY <1>w, <2>1
  <1>11. ASSUME NEW e \in Pushes, Review(e) PROVE NewestInv'
    <2>1. CASE ReviewStarts(e)
      <3>1. /\ stage[e] = "waiting" /\ stage' = [stage EXCEPT ![e] = "reviewing"]
            /\ UNCHANGED <<pr, max, pending>>
        BY <2>1 DEF ReviewStarts, limiter
      <3> QED BY <1>w, <3>1
    <2>2. CASE ReviewEnds(e)
      <3>1. /\ stage[e] = "reviewing" /\ stage' = [stage EXCEPT ![e] = "done"] /\ UNCHANGED <<pr, max>>
            /\ pending' = [pending EXCEPT ![pr[e]] = IF @ = e THEN NoPush ELSE @]
        BY <2>2 DEF ReviewEnds, limiter
      <3>2. /\ pending' \in [Prs -> Pushes \cup {NoPush}]
            /\ \A q \in Prs : pending'[q] = pending[q] \/ (pending[q] = e /\ pending'[q] = NoPush)
        BY <1>1, <3>1
      <3> QED BY <1>m, <3>1, <3>2 DEF Stages
    <2>3. CASE ReviewUnwinds(e)
      <3>1. /\ stage[e] = "stopping" /\ stage' = [stage EXCEPT ![e] = "superseded"]
            /\ UNCHANGED <<pr, max, pending>>
        BY <2>3 DEF ReviewUnwinds, limiter
      <3> QED BY <1>w, <3>1
    <2> QED BY <1>11, <2>1, <2>2, <2>3 DEF Review
  <1>12. CASE TimePasses \/ UNCHANGED vars
    <2>1. UNCHANGED <<pr, stage, pending, max>>
      BY <1>12 DEF TimePasses, vars, limiter
    <2> QED BY <2>1 DEF NewestInv, QueueTypes, Arrivals, PendingOwn, NoRetryAtZero, PendingNewest, NewestOf
  <1> QED BY <1>6, <1>7, <1>8, <1>9, <1>10, <1>11, <1>12 DEF Next, Handle

\* A retry that sleeps is the registered one of its pull request and carries its newest push,
\* for any number of pushes, pull requests and any limit.
THEOREM NewestWaits == Spec => []PendingNewest
  <1>1. Init => NewestInv
    BY NewestInit
  <1>2. NewestInv /\ [Next]_vars => NewestInv'
    BY NewestStep
  <1>3. NewestInv => PendingNewest
    BY DEF NewestInv
  <1> QED BY <1>1, <1>2, <1>3, PTL DEF Spec

-----------------------------------------------------------------------------
(* ReviewQueue: the reservations *)

\* The bag holds the wake times `at' of the retries in S, each as often as it occurs.
Counts(bag, S, at) ==
    /\ IsABag(bag)
    /\ BagToSet(bag) = {at[e] : e \in S}
    /\ \A t \in BagToSet(bag) : bag[t] = Cardinality({e \in S : at[e] = t})

SlotsAt(bag, T) == {s \in Slots(bag) : s[1] \in T}
RetriesAt(S, at, T) == {e \in S : at[e] \in T}

\* The slots of a bag with times in T are as many as the retries with wake times in T: there
\* is a bijection, put together from one for each time.
LEMMA SlotCount ==
  ASSUME NEW bag, NEW S, NEW at, NEW T, Counts(bag, S, at), IsFiniteSet(S)
  PROVE  Cardinality(SlotsAt(bag, T)) = Cardinality(RetriesAt(S, at, T))
  <1> DEFINE Class(t) == {e \in S : at[e] = t}
             A == {s \in Slots(bag) : s[1] \in T}
             B == {e \in S : at[e] \in T}
  <1>1. \A t \in DOMAIN bag : \E f : f \in Bijection(1..bag[t], Class(t))
    <2> SUFFICES ASSUME NEW t \in DOMAIN bag PROVE \E f : f \in Bijection(1..bag[t], Class(t))
      OBVIOUS
    <2>1. bag[t] = Cardinality(Class(t))
      BY DEF Counts, BagToSet
    <2>2. IsFiniteSet(Class(t))
      BY FS_Subset
    <2>3. ExistsBijection(1..bag[t], Class(t))
      BY <2>1, <2>2, FS_CardinalityType
    <2> QED BY <2>3 DEF ExistsBijection
  <1>g. PICK g : g = [t \in DOMAIN bag |-> CHOOSE f : f \in Bijection(1..bag[t], Class(t))]
    OBVIOUS
  <1> DEFINE h == [s \in A |-> g[s[1]][s[2]]]
  <1>2. \A t \in DOMAIN bag :
            /\ \A i \in 1..bag[t] : g[t][i] \in Class(t)
            /\ \A i, j \in 1..bag[t] : g[t][i] = g[t][j] => i = j
            /\ \A e \in Class(t) : \E i \in 1..bag[t] : g[t][i] = e
    <2> SUFFICES ASSUME NEW t \in DOMAIN bag
                 PROVE  /\ \A i \in 1..bag[t] : g[t][i] \in Class(t)
                        /\ \A i, j \in 1..bag[t] : g[t][i] = g[t][j] => i = j
                        /\ \A e \in Class(t) : \E i \in 1..bag[t] : g[t][i] = e
      OBVIOUS
    <2> DEFINE C == Class(t)
               N == 1..bag[t]
    <2>1. g[t] \in Bijection(N, C)
      BY <1>1, <1>g
    <2> HIDE DEF C, N
    <2>2. /\ g[t] \in [N -> C]
          /\ \A i, j \in N : g[t][i] = g[t][j] => i = j
          /\ \A e \in C : \E i \in N : g[t][i] = e
      BY <2>1, Fun_BijectionProperties
    <2>3. \A i \in N : g[t][i] \in C
      BY <2>2
    <2> QED BY <2>2, <2>3 DEF C, N
  <1>3. \A s \in A : s[1] \in DOMAIN bag /\ s[1] \in T /\ s[2] \in 1..bag[s[1]] /\ s = <<s[1], s[2]>>
    BY DEF Slots, BagToSet
  <1>4. \A t \in DOMAIN bag : \A i \in 1..bag[t] : t \in T => <<t, i>> \in A
    BY DEF Slots, BagToSet
  <1>5. h \in [A -> B]
    <2> SUFFICES ASSUME NEW s \in A PROVE g[s[1]][s[2]] \in B
      OBVIOUS
    <2>1. g[s[1]][s[2]] \in Class(s[1])
      <3> HIDE DEF A
      <3> QED BY <1>2, <1>3
    <2> QED BY <1>3, <2>1
  <1>6. \A s, r \in A : h[s] = h[r] => s = r
    <2> SUFFICES ASSUME NEW s \in A, NEW r \in A, h[s] = h[r] PROVE s = r
      OBVIOUS
    <2>1. g[s[1]][s[2]] \in Class(s[1]) /\ g[r[1]][r[2]] \in Class(r[1])
      <3> HIDE DEF A
      <3> QED BY <1>2, <1>3
    <2>2. g[s[1]][s[2]] = g[r[1]][r[2]]
      OBVIOUS
    <2>3. s[1] = r[1]
      BY <2>1, <2>2
    <2>4. s[2] = r[2]
      <3> HIDE DEF A
      <3> QED BY <1>2, <1>3, <2>2, <2>3
    <2> HIDE DEF A
    <2> QED BY <1>3, <2>3, <2>4
  <1>7. \A e \in B : \E s \in A : h[s] = e
    <2> SUFFICES ASSUME NEW e \in B PROVE \E s \in A : h[s] = e
      OBVIOUS
    <2>1. at[e] \in DOMAIN bag /\ at[e] \in T /\ e \in Class(at[e])
      BY DEF Counts, BagToSet
    <2>2. PICK i \in 1..bag[at[e]] : g[at[e]][i] = e
      <3> HIDE DEF A
      <3> QED BY <1>2, <2>1
    <2>3. <<at[e], i>> \in A
      BY <1>4, <2>1
    <2>4. h[<<at[e], i>>] = e
      <3> HIDE DEF A
      <3> QED BY <2>2, <2>3
    <2> QED BY <2>3, <2>4
  <1>8. h \in Bijection(A, B)
    <2> HIDE DEF h, A, B
    <2> QED BY <1>5, <1>6, <1>7, Fun_IsBij
  <1>9. ExistsBijection(B, A)
    <2> HIDE DEF h, A, B
    <2> QED BY <1>8, Fun_ExistsBijSymmetric DEF ExistsBijection
  <1>10. IsFiniteSet(B)
    BY FS_Subset
  <1> HIDE DEF A, B
  <1>11. Cardinality(A) = Cardinality(B)
    BY <1>9, <1>10, FS_Bijection
  <1> QED BY <1>11 DEF A, B, SlotsAt, RetriesAt

\* One more reservation, of a retry that wakes at w
LEMMA CountsAdd ==
  ASSUME NEW bag, NEW S, NEW at, Counts(bag, S, at), IsFiniteSet(S), NEW e, e \notin S,
         NEW w, NEW next, next[e] = w, \A d \in S : next[d] = at[d]
  PROVE  Counts(bag (+) One(w), S \cup {e}, next)
  <1> DEFINE new == bag (+) One(w)
             Old(t) == {d \in S : at[d] = t}
             New(t) == {d \in S \cup {e} : next[d] = t}
  <1>1. /\ DOMAIN new = DOMAIN bag \cup {w}
        /\ \A t \in DOMAIN bag : t # w => new[t] = bag[t]
        /\ w \in DOMAIN bag => new[w] = bag[w] + 1
        /\ w \notin DOMAIN bag => new[w] = 1
    BY DEF One, SetToBag, (+), Counts, IsABag
  <1>2. \A t : /\ IsFiniteSet(Old(t))
               /\ Cardinality(Old(t)) \in Nat
               /\ t # w => New(t) = Old(t)
               /\ New(w) = Old(w) \cup {e}
    <2> SUFFICES ASSUME NEW t PROVE /\ IsFiniteSet(Old(t)) /\ Cardinality(Old(t)) \in Nat
                                    /\ t # w => New(t) = Old(t)
                                    /\ New(w) = Old(w) \cup {e}
      OBVIOUS
    <2>1. IsFiniteSet(Old(t)) /\ Cardinality(Old(t)) \in Nat
      BY FS_Subset, FS_CardinalityType
    <2> QED BY <2>1
  <1>3. Cardinality(New(w)) = Cardinality(Old(w)) + 1
    <2>1. e \notin Old(w) /\ New(w) = Old(w) \cup {e} /\ IsFiniteSet(Old(w))
      BY <1>2
    <2> QED BY <2>1, FS_AddElement
  <1>4. DOMAIN bag = {at[d] : d \in S} /\ (\A t \in DOMAIN bag : bag[t] = Cardinality(Old(t)) /\ bag[t] \in Nat \ {0})
    BY DEF Counts, BagToSet, IsABag
  <1>5. w \notin DOMAIN bag => Cardinality(Old(w)) = 0
    <2> SUFFICES ASSUME w \notin DOMAIN bag PROVE Cardinality(Old(w)) = 0
      OBVIOUS
    <2>1. Old(w) = {}
      BY <1>4
    <2> QED BY <2>1, FS_EmptySet
  <1>6. \A t \in DOMAIN new : new[t] = Cardinality(New(t)) /\ new[t] \in Nat \ {0}
    <2> SUFFICES ASSUME NEW t \in DOMAIN new PROVE new[t] = Cardinality(New(t)) /\ new[t] \in Nat \ {0}
      OBVIOUS
    <2>1. CASE t # w
      <3> HIDE DEF new, New, Old
      <3> QED BY <1>1, <1>2, <1>4, <2>1
    <2>2. CASE t = w
      <3> HIDE DEF new, New, Old
      <3> QED BY <1>1, <1>2, <1>3, <1>4, <1>5, <2>2
    <2> QED BY <2>1, <2>2
  <1>7. DOMAIN new = {next[d] : d \in S \cup {e}}
    <2> HIDE DEF new, New, Old
    <2> QED BY <1>1, <1>4
  <1>8. new = [t \in DOMAIN new |-> new[t]]
    BY DEF One, SetToBag, (+)
  <1>9. new \in [DOMAIN new -> {n \in Nat : n > 0}]
    <2> HIDE DEF new, New, Old
    <2> QED BY <1>6, <1>8
  <1> QED BY <1>6, <1>7, <1>9 DEF Counts, BagToSet, IsABag

\* One reservation less, of a retry that was going to wake at at[e]
LEMMA CountsRemove ==
  ASSUME NEW bag, NEW S, NEW at, Counts(bag, S, at), IsFiniteSet(S), NEW e \in S
  PROVE  Counts(bag (-) One(at[e]), S \ {e}, at)
  <1> DEFINE w == at[e]
             new == bag (-) One(w)
             Old(t) == {d \in S : at[d] = t}
             New(t) == {d \in S \ {e} : at[d] = t}
  <1>1. DOMAIN bag = {at[d] : d \in S} /\ (\A t \in DOMAIN bag : bag[t] = Cardinality(Old(t)) /\ bag[t] \in Nat \ {0})
    BY DEF Counts, BagToSet, IsABag
  <1>2. w \in DOMAIN bag
    BY <1>1
  <1>3. /\ bag[w] = 1 => DOMAIN new = DOMAIN bag \ {w}
        /\ bag[w] # 1 => DOMAIN new = DOMAIN bag /\ new[w] = bag[w] - 1
        /\ \A t \in DOMAIN bag : t # w => new[t] = bag[t]
        /\ new = [t \in DOMAIN new |-> new[t]]
    <2>1. DOMAIN One(w) = {w} /\ One(w)[w] = 1
      BY DEF One, SetToBag
    <2> DEFINE mid == [t \in DOMAIN bag |-> IF t \in DOMAIN One(w) THEN bag[t] - One(w)[t] ELSE bag[t]]
    <2>2. \A t \in DOMAIN bag : mid[t] = IF t = w THEN bag[t] - 1 ELSE bag[t]
      BY <2>1
    <2>3. new = [t \in {d \in DOMAIN bag : mid[d] > 0} |-> mid[t]]
      BY DEF (-)
    <2>4. \A t \in DOMAIN bag : bag[t] \in Nat \ {0}
      BY <1>1
    <2> HIDE DEF mid, new, w
    <2>5. DOMAIN new = {t \in DOMAIN bag : t # w \/ bag[w] # 1}
      BY <2>2, <2>3, <2>4
    <2> QED BY <1>2, <2>2, <2>3, <2>4, <2>5
  <1>4. /\ \A t : t # w => New(t) = Old(t)
        /\ New(w) = Old(w) \ {e} /\ e \in Old(w) /\ IsFiniteSet(Old(w)) /\ IsFiniteSet(New(w))
    <2>1. IsFiniteSet(Old(w)) /\ IsFiniteSet(New(w))
      BY FS_Subset
    <2> QED BY <2>1
  <1>5. Cardinality(New(w)) = bag[w] - 1
    <2>1. Cardinality(New(w)) = Cardinality(Old(w)) - 1
      <3>1. IsFiniteSet(Old(w)) /\ e \in Old(w) /\ New(w) = Old(w) \ {e}
        BY <1>4
      <3> HIDE DEF New, Old
      <3> QED BY ONLY <3>1, FS_RemoveElement
    <2> QED BY <1>1, <1>2, <2>1
  <1>6. \A t \in DOMAIN new : new[t] = Cardinality(New(t)) /\ new[t] \in Nat \ {0}
    <2> SUFFICES ASSUME NEW t \in DOMAIN new PROVE new[t] = Cardinality(New(t)) /\ new[t] \in Nat \ {0}
      OBVIOUS
    <2> HIDE DEF new, New, Old, w
    <2>1. CASE t = w
      BY <1>1, <1>2, <1>3, <1>5, <2>1
    <2>2. CASE t # w
      BY <1>1, <1>3, <1>4, <2>2
    <2> QED BY <2>1, <2>2
  <1>7. DOMAIN new = {at[d] : d \in S \ {e}}
    <2>1. CASE bag[w] = 1
      <3>1. New(w) = {}
        <4> HIDE DEF New
        <4> QED BY <1>4, <1>5, <2>1, FS_EmptySet
      <3> QED BY <1>1, <1>3, <2>1, <3>1
    <2>2. CASE bag[w] # 1
      <3>1. Cardinality(New(w)) # 0
        <4> HIDE DEF New, new, Old
        <4> QED BY <1>1, <1>2, <1>5, <2>2
      <3>2. New(w) # {}
        <4> HIDE DEF New
        <4> QED BY <1>4, <3>1, FS_EmptySet
      <3> QED BY <1>1, <1>3, <2>2, <3>2
    <2> QED BY <2>1, <2>2
  <1>8. new \in [DOMAIN new -> {n \in Nat : n > 0}]
    <2> HIDE DEF new, New, Old, w
    <2> QED BY <1>3, <1>6
  <1> QED BY <1>6, <1>7, <1>8 DEF Counts, BagToSet, IsABag

LEMMA CountsMiss ==
  ASSUME NEW bag, NEW S, NEW at, Counts(bag, S, at), NEW w, w \notin BagToSet(bag)
  PROVE  bag (-) One(w) = bag
  <1>1. DOMAIN One(w) = {w}
    BY DEF One, SetToBag
  <1>2. bag \in [DOMAIN bag -> {n \in Nat : n > 0}] /\ w \notin DOMAIN bag
    BY DEF Counts, IsABag, BagToSet
  <1> DEFINE mid == [t \in DOMAIN bag |-> IF t \in DOMAIN One(w) THEN bag[t] - One(w)[t] ELSE bag[t]]
  <1>3. mid = bag
    BY <1>1, <1>2
  <1>4. bag (-) One(w) = [t \in {d \in DOMAIN mid : mid[d] > 0} |-> mid[t]]
    BY DEF (-)
  <1>5. \A t \in DOMAIN bag : bag[t] > 0
    BY <1>2
  <1> HIDE DEF mid
  <1> QED BY <1>2, <1>3, <1>4, <1>5

\* Every reservation is a retry that sleeps: as many in all, and as many up to any time.
LEMMA ReservedCount ==
  ASSUME NEW bag, NEW S, NEW at, Counts(bag, S, at), IsFiniteSet(S)
  PROVE  Reserved(bag) = Cardinality(S)
  <1>1. Cardinality(SlotsAt(bag, BagToSet(bag))) = Cardinality(RetriesAt(S, at, BagToSet(bag)))
    BY SlotCount
  <1>2. SlotsAt(bag, BagToSet(bag)) = Slots(bag)
    BY DEF SlotsAt, Slots
  <1>3. RetriesAt(S, at, BagToSet(bag)) = S
    BY DEF RetriesAt, Counts
  <1> QED BY <1>1, <1>2, <1>3 DEF Reserved

\* Those of S that have a time up to t
UpTo(S, at, t) == {e \in S : at[e] <= t}

LEMMA ReservedUpTo ==
  ASSUME NEW bag, NEW S, NEW at, NEW t, Counts(bag, S, at), IsFiniteSet(S)
  PROVE  PlannedUpTo(bag, t) = Cardinality(UpTo(Active, stamp, t)) + Cardinality(UpTo(S, at, t))
  <1> DEFINE T == {u \in BagToSet(bag) : u <= t}
  <1>1. Cardinality(SlotsAt(bag, T)) = Cardinality(RetriesAt(S, at, T))
    <2> HIDE DEF T
    <2> QED BY SlotCount
  <1>2. SlotsAt(bag, T) = {s \in Slots(bag) : s[1] <= t}
    BY DEF SlotsAt, Slots
  <1>3. RetriesAt(S, at, T) = UpTo(S, at, t)
    BY DEF RetriesAt, Counts, UpTo
  <1>4. PlannedUpTo(bag, t) = Cardinality(UpTo(Active, stamp, t)) + Cardinality(SlotsAt(bag, T))
    <2> HIDE DEF T
    <2> QED BY <1>2 DEF PlannedUpTo, UpTo
  <1> HIDE DEF T
  <1> QED BY <1>1, <1>3, <1>4

-----------------------------------------------------------------------------
(* ReviewQueue: the window *)

Asleep == {e \in Pushes : stage[e] = "sleeping"}

\* When a push started, or when its retry is going to start
Planned == {e \in Pushes : stamp[e] # NoTime \/ stage[e] = "sleeping"}
Start(e) == IF stamp[e] # NoTime THEN stamp[e] ELSE wake[e] + Buffer

\* No window holds more starts than the limit, past and planned ones together.
InWindow(x) == {e \in Planned : Start(e) <= x /\ x - Start(e) < Window}
Capacity == \A x \in Nat : Cardinality(InWindow(x)) <= max

LimiterTypes ==
    /\ max \in Nat /\ max \in Limits /\ now \in Nat
    /\ stamp \in [Pushes -> Nat \cup {NoTime}]
    /\ wake \in [Pushes -> Nat \cup {NoTime}]
    /\ line \in Seq(Pushes)

\* A sleeping retry fires in time; one that has fired did so when it was due.
Timed ==
    \A e \in Pushes :
        /\ stage[e] = "none" => stamp[e] = NoTime
        /\ stage[e] = "sleeping" => wake[e] \in Nat /\ stamp[e] = NoTime /\ now <= wake[e] + Buffer
        /\ stamp[e] # NoTime => stamp[e] <= now
        /\ stage[e] \in {"waiting", "reviewing"} /\ (\E p \in Prs : pending[p] = e) =>
             wake[e] \in Nat /\ wake[e] + Buffer <= now

QueueInv ==
    /\ NewestInv
    /\ LimiterTypes
    /\ Timed
    /\ Counts(reservations, Asleep, wake)
    /\ Capacity

LEMMA PushesFinite == IsFiniteSet(Pushes) /\ IsFiniteSet(Asleep) /\ IsFiniteSet(Active)
  <1>1. IsFiniteSet(Pushes)
    BY PushAssumption, FS_Interval DEF Pushes
  <1> QED BY <1>1, FS_Subset DEF Asleep, Active

LEMMA QueueInit == Init => QueueInv
  <1> SUFFICES ASSUME Init PROVE QueueInv
    OBVIOUS
  <1>1. /\ stamp = [e \in Pushes |-> NoTime] /\ stage = [e \in Pushes |-> "none"]
        /\ wake = [e \in Pushes |-> NoTime] /\ max \in Limits /\ now = 0 /\ line = <<>>
        /\ reservations = EmptyBag
    BY DEF Init
  <1>2. Asleep = {} /\ Planned = {}
    BY <1>1 DEF Asleep, Planned
  <1>3. Counts(reservations, Asleep, wake)
    BY <1>1, <1>2 DEF Counts, EmptyBag, SetToBag, IsABag, BagToSet
  <1>4. LimiterTypes
    BY <1>1, PushAssumption DEF LimiterTypes
  <1>5. Timed
    BY <1>1 DEF Timed
  <1>6. Capacity
    <2>1. \A x \in Nat : InWindow(x) = {}
      BY <1>2 DEF InWindow
    <2>2. Cardinality({}) = 0 /\ 0 <= max
      BY <1>4, FS_EmptySet DEF LimiterTypes
    <2> QED BY <2>1, <2>2 DEF Capacity
  <1> QED BY <1>3, <1>4, <1>5, <1>6, NewestInit DEF QueueInv

\* What a newer push of p leaves in the bag: the retries that still sleep. A retry of p that has
\* fired has no reservation, and no other retry has the same wake time, as it would be due.
LEMMA ReleasedCounts ==
  ASSUME QueueInv, Punctual, NEW p \in Prs
  PROVE  Counts(Released(p), {d \in Pushes : Cancelled(p)[d] = "sleeping"}, wake)
  <1>1. /\ stage \in [Pushes -> Stages] /\ pending \in [Prs -> Pushes \cup {NoPush}]
        /\ Counts(reservations, Asleep, wake) /\ Buffer \in Nat /\ now \in Nat
    BY PushAssumption DEF QueueInv, NewestInv, QueueTypes, LimiterTypes
  <1>2. CASE ~Live(pending[p])
    BY <1>1, <1>2 DEF Released, Cancelled, Asleep
  <1>3. CASE Live(pending[p])
    <2> DEFINE r == pending[p]
    <2>1. r \in Pushes /\ stage[r] \in {"sleeping", "waiting", "reviewing"}
      BY <1>1, <1>3 DEF Live
    <2>2. PICK st \in {"stopping", "superseded"} : Cancelled(p) = [stage EXCEPT ![r] = st]
      BY <1>3 DEF Cancelled
    <2>3. {d \in Pushes : Cancelled(p)[d] = "sleeping"} = Asleep \ {r}
      BY <1>1, <2>2 DEF Asleep
    <2>4. Released(p) = reservations (-) One(wake[r])
      BY <1>3 DEF Released
    <2>5. CASE stage[r] = "sleeping"
      <3>1. r \in Asleep /\ IsFiniteSet(Asleep) /\ Counts(reservations, Asleep, wake)
        BY <1>1, <2>1, <2>5, PushesFinite DEF Asleep
      <3> HIDE DEF r
      <3>2. Counts(reservations (-) One(wake[r]), Asleep \ {r}, wake)
        BY ONLY <3>1, CountsRemove
      <3> QED BY ONLY <2>3, <2>4, <3>2
    <2>6. CASE stage[r] # "sleeping"
      <3>1. wake[r] \in Nat /\ wake[r] + Buffer <= now
        BY <2>1, <2>6 DEF QueueInv, Timed
      <3>2. \A d \in Asleep : wake[d] \in Nat /\ now < wake[d] + Buffer
        BY <1>1 DEF Punctual, Due, Asleep, QueueInv, Timed
      <3>3. \A d \in Asleep : wake[d] # wake[r]
        BY <1>1, <3>1, <3>2
      <3>4. wake[r] \notin BagToSet(reservations)
        BY <1>1, <3>3 DEF Counts
      <3>5. Released(p) = reservations
        BY <1>1, <2>4, <3>4, CountsMiss
      <3>6. Asleep \ {r} = Asleep
        BY <2>6 DEF Asleep
      <3> QED BY <1>1, <2>3, <3>5, <3>6
    <2> QED BY <2>5, <2>6
  <1> QED BY <1>2, <1>3

LEMMA CountSplit ==
  ASSUME NEW A, NEW B, IsFiniteSet(A), IsFiniteSet(B)
  PROVE  IsFiniteSet(A \cup B) /\ Cardinality(A \cup B) <= Cardinality(A) + Cardinality(B)
  <1>1. IsFiniteSet(A \cap B) /\ Cardinality(A \cap B) \in Nat
    BY FS_Intersection, FS_CardinalityType
  <1>2. IsFiniteSet(A \cup B) /\ Cardinality(A \cup B) = Cardinality(A) + Cardinality(B) - Cardinality(A \cap B)
    BY FS_Union
  <1>3. Cardinality(A) \in Nat /\ Cardinality(B) \in Nat
    BY FS_CardinalityType
  <1> QED BY <1>1, <1>2, <1>3

\* Of a finite set of n, at most n - k have a later time when k have one up to t.
LEMMA LaterCount ==
  ASSUME NEW A, NEW U \in SUBSET A, IsFiniteSet(A)
  PROVE  IsFiniteSet(A \ U) /\ Cardinality(A \ U) = Cardinality(A) - Cardinality(U)
  <1>1. A \cap U = U
    OBVIOUS
  <1> QED BY <1>1, FS_Difference

\* The wake time that reserve computes leaves room for the retry: fewer than the limit of the
\* other starts, past or planned, are less than a window before it or after it.
LEMMA WakeLeavesRoom ==
  ASSUME QueueInv, NEW bag, NEW S \in SUBSET Asleep, Counts(bag, S, wake), NEW w, Wake(bag, w)
  PROVE  /\ w \in Nat /\ w >= now
         /\ \E L : /\ IsFiniteSet(L) /\ Cardinality(L) < max
                   /\ \A d \in Active : stamp[d] + Window > w => d \in L
                   /\ \A d \in S : wake[d] + Window > w => d \in L
  <1>1. /\ max \in Nat /\ now \in Nat /\ Window \in Nat \ {0}
        /\ \A e \in Active : stamp[e] \in Nat
        /\ \A e \in S : wake[e] \in Nat
    BY PushAssumption DEF QueueInv, LimiterTypes, Active, Timed, Asleep
  <1>2. IsFiniteSet(Active) /\ IsFiniteSet(S) /\ Cardinality(Active) \in Nat /\ Cardinality(S) \in Nat
    BY PushesFinite, FS_Subset, FS_CardinalityType
  <1>3. Reserved(bag) = Cardinality(S)
    BY <1>2, ReservedCount
  <1>4. CASE Cardinality(Active) + Reserved(bag) < max
    <2>1. w = now
      BY <1>4 DEF Wake
    <2>2. IsFiniteSet(Active \cup S) /\ Cardinality(Active \cup S) <= Cardinality(Active) + Cardinality(S)
      BY <1>2, CountSplit
    <2>3. Cardinality(Active \cup S) < max
      BY <1>1, <1>2, <1>3, <1>4, <2>2, FS_CardinalityType
    <2> QED BY <1>1, <2>1, <2>2, <2>3
  <1>5. CASE ~(Cardinality(Active) + Reserved(bag) < max)
    <2>0. PICK t \in ScheduledTimes(bag) :
            /\ IsPlanned(bag, Cardinality(Active) + Reserved(bag) - max, t)
            /\ w = LaterOf(t + Window, now)
      BY <1>1, <1>2, <1>3, <1>5 DEF Wake
    <2>1. /\ PlannedUpTo(bag, t) > Cardinality(Active) + Reserved(bag) - max
          /\ w = LaterOf(t + Window, now)
      BY <2>0 DEF IsPlanned
    <2>2. t \in Nat
      BY <1>1, <2>1 DEF ScheduledTimes, Counts
    <2>3. w \in Nat /\ w >= now /\ w >= t + Window
      BY <1>1, <2>1, <2>2 DEF LaterOf
    <2> DEFINE A0 == UpTo(Active, stamp, t)
               S0 == UpTo(S, wake, t)
               L == (Active \ A0) \cup (S \ S0)
    <2>4. PlannedUpTo(bag, t) = Cardinality(A0) + Cardinality(S0)
      <3>1. Counts(bag, S, wake)
        OBVIOUS
      <3> QED BY ONLY <1>2, <3>1, ReservedUpTo
    <2>5. /\ A0 \subseteq Active /\ S0 \subseteq S
      BY DEF UpTo
    <2>6. \A d \in Active : stamp[d] + Window > w => d \in L
      BY <1>1, <2>2, <2>3 DEF UpTo
    <2>7. \A d \in S : wake[d] + Window > w => d \in L
      BY <1>1, <2>2, <2>3 DEF UpTo
    <2> HIDE DEF A0, S0
    <2>8. /\ IsFiniteSet(Active \ A0) /\ Cardinality(Active \ A0) = Cardinality(Active) - Cardinality(A0)
          /\ IsFiniteSet(S \ S0) /\ Cardinality(S \ S0) = Cardinality(S) - Cardinality(S0)
          /\ Cardinality(A0) \in Nat /\ Cardinality(S0) \in Nat
      BY <1>2, <2>5, LaterCount, FS_Subset, FS_CardinalityType
    <2>9. IsFiniteSet(L) /\ Cardinality(L) <= Cardinality(Active \ A0) + Cardinality(S \ S0) /\ Cardinality(L) \in Nat
      BY <2>8, CountSplit, FS_CardinalityType
    <2>10. Cardinality(L) < max
      <3> HIDE DEF L
      <3> QED BY <1>1, <1>2, <1>3, <2>1, <2>4, <2>8, <2>9
    <2> QED BY <2>3, <2>6, <2>7, <2>9, <2>10
  <1> QED BY <1>4, <1>5

\* A step that adds no start
LEMMA NoStart ==
  ASSUME Capacity, LimiterTypes, max' = max, Planned' \subseteq Planned, \A e \in Planned' : Start(e)' = Start(e)
  PROVE  Capacity'
  <1> SUFFICES ASSUME NEW x \in Nat PROVE Cardinality(InWindow(x)') <= max
    BY DEF Capacity
  <1>1. InWindow(x)' \subseteq InWindow(x)
    BY DEF InWindow
  <1>2. IsFiniteSet(InWindow(x))
    BY PushesFinite, FS_Subset DEF InWindow, Planned
  <1>3. Cardinality(InWindow(x)') <= Cardinality(InWindow(x)) /\ Cardinality(InWindow(x)) <= max
    BY <1>1, <1>2, FS_Subset DEF Capacity
  <1>4. /\ Cardinality(InWindow(x)') \in Nat /\ Cardinality(InWindow(x)) \in Nat /\ max \in Nat
    BY <1>1, <1>2, FS_Subset, FS_CardinalityType DEF LimiterTypes
  <1> QED BY <1>3, <1>4

\* A step that plans one more start e at b, when fewer than the limit of the others are less than
\* a window before b or after it
LEMMA OneStart ==
  ASSUME Capacity, LimiterTypes, max' = max, NEW e \in Pushes, NEW b \in Nat, NEW L,
         IsFiniteSet(L), Cardinality(L) < max, Start(e)' = b,
         \A d \in Planned' : d # e => d \in Planned /\ Start(d)' = Start(d) /\ Start(d) \in Nat,
         \A d \in Planned' : d # e /\ Start(d) + Window > b => d \in L
  PROVE  Capacity'
  <1> SUFFICES ASSUME NEW x \in Nat PROVE Cardinality(InWindow(x)') <= max
    BY DEF Capacity
  <1>1. IsFiniteSet(InWindow(x)) /\ Cardinality(InWindow(x)) <= max /\ Cardinality(InWindow(x)) \in Nat
    BY PushesFinite, FS_Subset, FS_CardinalityType DEF InWindow, Planned, Capacity
  <1>2. max \in Nat /\ Cardinality(L) \in Nat /\ Window \in Nat
    BY FS_CardinalityType, PushAssumption DEF LimiterTypes
  <1>3. CASE e \notin InWindow(x)'
    <2>1. InWindow(x)' \subseteq InWindow(x)
      BY <1>3 DEF InWindow
    <2>2. Cardinality(InWindow(x)') <= Cardinality(InWindow(x)) /\ Cardinality(InWindow(x)') \in Nat
      BY <1>1, <2>1, FS_Subset, FS_CardinalityType
    <2> QED BY <1>1, <1>2, <2>2
  <1>4. CASE e \in InWindow(x)'
    <2>1. b <= x /\ x - b < Window
      BY <1>4 DEF InWindow
    <2>2. InWindow(x)' \subseteq L \cup {e}
      <3> SUFFICES ASSUME NEW d \in InWindow(x)', d # e PROVE d \in L
        OBVIOUS
      <3>1. d \in Planned' /\ Start(d) \in Nat /\ x - Start(d) < Window
        BY DEF InWindow
      <3>2. Start(d) + Window > b
        BY <1>2, <2>1, <3>1
      <3> QED BY <3>1, <3>2
    <2>3. IsFiniteSet(L \cup {e}) /\ Cardinality(L \cup {e}) <= Cardinality(L) + 1 /\ Cardinality(L \cup {e}) \in Nat
      <3>1. IsFiniteSet(L \cup {e})
        BY FS_AddElement
      <3>2. Cardinality(L \cup {e}) = IF e \in L THEN Cardinality(L) ELSE Cardinality(L) + 1
        BY FS_AddElement
      <3>3. Cardinality(L \cup {e}) \in Nat
        BY <3>1, FS_CardinalityType
      <3> QED BY <1>2, <3>1, <3>2, <3>3
    <2>4. Cardinality(InWindow(x)') <= Cardinality(L \cup {e}) /\ Cardinality(InWindow(x)') \in Nat
      BY <2>2, <2>3, FS_Subset, FS_CardinalityType
    <2> QED BY <1>2, <2>3, <2>4
  <1> QED BY <1>3, <1>4

\* What holds of the pushes before a step, as the cases below use it
LEMMA QueueFacts ==
  ASSUME QueueInv
  PROVE  /\ pr \in [Pushes -> Prs \cup {NoPr}] /\ stage \in [Pushes -> Stages]
         /\ pending \in [Prs -> Pushes \cup {NoPush}]
         /\ stamp \in [Pushes -> Nat \cup {NoTime}] /\ wake \in [Pushes -> Nat \cup {NoTime}]
         /\ max \in Nat /\ now \in Nat /\ Window \in Nat \ {0} /\ Buffer \in Nat /\ NoTime \notin Nat
         /\ \A e \in Pushes : pr[e] = NoPr => stage[e] = "none" /\ stamp[e] = NoTime
         /\ \A e \in Pushes : \A p \in Prs : pending[p] = e => pr[e] = p
         /\ \A e \in Pushes : stage[e] = "sleeping" =>
              wake[e] \in Nat /\ stamp[e] = NoTime /\ now <= wake[e] + Buffer
         /\ \A e \in Pushes : stamp[e] # NoTime => stamp[e] <= now /\ stamp[e] \in Nat
         /\ NoPr \notin Prs /\ NoPush \notin Pushes
  <1>1. /\ pr \in [Pushes -> Prs \cup {NoPr}] /\ stage \in [Pushes -> Stages]
        /\ pending \in [Prs -> Pushes \cup {NoPush}]
        /\ stamp \in [Pushes -> Nat \cup {NoTime}] /\ wake \in [Pushes -> Nat \cup {NoTime}]
        /\ max \in Nat /\ now \in Nat
    BY DEF QueueInv, NewestInv, QueueTypes, LimiterTypes
  <1>2. Window \in Nat \ {0} /\ Buffer \in Nat /\ NoTime \notin Nat /\ NoPr \notin Prs /\ NoPush \notin Pushes
    BY PushAssumption DEF Pushes
  <1>3. \A e \in Pushes : pr[e] = NoPr => stage[e] = "none" /\ stamp[e] = NoTime
    BY DEF QueueInv, NewestInv, Arrivals, Timed
  <1>4. \A e \in Pushes : \A p \in Prs : pending[p] = e => pr[e] = p
    BY <1>2 DEF QueueInv, NewestInv, PendingOwn
  <1>5. \A e \in Pushes : stage[e] = "sleeping" =>
          wake[e] \in Nat /\ stamp[e] = NoTime /\ now <= wake[e] + Buffer
    BY DEF QueueInv, Timed
  <1>6. \A e \in Pushes : stamp[e] # NoTime => stamp[e] <= now /\ stamp[e] \in Nat
    BY <1>1 DEF QueueInv, Timed
  <1> QED BY <1>1, <1>2, <1>3, <1>4, <1>5, <1>6

\* Push e of p arrives and is handled: what the four outcomes share.
LEMMA ArrivalTimed ==
  ASSUME QueueInv, NEW e \in Pushes, NEW p \in Prs, Arrive(e, p),
         NEW st \in {"waiting", "sleeping", "refused"}, NEW old \in {stage, Cancelled(p)},
         stage' = [old EXCEPT ![e] = st],
         pending' \in [Prs -> Pushes \cup {NoPush}],
         \A q \in Prs : pending'[q] = pending[q] \/ pending'[q] = NoPush \/ (pending'[q] = e /\ st = "sleeping"),
         stamp' = (IF st = "waiting" THEN [stamp EXCEPT ![e] = now] ELSE stamp),
         \A d \in Pushes : d # e => wake'[d] = wake[d],
         st = "sleeping" => wake'[e] \in Nat /\ wake'[e] >= now
  PROVE  Timed'
  <1>1. /\ pr[e] = NoPr /\ now' = now
    BY DEF Arrive
  <1>2. /\ stage[e] = "none" /\ stamp[e] = NoTime
        /\ \A q \in Prs : pending[q] # e
    BY <1>1, QueueFacts
  <1>3. /\ old \in [Pushes -> Stages]
        /\ \A d \in Pushes : old[d] = "sleeping" => stage[d] = "sleeping"
        /\ \A d \in Pushes : old[d] = "none" => stage[d] = "none"
        /\ \A d \in Pushes : old[d] \in {"waiting", "reviewing"} => old[d] = stage[d]
    <2>1. CASE old = stage
      BY <2>1, QueueFacts
    <2>2. CASE old = Cancelled(p)
      <3>1. \A d \in Pushes : old[d] \in {"waiting", "reviewing"} => old[d] = stage[d]
        BY <2>2, QueueFacts DEF Cancelled
      <3> QED BY <2>2, <3>1, ReplacedRetry DEF QueueInv
    <2> QED BY <2>1, <2>2
  <1>4. /\ stage'[e] = st
        /\ \A d \in Pushes : d # e => stage'[d] = old[d]
    BY <1>3
  <1>5. \A d \in Pushes : d # e => stamp'[d] = stamp[d]
    BY QueueFacts
  <1>6. stamp'[e] = IF st = "waiting" THEN now ELSE NoTime
    BY <1>2, QueueFacts
  <1> SUFFICES ASSUME NEW d \in Pushes
               PROVE  /\ stage'[d] = "none" => stamp'[d] = NoTime
                      /\ stage'[d] = "sleeping" => wake'[d] \in Nat /\ stamp'[d] = NoTime /\ now <= wake'[d] + Buffer
                      /\ stamp'[d] # NoTime => stamp'[d] <= now
                      /\ stage'[d] \in {"waiting", "reviewing"} /\ (\E q \in Prs : pending'[q] = d) =>
                            wake'[d] \in Nat /\ wake'[d] + Buffer <= now
    BY <1>1 DEF Timed
  <1>7. CASE d = e
    <2>1. st # "sleeping" => \A q \in Prs : pending'[q] # e
      BY <1>2, QueueFacts
    <2> QED BY <1>4, <1>6, <1>7, <2>1, QueueFacts
  <1>8. CASE d # e
    <2>1. (\E q \in Prs : pending'[q] = d) => \E q \in Prs : pending[q] = d
      BY <1>8, QueueFacts
    <2>2. /\ stage[d] = "none" => stamp[d] = NoTime
          /\ stage[d] \in {"waiting", "reviewing"} /\ (\E q \in Prs : pending[q] = d) =>
                wake[d] \in Nat /\ wake[d] + Buffer <= now
      BY DEF QueueInv, Timed
    <2> QED BY <1>3, <1>4, <1>5, <1>8, <2>1, <2>2, QueueFacts
  <1> QED BY <1>7, <1>8

\* What the four outcomes leave of the retries: those that sleep were asleep, none of them is e.
LEMMA ArrivalSleepers ==
  ASSUME QueueInv, NEW e \in Pushes, NEW p \in Prs, Arrive(e, p)
  PROVE  LET left == {d \in Pushes : Cancelled(p)[d] = "sleeping"}
         IN  /\ left \subseteq Asleep /\ e \notin left /\ e \notin Asleep
             /\ stamp[e] = NoTime /\ stage[e] = "none" /\ e \notin Active /\ now' = now /\ max' = max
             /\ IsFiniteSet(left)
  <1>1. pr[e] = NoPr /\ now' = now /\ max' = max
    BY DEF Arrive
  <1>2. stamp[e] = NoTime /\ stage[e] = "none"
    BY <1>1, QueueFacts
  <1>3. \A d \in Pushes : Cancelled(p)[d] = "sleeping" => stage[d] = "sleeping"
    BY ReplacedRetry DEF QueueInv
  <1>4. IsFiniteSet({d \in Pushes : Cancelled(p)[d] = "sleeping"})
    BY PushesFinite, FS_Subset
  <1> QED BY <1>1, <1>2, <1>3, <1>4 DEF Asleep, Active

\* A slot is free: the push starts now, and the sleeping retries of other pull requests stay.
LEMMA AllowedStep ==
  ASSUME QueueInv, NEW e \in Pushes, NEW p \in Prs, HandleAllowed(e, p)
  PROVE  LimiterTypes' /\ Timed' /\ Counts(reservations, Asleep, wake)' /\ Capacity'
  <1> DEFINE left == {d \in Pushes : Cancelled(p)[d] = "sleeping"}
  <1>1. /\ Allow /\ Arrive(e, p) /\ wake' = wake /\ reservations' = Released(p) /\ line' = Append(line, e)
        /\ stamp' = [stamp EXCEPT ![e] = now] /\ stage' = [Cancelled(p) EXCEPT ![e] = "waiting"]
        /\ pending' = [pending EXCEPT ![p] = NoPush]
    BY DEF HandleAllowed
  <1>2. /\ left \subseteq Asleep /\ e \notin left /\ e \notin Asleep /\ IsFiniteSet(left)
        /\ stamp[e] = NoTime /\ stage[e] = "none" /\ e \notin Active /\ now' = now /\ max' = max
    BY <1>1, ArrivalSleepers
  <1>3. /\ Cancelled(p) \in [Pushes -> Stages]
        /\ \A d \in Pushes : stage'[d] = IF d = e THEN "waiting" ELSE Cancelled(p)[d]
        /\ \A d \in Pushes : stamp'[d] = IF d = e THEN now ELSE stamp[d]
    BY <1>1, QueueFacts, ReplacedRetry DEF QueueInv
  <1>4. LimiterTypes'
    BY <1>1, <1>2, QueueFacts DEF LimiterTypes, QueueInv
  <1>5. Timed'
    <2>1. /\ pending' \in [Prs -> Pushes \cup {NoPush}]
          /\ \A q \in Prs : pending'[q] = pending[q] \/ pending'[q] = NoPush
      BY <1>1, QueueFacts
    <2> QED BY <1>1, <2>1, ArrivalTimed
  <1>6. Counts(reservations, Asleep, wake)'
    <2>1. Asleep' = left
      BY <1>2, <1>3 DEF Asleep
    <2>2. Counts(Released(p), left, wake)
      BY <1>1, ReleasedCounts DEF Arrive
    <2> QED BY <1>1, <2>1, <2>2 DEF Counts
  <1>7. Capacity'
    <2> DEFINE L == Active \cup Asleep
    <2>1. IsFiniteSet(L) /\ Cardinality(L) < max
      <3>1. Reserved(reservations) = Cardinality(Asleep)
        BY ReservedCount, PushesFinite DEF QueueInv
      <3>2. IsFiniteSet(L) /\ Cardinality(L) <= Cardinality(Active) + Cardinality(Asleep)
        BY CountSplit, PushesFinite
      <3>3. Cardinality(Active) + Cardinality(Asleep) < max
        BY <1>1, <3>1 DEF Allow
      <3>4. Cardinality(L) \in Nat /\ Cardinality(Active) \in Nat /\ Cardinality(Asleep) \in Nat /\ max \in Nat
        BY <3>2, PushesFinite, FS_CardinalityType, QueueFacts
      <3> HIDE DEF L
      <3> QED BY <3>2, <3>3, <3>4
    <2>2. Start(e)' = now /\ now \in Nat
      BY <1>3, QueueFacts DEF Start
    <2>3. ASSUME NEW d \in Planned', d # e
          PROVE  /\ d \in Planned /\ Start(d)' = Start(d) /\ Start(d) \in Nat
                 /\ Start(d) + Window > now => d \in L
      <3>1. d \in Pushes /\ stamp'[d] = stamp[d] /\ (stamp[d] # NoTime \/ d \in left)
        BY <1>3, <2>3 DEF Planned
      <3>2. Start(d)' = Start(d)
        BY <1>1, <3>1 DEF Start
      <3>3. CASE stamp[d] # NoTime
        <4>1. Start(d) = stamp[d] /\ stamp[d] \in Nat /\ d \in Planned
          BY <3>1, <3>3, QueueFacts DEF Start, Planned
        <4>2. stamp[d] + Window > now => now - stamp[d] < Window
          BY <4>1, QueueFacts
        <4> QED BY <3>1, <3>2, <3>3, <4>1, <4>2 DEF Active
      <3>4. CASE stamp[d] = NoTime
        <4>1. d \in Asleep
          BY <1>2, <3>1, <3>4
        <4>2. stage[d] = "sleeping" /\ wake[d] + Buffer \in Nat
          BY <3>1, <4>1, QueueFacts DEF Asleep
        <4> QED BY <3>1, <3>2, <3>4, <4>1, <4>2 DEF Start, Planned
      <3> QED BY <3>3, <3>4
    <2> HIDE DEF L
    <2> QED BY <1>2, <2>1, <2>2, <2>3, OneStart DEF QueueInv
  <1> QED BY <1>4, <1>5, <1>6, <1>7

\* No slot is free: a retry is promised for a time when there is one.
LEMMA DeferredStep ==
  ASSUME QueueInv, NEW e \in Pushes, NEW p \in Prs, HandleDeferred(e, p)
  PROVE  LimiterTypes' /\ Timed' /\ Counts(reservations, Asleep, wake)' /\ Capacity'
  <1> DEFINE left == {d \in Pushes : Cancelled(p)[d] = "sleeping"}
  <1>1. /\ Arrive(e, p) /\ stamp' = stamp /\ line' = line
        /\ stage' = [Cancelled(p) EXCEPT ![e] = "sleeping"]
        /\ pending' = [pending EXCEPT ![p] = e]
    BY DEF HandleDeferred
  <1>w. PICK w : /\ Wake(Released(p), w) /\ reservations' = Released(p) (+) One(w)
                 /\ wake' = [wake EXCEPT ![e] = w]
    BY DEF HandleDeferred
  <1>2. /\ left \subseteq Asleep /\ e \notin left /\ e \notin Asleep /\ IsFiniteSet(left)
        /\ stamp[e] = NoTime /\ stage[e] = "none" /\ e \notin Active /\ now' = now /\ max' = max
    BY <1>1, ArrivalSleepers
  <1>3. /\ Cancelled(p) \in [Pushes -> Stages]
        /\ \A d \in Pushes : stage'[d] = IF d = e THEN "sleeping" ELSE Cancelled(p)[d]
        /\ \A d \in Pushes : wake'[d] = IF d = e THEN w ELSE wake[d]
    BY <1>1, <1>w, QueueFacts, ReplacedRetry DEF QueueInv
  <1>c. Counts(Released(p), left, wake)
    BY <1>1, ReleasedCounts DEF Arrive
  <1>r. /\ w \in Nat /\ w >= now
        /\ \E L : /\ IsFiniteSet(L) /\ Cardinality(L) < max
                  /\ \A d \in Active : stamp[d] + Window > w => d \in L
                  /\ \A d \in left : wake[d] + Window > w => d \in L
    BY <1>2, <1>c, <1>w, WakeLeavesRoom
  <1>4. LimiterTypes'
    BY <1>1, <1>2, <1>r, <1>w, QueueFacts DEF LimiterTypes, QueueInv
  <1>5. Timed'
    <2>1. /\ pending' \in [Prs -> Pushes \cup {NoPush}]
          /\ \A q \in Prs : pending'[q] = pending[q] \/ pending'[q] = e
      BY <1>1, QueueFacts
    <2>2. wake'[e] \in Nat /\ wake'[e] >= now /\ \A d \in Pushes : d # e => wake'[d] = wake[d]
      BY <1>3, <1>r
    <2> QED BY <1>1, <2>1, <2>2, ArrivalTimed
  <1>6. Counts(reservations, Asleep, wake)'
    <2>1. Asleep' = left \cup {e}
      BY <1>3 DEF Asleep
    <2>2. wake'[e] = w /\ \A d \in left : wake'[d] = wake[d]
      BY <1>2, <1>3
    <2>3. Counts(Released(p) (+) One(w), left \cup {e}, wake')
      <3> HIDE DEF left
      <3> QED BY <1>2, <1>c, <2>2, CountsAdd
    <2> QED BY <1>w, <2>1, <2>3 DEF Counts
  <1>7. Capacity'
    <2>1. PICK L : /\ IsFiniteSet(L) /\ Cardinality(L) < max
                   /\ \A d \in Active : stamp[d] + Window > w => d \in L
                   /\ \A d \in left : wake[d] + Window > w => d \in L
      BY <1>r
    <2>2. Start(e)' = w + Buffer /\ w + Buffer \in Nat
      BY <1>1, <1>2, <1>3, <1>r, QueueFacts DEF Start
    <2>3. ASSUME NEW d \in Planned', d # e
          PROVE  /\ d \in Planned /\ Start(d)' = Start(d) /\ Start(d) \in Nat
                 /\ Start(d) + Window > w + Buffer => d \in L
      <3>1. d \in Pushes /\ stamp'[d] = stamp[d] /\ wake'[d] = wake[d] /\ (stamp[d] # NoTime \/ d \in left)
        BY <1>1, <1>3, <2>3 DEF Planned
      <3>2. Start(d)' = Start(d)
        BY <3>1 DEF Start
      <3>3. CASE stamp[d] # NoTime
        <4>1. Start(d) = stamp[d] /\ stamp[d] \in Nat /\ d \in Planned
          BY <3>1, <3>3, QueueFacts DEF Start, Planned
        <4>2. stamp[d] + Window > w + Buffer => stamp[d] + Window > w /\ now - stamp[d] < Window
          BY <1>r, <4>1, QueueFacts
        <4> QED BY <2>1, <3>1, <3>2, <3>3, <4>1, <4>2 DEF Active
      <3>4. CASE stamp[d] = NoTime
        <4>1. d \in left /\ d \in Asleep
          BY <1>2, <3>1, <3>4
        <4>2. stage[d] = "sleeping" /\ wake[d] \in Nat
          BY <3>1, <4>1, QueueFacts DEF Asleep
        <4>3. Start(d) = wake[d] + Buffer /\ d \in Planned
          BY <3>1, <3>4, <4>2 DEF Start, Planned
        <4>4. /\ wake[d] + Buffer + Window > w + Buffer => wake[d] + Window > w
              /\ wake[d] + Buffer \in Nat
          BY <1>r, <4>2, QueueFacts
        <4> QED BY <2>1, <3>2, <4>1, <4>3, <4>4
      <3> QED BY <3>3, <3>4
    <2> DEFINE b == w + Buffer
    <2>4. /\ b \in Nat /\ Start(e)' = b
          /\ \A d \in Planned' : d # e =>
               /\ d \in Planned /\ Start(d)' = Start(d) /\ Start(d) \in Nat
               /\ Start(d) + Window > b => d \in L
      BY <2>2, <2>3
    <2> HIDE DEF b, left
    <2> QED BY <1>2, <2>1, <2>4, OneStart DEF QueueInv
  <1> QED BY <1>4, <1>5, <1>6, <1>7

\* Cancelling changes nothing only when there is no retry to cancel.
LEMMA NothingToCancel ==
  ASSUME QueueInv, NEW p \in Prs, Cancelled(p) = stage
  PROVE  Released(p) = reservations
  <1>1. CASE ~Live(pending[p])
    BY <1>1 DEF Released
  <1>2. CASE Live(pending[p])
    <2>1. pending[p] \in Pushes /\ stage[pending[p]] \in {"sleeping", "waiting", "reviewing"}
      BY <1>2, QueueFacts DEF Live
    <2>2. Cancelled(p)[pending[p]] \in {"stopping", "superseded"}
      BY <1>2, <2>1, QueueFacts DEF Cancelled
    <2> QED BY <2>1, <2>2
  <1> QED BY <1>1, <1>2

\* A push that is refused: the limit is 0, or every slot is promised. In both cases the push
\* neither starts nor sleeps, and the retries that still sleep keep their reservations.
LEMMA RefusedStep ==
  ASSUME QueueInv, NEW e \in Pushes, NEW p \in Prs, HandleRefused(e, p) \/ HandleBlocked(e, p)
  PROVE  LimiterTypes' /\ Timed' /\ Counts(reservations, Asleep, wake)' /\ Capacity'
  <1>1. PICK old \in {stage, Cancelled(p)} :
           /\ stage' = [old EXCEPT ![e] = "refused"]
           /\ old = stage => reservations' = reservations
           /\ old = Cancelled(p) => reservations' = Released(p)
    <2>1. CASE HandleRefused(e, p)
      BY <2>1, NothingToCancel DEF HandleRefused
    <2>2. CASE HandleBlocked(e, p)
      BY <2>2, NothingToCancel DEF HandleBlocked
    <2> QED BY <2>1, <2>2
  <1>2. /\ Arrive(e, p) /\ stamp' = stamp /\ wake' = wake /\ line' = line
        /\ pending' \in [Prs -> Pushes \cup {NoPush}]
        /\ \A q \in Prs : pending'[q] = pending[q] \/ pending'[q] = NoPush
    BY QueueFacts DEF HandleRefused, HandleBlocked
  <1>3. /\ e \notin Asleep /\ stamp[e] = NoTime /\ now' = now /\ max' = max
    BY <1>2, ArrivalSleepers
  <1>4. /\ old \in [Pushes -> Stages]
        /\ \A d \in Pushes : old[d] = "sleeping" => d \in Asleep
        /\ \A d \in Pushes : stage'[d] = IF d = e THEN "refused" ELSE old[d]
    BY <1>1, QueueFacts, ReplacedRetry DEF QueueInv, Asleep
  <1>5. LimiterTypes'
    BY <1>2, <1>3 DEF LimiterTypes, QueueInv
  <1>6. Timed'
    BY <1>1, <1>2, ArrivalTimed
  <1>7. Counts(reservations, Asleep, wake)'
    <2>1. Asleep' = {d \in Pushes : old[d] = "sleeping"}
      BY <1>3, <1>4 DEF Asleep
    <2>2. CASE old = stage
      BY <1>1, <1>2, <2>1, <2>2 DEF QueueInv, Asleep
    <2>3. CASE old = Cancelled(p)
      <3>1. Counts(Released(p), {d \in Pushes : Cancelled(p)[d] = "sleeping"}, wake)
        BY <1>2, ReleasedCounts DEF Arrive
      <3> QED BY <1>1, <1>2, <2>1, <2>3, <3>1
    <2> QED BY <2>2, <2>3
  <1>8. Capacity'
    <2>1. Planned' \subseteq Planned
      BY <1>2, <1>3, <1>4 DEF Planned, Asleep
    <2>2. \A d \in Planned' : Start(d)' = Start(d)
      BY <1>2 DEF Start
    <2> QED BY <1>3, <2>1, <2>2, NoStart DEF QueueInv
  <1> QED BY <1>5, <1>6, <1>7, <1>8

\* The timer of a retry fires: its start was planned for this very moment.
LEMMA FiredStep ==
  ASSUME QueueInv, NEW e \in Pushes, RetryFires(e)
  PROVE  LimiterTypes' /\ Timed' /\ Counts(reservations, Asleep, wake)' /\ Capacity'
  <1>1. /\ stage[e] = "sleeping" /\ now >= wake[e] + Buffer /\ reservations' = reservations (-) One(wake[e])
        /\ stamp' = [stamp EXCEPT ![e] = now] /\ stage' = [stage EXCEPT ![e] = "waiting"]
        /\ line' = Append(line, e) /\ UNCHANGED <<max, now, pr, wake, pending>>
    BY DEF RetryFires, Due
  <1>2. wake[e] \in Nat /\ stamp[e] = NoTime /\ now = wake[e] + Buffer
    BY <1>1, QueueFacts
  <1>3. /\ \A d \in Pushes : stage'[d] = IF d = e THEN "waiting" ELSE stage[d]
        /\ \A d \in Pushes : stamp'[d] = IF d = e THEN now ELSE stamp[d]
    BY <1>1, QueueFacts
  <1>4. LimiterTypes'
    BY <1>1, QueueFacts DEF LimiterTypes, QueueInv
  <1>5. Timed'
    <2>1. Timed /\ now \in Nat
      BY QueueFacts DEF QueueInv
    <2> QED BY ONLY <1>1, <1>2, <1>3, <2>1 DEF Timed
  <1>6. Counts(reservations, Asleep, wake)'
    <2>1. Asleep' = Asleep \ {e} /\ e \in Asleep
      BY <1>1, <1>3 DEF Asleep
    <2>2. Counts(reservations (-) One(wake[e]), Asleep \ {e}, wake)
      BY <2>1, PushesFinite, CountsRemove DEF QueueInv
    <2> QED BY <1>1, <2>1, <2>2
  <1>7. Capacity'
    <2>1. Planned' \subseteq Planned
      BY <1>1, <1>3 DEF Planned
    <2>2. ASSUME NEW d \in Planned' PROVE Start(d)' = Start(d)
      <3>1. d \in Pushes
        BY DEF Planned
      <3>2. CASE d = e
        BY <1>1, <1>2, <1>3, <3>2, QueueFacts DEF Start
      <3>3. CASE d # e
        BY <1>1, <1>3, <3>1, <3>3 DEF Start
      <3> QED BY <3>2, <3>3
    <2> QED BY <1>1, <2>1, <2>2, NoStart DEF QueueInv
  <1> QED BY <1>4, <1>5, <1>6, <1>7

\* A step of a review neither starts a push nor wakes or puts to sleep a retry.
LEMMA ReviewStep ==
  ASSUME QueueInv, NEW e \in Pushes, Review(e)
  PROVE  LimiterTypes' /\ Timed' /\ Counts(reservations, Asleep, wake)' /\ Capacity'
  <1>1. /\ stage[e] \in {"waiting", "reviewing", "stopping"}
        /\ \E st \in {"reviewing", "done", "superseded"} :
              /\ stage' = [stage EXCEPT ![e] = st]
              /\ st = "reviewing" => stage[e] = "waiting"
        /\ UNCHANGED <<limiter, now, pr, wake, line>>
        /\ pending' = pending \/ pending' = [pending EXCEPT ![pr[e]] = IF @ = e THEN NoPush ELSE @]
    BY DEF Review, ReviewStarts, ReviewEnds, ReviewUnwinds
  <1>2. PICK st \in {"reviewing", "done", "superseded"} :
           /\ \A d \in Pushes : stage'[d] = IF d = e THEN st ELSE stage[d]
           /\ st = "reviewing" => stage[e] = "waiting"
    BY <1>1, QueueFacts
  <1>3. \A d \in Pushes : (\E p \in Prs : pending'[p] = d) => \E p \in Prs : pending[p] = d
    BY <1>1, QueueFacts
  <1>4. Asleep' = Asleep /\ Planned' = Planned
    BY <1>1, <1>2 DEF Asleep, Planned, limiter
  <1>5. LimiterTypes'
    BY <1>1 DEF limiter, LimiterTypes, QueueInv
  <1>6. Timed'
    BY <1>1, <1>2, <1>3 DEF limiter, Timed, QueueInv
  <1>7. Counts(reservations, Asleep, wake)'
    BY <1>1, <1>4 DEF limiter, QueueInv
  <1>8. Capacity'
    <2>1. \A d \in Planned' : Start(d)' = Start(d)
      BY <1>1 DEF Start, limiter
    <2> QED BY <1>1, <1>4, <2>1, NoStart DEF limiter, QueueInv
  <1> QED BY <1>5, <1>6, <1>7, <1>8

\* Time passes: no retry that is due is left behind.
LEMMA TimeStep ==
  ASSUME QueueInv, TimePasses
  PROVE  LimiterTypes' /\ Timed' /\ Counts(reservations, Asleep, wake)' /\ Capacity'
  <1>1. Punctual /\ now' = now + 1 /\ UNCHANGED <<limiter, pr, stage, wake, pending, line>>
    BY DEF TimePasses
  <1>2. Asleep' = Asleep /\ Planned' = Planned
    BY <1>1 DEF Asleep, Planned, limiter
  <1>3. LimiterTypes'
    BY <1>1 DEF limiter, LimiterTypes, QueueInv
  <1>4. Timed'
    <2>1. \A d \in Pushes : stage[d] = "sleeping" => now + 1 <= wake[d] + Buffer
      BY <1>1, QueueFacts DEF Punctual, Due
    <2>2. \A d \in Pushes : stamp[d] # NoTime => stamp[d] <= now + 1
      BY QueueFacts
    <2>3. \A d \in Pushes : wake[d] \in Nat /\ wake[d] + Buffer <= now => wake[d] + Buffer <= now + 1
      BY QueueFacts
    <2> QED BY <1>1, <2>1, <2>2, <2>3 DEF limiter, Timed, QueueInv
  <1>5. Counts(reservations, Asleep, wake)'
    BY <1>1, <1>2 DEF limiter, QueueInv
  <1>6. Capacity'
    <2>1. \A d \in Planned' : Start(d)' = Start(d)
      BY <1>1 DEF Start, limiter
    <2> QED BY <1>1, <1>2, <2>1, NoStart DEF limiter, QueueInv
  <1> QED BY <1>3, <1>4, <1>5, <1>6

LEMMA QueueStep == QueueInv /\ [Next]_vars => QueueInv'
  <1> SUFFICES ASSUME QueueInv, [Next]_vars PROVE QueueInv'
    OBVIOUS
  <1>1. NewestInv'
    BY NewestStep DEF QueueInv
  <1> DEFINE Rest == LimiterTypes /\ Timed /\ Counts(reservations, Asleep, wake) /\ Capacity
  <1>2. ASSUME NEW e \in Pushes, NEW p \in Prs, Handle(e, p) PROVE Rest'
    BY <1>2, AllowedStep, DeferredStep, RefusedStep DEF Handle
  <1>3. ASSUME NEW e \in Pushes, RetryFires(e) PROVE Rest'
    BY <1>3, FiredStep
  <1>4. ASSUME NEW e \in Pushes, Review(e) PROVE Rest'
    BY <1>4, ReviewStep
  <1>5. ASSUME TimePasses PROVE Rest'
    BY <1>5, TimeStep
  <1>6. ASSUME UNCHANGED vars PROVE Rest'
    <2>1. UNCHANGED <<max, now, stamp, stage, wake, pending, line, reservations>>
      BY <1>6 DEF vars, limiter
    <2>2. Asleep' = Asleep /\ Planned' = Planned /\ \A d \in Planned : Start(d)' = Start(d)
      BY <2>1 DEF Asleep, Planned, Start
    <2>3. LimiterTypes' /\ Timed' /\ Counts(reservations, Asleep, wake)'
      BY <2>1, <2>2 DEF LimiterTypes, Timed, QueueInv
    <2>4. Capacity'
      BY <2>1, <2>2, NoStart DEF QueueInv
    <2> QED BY <2>3, <2>4
  <1>7. Rest'
    BY <1>2, <1>3, <1>4, <1>5, <1>6 DEF Next
  <1> QED BY <1>1, <1>7 DEF QueueInv

\* The invariant holds in every run of the queue.
THEOREM QueueInvariant == Spec => []QueueInv
  BY QueueInit, QueueStep, PTL DEF Spec

\* The type invariant of the queue, whatever the limit, the window and the number of pushes
THEOREM TypeCorrect == Spec => []TypeOK
  <1>1. QueueInv => TypeOK
    <2> SUFFICES ASSUME QueueInv PROVE TypeOK
      OBVIOUS
    <2>1. IsABag(reservations) /\ BagToSet(reservations) = {wake[e] : e \in Asleep}
      BY DEF QueueInv, Counts
    <2>2. BagToSet(reservations) \subseteq Nat
      BY <2>1, QueueFacts DEF Asleep
    <2> QED BY <2>1, <2>2 DEF QueueInv, NewestInv, QueueTypes, LimiterTypes, TypeOK
  <1> QED BY <1>1, QueueInvariant, PTL

\* The bag of wake times is exactly the retries that sleep, although three handlers change it by
\* value and a replaced retry may have fired already.
THEOREM ReservationsExact == Spec => []ReservationsMatch
  <1>1. QueueInv => ReservationsMatch
    <2> SUFFICES ASSUME QueueInv PROVE ReservationsMatch
      OBVIOUS
    <2>1. Counts(reservations, Asleep, wake)
      BY DEF QueueInv
    <2>2. \A t : Sleepers(t) = {e \in Asleep : wake[e] = t}
      BY DEF Sleepers, Asleep
    <2> QED BY <2>1, <2>2 DEF Counts, Asleep, ReservationsMatch
  <1> QED BY <1>1, QueueInvariant, PTL

\* No window, wherever it ends, holds more starts than the limit: a retry's wake time was chosen
\* so that it fits, whatever came in while it slept.
THEOREM RateAlwaysHeld == Spec => []RateHeld
  <1>1. QueueInv => RateHeld
    <2> SUFFICES ASSUME QueueInv, NEW e \in Pushes, stamp[e] # NoTime
                 PROVE  Cardinality({d \in Pushes : /\ stamp[d] # NoTime /\ stamp[d] <= stamp[e]
                                                     /\ stamp[e] - stamp[d] < Window}) <= max
      BY DEF RateHeld
    <2> DEFINE W == {d \in Pushes : stamp[d] # NoTime /\ stamp[d] <= stamp[e] /\ stamp[e] - stamp[d] < Window}
               x == stamp[e]
    <2>1. W \subseteq InWindow(x)
      BY DEF InWindow, Planned, Start
    <2>2. x \in Nat /\ max \in Nat
      BY QueueFacts
    <2>3. IsFiniteSet(InWindow(x)) /\ Cardinality(InWindow(x)) <= max
      BY <2>2, PushesFinite, FS_Subset DEF InWindow, Planned, QueueInv, Capacity
    <2>4. /\ Cardinality(W) <= Cardinality(InWindow(x)) /\ Cardinality(W) \in Nat
          /\ Cardinality(InWindow(x)) \in Nat
      BY <2>1, <2>3, FS_Subset, FS_CardinalityType
    <2> HIDE DEF W, x
    <2>5. Cardinality(W) <= max
      BY <2>2, <2>3, <2>4
    <2> QED BY <2>5 DEF W
  <1> QED BY <1>1, QueueInvariant, PTL

-----------------------------------------------------------------------------
(* ReviewQueue implements ReviewPromise, as far as safety goes *)

\* The retry that a pull request has been promised, as the refinement mapping reads it
PromisedTo(p) == IF pending[p] # NoPush /\ stage[pending[p]] = "sleeping" THEN pending[p] ELSE NoPush
Promised == [p \in Prs |-> PromisedTo(p)]

LEMMA PromiseInit == Init => Promise!Init
  <1> SUFFICES ASSUME Init PROVE Promise!Init
    OBVIOUS
  <1>1. pending = [p \in Prs |-> NoPush]
    BY DEF Init
  <1>2. Promised = [p \in Prs |-> NoPush]
    BY <1>1 DEF Promised, PromisedTo
  <1> QED BY <1>2 DEF Init, Promise!Init, Pushes, Promise!Pushes, Promised, PromisedTo

\* A push of p changes the promise made to p only, to st when it leaves its own stage st.
LEMMA ArrivalPromises ==
  ASSUME QueueInv, NEW e \in Pushes, NEW p \in Prs, Arrive(e, p), NEW st \in Stages,
         stage' = [Cancelled(p) EXCEPT ![e] = st],
         NEW next \in {e, NoPush}, pending' = [pending EXCEPT ![p] = next], st = "sleeping" <=> next = e
  PROVE  Promised' = [Promised EXCEPT ![p] = next]
  <1>1. pr[e] = NoPr /\ \A q \in Prs : pending[q] # e
    BY QueueFacts DEF Arrive
  <1>2. /\ Cancelled(p) \in [Pushes -> Stages] /\ pending'[p] = next
        /\ \A q \in Prs : q # p => pending'[q] = pending[q]
    BY QueueFacts, ReplacedRetry DEF QueueInv
  <1>3. stage'[e] = st /\ \A d \in Pushes : d # e => stage'[d] = Cancelled(p)[d]
    BY <1>2
  <1>4. PromisedTo(p)' = next
    BY <1>2, <1>3, QueueFacts DEF PromisedTo
  <1>5. ASSUME NEW q \in Prs, q # p PROVE PromisedTo(q)' = PromisedTo(q)
    <2>1. CASE pending[q] = NoPush
      BY <1>2, <1>5, <2>1 DEF PromisedTo
    <2>2. CASE pending[q] # NoPush
      <3>1. pending[q] \in Pushes /\ pending[q] # e /\ pr[pending[q]] = q
        BY <1>1, <2>2, QueueFacts
      <3>2. pending[p] # pending[q]
        BY <1>5, <3>1, QueueFacts
      <3>3. Cancelled(p)[pending[q]] = stage[pending[q]]
        BY <3>1, <3>2, QueueFacts DEF Cancelled
      <3> QED BY <1>2, <1>3, <1>5, <3>1, <3>3 DEF PromisedTo
    <2> QED BY <2>1, <2>2
  <1> QED BY <1>4, <1>5 DEF Promised

\* The starts of the window that ends now are the active timestamps, and a retry that is due has
\* its place among them.
LEMMA RoomNow ==
  ASSUME QueueInv, Allow \/ \E e \in Pushes : Due(e)
  PROVE  Cardinality(Active) < max
  <1>1. /\ Cardinality(Active) \in Nat /\ Cardinality(Asleep) \in Nat /\ max \in Nat
        /\ IsFiniteSet(Active)
    BY PushesFinite, FS_CardinalityType, QueueFacts
  <1>2. CASE Allow
    <2>1. Reserved(reservations) = Cardinality(Asleep)
      BY ReservedCount, PushesFinite DEF QueueInv
    <2> QED BY <1>1, <1>2, <2>1 DEF Allow
  <1>3. ASSUME NEW e \in Pushes, Due(e) PROVE Cardinality(Active) < max
    <2>1. /\ stage[e] = "sleeping" /\ stamp[e] = NoTime /\ wake[e] \in Nat /\ wake[e] + Buffer = now
      BY <1>3, QueueFacts DEF Due
    <2>2. e \notin Active /\ e \in InWindow(now)
      BY <2>1, QueueFacts DEF Active, InWindow, Planned, Start
    <2>3. \A d \in Active : d \in InWindow(now)
      BY QueueFacts DEF Active, InWindow, Planned, Start
    <2>4. Active \cup {e} \subseteq InWindow(now)
      BY <2>2, <2>3
    <2>5. IsFiniteSet(Active \cup {e}) /\ Cardinality(Active \cup {e}) = Cardinality(Active) + 1
      BY <1>1, <2>2, FS_AddElement
    <2>6. IsFiniteSet(InWindow(now)) /\ Cardinality(InWindow(now)) <= max
      BY PushesFinite, FS_Subset, QueueFacts DEF InWindow, Planned, QueueInv, Capacity
    <2>7. Cardinality(Active \cup {e}) <= Cardinality(InWindow(now)) /\ Cardinality(InWindow(now)) \in Nat
      BY <2>4, <2>6, FS_Subset, FS_CardinalityType
    <2> QED BY <1>1, <2>5, <2>6, <2>7
  <1> QED BY <1>2, <1>3

LEMMA PromiseStep == QueueInv /\ [Next]_vars => [Promise!Next]_(Promise!vars)
  <1> SUFFICES ASSUME QueueInv, [Next]_vars PROVE [Promise!Next]_(Promise!vars)
    OBVIOUS
  <1>p. Promise!Pushes = Pushes
    BY DEF Pushes, Promise!Pushes
  <1>r. Cardinality(Active) < max => Promise!Room
    <2>1. \A S : Promise!Cardinality(S) = Cardinality(S)
      BY DEF Cardinality, Promise!Cardinality, IsFiniteSet, Promise!IsFiniteSet
    <2>2. {e \in Promise!Pushes : stamp[e] # NoTime /\ now - stamp[e] < Window} = Active
      BY <1>p DEF Active
    <2> QED BY <2>1, <2>2 DEF Promise!Room
  <1>a. \A e \in Pushes, p \in Prs : Arrive(e, p) => Promise!Arrive(e, p)
    BY <1>p DEF Arrive, Promise!Arrive
  <1>1. ASSUME NEW e \in Pushes, NEW p \in Prs, HandleAllowed(e, p) PROVE Promise!Admit(e, p)
    <2>1. /\ Arrive(e, p) /\ Allow /\ stamp' = [stamp EXCEPT ![e] = now]
          /\ stage' = [Cancelled(p) EXCEPT ![e] = "waiting"] /\ pending' = [pending EXCEPT ![p] = NoPush]
      BY <1>1 DEF HandleAllowed
    <2>2. Promised' = [Promised EXCEPT ![p] = NoPush]
      BY <2>1, ArrivalPromises, QueueFacts DEF Stages
    <2>3. Cardinality(Active) < max
      BY <2>1, RoomNow
    <2> QED BY <1>a, <1>r, <2>1, <2>2, <2>3 DEF Promise!Admit, Promised, PromisedTo
  <1>2. ASSUME NEW e \in Pushes, NEW p \in Prs, HandleDeferred(e, p) PROVE Promise!Defer(e, p)
    <2>1. /\ Arrive(e, p) /\ max # 0 /\ stamp' = stamp
          /\ stage' = [Cancelled(p) EXCEPT ![e] = "sleeping"] /\ pending' = [pending EXCEPT ![p] = e]
      BY <1>2 DEF HandleDeferred
    <2>2. Promised' = [Promised EXCEPT ![p] = e]
      BY <2>1, ArrivalPromises DEF Stages
    <2>3. max > 0
      BY <2>1, QueueFacts
    <2> QED BY <1>a, <2>1, <2>2, <2>3 DEF Promise!Defer, Promised, PromisedTo
  <1>3. ASSUME NEW e \in Pushes, NEW p \in Prs, HandleRefused(e, p) PROVE Promise!Refuse(e, p)
    <2>1. /\ Arrive(e, p) /\ stamp' = stamp
          /\ stage' = [Cancelled(p) EXCEPT ![e] = "refused"] /\ pending' = [pending EXCEPT ![p] = NoPush]
      BY <1>3 DEF HandleRefused
    <2>2. Promised' = [Promised EXCEPT ![p] = NoPush]
      BY <2>1, ArrivalPromises, QueueFacts DEF Stages
    <2> QED BY <1>a, <2>1, <2>2 DEF Promise!Refuse, Promised, PromisedTo
  <1>4. ASSUME NEW e \in Pushes, NEW p \in Prs, HandleBlocked(e, p) PROVE Promise!Refuse(e, p)
    <2>1. /\ Arrive(e, p) /\ max = 0 /\ stamp' = stamp /\ stage' = [stage EXCEPT ![e] = "refused"]
          /\ pending' = pending
      BY <1>4 DEF HandleBlocked
    <2>2. \A d \in Pushes : stage[d] # "sleeping" /\ stage'[d] # "sleeping"
      BY <2>1, QueueFacts DEF QueueInv, NewestInv, NoRetryAtZero
    <2>3. \A q \in Prs : PromisedTo(q) = NoPush /\ PromisedTo(q)' = NoPush
      BY <2>1, <2>2, QueueFacts DEF PromisedTo
    <2>4. Promised' = [Promised EXCEPT ![p] = NoPush]
      BY <2>3 DEF Promised
    <2> QED BY <1>a, <2>1, <2>4 DEF Promise!Refuse, Promised, PromisedTo
  <1>5. ASSUME NEW e \in Pushes, RetryFires(e) PROVE \E p \in Prs : Promise!Retry(p)
    <2>1. /\ Due(e) /\ stage[e] = "sleeping" /\ stamp' = [stamp EXCEPT ![e] = now]
          /\ stage' = [stage EXCEPT ![e] = "waiting"] /\ UNCHANGED <<max, now, pr, wake, pending>>
      BY <1>5 DEF RetryFires, Due
    <2>2. PICK p \in Prs : p = pr[e] /\ pending[p] = e /\ \A d \in Pushes : pr[d] = p => d <= e
      BY <2>1, QueueFacts DEF QueueInv, NewestInv, PendingNewest, NewestOf
    <2>3. \A d \in Pushes : stage'[d] = IF d = e THEN "waiting" ELSE stage[d]
      BY <2>1, QueueFacts
    <2>4. PromisedTo(p) = e /\ PromisedTo(p)' = NoPush
      BY <2>1, <2>2, <2>3, QueueFacts DEF PromisedTo
    <2>5. ASSUME NEW q \in Prs, q # p PROVE PromisedTo(q)' = PromisedTo(q)
      <3>1. pending[q] # e
        BY <2>2, <2>5, QueueFacts
      <3> QED BY <2>1, <2>3, <3>1, QueueFacts DEF PromisedTo
    <2>6. Promised' = [Promised EXCEPT ![p] = NoPush]
      BY <2>4, <2>5 DEF Promised
    <2>7. Promised[p] = e /\ e # NoPush
      BY <2>2, <2>4, QueueFacts DEF Promised
    <2>8. Promise!Room
      BY <1>r, <2>1, RoomNow
    <2>9. Promise!Retry(p)
      BY <1>p, <2>1, <2>2, <2>6, <2>7, <2>8 DEF Promise!Retry, Promised, PromisedTo
    <2> QED BY <2>2, <2>9
  <1>6. ASSUME NEW e \in Pushes, Review(e) PROVE UNCHANGED Promise!vars
    <2>1. /\ stage[e] \in {"waiting", "reviewing", "stopping"}
          /\ \E st \in {"reviewing", "done", "superseded"} : stage' = [stage EXCEPT ![e] = st]
          /\ UNCHANGED <<limiter, now, pr, wake, line>>
          /\ pending' = pending \/ pending' = [pending EXCEPT ![pr[e]] = IF @ = e THEN NoPush ELSE @]
      BY <1>6 DEF Review, ReviewStarts, ReviewEnds, ReviewUnwinds
    <2>2. \A d \in Pushes : stage'[d] = "sleeping" <=> stage[d] = "sleeping"
      BY <2>1, QueueFacts
    <2>3. \A q \in Prs : pending'[q] = pending[q] \/ (pending[q] = e /\ pending'[q] = NoPush)
      BY <2>1, QueueFacts
    <2>4. \A q \in Prs : PromisedTo(q)' = PromisedTo(q)
      BY <2>1, <2>2, <2>3, QueueFacts DEF PromisedTo
    <2>5. Promised' = Promised
      BY <2>4 DEF Promised
    <2> QED BY <2>1, <2>5 DEF limiter, Promise!vars, Promised, PromisedTo
  <1>7. CASE TimePasses
    <2>1. Promised' = Promised
      BY <1>7 DEF TimePasses, Promised, PromisedTo
    <2>2. Promise!TimePasses
      BY <1>7, <2>1 DEF TimePasses, limiter, Promise!TimePasses, Promised, PromisedTo
    <2> QED BY <2>2 DEF Promise!Next
  <1>8. CASE UNCHANGED vars
    <2>1. Promised' = Promised
      BY <1>8 DEF vars, Promised, PromisedTo
    <2> QED BY <1>8, <2>1 DEF vars, limiter, Promise!vars, Promised, PromisedTo
  <1>9. ASSUME NEW e \in Pushes, NEW p \in Prs, Handle(e, p) PROVE Promise!Next
    BY <1>p, <1>1, <1>2, <1>3, <1>4, <1>9 DEF Handle, Promise!Next
  <1>10. ASSUME NEW e \in Pushes, RetryFires(e) PROVE Promise!Next
    BY <1>5, <1>10 DEF Promise!Next
  <1> QED BY <1>6, <1>7, <1>8, <1>9, <1>10 DEF Next

\* Every behaviour of the queue, read through its refinement mapping, is one that the promise
\* allows. (That a promise is kept in the end rests on fairness; the runs check it.)
THEOREM PromiseImplemented == Spec => Promise!Init /\ [][Promise!Next]_(Promise!vars)
  <1>1. Init => Promise!Init
    BY PromiseInit
  <1>2. QueueInv /\ [Next]_vars => [Promise!Next]_(Promise!vars)
    BY PromiseStep
  <1> QED BY <1>1, <1>2, QueueInvariant, PTL DEF Spec

-----------------------------------------------------------------------------
(* Webhooks: the order of the tasks *)

\* A set of naturals that is not empty has a least one.
LEMMA LeastNatural ==
  ASSUME NEW S \in SUBSET Nat, S # {}
  PROVE  Min(S) \in S
  <1>1. \E x \in S : \A y \in S : ~ (<<y, x>> \in OpToRel(<, Nat))
    BY NatLessThanWellFounded, WFMin, Zenon
  <1>2. PICK x \in S : \A y \in S : ~ (<<y, x>> \in OpToRel(<, Nat))
    BY <1>1, Zenon
  <1>3. \A y \in S : x <= y
    <2> SUFFICES ASSUME NEW y \in S, ~(x <= y) PROVE FALSE
      OBVIOUS
    <2>1. y < x /\ y \in Nat /\ x \in Nat
      OBVIOUS
    <2>2. <<y, x>> \in OpToRel(<, Nat)
      BY <2>1 DEF OpToRel
    <2> QED BY <1>2, <2>2, Zenon
  <1> QED BY <1>3 DEF Min

\* The order holds every task.
Ordered == order \in Seq(Tasks) /\ ToSet(order) = Tasks

\* The task that a query finds is one of those it asks for.
LEMMA LatestIsAsked ==
  ASSUME Ordered, NEW ts \in SUBSET Tasks
  PROVE  ts # {} => Latest(ts) \in ts
  <1> SUFFICES ASSUME ts # {} PROVE Latest(ts) \in ts
    OBVIOUS
  <1> DEFINE places == {i \in DOMAIN order : order[i] \in ts}
  <1>1. DOMAIN order = 1..Len(order) /\ Len(order) \in Nat
    BY DEF Ordered
  <1>2. PICK t \in ts : TRUE
    OBVIOUS
  <1>3. PICK i \in DOMAIN order : order[i] = t
    BY <1>2 DEF Ordered, ToSet
  <1>4. places \in SUBSET Nat /\ i \in places
    BY <1>1, <1>2, <1>3
  <1>5. Min(places) \in places
    <2> HIDE DEF places
    <2> QED BY <1>4, LeastNatural
  <1>6. order[Min(places)] \in ts
    BY <1>5
  <1> QED BY <1>6 DEF Latest

\* The task that a lookup by pr_url finds is a live one of that PR.
LEMMA FoundCarries ==
  ASSUME Ordered, NEW repo, NEW projects
  PROVE  LET t == Latest(Carriers(repo, projects))
         IN  t # Nobody => t \in Tasks /\ t \in Carriers(repo, projects)
  <1>1. Carriers(repo, projects) \in SUBSET Tasks
    BY DEF Carriers
  <1>2. CASE Carriers(repo, projects) = {}
    BY <1>2 DEF Latest
  <1>3. CASE Carriers(repo, projects) # {}
    <2>1. Latest(Carriers(repo, projects)) \in Carriers(repo, projects)
      BY <1>1, <1>3, LatestIsAsked
    <2> QED BY <1>1, <2>1
  <1> QED BY <1>2, <1>3

\* An update moves its task to the front and loses none.
LEMMA TouchedOrder ==
  ASSUME Ordered, NEW t \in Tasks
  PROVE  Touched(t) \in Seq(Tasks) /\ ToSet(Touched(t)) = Tasks
  <1> DEFINE n == Len(order)
             f == Touched(t)
  <1>1. n \in Nat /\ DOMAIN order = 1..n /\ \A i \in 1..n : order[i] \in Tasks
    BY DEF Ordered
  <1>2. Place(t) \in 1..n /\ order[Place(t)] = t
    <2>1. \E i \in DOMAIN order : order[i] = t
      BY DEF Ordered, ToSet
    <2> QED BY <1>1, <2>1 DEF Place
  <1>3. PICK m : m = Place(t)
    OBVIOUS
  <1>4. /\ DOMAIN f = 1..n
        /\ \A i \in 1..n : f[i] = IF i = 1 THEN t ELSE IF i <= m THEN order[i - 1] ELSE order[i]
    BY <1>1, <1>3 DEF Touched
  <1>5. \A i \in 1..n : f[i] \in Tasks
    BY <1>1, <1>2, <1>3, <1>4
  <1>6. f = [i \in 1..n |-> f[i]]
    BY <1>1 DEF Touched
  <1>7. f \in Seq(Tasks)
    <2> HIDE DEF f
    <2> QED BY <1>1, <1>5, <1>6
  <1>8. \A u \in Tasks : \E i \in 1..n : f[i] = u
    <2> SUFFICES ASSUME NEW u \in Tasks PROVE \E i \in 1..n : f[i] = u
      OBVIOUS
    <2>1. PICK j \in 1..n : order[j] = u
      BY <1>1 DEF Ordered, ToSet
    <2> HIDE DEF f
    <2>2. CASE j < m
      <3>1. j + 1 \in 1..n /\ j + 1 # 1 /\ j + 1 <= m /\ (j + 1) - 1 = j
        BY <1>1, <1>2, <1>3, <2>2
      <3> QED BY <1>4, <2>1, <3>1
    <2>3. CASE j = m
      <3>1. 1 \in 1..n /\ f[1] = t
        BY <1>1, <1>4
      <3> QED BY <1>2, <1>3, <2>1, <2>3, <3>1
    <2>4. CASE j > m
      BY <1>1, <1>2, <1>3, <1>4, <2>1, <2>4
    <2> QED BY <1>1, <1>2, <1>3, <2>2, <2>3, <2>4
  <1>9. ToSet(f) = Tasks
    <2> HIDE DEF f
    <2> QED BY <1>4, <1>5, <1>8 DEF ToSet
  <1> QED BY <1>7, <1>9

\* SetToSeq puts every task into the order.
LEMMA OrderInit == SetToSeq(Tasks) \in Seq(Tasks) /\ ToSet(SetToSeq(Tasks)) = Tasks
  <1> DEFINE n == Cardinality(Tasks)
             f == SetToSeq(Tasks)
  <1>1. IsFiniteSet(Tasks) /\ n \in Nat
    BY WebhookAssumption, FS_CardinalityType
  <1>2. \E g : g \in Bijection(1..n, Tasks)
    BY <1>1, FS_CardinalityType DEF ExistsBijection
  <1>3. \E g \in [1..n -> Tasks] : IsInjective(g)
    BY <1>2 DEF Bijection, Injection
  <1>4. f \in [1..n -> Tasks] /\ IsInjective(f)
    BY <1>3 DEF SetToSeq
  <1> HIDE DEF f
  <1>5. f \in Injection(1..n, Tasks)
    BY <1>4 DEF Injection
  <1>6. IsFiniteSet(1..n) /\ Cardinality(1..n) = n
    BY <1>1, FS_Interval
  <1>7. f \in Surjection(1..n, Tasks)
    BY <1>1, <1>5, <1>6, FS_Injection
  <1>8. \A u \in Tasks : \E i \in 1..n : f[i] = u
    BY <1>7 DEF Surjection
  <1>9. f \in Seq(Tasks)
    BY <1>1, <1>4
  <1>10. ToSet(f) = Tasks
    BY <1>4, <1>8 DEF ToSet
  <1> QED BY <1>9, <1>10 DEF f

-----------------------------------------------------------------------------
(* Webhooks: the inductive invariant, in the parts that the properties need *)

\* What a handler has at a step. Handlers start in order, and write last.
Handling ==
    \A h \in Handlers :
        /\ step[h] = "none" => worker[h] = Nobody /\ job[h] = 0 /\ to[h] = Nobody
        /\ step[h] # "none" => /\ job[h] \in Deliveries /\ sent[job[h]] # Nobody
                               /\ \A g \in Handlers : g < h => step[g] # "none"
        /\ step[h] # "done" => wrote[h] = Nobody
        /\ worker[h] = Nobody => step[h] \in {"none", "timed_out", "done"}
        /\ step[h] = "timed_out" => worker[h] = Nobody
        /\ step[h] \in {"sha", "set"} => TypeOf(h) \in HeadTypes
        /\ step[h] \in {"mark", "set"} => found[h] \in Tasks

\* An event that an agent must react to, and a repository whose projects have a main inbox now.
\* Worktree rows only go, so an inbox that is there now was there when the event was resolved.
Reacts(h) ==
    /\ worker[h] # Nobody /\ TypeOf(h) \in MAIN_AGENT_EVENTS /\ Message(Action(h))
    /\ Tracks[Pr(h)] # {}
Reached(repo) == \A j \in Tracks[repo] : envSet \/ \E w \in rows \cap Mains : ProjectOf[w] = j

\* Once such an event is resolved it has a recipient, until the session ends.
Undropped ==
    \A h \in Handlers :
        Reacts(h) /\ Reached(Pr(h)) /\ step[h] \in {"merge", "mark", "write"} => to[h] # Nobody

\* The process of a handler remembers its delivery, or has evicted it.
Remembering ==
    \A h \in Handlers :
        worker[h] # Nobody => job[h] \in seen[worker[h]] \cup forgotten[worker[h]]

\* The handlers of head events
Heads(h) == worker[h] # Nobody /\ TypeOf(h) \in HeadTypes

\* Every head SHA was reported to a handler.
Reported == \A t \in Tasks : head[t] # 0 => \E g \in Handlers : Heads(g) /\ job[g] = head[t]

\* A head handler under way that a newer one of its PR has joined or preceded is disordered.
LateKnown ==
    \A g, h \in Handlers :
        Heads(g) /\ Heads(h) /\ Busy(h) /\ Pr(g) = Pr(h) /\ job[h] < job[g] => job[h] \in late

HookInv == HookTypeOK /\ Handling /\ Undropped /\ Remembering /\ Reported /\ LateKnown

\* A step of handler h in its own task: it touches no other handler, addresses whom it may,
\* writes at its end, and a SHA it writes is the one its delivery reported.
Addressed(h) ==
    /\ Tracks[Pr(h)] = {} => wrote[h]' \in {wrote[h], to[h]}
    /\ Tracks[Pr(h)] = {} /\ to[h]' \notin {to[h], Nobody} =>
         \E t \in Carriers(Pr(h), Projects) : to[h]' = OwnerOf[t]
    /\ Reacts(h) /\ Reached(Pr(h)) =>
         /\ step[h]' \in {"merge", "mark", "write"} => to[h]' # Nobody
         /\ step[h]' = "done" => wrote[h]' # Nobody
         /\ step[h]' = "failed" => DeletedUnderIt(h) \/ TwoOfBranch(h)
OnlyOf(h) ==
    /\ \A g \in Handlers \ {h} :
        step[g]' = step[g] /\ to[g]' = to[g] /\ found[g]' = found[g] /\ wrote[g]' = wrote[g]
    /\ \A t \in Tasks : head[t]' = head[t] \/ (head[t]' = job[h] /\ step[h] = "set")
GoesOn(h) ==
    /\ Busy(h) /\ step[h]' \notin {"none", "timed_out"}
    /\ step[h]' # "done" => wrote[h]' = wrote[h]
    /\ worker[h] = Nobody => step[h]' = "done"
    /\ step[h]' \in {"sha", "set"} => TypeOf(h) \in HeadTypes
    /\ step[h]' \in {"mark", "set"} => found[h]' \in Tasks
    /\ UNCHANGED <<worktree, dispatcher>>
    /\ Addressed(h) /\ OnlyOf(h)

LEMMA SameWebhook ==
  ASSUME UNCHANGED <<worktree, dispatcher>>, NEW g \in Handlers
  PROVE  /\ Pr(g)' = Pr(g) /\ TypeOf(g)' = TypeOf(g) /\ Heads(g)' = Heads(g)
         /\ Reacts(g)' = Reacts(g) /\ Reached(Pr(g))' = Reached(Pr(g))
  <1>1. rows' = rows /\ envSet' = envSet /\ sent' = sent /\ job' = job /\ worker' = worker
    BY DEF worktree, dispatcher
  <1>2. Pr(g)' = Pr(g) /\ Action(g)' = Action(g) /\ TypeOf(g)' = TypeOf(g)
    BY <1>1 DEF Pr, Action, TypeOf
  <1>3. Heads(g)' = Heads(g)
    BY <1>1, <1>2 DEF Heads
  <1>4. Reacts(g)' = Reacts(g)
    BY <1>1, <1>2 DEF Reacts
  <1>5. Reached(Pr(g))' = Reached(Pr(g))
    BY <1>1, <1>2 DEF Reached
  <1> QED BY <1>2, <1>3, <1>4, <1>5

\* Such a step keeps the invariant.
LEMMA GoesOnKeeps ==
  ASSUME HookInv, NEW h \in Handlers, GoesOn(h), HookTypeOK'
  PROVE  HookInv'
  <1>1. UNCHANGED <<worktree, dispatcher>>
    BY DEF GoesOn
  <1>2. /\ rows' = rows /\ sent' = sent /\ job' = job /\ worker' = worker
        /\ seen' = seen /\ forgotten' = forgotten /\ late' = late
    BY <1>1 DEF worktree, dispatcher
  <1>3. \A g \in Handlers :
          /\ Pr(g)' = Pr(g) /\ TypeOf(g)' = TypeOf(g) /\ Heads(g)' = Heads(g)
          /\ Reacts(g)' = Reacts(g) /\ Reached(Pr(g))' = Reached(Pr(g))
    BY <1>1, SameWebhook
  <1>4. \A g \in Handlers \ {h} :
          step[g]' = step[g] /\ to[g]' = to[g] /\ found[g]' = found[g] /\ wrote[g]' = wrote[g]
    BY DEF GoesOn, OnlyOf
  <1>5. step[h] \notin {"none", "done", "failed"}
    BY DEF GoesOn, Busy
  <1>6. Handling'
    <2>1. /\ step[h]' \notin {"none", "timed_out"}
          /\ step[h]' # "done" => wrote[h]' = wrote[h]
          /\ worker[h] = Nobody => step[h]' = "done"
          /\ step[h]' \in {"sha", "set"} => TypeOf(h) \in HeadTypes
          /\ step[h]' \in {"mark", "set"} => found[h]' \in Tasks
      BY DEF GoesOn
    <2>2. \A g \in Handlers : step[g]' = "none" <=> step[g] = "none"
      BY <1>4, <1>5, <2>1
    <2> SUFFICES ASSUME NEW e \in Handlers
                 PROVE  /\ step[e]' = "none" => worker[e]' = Nobody /\ job[e]' = 0 /\ to[e]' = Nobody
                        /\ step[e]' # "none" => /\ job[e]' \in Deliveries /\ sent'[job[e]'] # Nobody
                                                /\ \A g \in Handlers : g < e => step[g]' # "none"
                        /\ step[e]' # "done" => wrote[e]' = Nobody
                        /\ worker[e]' = Nobody => step[e]' \in {"none", "timed_out", "done"}
                        /\ step[e]' = "timed_out" => worker[e]' = Nobody
                        /\ step[e]' \in {"sha", "set"} => TypeOf(e)' \in HeadTypes
                        /\ step[e]' \in {"mark", "set"} => found[e]' \in Tasks
      BY DEF Handling, HeadTypes
    <2>3. /\ step[e] = "none" => worker[e] = Nobody /\ job[e] = 0 /\ to[e] = Nobody
          /\ step[e] # "none" => /\ job[e] \in Deliveries /\ sent[job[e]] # Nobody
                                 /\ \A g \in Handlers : g < e => step[g] # "none"
          /\ step[e] # "done" => wrote[e] = Nobody
          /\ worker[e] = Nobody => step[e] \in {"none", "timed_out", "done"}
          /\ step[e] = "timed_out" => worker[e] = Nobody
          /\ step[e] \in {"sha", "set"} => TypeOf(e) \in HeadTypes
          /\ step[e] \in {"mark", "set"} => found[e] \in Tasks
      BY DEF HookInv, Handling
    <2>4. CASE e = h
      BY <1>2, <1>3, <1>5, <2>1, <2>2, <2>3, <2>4
    <2>5. CASE e # h
      BY <1>2, <1>3, <1>4, <2>2, <2>3, <2>5
    <2> QED BY <2>4, <2>5
  <1>7. Undropped'
    <2>1. \A g \in Handlers :
            Reacts(g) /\ Reached(Pr(g)) /\ step[g] \in {"merge", "mark", "write"} => to[g] # Nobody
      BY DEF HookInv, Undropped
    <2>2. Reacts(h) /\ Reached(Pr(h)) /\ step[h]' \in {"merge", "mark", "write"} => to[h]' # Nobody
      BY DEF GoesOn, Addressed
    <2>3. \A g \in Handlers :
            Reacts(g) /\ Reached(Pr(g)) /\ step[g]' \in {"merge", "mark", "write"} => to[g]' # Nobody
      BY <1>4, <2>1, <2>2
    <2> QED BY <1>3, <2>3 DEF Undropped
  <1>8. Remembering'
    BY <1>2 DEF HookInv, Remembering
  <1>9. Reported'
    <2>1. \A t \in Tasks : head[t]' = head[t] \/ (head[t]' = job[h] /\ step[h] = "set")
      BY DEF GoesOn, OnlyOf
    <2>2. step[h] = "set" => Heads(h)
      BY DEF HookInv, Handling, Heads
    <2>3. ASSUME NEW t \in Tasks, head[t]' # 0 PROVE \E g \in Handlers : Heads(g) /\ job[g] = head[t]'
      BY <2>1, <2>2, <2>3 DEF HookInv, Reported
    <2> QED BY <1>2, <1>3, <2>3 DEF Reported
  <1>10. LateKnown'
    <2>1. \A e \in Handlers : Busy(e)' => Busy(e)
      BY <1>4, <1>5 DEF Busy
    <2>2. \A g, e \in Handlers :
            Heads(g) /\ Heads(e) /\ Busy(e) /\ Pr(g) = Pr(e) /\ job[e] < job[g] => job[e] \in late
      BY DEF HookInv, LateKnown
    <2>3. \A g, e \in Handlers :
            Heads(g)' /\ Heads(e)' /\ Busy(e)' /\ Pr(g)' = Pr(e)' /\ job[e]' < job[g]' => job[e]' \in late'
      BY <1>2, <1>3, <2>1, <2>2
    <2> QED BY <2>3 DEF LateKnown
  <1> QED BY <1>6, <1>7, <1>8, <1>9, <1>10 DEF HookInv

-----------------------------------------------------------------------------
(* Webhooks: each step of a handler is such a step *)

\* Every handler under way but the notices of a review that timed out belongs to a process.
LEMMA HasWorker ==
  ASSUME HookInv, NEW h \in Handlers, Busy(h), step[h] # "timed_out"
  PROVE  worker[h] # Nobody
  BY DEF HookInv, Handling, Busy

\* A head event leaves no line, so nobody has to react to it.
LEMMA HeadsLeaveNoLine ==
  ASSUME NEW h \in Handlers, TypeOf(h) \in HeadTypes
  PROVE  ~Reacts(h)
  BY DEF Reacts, Message, TypeOf

LEMMA ResolvedStep ==
  ASSUME NEW h \in Handlers
  PROVE  /\ Resolved(h) \in {"merge", "sha", "write", "done"}
         /\ Resolved(h) \in {"sha", "done"} => TypeOf(h) \in HeadTypes
  BY DEF Resolved

LEMMA ReadTypes ==
  ASSUME HookTypeOK, NEW h \in Handlers, NEW t \in Tasks
  PROVE  Read(h, t) \in [Handlers -> [Tasks -> Unread..MaxDeliveries]]
  <1>1. known \in [Handlers -> [Tasks -> Unread..MaxDeliveries]] /\ head \in [Tasks -> 0..MaxDeliveries]
    BY DEF HookTypeOK
  <1>2. head[t] \in Unread..MaxDeliveries
    BY <1>1, WebhookAssumption DEF Unread
  <1>3. [known[h] EXCEPT ![t] = IF @ = Unread THEN head[t] ELSE @] \in [Tasks -> Unread..MaxDeliveries]
    BY <1>1, <1>2
  <1>4. Read(h, t) = [known EXCEPT ![h] = [known[h] EXCEPT ![t] = IF @ = Unread THEN head[t] ELSE @]]
    BY <1>1 DEF Read
  <1> QED BY <1>1, <1>3, <1>4

LEMMA SessionEnds ==
  ASSUME HookTypeOK, NEW h \in Handlers, EndSession(h)
  PROVE  /\ to' \in [Handlers -> Worktrees \cup {EnvInbox, Nobody}]
         /\ found' \in [Handlers -> Tasks \cup {Nobody}]
         /\ known' \in [Handlers -> [Tasks -> Unread..MaxDeliveries]]
         /\ todo' \in [Handlers -> SUBSET Projects]
         /\ to[h]' = Nobody
         /\ \A g \in Handlers \ {h} : to[g]' = to[g] /\ found[g]' = found[g]
  <1>1. NothingRead \in [Tasks -> Unread..MaxDeliveries]
    BY WebhookAssumption DEF NothingRead, Unread
  <1> QED BY <1>1 DEF HookTypeOK, EndSession

LEMMA GoTypes ==
  ASSUME HookTypeOK, NEW h \in Handlers, NEW s \in Steps, Go(h, s)
  PROVE  /\ step' \in [Handlers -> Steps] /\ step[h]' = s
         /\ \A g \in Handlers \ {h} : step[g]' = step[g]
  BY DEF HookTypeOK, Go

LEMMA TracksTypes ==
  ASSUME HookInv, NEW h \in Handlers, Busy(h)
  PROVE  /\ job[h] \in Deliveries
         /\ Pr(h) \in PullRequests /\ Tracks[Pr(h)] \in SUBSET Projects
  <1>1. job[h] \in Deliveries /\ sent[job[h]] # Nobody
    BY DEF HookInv, Handling, Busy
  <1>2. sent[job[h]] \in WebhookEvents
    BY <1>1 DEF HookInv, HookTypeOK
  <1>3. Pr(h) \in PullRequests
    BY <1>2 DEF Pr, WebhookEvents
  <1> QED BY <1>1, <1>3, WebhookAssumption

LEMMA ResolveOwnerStep ==
  ASSUME HookInv, NEW h \in Handlers, ResolveOwner(h)
  PROVE  HookTypeOK' /\ GoesOn(h)
  <1>1. step[h] = "owner" /\ Busy(h) /\ HookTypeOK
    BY DEF ResolveOwner, Busy, HookInv
  <1>2. worker[h] # Nobody
    BY <1>1, HasWorker
  <1> DEFINE t == FindTask(Pr(h))
             w == IF t = Nobody THEN Nobody ELSE OwnerOf[t]
  <1>3. t # Nobody => t \in Carriers(Pr(h), Projects) /\ t \in Tasks
    BY <1>1, FoundCarries DEF FindTask, Ordered, HookTypeOK
  <1>4. /\ w \in Worktrees \cup {Nobody}
        /\ w # Nobody => \E x \in Carriers(Pr(h), Projects) : w = OwnerOf[x]
    BY <1>3, WebhookAssumption
  <1>5. /\ known' = IF t = Nobody \/ TypeOf(h) \notin HeadTypes THEN known ELSE Read(h, t)
        /\ IF w \in rows
           THEN to' = [to EXCEPT ![h] = w] /\ Go(h, Resolved(h))
           ELSE UNCHANGED to /\ Go(h, "fallback")
        /\ todo' = [todo EXCEPT ![h] = IF TypeOf(h) \in HeadTypes THEN Tracks[Pr(h)] ELSE {}]
        /\ UNCHANGED <<task, worktree, dispatcher, found, wrote>>
    BY DEF ResolveOwner
  <1>6. PICK v : v = w
    OBVIOUS
  <1>7. known' \in [Handlers -> [Tasks -> Unread..MaxDeliveries]]
    BY <1>1, <1>3, <1>5, ReadTypes DEF HookTypeOK
  <1> HIDE DEF t, w
  <1>8. PICK s \in Steps : /\ Go(h, s) /\ s \in {"merge", "sha", "write", "done", "fallback"}
                           /\ s \in {"sha", "done"} => TypeOf(h) \in HeadTypes
                           /\ s # "fallback" => v \in rows /\ to' = [to EXCEPT ![h] = v]
                           /\ s = "fallback" => to' = to
    BY <1>5, <1>6, ResolvedStep DEF Steps
  <1>9. /\ step' \in [Handlers -> Steps] /\ step[h]' = s
        /\ \A g \in Handlers \ {h} : step[g]' = step[g]
    BY <1>1, <1>8, GoTypes
  <1>10. /\ to' \in [Handlers -> Worktrees \cup {EnvInbox, Nobody}]
         /\ to[h]' = IF s = "fallback" THEN to[h] ELSE v
         /\ \A g \in Handlers \ {h} : to[g]' = to[g]
    BY <1>1, <1>4, <1>6, <1>8 DEF HookTypeOK
  <1>11. todo' \in [Handlers -> SUBSET Projects]
    BY <1>1, <1>5, TracksTypes DEF HookTypeOK
  <1>12. HookTypeOK'
    BY <1>1, <1>5, <1>7, <1>9, <1>10, <1>11 DEF HookTypeOK, task, worktree, dispatcher
  <1>13. Addressed(h)
    <2>1. wrote[h]' = wrote[h]
      BY <1>5
    <2>2. to[h]' \notin {to[h], Nobody} => \E x \in Carriers(Pr(h), Projects) : to[h]' = OwnerOf[x]
      BY <1>4, <1>6, <1>10
    <2>3. ASSUME Reacts(h), step[h]' \in {"merge", "mark", "write", "done"}
          PROVE  step[h]' # "done" /\ to[h]' # Nobody
      <3>1. s # "done"
        BY <1>8, <2>3, HeadsLeaveNoLine
      <3>2. v \in rows /\ to[h]' = v
        BY <1>8, <1>9, <1>10, <2>3
      <3>3. v # Nobody
        BY <1>1, <3>2, WebhookAssumption DEF HookTypeOK
      <3> QED BY <1>9, <3>1, <3>2, <3>3
    <2>4. step[h]' # "failed"
      BY <1>8, <1>9
    <2> QED BY <2>1, <2>2, <2>3, <2>4 DEF Addressed
  <1>14. OnlyOf(h)
    <2>1. found' = found /\ wrote' = wrote /\ head' = head
      BY <1>5 DEF task
    <2>2. \A g \in Handlers \ {h} :
            step[g]' = step[g] /\ to[g]' = to[g] /\ found[g]' = found[g] /\ wrote[g]' = wrote[g]
      BY <1>9, <1>10, <2>1
    <2>3. \A x \in Tasks : head[x]' = head[x] \/ (head[x]' = job[h] /\ step[h] = "set")
      BY <2>1
    <2> QED BY <2>2, <2>3 DEF OnlyOf
  <1>15. GoesOn(h)
    BY <1>1, <1>2, <1>5, <1>8, <1>9, <1>13, <1>14 DEF GoesOn
  <1> QED BY <1>12, <1>15

LEMMA ResolveUntrackedStep ==
  ASSUME HookInv, NEW h \in Handlers, ResolveUntracked(h)
  PROVE  HookTypeOK' /\ GoesOn(h)
  <1>1. /\ step[h] = "fallback" /\ Busy(h) /\ HookTypeOK
        /\ Tracks[Pr(h)] = {} /\ Go(h, Resolved(h))
        /\ UNCHANGED <<task, worktree, dispatcher, local, wrote>>
    BY DEF ResolveUntracked, Busy, HookInv
  <1>2. worker[h] # Nobody
    BY <1>1, HasWorker
  <1>3. PICK s \in Steps : /\ Go(h, s) /\ s \in {"merge", "sha", "write", "done"}
                           /\ s \in {"sha", "done"} => TypeOf(h) \in HeadTypes
    BY <1>1, ResolvedStep DEF Steps
  <1>4. /\ step' \in [Handlers -> Steps] /\ step[h]' = s
        /\ \A g \in Handlers \ {h} : step[g]' = step[g]
    BY <1>1, <1>3, GoTypes
  <1>5. to' = to /\ found' = found /\ wrote' = wrote /\ head' = head
    BY <1>1 DEF local, task
  <1>6. HookTypeOK'
    BY <1>1, <1>4 DEF HookTypeOK, task, worktree, dispatcher, local
  <1>7. Addressed(h)
    BY <1>1, <1>5 DEF Addressed, Reacts
  <1>8. OnlyOf(h)
    BY <1>4, <1>5 DEF OnlyOf
  <1>9. GoesOn(h)
    BY <1>1, <1>2, <1>3, <1>4, <1>7, <1>8 DEF GoesOn
  <1> QED BY <1>6, <1>9

\* An inbox of the main agent is one where the configuration or the worktrees give one.
LEMMA MainInboxTypes ==
  ASSUME HookTypeOK, NEW project \in Projects
  PROVE  /\ MainInbox(project) \in SUBSET (Worktrees \cup {EnvInbox, Nobody})
         /\ envSet \/ (\E w \in rows \cap Mains : ProjectOf[w] = project) => Nobody \notin MainInbox(project)
  BY WebhookAssumption DEF MainInbox, HookTypeOK

LEMMA ResolveFallbackStep ==
  ASSUME HookInv, NEW h \in Handlers, ResolveFallback(h)
  PROVE  HookTypeOK' /\ GoesOn(h)
  <1>1. /\ step[h] = "fallback" /\ Busy(h) /\ HookTypeOK
        /\ UNCHANGED <<task, worktree, dispatcher, wrote>>
    BY DEF ResolveFallback, Busy, HookInv
  <1>2. worker[h] # Nobody
    BY <1>1, HasWorker
  <1>3. Tracks[Pr(h)] \in SUBSET Projects
    BY <1>1, TracksTypes
  <1>4. PICK project \in Tracks[Pr(h)] :
          LET ws == IF TypeOf(h) = "ISSUE_COMMENT" THEN {} ELSE ByBranch(Pr(h), project)
          IN  IF Cardinality(ws) > 1 THEN Go(h, "failed") /\ EndSession(h)
              ELSE /\ Go(h, Resolved(h))
                   /\ \E w \in IF ws # {} THEN ws ELSE Fallback(h, project) : to' = [to EXCEPT ![h] = w]
                   /\ UNCHANGED <<found, known, todo>>
    BY DEF ResolveFallback
  <1>5. PICK ws : ws = IF TypeOf(h) = "ISSUE_COMMENT" THEN {} ELSE ByBranch(Pr(h), project)
    OBVIOUS
  <1>6. ws \in SUBSET rows /\ rows \in SUBSET Worktrees
    BY <1>1, <1>5 DEF ByBranch, HookTypeOK
  <1>7. wrote' = wrote /\ head' = head
    BY <1>1 DEF task
  <1>8. CASE Cardinality(ws) > 1
    <2>1. Go(h, "failed") /\ EndSession(h)
      BY <1>4, <1>5, <1>8
    <2>2. /\ step' \in [Handlers -> Steps] /\ step[h]' = "failed"
          /\ \A g \in Handlers \ {h} : step[g]' = step[g]
      BY <1>1, <2>1, GoTypes DEF Steps
    <2>3. /\ to' \in [Handlers -> Worktrees \cup {EnvInbox, Nobody}]
          /\ found' \in [Handlers -> Tasks \cup {Nobody}]
          /\ known' \in [Handlers -> [Tasks -> Unread..MaxDeliveries]]
          /\ todo' \in [Handlers -> SUBSET Projects]
          /\ to[h]' = Nobody
          /\ \A g \in Handlers \ {h} : to[g]' = to[g] /\ found[g]' = found[g]
      BY <1>1, <2>1, SessionEnds
    <2>4. HookTypeOK'
      BY <1>1, <2>2, <2>3 DEF HookTypeOK, task, worktree, dispatcher
    <2>5. Addressed(h)
      <3>1. ws = ByBranch(Pr(h), project)
        BY <1>5, <1>8, FS_EmptySet
      <3>2. TwoOfBranch(h)
        BY <1>1, <1>8, <3>1 DEF TwoOfBranch
      <3> QED BY <1>4, <1>7, <2>2, <2>3, <3>2 DEF Addressed
    <2>6. OnlyOf(h)
      BY <1>7, <2>2, <2>3 DEF OnlyOf
    <2>7. GoesOn(h)
      BY <1>1, <1>2, <2>2, <2>5, <2>6 DEF GoesOn
    <2> QED BY <2>4, <2>7
  <1>9. CASE ~(Cardinality(ws) > 1)
    <2>1. /\ Go(h, Resolved(h)) /\ UNCHANGED <<found, known, todo>>
          /\ \E w \in IF ws # {} THEN ws ELSE Fallback(h, project) : to' = [to EXCEPT ![h] = w]
      BY <1>4, <1>5, <1>9
    <2>2. PICK w \in IF ws # {} THEN ws ELSE Fallback(h, project) : to' = [to EXCEPT ![h] = w]
      BY <2>1
    <2>3. PICK s \in Steps : /\ Go(h, s) /\ s \in {"merge", "sha", "write", "done"}
                             /\ s \in {"sha", "done"} => TypeOf(h) \in HeadTypes
      BY <2>1, ResolvedStep DEF Steps
    <2>4. /\ step' \in [Handlers -> Steps] /\ step[h]' = s
          /\ \A g \in Handlers \ {h} : step[g]' = step[g]
      BY <1>1, <2>3, GoTypes
    <2>5. /\ Fallback(h, project) \in SUBSET (Worktrees \cup {EnvInbox, Nobody})
          /\ Reacts(h) /\ Reached(Pr(h)) => Nobody \notin Fallback(h, project)
      <3>1. /\ MainInbox(project) \in SUBSET (Worktrees \cup {EnvInbox, Nobody})
            /\ envSet \/ (\E x \in rows \cap Mains : ProjectOf[x] = project) => Nobody \notin MainInbox(project)
        BY <1>1, <1>3, MainInboxTypes
      <3>2. Reached(Pr(h)) => Nobody \notin MainInbox(project)
        BY <3>1 DEF Reached
      <3>3. Reacts(h) => TypeOf(h) \in MAIN_AGENT_EVENTS
        BY DEF Reacts
      <3> QED BY <3>1, <3>2, <3>3 DEF Fallback
    <2>6. /\ w \in Worktrees \cup {EnvInbox, Nobody}
          /\ Reacts(h) /\ Reached(Pr(h)) => w # Nobody
      BY <1>6, <2>2, <2>5, WebhookAssumption
    <2>7. /\ to' \in [Handlers -> Worktrees \cup {EnvInbox, Nobody}] /\ to[h]' = w
          /\ \A g \in Handlers \ {h} : to[g]' = to[g]
      BY <1>1, <2>2, <2>6 DEF HookTypeOK
    <2>8. HookTypeOK'
      BY <1>1, <2>1, <2>4, <2>7 DEF HookTypeOK, task, worktree, dispatcher
    <2>9. Addressed(h)
      <3>1. Reacts(h) => s # "done"
        BY <2>3, HeadsLeaveNoLine
      <3> QED BY <1>4, <1>7, <2>3, <2>4, <2>6, <2>7, <3>1 DEF Addressed
    <2>10. OnlyOf(h)
      BY <1>7, <2>1, <2>4, <2>7 DEF OnlyOf
    <2>11. GoesOn(h)
      BY <1>1, <1>2, <2>3, <2>4, <2>9, <2>10 DEF GoesOn
    <2> QED BY <2>8, <2>11
  <1> QED BY <1>8, <1>9

LEMMA FindMergedStep ==
  ASSUME HookInv, NEW h \in Handlers, FindMerged(h)
  PROVE  HookTypeOK' /\ GoesOn(h)
  <1> DEFINE t == FindTask(Pr(h))
  <1>1. /\ step[h] = "merge" /\ Busy(h) /\ HookTypeOK
        /\ found' = [found EXCEPT ![h] = t]
        /\ Go(h, IF t = Nobody THEN "write" ELSE "mark")
        /\ UNCHANGED <<task, worktree, dispatcher, to, known, todo, wrote>>
    BY DEF FindMerged, Busy, HookInv
  <1>2. worker[h] # Nobody
    BY <1>1, HasWorker
  <1>3. t # Nobody => t \in Tasks
    BY <1>1, FoundCarries DEF FindTask, Ordered, HookTypeOK
  <1> HIDE DEF t
  <1>4. PICK s \in {"write", "mark"} : Go(h, s) /\ (s = "mark" => t # Nobody)
    BY <1>1
  <1>5. /\ step' \in [Handlers -> Steps] /\ step[h]' = s
        /\ \A g \in Handlers \ {h} : step[g]' = step[g]
    BY <1>1, <1>4, GoTypes DEF Steps
  <1>6. /\ found' \in [Handlers -> Tasks \cup {Nobody}] /\ found[h]' = t
        /\ \A g \in Handlers \ {h} : found[g]' = found[g]
    BY <1>1, <1>3 DEF HookTypeOK
  <1>7. to' = to /\ wrote' = wrote /\ head' = head
    BY <1>1 DEF task
  <1>8. HookTypeOK'
    BY <1>1, <1>5, <1>6 DEF HookTypeOK, task, worktree, dispatcher
  <1>9. Addressed(h)
    <2>1. Reacts(h) /\ Reached(Pr(h)) => to[h] # Nobody
      BY <1>1 DEF HookInv, Undropped
    <2> QED BY <1>4, <1>5, <1>7, <2>1 DEF Addressed
  <1>10. OnlyOf(h)
    BY <1>5, <1>6, <1>7 DEF OnlyOf
  <1>11. GoesOn(h)
    BY <1>1, <1>2, <1>3, <1>4, <1>5, <1>6, <1>9, <1>10 DEF GoesOn
  <1> QED BY <1>8, <1>11

LEMMA MarkMergedStep ==
  ASSUME HookInv, NEW h \in Handlers, MarkMerged(h)
  PROVE  HookTypeOK' /\ GoesOn(h)
  <1>1. /\ step[h] = "mark" /\ Busy(h) /\ HookTypeOK
        /\ UNCHANGED <<url, status, head, worktree, dispatcher, wrote>>
    BY DEF MarkMerged, Busy, HookInv
  <1>2. worker[h] # Nobody
    BY <1>1, HasWorker
  <1>3. PICK t \in Tasks : t = found[h]
    BY <1>1 DEF HookInv, Handling
  <1>4. PICK s \in {"failed", "write"} :
          /\ Go(h, s)
          /\ s = "failed" => /\ EndSession(h) /\ merged' = merged /\ order' = order
                             /\ DeletedUnderIt(h)
          /\ s = "write" => /\ UNCHANGED local
                            /\ \/ merged' = merged /\ order' = order
                               \/ merged' = [merged EXCEPT ![t] = TRUE] /\ order' = Touched(t)
    BY <1>1, <1>3 DEF MarkMerged, DeletedUnderIt
  <1>5. /\ step' \in [Handlers -> Steps] /\ step[h]' = s
        /\ \A g \in Handlers \ {h} : step[g]' = step[g]
    BY <1>1, <1>4, GoTypes DEF Steps
  <1>6. /\ to' \in [Handlers -> Worktrees \cup {EnvInbox, Nobody}]
        /\ found' \in [Handlers -> Tasks \cup {Nobody}]
        /\ known' \in [Handlers -> [Tasks -> Unread..MaxDeliveries]]
        /\ todo' \in [Handlers -> SUBSET Projects]
        /\ to[h]' = IF s = "failed" THEN Nobody ELSE to[h]
        /\ \A g \in Handlers \ {h} : to[g]' = to[g] /\ found[g]' = found[g]
    <2>1. CASE s = "failed"
      BY <1>1, <1>4, <2>1, SessionEnds
    <2>2. CASE s = "write"
      BY <1>1, <1>4, <2>2 DEF local, HookTypeOK
    <2> QED BY <2>1, <2>2
  <1>7. merged' \in [Tasks -> BOOLEAN] /\ order' \in Seq(Tasks) /\ ToSet(order') = Tasks
    <2>1. Touched(t) \in Seq(Tasks) /\ ToSet(Touched(t)) = Tasks
      BY <1>1, TouchedOrder DEF Ordered, HookTypeOK
    <2>2. merged \in [Tasks -> BOOLEAN] /\ order \in Seq(Tasks) /\ ToSet(order) = Tasks
      BY <1>1 DEF HookTypeOK
    <2> QED BY <1>4, <2>1, <2>2
  <1>8. HookTypeOK'
    BY <1>1, <1>5, <1>6, <1>7 DEF HookTypeOK, worktree, dispatcher
  <1>9. wrote' = wrote /\ head' = head
    BY <1>1
  <1>10. Addressed(h)
    <2>1. Reacts(h) /\ Reached(Pr(h)) => to[h] # Nobody
      BY <1>1 DEF HookInv, Undropped
    <2> QED BY <1>4, <1>5, <1>6, <1>9, <2>1 DEF Addressed
  <1>11. OnlyOf(h)
    BY <1>5, <1>6, <1>9 DEF OnlyOf
  <1>12. GoesOn(h)
    BY <1>1, <1>2, <1>4, <1>5, <1>10, <1>11 DEF GoesOn
  <1> QED BY <1>8, <1>12

\* What is left of a handler that goes on to the next project
LEMMA NextProjectStep ==
  ASSUME HookTypeOK, NEW h \in Handlers, NEW left \in SUBSET Projects, NextProject(h, left)
  PROVE  /\ step' \in [Handlers -> Steps] /\ step[h]' \in {"sha", "done"}
         /\ to' \in [Handlers -> Worktrees \cup {EnvInbox, Nobody}]
         /\ found' \in [Handlers -> Tasks \cup {Nobody}]
         /\ known' \in [Handlers -> [Tasks -> Unread..MaxDeliveries]]
         /\ todo' \in [Handlers -> SUBSET Projects]
         /\ to[h]' \in {to[h], Nobody}
         /\ \A g \in Handlers \ {h} : step[g]' = step[g] /\ to[g]' = to[g] /\ found[g]' = found[g]
  <1>1. CASE left = {}
    <2>1. Go(h, "done") /\ EndSession(h)
      BY <1>1 DEF NextProject
    <2>2. /\ step' \in [Handlers -> Steps] /\ step[h]' = "done"
          /\ \A g \in Handlers \ {h} : step[g]' = step[g]
      BY <2>1, GoTypes DEF Steps
    <2> QED BY <2>1, <2>2, SessionEnds
  <1>2. CASE left # {}
    <2>1. Go(h, "sha") /\ todo' = [todo EXCEPT ![h] = left] /\ UNCHANGED <<to, found, known>>
      BY <1>2 DEF NextProject
    <2>2. /\ step' \in [Handlers -> Steps] /\ step[h]' = "sha"
          /\ \A g \in Handlers \ {h} : step[g]' = step[g]
      BY <2>1, GoTypes DEF Steps
    <2> QED BY <2>1, <2>2 DEF HookTypeOK
  <1> QED BY <1>1, <1>2

\* A handler of a head event has nobody to tell: it is enough that it keeps or forgets its recipient.
LEMMA HeadAddressed ==
  ASSUME HookInv, NEW h \in Handlers, TypeOf(h) \in HeadTypes,
         to[h]' \in {to[h], Nobody}, wrote[h]' = wrote[h]
  PROVE  Addressed(h)
  BY HeadsLeaveNoLine DEF Addressed

LEMMA FindForShaStep ==
  ASSUME HookInv, NEW h \in Handlers, FindForSha(h)
  PROVE  HookTypeOK' /\ GoesOn(h)
  <1>1. /\ step[h] = "sha" /\ Busy(h) /\ HookTypeOK
        /\ UNCHANGED <<task, worktree, dispatcher, wrote>>
    BY DEF FindForSha, Busy, HookInv
  <1>2. worker[h] # Nobody /\ TypeOf(h) \in HeadTypes
    BY <1>1, HasWorker DEF HookInv, Handling
  <1>3. PICK project \in todo[h] :
          LET t == Latest(Carriers(Pr(h), {project}))
              left == todo[h] \ {project}
          IN  IF t = Nobody THEN NextProject(h, left)
              ELSE /\ Go(h, "set")
                   /\ todo' = [todo EXCEPT ![h] = left]
                   /\ found' = [found EXCEPT ![h] = t]
                   /\ known' = Read(h, t)
                   /\ UNCHANGED to
    BY DEF FindForSha
  <1>4. PICK t : t = Latest(Carriers(Pr(h), {project}))
    OBVIOUS
  <1>5. t # Nobody => t \in Tasks
    BY <1>1, <1>4, FoundCarries DEF Ordered, HookTypeOK
  <1>6. PICK left \in SUBSET Projects : left = todo[h] \ {project}
    BY <1>1 DEF HookTypeOK
  <1>7. wrote' = wrote /\ head' = head
    BY <1>1 DEF task
  <1>8. /\ step' \in [Handlers -> Steps] /\ step[h]' \in {"sha", "done", "set"}
        /\ step[h]' = "set" => found[h]' \in Tasks
        /\ to' \in [Handlers -> Worktrees \cup {EnvInbox, Nobody}]
        /\ found' \in [Handlers -> Tasks \cup {Nobody}]
        /\ known' \in [Handlers -> [Tasks -> Unread..MaxDeliveries]]
        /\ todo' \in [Handlers -> SUBSET Projects]
        /\ to[h]' \in {to[h], Nobody}
        /\ \A g \in Handlers \ {h} : step[g]' = step[g] /\ to[g]' = to[g] /\ found[g]' = found[g]
    <2>1. CASE t = Nobody
      BY <1>1, <1>3, <1>4, <1>6, <2>1, NextProjectStep
    <2>2. CASE t # Nobody
      <3>1. /\ Go(h, "set") /\ todo' = [todo EXCEPT ![h] = left]
            /\ found' = [found EXCEPT ![h] = t] /\ known' = Read(h, t) /\ to' = to
        BY <1>3, <1>4, <1>6, <2>2
      <3>2. /\ step' \in [Handlers -> Steps] /\ step[h]' = "set"
            /\ \A g \in Handlers \ {h} : step[g]' = step[g]
        BY <1>1, <3>1, GoTypes DEF Steps
      <3>3. known' \in [Handlers -> [Tasks -> Unread..MaxDeliveries]]
        BY <1>1, <1>5, <2>2, <3>1, ReadTypes
      <3> QED BY <1>1, <1>5, <2>2, <3>1, <3>2, <3>3 DEF HookTypeOK
    <2> QED BY <2>1, <2>2
  <1>9. HookTypeOK'
    BY <1>1, <1>8 DEF HookTypeOK, task, worktree, dispatcher
  <1>10. Addressed(h)
    BY <1>2, <1>7, <1>8, HeadAddressed
  <1>11. OnlyOf(h)
    BY <1>7, <1>8 DEF OnlyOf
  <1>12. GoesOn(h)
    BY <1>1, <1>2, <1>8, <1>10, <1>11 DEF GoesOn
  <1> QED BY <1>9, <1>12

LEMMA SetShaStep ==
  ASSUME HookInv, NEW h \in Handlers, SetSha(h)
  PROVE  HookTypeOK' /\ GoesOn(h)
  <1>1. /\ step[h] = "set" /\ Busy(h) /\ HookTypeOK
        /\ UNCHANGED <<url, status, merged, worktree, dispatcher, wrote>>
    BY DEF SetSha, Busy, HookInv
  <1>2. worker[h] # Nobody /\ TypeOf(h) \in HeadTypes
    BY <1>1, HasWorker DEF HookInv, Handling
  <1>3. PICK t \in Tasks : t = found[h]
    BY <1>1 DEF HookInv, Handling
  <1>4. \/ Go(h, "failed") /\ EndSession(h) /\ head' = head /\ order' = order
        \/ NextProject(h, todo[h]) /\ head' = head /\ order' = order
        \/ NextProject(h, todo[h]) /\ head' = [head EXCEPT ![t] = job[h]] /\ order' = Touched(t)
    BY <1>3 DEF SetSha
  <1>5. todo[h] \in SUBSET Projects
    BY <1>1 DEF HookTypeOK
  <1>6. /\ step' \in [Handlers -> Steps] /\ step[h]' \in {"sha", "done", "failed"}
        /\ to' \in [Handlers -> Worktrees \cup {EnvInbox, Nobody}]
        /\ found' \in [Handlers -> Tasks \cup {Nobody}]
        /\ known' \in [Handlers -> [Tasks -> Unread..MaxDeliveries]]
        /\ todo' \in [Handlers -> SUBSET Projects]
        /\ to[h]' \in {to[h], Nobody}
        /\ \A g \in Handlers \ {h} : step[g]' = step[g] /\ to[g]' = to[g] /\ found[g]' = found[g]
    <2>1. CASE NextProject(h, todo[h])
      BY <1>1, <1>5, <2>1, NextProjectStep
    <2>2. CASE Go(h, "failed") /\ EndSession(h)
      <3>1. /\ step' \in [Handlers -> Steps] /\ step[h]' = "failed"
            /\ \A g \in Handlers \ {h} : step[g]' = step[g]
        BY <1>1, <2>2, GoTypes DEF Steps
      <3> QED BY <1>1, <2>2, <3>1, SessionEnds
    <2> QED BY <1>4, <2>1, <2>2
  <1>7. order' \in Seq(Tasks) /\ ToSet(order') = Tasks
    <2>1. Touched(t) \in Seq(Tasks) /\ ToSet(Touched(t)) = Tasks
      BY <1>1, TouchedOrder DEF Ordered, HookTypeOK
    <2>2. order \in Seq(Tasks) /\ ToSet(order) = Tasks
      BY <1>1 DEF HookTypeOK
    <2> QED BY <1>4, <2>1, <2>2
  <1>8. /\ head' \in [Tasks -> 0..MaxDeliveries]
        /\ \A x \in Tasks : head[x]' = head[x] \/ head[x]' = job[h]
    <2>1. job[h] \in 0..MaxDeliveries
      BY <1>1, TracksTypes, WebhookAssumption DEF Deliveries
    <2> QED BY <1>1, <1>4, <2>1 DEF HookTypeOK
  <1>9. HookTypeOK'
    BY <1>1, <1>6, <1>7, <1>8 DEF HookTypeOK, worktree, dispatcher
  <1>10. Addressed(h)
    BY <1>1, <1>2, <1>6, HeadAddressed
  <1>11. OnlyOf(h)
    BY <1>1, <1>6, <1>8 DEF OnlyOf
  <1>12. GoesOn(h)
    BY <1>1, <1>2, <1>6, <1>10, <1>11 DEF GoesOn
  <1> QED BY <1>9, <1>12

LEMMA WriteLineStep ==
  ASSUME HookInv, NEW h \in Handlers, WriteLine(h)
  PROVE  HookTypeOK' /\ GoesOn(h)
  <1>1. /\ step[h] = "write" /\ Busy(h) /\ HookTypeOK /\ Go(h, "done") /\ EndSession(h)
        /\ wrote' = [wrote EXCEPT ![h] = IF Message(Action(h)) THEN to[h] ELSE Nobody]
        /\ UNCHANGED <<task, worktree, dispatcher>>
    BY DEF WriteLine, Busy, HookInv
  <1>2. worker[h] # Nobody
    BY <1>1, HasWorker
  <1>3. /\ step' \in [Handlers -> Steps] /\ step[h]' = "done"
        /\ \A g \in Handlers \ {h} : step[g]' = step[g]
    BY <1>1, GoTypes DEF Steps
  <1>4. /\ to' \in [Handlers -> Worktrees \cup {EnvInbox, Nobody}]
        /\ found' \in [Handlers -> Tasks \cup {Nobody}]
        /\ known' \in [Handlers -> [Tasks -> Unread..MaxDeliveries]]
        /\ todo' \in [Handlers -> SUBSET Projects]
        /\ to[h]' = Nobody
        /\ \A g \in Handlers \ {h} : to[g]' = to[g] /\ found[g]' = found[g]
    BY <1>1, SessionEnds
  <1>5. /\ wrote' \in [Handlers -> Worktrees \cup {EnvInbox, Nobody}]
        /\ wrote[h]' = IF Message(Action(h)) THEN to[h] ELSE Nobody
        /\ \A g \in Handlers \ {h} : wrote[g]' = wrote[g]
    BY <1>1 DEF HookTypeOK
  <1>6. HookTypeOK'
    BY <1>1, <1>3, <1>4, <1>5 DEF HookTypeOK, task, worktree, dispatcher
  <1>7. Addressed(h)
    <2>1. wrote[h] = Nobody
      BY <1>1 DEF HookInv, Handling
    <2>2. Reacts(h) /\ Reached(Pr(h)) => to[h] # Nobody /\ Message(Action(h))
      BY <1>1 DEF HookInv, Undropped, Reacts
    <2> QED BY <1>3, <1>4, <1>5, <2>1, <2>2 DEF Addressed
  <1>8. OnlyOf(h)
    <2>1. head' = head
      BY <1>1 DEF task
    <2> QED BY <1>3, <1>4, <1>5, <2>1 DEF OnlyOf
  <1>9. GoesOn(h)
    BY <1>1, <1>2, <1>3, <1>7, <1>8 DEF GoesOn
  <1> QED BY <1>6, <1>9

LEMMA TellMainAgentStep ==
  ASSUME HookInv, NEW h \in Handlers, TellMainAgent(h)
  PROVE  HookTypeOK' /\ GoesOn(h)
  <1>1. /\ step[h] = "timed_out" /\ Busy(h) /\ HookTypeOK /\ Go(h, "done")
        /\ UNCHANGED <<task, worktree, dispatcher, local>>
    BY DEF TellMainAgent, Busy, HookInv
  <1>2. worker[h] = Nobody
    BY <1>1 DEF HookInv, Handling
  <1>3. /\ step' \in [Handlers -> Steps] /\ step[h]' = "done"
        /\ \A g \in Handlers \ {h} : step[g]' = step[g]
    BY <1>1, GoTypes DEF Steps
  <1>4. /\ wrote' \in [Handlers -> Worktrees \cup {EnvInbox, Nobody}]
        /\ Tracks[Pr(h)] = {} => wrote' = wrote
        /\ \A g \in Handlers \ {h} : wrote[g]' = wrote[g]
    <2>1. CASE Tracks[Pr(h)] = {}
      BY <1>1, <2>1 DEF TellMainAgent, HookTypeOK
    <2>2. CASE Tracks[Pr(h)] # {}
      <3>1. PICK j \in Tracks[Pr(h)] : \E w \in MainInbox(j) : wrote' = [wrote EXCEPT ![h] = w]
        BY <2>2 DEF TellMainAgent
      <3>2. PICK w \in MainInbox(j) : wrote' = [wrote EXCEPT ![h] = w]
        BY <3>1
      <3>3. j \in Projects
        BY <1>1, TracksTypes
      <3>4. w \in Worktrees \cup {EnvInbox, Nobody}
        BY <1>1, <3>3, MainInboxTypes
      <3> QED BY <1>1, <2>2, <3>2, <3>4 DEF HookTypeOK
    <2> QED BY <2>1, <2>2
  <1>5. HookTypeOK'
    BY <1>1, <1>3, <1>4 DEF HookTypeOK, task, worktree, dispatcher, local
  <1>6. to' = to /\ found' = found /\ head' = head
    BY <1>1 DEF task, local
  <1>7. Addressed(h)
    <2>1. ~Reacts(h)
      BY <1>2 DEF Reacts
    <2> QED BY <1>4, <1>6, <2>1 DEF Addressed
  <1>8. OnlyOf(h)
    BY <1>3, <1>4, <1>6 DEF OnlyOf
  <1>9. GoesOn(h)
    BY <1>1, <1>3, <1>7, <1>8 DEF GoesOn
  <1> QED BY <1>5, <1>9

LEMMA HandlerGoesOn ==
  ASSUME HookInv, NEW h \in Handlers, HandleEvent(h)
  PROVE  HookInv' /\ GoesOn(h)
  <1>1. HookTypeOK' /\ GoesOn(h)
    BY ResolveOwnerStep, ResolveUntrackedStep, ResolveFallbackStep, FindMergedStep, MarkMergedStep,
       FindForShaStep, SetShaStep, WriteLineStep, TellMainAgentStep DEF HandleEvent
  <1> QED BY <1>1, GoesOnKeeps

-----------------------------------------------------------------------------
(* Webhooks: a handler starts *)

\* Handler h is the next one and takes up delivery d; nothing else of a handler changes.
Starts(h, d, s) ==
    /\ step[h] = "none" /\ \A g \in Handlers : g < h => step[g] # "none"
    /\ s \in {"owner", "timed_out"} /\ step' = [step EXCEPT ![h] = s]
    /\ job' = [job EXCEPT ![h] = d] /\ sent'[d] # Nobody
    /\ \A x \in Deliveries : sent[x] # Nobody => sent'[x] = sent[x]
    /\ worker[h]' = Nobody <=> s = "timed_out"
    /\ \A g \in Handlers \ {h} : worker[g]' = worker[g]
    /\ UNCHANGED <<task, worktree, local, wrote>>

\* A start changes nothing for the other handlers.
LEMMA OthersStay ==
  ASSUME HookInv, NEW h \in Handlers, NEW d \in Deliveries, NEW s, Starts(h, d, s),
         NEW g \in Handlers \ {h}
  PROVE  /\ step[g]' = step[g] /\ job[g]' = job[g] /\ worker[g]' = worker[g]
         /\ step[g] # "none" => Pr(g)' = Pr(g) /\ TypeOf(g)' = TypeOf(g)
         /\ Heads(g)' <=> Heads(g)
         /\ Reacts(g)' <=> Reacts(g)
  <1>1. step[g]' = step[g] /\ job[g]' = job[g] /\ worker[g]' = worker[g]
    BY DEF Starts, HookInv, HookTypeOK
  <1>2. /\ step[g] # "none" => job[g] \in Deliveries /\ sent[job[g]] # Nobody
        /\ worker[g] # Nobody => step[g] # "none"
    BY DEF HookInv, Handling
  <1>3. step[g] # "none" => sent'[job[g]'] = sent[job[g]]
    BY <1>1, <1>2 DEF Starts
  <1>4. step[g] # "none" => Pr(g)' = Pr(g) /\ Action(g)' = Action(g)
    BY <1>3 DEF Pr, Action
  <1>5. step[g] # "none" => TypeOf(g)' = TypeOf(g)
    BY <1>4 DEF TypeOf
  <1>6. Heads(g)' <=> Heads(g)
    BY <1>1, <1>2, <1>5 DEF Heads
  <1>7. Reacts(g)' <=> Reacts(g)
    BY <1>1, <1>2, <1>4, <1>5 DEF Reacts
  <1> QED BY <1>1, <1>4, <1>5, <1>6, <1>7

\* The parts of the invariant that any start keeps
LEMMA StartsKeeps ==
  ASSUME HookInv, NEW h \in Handlers, NEW d \in Deliveries, NEW s, Starts(h, d, s)
  PROVE  Handling' /\ Undropped' /\ Reported'
  <1>1. /\ step[h] = "none" /\ \A g \in Handlers : g < h => step[g] # "none"
        /\ s \in {"owner", "timed_out"} /\ step[h]' = s
        /\ job[h]' = d /\ sent'[d] # Nobody
        /\ \A x \in Deliveries : sent[x] # Nobody => sent'[x] = sent[x]
        /\ worker[h]' = Nobody <=> s = "timed_out"
    BY DEF Starts, HookInv, HookTypeOK
  <1>2. /\ to' = to /\ found' = found /\ wrote' = wrote /\ head' = head
        /\ rows' = rows /\ envSet' = envSet
    BY DEF Starts, local, task, worktree
  <1>3. \A g \in Handlers \ {h} :
          /\ step[g]' = step[g] /\ job[g]' = job[g] /\ worker[g]' = worker[g]
          /\ step[g] # "none" => Pr(g)' = Pr(g) /\ TypeOf(g)' = TypeOf(g)
          /\ Heads(g)' <=> Heads(g)
          /\ Reacts(g)' <=> Reacts(g)
    BY OthersStay
  <1>4. worker[h] = Nobody /\ to[h] = Nobody /\ wrote[h] = Nobody
    BY <1>1 DEF HookInv, Handling
  <1>5. Handling'
    <2>1. \A g \in Handlers : step[g] # "none" => step[g]' # "none"
      BY <1>1, <1>3
    <2> SUFFICES ASSUME NEW e \in Handlers
                 PROVE  /\ step[e]' = "none" => worker[e]' = Nobody /\ job[e]' = 0 /\ to[e]' = Nobody
                        /\ step[e]' # "none" => /\ job[e]' \in Deliveries /\ sent'[job[e]'] # Nobody
                                                /\ \A g \in Handlers : g < e => step[g]' # "none"
                        /\ step[e]' # "done" => wrote[e]' = Nobody
                        /\ worker[e]' = Nobody => step[e]' \in {"none", "timed_out", "done"}
                        /\ step[e]' = "timed_out" => worker[e]' = Nobody
                        /\ step[e]' \in {"sha", "set"} => TypeOf(e)' \in HeadTypes
                        /\ step[e]' \in {"mark", "set"} => found[e]' \in Tasks
      BY DEF Handling, HeadTypes
    <2>2. /\ step[e] = "none" => worker[e] = Nobody /\ job[e] = 0 /\ to[e] = Nobody
          /\ step[e] # "none" => /\ job[e] \in Deliveries /\ sent[job[e]] # Nobody
                                 /\ \A g \in Handlers : g < e => step[g] # "none"
          /\ step[e] # "done" => wrote[e] = Nobody
          /\ worker[e] = Nobody => step[e] \in {"none", "timed_out", "done"}
          /\ step[e] = "timed_out" => worker[e] = Nobody
          /\ step[e] \in {"sha", "set"} => TypeOf(e) \in HeadTypes
          /\ step[e] \in {"mark", "set"} => found[e] \in Tasks
      BY DEF HookInv, Handling
    <2>3. CASE e = h
      BY <1>1, <1>2, <1>4, <2>1, <2>3
    <2>4. CASE e # h
      BY <1>1, <1>2, <1>3, <2>1, <2>2, <2>4
    <2> QED BY <2>3, <2>4
  <1>6. Undropped'
    <2>1. \A g \in Handlers \ {h} : Reacts(g) => Reached(Pr(g))' = Reached(Pr(g))
      <3> SUFFICES ASSUME NEW g \in Handlers \ {h}, Reacts(g) PROVE Reached(Pr(g))' = Reached(Pr(g))
        OBVIOUS
      <3>1. step[g] # "none"
        BY DEF Reacts, HookInv, Handling
      <3> QED BY <1>2, <1>3, <3>1 DEF Reached
    <2>2. \A g \in Handlers :
            Reacts(g) /\ Reached(Pr(g)) /\ step[g] \in {"merge", "mark", "write"} => to[g] # Nobody
      BY DEF HookInv, Undropped
    <2>3. \A g \in Handlers :
            Reacts(g)' /\ Reached(Pr(g))' /\ step[g]' \in {"merge", "mark", "write"} => to[g]' # Nobody
      BY <1>1, <1>2, <1>3, <2>1, <2>2
    <2> QED BY <2>3 DEF Undropped
  <1>7. Reported'
    <2>1. \A t \in Tasks : head[t] # 0 => \E g \in Handlers : Heads(g) /\ job[g] = head[t]
      BY DEF HookInv, Reported
    <2>2. ~Heads(h)
      BY <1>4 DEF Heads
    <2>3. \A t \in Tasks : head[t]' # 0 => \E g \in Handlers : Heads(g)' /\ job[g]' = head[t]'
      BY <1>2, <1>3, <2>1, <2>2
    <2> QED BY <2>3 DEF Reported
  <1> QED BY <1>5, <1>6, <1>7

LEMMA ReviewTimesOutKeeps ==
  ASSUME HookInv, NEW h \in Handlers, NEW d \in Deliveries, ReviewTimesOut(h, d)
  PROVE  HookInv'
  <1>1. /\ HookTypeOK /\ step[h] = "none" /\ \A g \in Handlers : g < h => step[g] # "none"
        /\ sent[d] # Nobody /\ step' = [step EXCEPT ![h] = "timed_out"] /\ job' = [job EXCEPT ![h] = d]
        /\ sent' = sent /\ seen' = seen /\ forgotten' = forgotten /\ late' = late /\ worker' = worker
        /\ UNCHANGED <<task, worktree, local, wrote>>
    BY DEF ReviewTimesOut, Go, HookInv
  <1>2. worker[h] = Nobody
    BY <1>1 DEF HookInv, Handling
  <1>3. Starts(h, d, "timed_out")
    BY <1>1, <1>2 DEF Starts
  <1>4. HookTypeOK'
    <2>1. step' \in [Handlers -> Steps] /\ job' \in [Handlers -> Deliveries \cup {0}]
      BY <1>1 DEF HookTypeOK, Steps
    <2> QED BY <1>1, <2>1 DEF HookTypeOK, task, worktree, local
  <1>5. Handling' /\ Undropped' /\ Reported'
    BY <1>3, StartsKeeps
  <1>6. \A g \in Handlers \ {h} :
          /\ step[g]' = step[g] /\ job[g]' = job[g] /\ worker[g]' = worker[g]
          /\ step[g] # "none" => Pr(g)' = Pr(g) /\ TypeOf(g)' = TypeOf(g)
          /\ Heads(g)' <=> Heads(g)
    BY <1>3, OthersStay
  <1>7. Remembering'
    <2>1. \A g \in Handlers : worker[g] # Nobody => job[g] \in seen[worker[g]] \cup forgotten[worker[g]]
      BY DEF HookInv, Remembering
    <2>2. \A g \in Handlers :
            worker[g]' # Nobody => job[g]' \in seen'[worker[g]'] \cup forgotten'[worker[g]']
      BY <1>1, <1>2, <1>6, <2>1
    <2> QED BY <2>2 DEF Remembering
  <1>8. LateKnown'
    <2>1. \A g, e \in Handlers :
            Heads(g) /\ Heads(e) /\ Busy(e) /\ Pr(g) = Pr(e) /\ job[e] < job[g] => job[e] \in late
      BY DEF HookInv, LateKnown
    <2>2. \A g \in Handlers \ {h} : (Busy(g)' <=> Busy(g)) /\ (Heads(g) => step[g] # "none")
      BY <1>6 DEF Busy, Heads, HookInv, Handling
    <2>3. ~(Heads(h)')
      BY <1>1, <1>2 DEF Heads
    <2>4. \A g, e \in Handlers :
            Heads(g)' /\ Heads(e)' /\ Busy(e)' /\ Pr(g)' = Pr(e)' /\ job[e]' < job[g]' => job[e]' \in late'
      BY <1>1, <1>6, <2>1, <2>2, <2>3
    <2> QED BY <2>4 DEF LateKnown
  <1> QED BY <1>4, <1>5, <1>7, <1>8 DEF HookInv

\* A webhook that arrives, for the first time or again
Arrives(h, k, d, repo, a) ==
    /\ Dispatch(h, k, d, repo, a)
    /\ sent'[d] # Nobody /\ sent'[d].pr = repo /\ sent'[d].action = a
    /\ sent' \in [Deliveries -> WebhookEvents \cup {Nobody}]
    /\ \A x \in Deliveries : sent[x] # Nobody => sent'[x] = sent[x]

LEMMA ReceiveArrives ==
  ASSUME HookTypeOK, NEW h \in Handlers, NEW k \in Workers, NEW d \in Deliveries,
         NEW p \in PullRequests, NEW a \in Actions, Receive(h, k, d, p, a)
  PROVE  Arrives(h, k, d, p, a)
  <1> DEFINE item == [action |-> a, pr |-> p]
  <1>1. item \in WebhookEvents /\ item.pr = p /\ item.action = a
    BY DEF WebhookEvents
  <1>2. item # Nobody
    BY <1>1, WebhookAssumption
  <1>3. /\ sent[d] = Nobody /\ sent' = [sent EXCEPT ![d] = item] /\ Dispatch(h, k, d, p, a)
        /\ sent \in [Deliveries -> WebhookEvents \cup {Nobody}]
    BY DEF Receive, HookTypeOK
  <1> HIDE DEF item
  <1> QED BY <1>1, <1>2, <1>3 DEF Arrives

LEMMA RedeliverArrives ==
  ASSUME HookTypeOK, NEW h \in Handlers, NEW k \in Workers, NEW d \in Deliveries, Redeliver(h, k, d)
  PROVE  Arrives(h, k, d, sent[d].pr, sent[d].action)
  BY DEF Redeliver, HookTypeOK, Arrives

LEMMA ArrivesStarts ==
  ASSUME HookInv, NEW h \in Handlers, NEW k \in Workers, NEW d \in Deliveries, NEW repo, NEW a,
         Arrives(h, k, d, repo, a)
  PROVE  /\ Starts(h, d, "owner") /\ HookTypeOK'
         /\ worker' = [worker EXCEPT ![h] = k] /\ late \subseteq late'
         /\ d \in seen'[k] \cup forgotten'[k]
         /\ \A v \in Workers : seen[v] \cup forgotten[v] \subseteq seen'[v] \cup forgotten'[v]
  <1>1. /\ step[h] = "none" /\ \A g \in Handlers : g < h => step[g] # "none"
        /\ late' = IF Type[a] \in HeadTypes THEN late \cup Disordered(k, d, repo) ELSE late
        /\ step' = [step EXCEPT ![h] = "owner"]
        /\ worker' = [worker EXCEPT ![h] = k]
        /\ job' = [job EXCEPT ![h] = d]
        /\ UNCHANGED <<task, worktree, local, wrote>>
    BY DEF Arrives, Dispatch
  <1>2. HookTypeOK /\ k # Nobody
    BY WebhookAssumption DEF HookInv
  <1>3. PICK ids \in Remembered(k, d) :
          /\ seen' = [seen EXCEPT ![k] = ids]
          /\ forgotten' = [forgotten EXCEPT ![k] = (@ \cup (seen[k] \ ids) \cup ({d} \ ids)) \ ids]
    BY DEF Arrives, Dispatch
  <1>4. /\ seen \in [Workers -> SUBSET Deliveries] /\ forgotten \in [Workers -> SUBSET Deliveries]
        /\ worker \in [Handlers -> Workers \cup {Nobody}] /\ job \in [Handlers -> Deliveries \cup {0}]
        /\ step \in [Handlers -> Steps] /\ late \subseteq Deliveries
    BY <1>2 DEF HookTypeOK
  <1>5. ids \in SUBSET (seen[k] \cup {d})
    BY <1>3 DEF Remembered
  <1>6. /\ seen' \in [Workers -> SUBSET Deliveries] /\ forgotten' \in [Workers -> SUBSET Deliveries]
        /\ d \in seen'[k] \cup forgotten'[k]
        /\ \A v \in Workers : seen[v] \cup forgotten[v] \subseteq seen'[v] \cup forgotten'[v]
    BY <1>3, <1>4, <1>5
  <1>7. /\ worker' \in [Handlers -> Workers \cup {Nobody}] /\ job' \in [Handlers -> Deliveries \cup {0}]
        /\ step' \in [Handlers -> Steps]
    BY <1>1, <1>4 DEF Steps
  <1>8. late \subseteq late' /\ late' \subseteq Deliveries
    <2>1. \A g \in HeadHandlers(repo) : job[g] \in Deliveries
      BY <1>4 DEF HeadHandlers, HookInv, Handling
    <2>2. Disordered(k, d, repo) \subseteq Deliveries
      BY <2>1 DEF Disordered
    <2> QED BY <1>1, <1>4, <2>2
  <1>9. HookTypeOK'
    <2>1. sent' \in [Deliveries -> WebhookEvents \cup {Nobody}]
      BY DEF Arrives
    <2> QED BY <1>1, <1>2, <1>6, <1>7, <1>8, <2>1 DEF HookTypeOK, task, worktree, local
  <1>10. Starts(h, d, "owner")
    <2>1. sent'[d] # Nobody /\ \A x \in Deliveries : sent[x] # Nobody => sent'[x] = sent[x]
      BY DEF Arrives
    <2>2. worker[h]' # Nobody /\ \A g \in Handlers \ {h} : worker[g]' = worker[g]
      BY <1>1, <1>2, <1>4
    <2> QED BY <1>1, <2>1, <2>2 DEF Starts
  <1> QED BY <1>1, <1>6, <1>8, <1>9, <1>10

\* A head event that is accepted while another of its PR is handled disorders both; after a
\* newer one it is late itself, because a process that remembers it would not accept it.
LEMMA ArrivesLate ==
  ASSUME HookInv, NEW h \in Handlers, NEW k \in Workers, NEW d \in Deliveries, NEW repo, NEW a,
         Arrives(h, k, d, repo, a), Type[a] \in HeadTypes,
         NEW g \in Handlers, Heads(g), Pr(g) = repo
  PROVE  /\ Busy(g) => job[g] \in late'
         /\ d < job[g] => d \in late'
  <1> DEFINE others == HeadHandlers(repo)
             busy == {e \in others : Busy(e)}
             remembered == \E e \in others : job[e] = d /\ worker[e] = k /\ d \notin forgotten[k]
  <1>1. late' = late \cup Disordered(k, d, repo)
    BY DEF Arrives, Dispatch
  <1>2. Disordered(k, d, repo) =
          IF busy # {} THEN {d} \cup {job[e] : e \in busy}
          ELSE IF ~remembered /\ (\E e \in others : job[e] > d) THEN {d} ELSE {}
    BY DEF Disordered
  <1>3. g \in others
    BY DEF HeadHandlers, Heads
  <1>4. ~remembered
    <2> SUFFICES ASSUME NEW e \in others, job[e] = d, worker[e] = k, d \notin forgotten[k] PROVE FALSE
      OBVIOUS
    <2>1. e \in Handlers /\ k # Nobody
      BY WebhookAssumption DEF HeadHandlers
    <2>2. d \in seen[k]
      BY <2>1 DEF HookInv, Remembering
    <2> QED BY <2>2 DEF Arrives, Dispatch, Fresh
  <1>5. job[g] > d <=> d < job[g]
    BY DEF HookInv, HookTypeOK, Deliveries
  <1> HIDE DEF others, remembered
  <1> QED BY <1>1, <1>2, <1>3, <1>4, <1>5

\* An arrival keeps the invariant.
LEMMA ArrivesKeeps ==
  ASSUME HookInv, NEW h \in Handlers, NEW k \in Workers, NEW d \in Deliveries, NEW repo, NEW a,
         Arrives(h, k, d, repo, a)
  PROVE  HookInv'
  <1>1. /\ Starts(h, d, "owner") /\ HookTypeOK'
        /\ worker' = [worker EXCEPT ![h] = k] /\ late \subseteq late'
        /\ d \in seen'[k] \cup forgotten'[k]
        /\ \A v \in Workers : seen[v] \cup forgotten[v] \subseteq seen'[v] \cup forgotten'[v]
    BY ArrivesStarts
  <1>2. Handling' /\ Undropped' /\ Reported'
    BY <1>1, StartsKeeps
  <1>3. \A g \in Handlers \ {h} :
          /\ step[g]' = step[g] /\ job[g]' = job[g] /\ worker[g]' = worker[g]
          /\ step[g] # "none" => Pr(g)' = Pr(g) /\ TypeOf(g)' = TypeOf(g)
          /\ Heads(g)' <=> Heads(g)
    BY <1>1, OthersStay
  <1>4. step[h] = "none" /\ worker[h] = Nobody /\ job[h]' = d /\ worker[h]' = k /\ k # Nobody
    BY <1>1, WebhookAssumption DEF Starts, HookInv, HookTypeOK, Handling
  <1>5. Remembering'
    <2>1. \A g \in Handlers : worker[g] # Nobody => job[g] \in seen[worker[g]] \cup forgotten[worker[g]]
      BY DEF HookInv, Remembering
    <2>2. \A g \in Handlers : worker[g] \in Workers \cup {Nobody}
      BY DEF HookInv, HookTypeOK
    <2>3. \A g \in Handlers :
            worker[g]' # Nobody => job[g]' \in seen'[worker[g]'] \cup forgotten'[worker[g]']
      BY <1>1, <1>3, <1>4, <2>1, <2>2
    <2> QED BY <2>3 DEF Remembering
  <1>6. LateKnown'
    <2>1. \A g, e \in Handlers :
            Heads(g) /\ Heads(e) /\ Busy(e) /\ Pr(g) = Pr(e) /\ job[e] < job[g] => job[e] \in late
      BY DEF HookInv, LateKnown
    <2>2. \A g \in Handlers \ {h} : Heads(g) => step[g] # "none"
      BY DEF Heads, HookInv, Handling
    <2>3. \A g \in Handlers \ {h} : Busy(g)' <=> Busy(g)
      BY <1>3 DEF Busy
    <2>4. Pr(h)' = repo /\ (Heads(h)' => Type[a] \in HeadTypes)
      <3>1. Pr(h)' = repo /\ Action(h)' = a
        BY <1>4 DEF Arrives, Pr, Action
      <3> QED BY <3>1 DEF TypeOf, Heads, HeadTypes
    <2>5. \A g \in Handlers \ {h} : Heads(h)' /\ Heads(g) /\ Pr(g) = repo =>
            (Busy(g) => job[g] \in late') /\ (d < job[g] => d \in late')
      BY <2>4, ArrivesLate
    <2>6. ~(d < d)
      BY DEF Deliveries
    <2> SUFFICES ASSUME NEW g \in Handlers, NEW e \in Handlers,
                        Heads(g)', Heads(e)', Busy(e)', Pr(g)' = Pr(e)', job[e]' < job[g]'
                 PROVE  job[e]' \in late'
      BY DEF LateKnown
    <2>7. CASE g # h /\ e # h
      BY <1>1, <1>3, <2>1, <2>2, <2>3, <2>7
    <2>8. CASE g = h /\ e # h
      BY <1>3, <2>2, <2>3, <2>4, <2>5, <2>8
    <2>9. CASE g # h /\ e = h
      BY <1>3, <1>4, <2>2, <2>4, <2>5, <2>9
    <2>10. CASE g = h /\ e = h
      BY <1>4, <2>6, <2>10
    <2> QED BY <2>7, <2>8, <2>9, <2>10
  <1> QED BY <1>1, <1>2, <1>5, <1>6 DEF HookInv

-----------------------------------------------------------------------------
(* Webhooks: the board and the agents *)

\* What the requests have in common: rows only go, and a SHA is kept or cleared.
LEMMA RequestKeeps ==
  ASSUME HookInv, HookTypeOK', UNCHANGED <<handler, envSet>>, rows' \subseteq rows,
         \A t \in Tasks : head[t]' \in {head[t], 0}
  PROVE  HookInv'
  <1>1. /\ sent' = sent /\ job' = job /\ worker' = worker /\ step' = step /\ to' = to
        /\ found' = found /\ wrote' = wrote /\ seen' = seen /\ forgotten' = forgotten
        /\ late' = late /\ envSet' = envSet
    BY DEF handler, dispatcher, local
  <1>2. \A g \in Handlers : /\ Pr(g)' = Pr(g) /\ TypeOf(g)' = TypeOf(g)
                            /\ (Heads(g)' <=> Heads(g)) /\ (Reacts(g)' <=> Reacts(g)) /\ (Busy(g)' <=> Busy(g))
    BY <1>1 DEF Heads, Reacts, Busy, TypeOf, Pr, Action
  <1>3. Handling'
    BY <1>1, <1>2 DEF HookInv, Handling
  <1>4. Undropped'
    <2>1. \A g \in Handlers : Reached(Pr(g))' => Reached(Pr(g))
      BY <1>1, <1>2 DEF Reached
    <2>2. \A g \in Handlers :
            Reacts(g)' /\ Reached(Pr(g))' /\ step[g]' \in {"merge", "mark", "write"} => to[g]' # Nobody
      BY <1>1, <1>2, <2>1 DEF HookInv, Undropped
    <2> QED BY <2>2 DEF Undropped
  <1>5. Remembering'
    BY <1>1 DEF HookInv, Remembering
  <1>6. Reported'
    BY <1>1, <1>2 DEF HookInv, Reported
  <1>7. LateKnown'
    BY <1>1, <1>2 DEF HookInv, LateKnown
  <1> QED BY <1>3, <1>4, <1>5, <1>6, <1>7 DEF HookInv

LEMMA TaskRequestKeeps ==
  ASSUME HookInv, NEW t \in Tasks,
         (\E p \in PullRequests : AgentSetsUrl(t, p) \/ BoardSetsUrl(t, p))
         \/ (\E s \in {"done", "deleted"} : Finish(t, s))
  PROVE  HookInv'
  <1>1. HookTypeOK /\ Touched(t) \in Seq(Tasks) /\ ToSet(Touched(t)) = Tasks
    BY TouchedOrder DEF HookInv, HookTypeOK, Ordered
  <1>2. /\ UNCHANGED <<merged, envSet, rows, online, handler>> /\ moves' \in 0..MaxMoves
        /\ url' = url \/ (\E p \in PullRequests : url' = [url EXCEPT ![t] = p])
        /\ status' = status \/ (\E s \in {"done", "deleted"} : status' = [status EXCEPT ![t] = s])
        /\ head' = head \/ head' = [head EXCEPT ![t] = 0]
        /\ order' \in {order, Touched(t)}
    BY <1>1, WebhookAssumption DEF AgentSetsUrl, BoardSetsUrl, Finish, Move, HookTypeOK
  <1>3. /\ url' \in [Tasks -> PullRequests \cup {Nobody}]
        /\ status' \in [Tasks -> {"live", "done", "deleted"}]
    <2>1. /\ url \in [Tasks -> PullRequests \cup {Nobody}]
          /\ status \in [Tasks -> {"live", "done", "deleted"}]
      BY <1>1 DEF HookTypeOK
    <2>2. url' \in [Tasks -> PullRequests \cup {Nobody}]
      BY ONLY <1>2, <2>1
    <2>3. status' \in [Tasks -> {"live", "done", "deleted"}]
      BY ONLY <1>2, <2>1
    <2> QED BY <2>2, <2>3
  <1>4. head' \in [Tasks -> 0..MaxDeliveries] /\ \A x \in Tasks : head[x]' \in {head[x], 0}
    <2>1. head \in [Tasks -> 0..MaxDeliveries] /\ 0 \in 0..MaxDeliveries
      BY <1>1, WebhookAssumption DEF HookTypeOK
    <2> QED BY ONLY <1>2, <2>1
  <1>5. order' \in Seq(Tasks) /\ ToSet(order') = Tasks
    BY <1>1, <1>2 DEF HookTypeOK
  <1>6. HookTypeOK'
    BY <1>1, <1>2, <1>3, <1>4, <1>5 DEF HookTypeOK, handler, dispatcher, local
  <1> QED BY <1>2, <1>4, <1>6, RequestKeeps

LEMMA WorktreeRequestKeeps ==
  ASSUME HookInv, NEW w \in Worktrees, GoesOffline(w) \/ Removed(w)
  PROVE  HookInv'
  <1>1. /\ HookTypeOK /\ UNCHANGED <<task, envSet, handler>> /\ moves' \in 0..MaxMoves
        /\ rows' \subseteq rows /\ online' \subseteq rows'
    BY WebhookAssumption DEF HookInv, GoesOffline, Removed, Move, HookTypeOK
  <1>2. HookTypeOK'
    BY <1>1 DEF HookTypeOK, task, handler, dispatcher, local
  <1>3. \A x \in Tasks : head[x]' \in {head[x], 0}
    BY <1>1 DEF task
  <1> QED BY <1>1, <1>2, <1>3, RequestKeeps

-----------------------------------------------------------------------------
(* Webhooks: the invariant and the theorems *)

LEMMA HookInvInit == HookInit => HookInv
  <1> SUFFICES ASSUME HookInit PROVE HookInv
    OBVIOUS
  <1>1. /\ step = [h \in Handlers |-> "none"] /\ worker = [h \in Handlers |-> Nobody]
        /\ job = [h \in Handlers |-> 0] /\ to = [h \in Handlers |-> Nobody]
        /\ found = [h \in Handlers |-> Nobody] /\ wrote = [h \in Handlers |-> Nobody]
        /\ sent = [d \in Deliveries |-> Nobody] /\ head = [t \in Tasks |-> 0]
    BY DEF HookInit
  <1>2. HookTypeOK
    <2>1. NothingRead \in [Tasks -> Unread..MaxDeliveries]
      BY WebhookAssumption DEF NothingRead, Unread
    <2>2. order \in Seq(Tasks) /\ ToSet(order) = Tasks
      BY OrderInit DEF HookInit
    <2> QED BY <2>1, <2>2, WebhookAssumption DEF HookInit, HookTypeOK, Steps
  <1>3. Handling
    BY <1>1 DEF Handling
  <1>4. Undropped
    BY <1>1 DEF Undropped, Reacts
  <1>5. Remembering
    BY <1>1 DEF Remembering
  <1>6. Reported
    BY <1>1 DEF Reported
  <1>7. LateKnown
    BY <1>1 DEF LateKnown, Heads
  <1> QED BY <1>2, <1>3, <1>4, <1>5, <1>6, <1>7 DEF HookInv

LEMMA HookInvStep == HookInv /\ [HookNext]_hookVars => HookInv'
  <1> SUFFICES ASSUME HookInv, [HookNext]_hookVars PROVE HookInv'
    OBVIOUS
  <1>1. ASSUME NEW h \in Handlers, NEW k \in Workers, NEW d \in Deliveries,
               NEW p \in PullRequests, NEW a \in Actions, Receive(h, k, d, p, a)
        PROVE  HookInv'
    <2>1. Arrives(h, k, d, p, a)
      BY <1>1, ReceiveArrives DEF HookInv
    <2> QED BY <2>1, ArrivesKeeps
  <1>2. ASSUME NEW h \in Handlers, NEW k \in Workers, NEW d \in Deliveries, Redeliver(h, k, d)
        PROVE  HookInv'
    <2>1. HookTypeOK
      BY DEF HookInv
    <2>2. PICK repo, a : Arrives(h, k, d, repo, a)
      BY <1>2, <2>1, RedeliverArrives
    <2> QED BY <2>2, ArrivesKeeps
  <1>3. ASSUME NEW h \in Handlers, HandleEvent(h) PROVE HookInv'
    BY <1>3, HandlerGoesOn
  <1>4. ASSUME NEW h \in Handlers, NEW d \in Deliveries, ReviewTimesOut(h, d) PROVE HookInv'
    BY <1>4, ReviewTimesOutKeeps
  <1>5. ASSUME NEW t \in Tasks,
               (\E p \in PullRequests : AgentSetsUrl(t, p) \/ BoardSetsUrl(t, p))
               \/ (\E s \in {"done", "deleted"} : Finish(t, s))
        PROVE  HookInv'
    BY <1>5, TaskRequestKeeps
  <1>6. ASSUME NEW w \in Worktrees, GoesOffline(w) \/ Removed(w) PROVE HookInv'
    BY <1>6, WorktreeRequestKeeps
  <1>7. CASE UNCHANGED hookVars
    <2>1. UNCHANGED <<task, worktree, handler>>
      BY <1>7 DEF hookVars
    <2>2. HookTypeOK'
      BY <2>1 DEF HookInv, HookTypeOK, task, worktree, handler, dispatcher, local
    <2>3. rows' = rows /\ envSet' = envSet /\ head' = head
      BY <2>1 DEF task, worktree
    <2> QED BY <2>1, <2>2, <2>3, RequestKeeps
  <1> QED BY <1>1, <1>2, <1>3, <1>4, <1>5, <1>6, <1>7 DEF HookNext

\* The invariant holds in every run of the dispatchers, the handlers and the requests.
THEOREM HookInvariant == HookSpec => []HookInv
  BY HookInvInit, HookInvStep, PTL DEF HookSpec

\* The type invariant of the webhooks: no update of a task loses one from the order by updated_at.
THEOREM HookTypeCorrect == HookSpec => []HookTypeOK
  <1>1. HookInv => HookTypeOK
    BY DEF HookInv
  <1> QED BY <1>1, HookInvariant, PTL

\* What one step of the system does to one handler and to the head SHAs: it is a step of that
\* handler, or it leaves the handler as it is; a SHA is kept, cleared, or written by a handler.
LEMMA EachStep ==
  ASSUME HookInv, [HookNext]_hookVars
  PROVE  /\ \A h \in Handlers : Busy(h) =>
              GoesOn(h) \/ (step[h]' = step[h] /\ to[h]' = to[h] /\ wrote[h]' = wrote[h])
         /\ \A t \in Tasks : \/ head[t]' \in {head[t], 0}
                             \/ \E h \in Handlers : GoesOn(h) /\ step[h] = "set" /\ head[t]' = job[h]
  <1>1. /\ step \in [Handlers -> Steps] /\ head \in [Tasks -> 0..MaxDeliveries]
    BY DEF HookInv, HookTypeOK
  <1>2. ASSUME NEW g \in Handlers, HandleEvent(g)
        PROVE  /\ \A h \in Handlers : Busy(h) =>
                    GoesOn(h) \/ (step[h]' = step[h] /\ to[h]' = to[h] /\ wrote[h]' = wrote[h])
               /\ \A t \in Tasks : head[t]' = head[t] \/ (GoesOn(g) /\ step[g] = "set" /\ head[t]' = job[g])
    <2>1. GoesOn(g)
      BY <1>2, HandlerGoesOn
    <2>2. OnlyOf(g)
      BY <2>1 DEF GoesOn
    <2> QED BY <2>1, <2>2 DEF OnlyOf
  <1>3. ASSUME NEW g \in Handlers, NEW s, step[g] = "none", step' = [step EXCEPT ![g] = s],
               UNCHANGED <<task, local, wrote>>
        PROVE  /\ \A h \in Handlers : Busy(h) => step[h]' = step[h] /\ to[h]' = to[h] /\ wrote[h]' = wrote[h]
               /\ \A t \in Tasks : head[t]' = head[t]
    BY <1>1, <1>3 DEF Busy, task, local
  <1>4. ASSUME UNCHANGED handler, \A t \in Tasks : head[t]' \in {head[t], 0}
        PROVE  /\ \A h \in Handlers : step[h]' = step[h] /\ to[h]' = to[h] /\ wrote[h]' = wrote[h]
               /\ \A t \in Tasks : head[t]' \in {head[t], 0}
    BY <1>4 DEF handler, local
  <1>5. CASE \E g \in Handlers : HandleEvent(g)
    BY <1>2, <1>5
  <1>6. CASE \E g \in Handlers :
               \/ \E k \in Workers, d \in Deliveries :
                    \/ \E p \in PullRequests, a \in Actions : Receive(g, k, d, p, a)
                    \/ Redeliver(g, k, d)
               \/ \E d \in Deliveries : ReviewTimesOut(g, d)
    <2>1. PICK g \in Handlers :
               \/ \E k \in Workers, d \in Deliveries :
                    \/ \E p \in PullRequests, a \in Actions : Receive(g, k, d, p, a)
                    \/ Redeliver(g, k, d)
               \/ \E d \in Deliveries : ReviewTimesOut(g, d)
      BY <1>6
    <2>2. /\ step[g] = "none" /\ \E s \in {"owner", "timed_out"} : step' = [step EXCEPT ![g] = s]
          /\ UNCHANGED <<task, local, wrote>>
      BY <2>1 DEF Receive, Redeliver, Dispatch, ReviewTimesOut, Go
    <2> QED BY <1>3, <2>2
  <1>7. CASE \E x \in Tasks : \/ \E p \in PullRequests : AgentSetsUrl(x, p) \/ BoardSetsUrl(x, p)
                              \/ \E s \in {"done", "deleted"} : Finish(x, s)
    <2>1. UNCHANGED handler /\ \A t \in Tasks : head[t]' \in {head[t], 0}
      BY <1>1, <1>7 DEF AgentSetsUrl, BoardSetsUrl, Finish
    <2> QED BY <1>4, <2>1
  <1>8. CASE (\E w \in Worktrees : GoesOffline(w) \/ Removed(w)) \/ UNCHANGED hookVars
    <2>1. UNCHANGED <<task, handler>>
      BY <1>8 DEF GoesOffline, Removed, hookVars
    <2>2. UNCHANGED handler /\ \A t \in Tasks : head[t]' \in {head[t], 0}
      BY <2>1 DEF task
    <2> QED BY <1>4, <2>2
  <1> QED BY <1>5, <1>6, <1>7, <1>8 DEF HookNext

\* An event that an agent must react to leaves a line in some inbox, whatever becomes of
\* tasks and worktrees while it is handled, unless one of the two exceptions ends its handler
\* (AgentNotifierConsumer.handle).
THEOREM NeverDroppedSilently == HookSpec => NoSilentDrop
  <1>1. ASSUME HookInv, [HookNext]_hookVars, NEW h \in Handlers,
               MustBeHeard(h), MainsStand(h), ~Busy(h)', wrote'[h] = Nobody
        PROVE  step'[h] = "failed" /\ (DeletedUnderIt(h) \/ TwoOfBranch(h))
    <2>1. Busy(h) /\ step[h] # "timed_out"
      BY <1>1 DEF MustBeHeard
    <2>2. Reacts(h) /\ Reached(Pr(h))
      BY <1>1, <2>1, HasWorker DEF MustBeHeard, MainsStand, Reacts, Reached
    <2>3. GoesOn(h)
      <3>1. step[h]' # step[h]
        BY <1>1, <2>1 DEF Busy
      <3> QED BY <1>1, <2>1, <3>1, EachStep
    <2>4. step[h]' \in {"done", "failed"}
      BY <1>1, <2>3 DEF GoesOn, Busy
    <2> QED BY <1>1, <2>2, <2>3, <2>4 DEF GoesOn, Addressed
  <1>2. HookInv /\ [HookNext]_hookVars =>
          [\A h \in Handlers :
             MustBeHeard(h) /\ MainsStand(h) /\ ~Busy(h)' /\ wrote'[h] = Nobody =>
                step'[h] = "failed" /\ (DeletedUnderIt(h) \/ TwoOfBranch(h))]_hookVars
    BY <1>1
  <1> QED BY <1>2, HookInvariant, PTL DEF HookSpec, NoSilentDrop

\* A webhook of a repository that is no project is addressed at most to the owner of a task
\* that carries its PR, and only its addressee is told.
THEOREM ForeignAlwaysUnheard == HookSpec => ForeignUnheard
  <1>1. ASSUME HookInv, [HookNext]_hookVars, NEW h \in Handlers, Busy(h), Tracks[Pr(h)] = {}
        PROVE  /\ to'[h] \notin {to[h], Nobody} => \E t \in Carriers(Pr(h), Projects) : to'[h] = OwnerOf[t]
               /\ wrote'[h] \in {wrote[h], to[h]}
    <2>1. GoesOn(h) \/ (step[h]' = step[h] /\ to[h]' = to[h] /\ wrote[h]' = wrote[h])
      BY <1>1, EachStep
    <2> QED BY <1>1, <2>1 DEF GoesOn, Addressed
  <1>2. HookInv /\ [HookNext]_hookVars =>
          [\A h \in Handlers : Busy(h) /\ Tracks[Pr(h)] = {} =>
             /\ to'[h] \notin {to[h], Nobody} => \E t \in Carriers(Pr(h), Projects) : to'[h] = OwnerOf[t]
             /\ wrote'[h] \in {wrote[h], to[h]}]_hookVars
    BY <1>1
  <1> QED BY <1>2, HookInvariant, PTL DEF HookSpec, ForeignUnheard

\* _update_pr_head_sha puts an older SHA of a PR over a newer one only for a delivery that was
\* disordered: the newer SHA was reported to another handler of the PR.
THEOREM HeadNeverGoesBack == HookSpec => HeadNeverRollsBack
  <1>1. ASSUME HookInv, [HookNext]_hookVars, NEW t \in Tasks, head[t] # 0, head'[t] # 0,
               sent[head[t]].pr = sent[head'[t]].pr, head'[t] < head[t]
        PROVE  head'[t] \in late
    <2>1. ~(head[t] < head[t])
      BY <1>1 DEF HookInv, HookTypeOK
    <2>2. PICK h \in Handlers : GoesOn(h) /\ step[h] = "set" /\ head[t]' = job[h]
      BY <1>1, <2>1, EachStep
    <2>3. Heads(h) /\ Busy(h)
      BY <1>1, <2>2 DEF GoesOn, Heads, HookInv, Handling
    <2>4. PICK g \in Handlers : Heads(g) /\ job[g] = head[t]
      BY <1>1 DEF HookInv, Reported
    <2>5. Pr(g) = Pr(h)
      BY <1>1, <2>2, <2>4 DEF Pr
    <2> QED BY <1>1, <2>2, <2>3, <2>4, <2>5 DEF HookInv, LateKnown
  <1>2. HookInv /\ [HookNext]_hookVars =>
          [\A t \in Tasks :
             head[t] # 0 /\ head'[t] # 0 /\ sent[head[t]].pr = sent[head'[t]].pr /\ head'[t] < head[t] =>
                head'[t] \in late]_hookVars
    BY <1>1
  <1> QED BY <1>2, HookInvariant, PTL DEF HookSpec, HeadNeverRollsBack
=============================================================================
