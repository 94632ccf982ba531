------------------------ MODULE ReviewCheckoutProofs ------------------------
(* The invariants of ReviewCheckout, for any number of server processes, commits and *)
(* deployments.                                                                      *)
EXTENDS ReviewCheckout, TLAPS

-----------------------------------------------------------------------------
(* Types, and what a process holds at each step *)

Chosen == {"checkout", "unstick", "add", "adding", "fetch", "stale"}
Rooted == {"closing", "reading"}

\* A review has its commit from the start, its tree while a checkout is sought, and its root
\* from the end of the resolution; a root that is a checkout is the one of its own commit.
Progress ==
    \A k \in Processes :
        /\ step[k] # "idle" => sha[k] \in Shas
        /\ step[k] \in Chosen => candidate[k] \in Trees
        /\ step[k] \in Rooted => root[k] \in Trees \cup Shas
        /\ step[k] = "cleanup" => root[k] \in Shas
        /\ root[k] \in Shas => root[k] = sha[k] /\ step[k] \in Rooted \cup {"cleanup"}

LEMMA CandidatesTyped == Candidates \subseteq Trees /\ DegradedRoots \subseteq Trees
  BY DEF Candidates, DegradedRoots, HostTree, Trees

LEMMA TypeInit == Init => TypeOK /\ Progress
  <1> SUFFICES ASSUME Init PROVE TypeOK /\ Progress
    OBVIOUS
  <1>1. TypeOK
    BY CheckoutAssumption DEF Init, TypeOK, Steps
  <1>2. Progress
    BY CheckoutAssumption DEF Init, Progress, Chosen, Rooted
  <1> QED BY <1>1, <1>2

LEMMA TypeStep == TypeOK /\ Progress /\ [Next]_vars => TypeOK' /\ Progress'
  <1> SUFFICES ASSUME TypeOK, Progress, [Next]_vars PROVE TypeOK' /\ Progress'
    OBVIOUS
  <1> USE CheckoutAssumption
  <1>n. NoTree \notin Trees \cup Shas /\ Trees \cap Shas = {} /\ NoSha \notin Shas
    OBVIOUS
  \* The review of one process goes on: it is enough to look at that process.
  <1>r. ASSUME NEW k \in Processes,
               NEW st \in Steps, NEW sh \in Shas \cup {NoSha}, NEW ca \in Trees \cup {NoTree},
               NEW ro \in Trees \cup Shas \cup {NoTree},
               step' = [step EXCEPT ![k] = st], sha' = [sha EXCEPT ![k] = sh],
               candidate' = [candidate EXCEPT ![k] = ca], root' = [root EXCEPT ![k] = ro],
               st # "idle" => sh \in Shas,
               st \in Chosen => ca \in Trees,
               st \in Rooted => ro \in Trees \cup Shas,
               st = "cleanup" => ro \in Shas,
               ro \in Shas => ro = sh /\ st \in Rooted \cup {"cleanup"}
        PROVE  /\ step' \in [Processes -> Steps]
               /\ sha' \in [Processes -> Shas \cup {NoSha}]
               /\ candidate' \in [Processes -> Trees \cup {NoTree}]
               /\ root' \in [Processes -> Trees \cup Shas \cup {NoTree}]
               /\ Progress'
    <2>1. /\ step' \in [Processes -> Steps]
          /\ sha' \in [Processes -> Shas \cup {NoSha}]
          /\ candidate' \in [Processes -> Trees \cup {NoTree}]
          /\ root' \in [Processes -> Trees \cup Shas \cup {NoTree}]
      BY <1>r DEF TypeOK
    <2>2. ASSUME NEW j \in Processes
          PROVE  /\ step'[j] # "idle" => sha'[j] \in Shas
                 /\ step'[j] \in Chosen => candidate'[j] \in Trees
                 /\ step'[j] \in Rooted => root'[j] \in Trees \cup Shas
                 /\ step'[j] = "cleanup" => root'[j] \in Shas
                 /\ root'[j] \in Shas => root'[j] = sha'[j] /\ step'[j] \in Rooted \cup {"cleanup"}
      <3>1. CASE j = k
        <4>1. step'[j] = st /\ sha'[j] = sh /\ candidate'[j] = ca /\ root'[j] = ro
          BY <1>r, <3>1 DEF TypeOK
        <4> QED BY <1>r, <4>1
      <3>2. CASE j # k
        <4>1. step'[j] = step[j] /\ sha'[j] = sha[j] /\ candidate'[j] = candidate[j] /\ root'[j] = root[j]
          BY <1>r, <3>2 DEF TypeOK
        <4> QED BY <4>1 DEF Progress
      <3> QED BY <3>1, <3>2
    <2> QED BY <2>1, <2>2 DEF Progress
  <1>k. \A k \in Processes : /\ step[k] \in Steps /\ sha[k] \in Shas \cup {NoSha}
                             /\ candidate[k] \in Trees \cup {NoTree}
                             /\ root[k] \in Trees \cup Shas \cup {NoTree}
    BY DEF TypeOK
  <1>e. \A k \in Processes : /\ step = [step EXCEPT ![k] = step[k]] /\ sha = [sha EXCEPT ![k] = sha[k]]
                             /\ candidate = [candidate EXCEPT ![k] = candidate[k]]
                             /\ root = [root EXCEPT ![k] = root[k]]
    BY DEF TypeOK
  <1>p. \A k \in Processes :
        /\ step[k] # "idle" => sha[k] \in Shas
        /\ step[k] \in Chosen => candidate[k] \in Trees
        /\ step[k] \in Rooted => root[k] \in Trees \cup Shas
        /\ step[k] = "cleanup" => root[k] \in Shas
        /\ root[k] \in Shas => root[k] = sha[k] /\ step[k] \in Rooted \cup {"cleanup"}
    BY DEF Progress
  <1>1. ASSUME NEW k \in Processes, NEW s \in Shas, Start(k, s) PROVE TypeOK' /\ Progress'
    <2>1. /\ step' = [step EXCEPT ![k] = "resolve"] /\ sha' = [sha EXCEPT ![k] = s]
          /\ UNCHANGED <<candidate, root>> /\ step[k] = "idle"
      BY <1>1 DEF Start, Go
    <2>2. /\ step' \in [Processes -> Steps]
          /\ sha' \in [Processes -> Shas \cup {NoSha}]
          /\ candidate' \in [Processes -> Trees \cup {NoTree}]
          /\ root' \in [Processes -> Trees \cup Shas \cup {NoTree}]
          /\ Progress'
      <3>1. root[k] \notin Shas /\ "resolve" \in Steps /\ "resolve" \notin Chosen
         /\ "resolve" \notin Rooted \cup {"cleanup"}
        BY <1>p, <2>1 DEF Steps, Chosen, Rooted
      <3> QED BY <1>r, <1>k, <1>e, <2>1, <3>1
    <2>3. /\ disturbed' \subseteq Shas /\ reviews' \in 0..MaxReviews
          /\ UNCHANGED <<cfg, tree, fetched, dir, attempt, again, orphans, moves, left>>
      BY <1>1 DEF Start, TypeOK, files
    <2> QED BY <2>2, <2>3 DEF TypeOK
  \* The steps of a review that leave its commit and the counters alone.
  <1>q. ASSUME NEW k \in Processes, NEW st \in Steps, NEW ca \in Trees \cup {NoTree},
               NEW ro \in Trees \cup Shas \cup {NoTree}, step[k] # "idle",
               step' = [step EXCEPT ![k] = st], sha' = sha,
               candidate' = [candidate EXCEPT ![k] = ca], root' = [root EXCEPT ![k] = ro],
               st \in Chosen => ca \in Trees,
               st \in Rooted => ro \in Trees \cup {sha[k]},
               st = "cleanup" => ro = sha[k],
               ro \in Shas => ro = sha[k] /\ st \in Rooted \cup {"cleanup"},
               fetched' \subseteq Shas, dir' \in [Shas -> {"none", "partial", "ready"}],
               attempt' \in [Processes -> 0..2], again' \subseteq Processes,
               disturbed' \subseteq Shas, UNCHANGED <<cfg, tree, orphans, reviews, moves, left>>
        PROVE  TypeOK' /\ Progress'
    <2>1. sha[k] \in Shas /\ sha' = [sha EXCEPT ![k] = sha[k]]
      BY <1>q, <1>p, <1>e
    <2>2. /\ step' \in [Processes -> Steps]
          /\ sha' \in [Processes -> Shas \cup {NoSha}]
          /\ candidate' \in [Processes -> Trees \cup {NoTree}]
          /\ root' \in [Processes -> Trees \cup Shas \cup {NoTree}]
          /\ Progress'
      BY <1>r, <1>q, <2>1
    <2> QED BY <1>q, <2>2 DEF TypeOK
  <1>2. ASSUME NEW k \in Processes, Refuse(k) PROVE TypeOK' /\ Progress'
    <2>1. /\ step[k] = "resolve" /\ step' = [step EXCEPT ![k] = "idle"]
          /\ UNCHANGED <<cfg, tree, fetched, dir, sha, candidate, root, attempt, again, orphans, reviews,
                         moves, disturbed, left>>
      BY <1>2 DEF Refuse, Go, Quiet, files, bounds, history
    <2>2. root[k] \notin Shas /\ "idle" \in Steps /\ "idle" \notin Chosen \cup Rooted \cup {"cleanup"}
      BY <1>p, <2>1 DEF Steps, Chosen, Rooted
    <2>3. /\ fetched' \subseteq Shas /\ dir' \in [Shas -> {"none", "partial", "ready"}]
          /\ attempt' \in [Processes -> 0..2] /\ again' \subseteq Processes /\ disturbed' \subseteq Shas
      BY <2>1 DEF TypeOK
    <2> QED BY <1>q, <1>k, <1>e, <2>1, <2>2, <2>3
  <1>3. ASSUME NEW k \in Processes, Resolve(k) PROVE TypeOK' /\ Progress'
    <2>1. PICK t \in Candidates :
            /\ candidate' = [candidate EXCEPT ![k] = t]
            /\ IF tree[t] \in {Gone, sha[k]}
               THEN root' = [root EXCEPT ![k] = t] /\ Go(k, "closing")
               ELSE UNCHANGED root /\ Go(k, "checkout")
      BY <1>3 DEF Resolve
    <2>2. /\ step[k] = "resolve" /\ t \in Trees /\ t \notin Shas /\ root[k] \notin Shas
          /\ UNCHANGED <<cfg, tree, fetched, dir, sha, attempt, again, orphans, reviews, moves, disturbed, left>>
      BY <1>3, <1>n, <1>p, CandidatesTyped DEF Resolve, Quiet, files, bounds, history, Rooted
    <2>5. /\ fetched' \subseteq Shas /\ dir' \in [Shas -> {"none", "partial", "ready"}]
          /\ attempt' \in [Processes -> 0..2] /\ again' \subseteq Processes /\ disturbed' \subseteq Shas
      BY <2>2 DEF TypeOK
    <2>3. CASE tree[t] \in {Gone, sha[k]}
      <3>1. /\ root' = [root EXCEPT ![k] = t] /\ step' = [step EXCEPT ![k] = "closing"]
            /\ "closing" \in Steps /\ "closing" \notin Chosen /\ "closing" # "cleanup"
        BY <2>1, <2>3 DEF Go, Steps, Chosen
      <3> QED BY <1>q, <2>1, <2>2, <2>5, <3>1
    <2>4. CASE tree[t] \notin {Gone, sha[k]}
      <3>1. /\ root' = root /\ step' = [step EXCEPT ![k] = "checkout"] /\ "checkout" \in Steps
            /\ "checkout" \notin Rooted \cup {"cleanup"}
        BY <2>1, <2>4 DEF Go, Steps, Rooted
      <3> QED BY <1>q, <1>e, <1>k, <2>1, <2>2, <2>5, <3>1
    <2> QED BY <2>3, <2>4
  <1>4. ASSUME NEW k \in Processes, ResolveDegraded(k) PROVE TypeOK' /\ Progress'
    <2>1. PICK t \in DegradedRoots : root' = [root EXCEPT ![k] = t]
      BY <1>4 DEF ResolveDegraded
    <2>2. /\ step[k] = "resolve" /\ t \in Trees /\ t \notin Shas
          /\ step' = [step EXCEPT ![k] = "reading"] /\ attempt' = [attempt EXCEPT ![k] = 1]
          /\ UNCHANGED <<cfg, tree, fetched, dir, sha, candidate, again, orphans, reviews, moves, disturbed, left>>
          /\ "reading" \in Steps /\ "reading" \notin Chosen /\ "reading" # "cleanup"
      BY <1>4, <1>n, CandidatesTyped DEF ResolveDegraded, Go, Quiet, files, bounds, history, Steps, Chosen
    <2>3. /\ attempt' \in [Processes -> 0..2] /\ again' \subseteq Processes /\ disturbed' \subseteq Shas
          /\ fetched' \subseteq Shas /\ dir' \in [Shas -> {"none", "partial", "ready"}]
      BY <2>2 DEF TypeOK
    <2> QED BY <1>q, <1>e, <1>k, <2>1, <2>2, <2>3
  \* A step that stays before the end of the resolution, or comes to it with a tree or the checkout
  <1>5. ASSUME NEW k \in Processes, NEW st \in Chosen, step[k] \in Chosen,
               \/ step' = [step EXCEPT ![k] = st] /\ root' = root
               \/ step' = [step EXCEPT ![k] = "closing"] /\ root' = [root EXCEPT ![k] = sha[k]]
               \/ step' = [step EXCEPT ![k] = "closing"] /\ root' = [root EXCEPT ![k] = candidate[k]],
               fetched' \subseteq Shas, dir' \in [Shas -> {"none", "partial", "ready"}],
               again' \subseteq Processes, disturbed' \subseteq Shas,
               UNCHANGED <<cfg, tree, sha, candidate, attempt, orphans, reviews, moves, left>>
        PROVE  TypeOK' /\ Progress'
    <2>1. /\ step[k] # "idle" /\ candidate[k] \in Trees /\ candidate[k] \notin Shas
          /\ sha[k] \in Shas /\ root[k] \notin Shas
          /\ st \in Steps /\ "closing" \in Steps /\ "closing" \notin Chosen /\ "closing" \in Rooted
          /\ st \notin Rooted \cup {"cleanup"} /\ attempt \in [Processes -> 0..2]
      BY <1>5, <1>n, <1>p DEF Chosen, Rooted, Steps, TypeOK
    <2>2. CASE step' = [step EXCEPT ![k] = st] /\ root' = root
      BY <1>q, <1>e, <1>k, <1>5, <2>1, <2>2
    <2>3. CASE step' = [step EXCEPT ![k] = "closing"] /\ root' = [root EXCEPT ![k] = sha[k]]
      BY <1>q, <1>e, <1>k, <1>5, <2>1, <2>3
    <2>4. CASE step' = [step EXCEPT ![k] = "closing"] /\ root' = [root EXCEPT ![k] = candidate[k]]
      BY <1>q, <1>e, <1>k, <1>5, <2>1, <2>4
    <2> QED BY <1>5, <2>2, <2>3, <2>4
  <1>6. ASSUME NEW k \in Processes, FindCheckout(k) PROVE TypeOK' /\ Progress'
    <2>1. /\ step[k] \in Chosen /\ {"fetch", "add", "unstick"} \subseteq Chosen
          /\ \/ step' = [step EXCEPT ![k] = "fetch"] /\ root' = root
             \/ step' = [step EXCEPT ![k] = "add"] /\ root' = root
             \/ step' = [step EXCEPT ![k] = "unstick"] /\ root' = root
             \/ step' = [step EXCEPT ![k] = "closing"] /\ root' = [root EXCEPT ![k] = sha[k]]
          /\ UNCHANGED <<cfg, tree, fetched, dir, sha, candidate, attempt, again, orphans, reviews, moves,
                         disturbed, left>>
      BY <1>6 DEF FindCheckout, UseCheckout, Go, Quiet, files, bounds, history, Chosen
    <2>2. /\ fetched' \subseteq Shas /\ dir' \in [Shas -> {"none", "partial", "ready"}]
          /\ again' \subseteq Processes /\ disturbed' \subseteq Shas
      BY <2>1 DEF TypeOK
    <2> QED BY <1>5, <2>1, <2>2
  <1>7. ASSUME NEW k \in Processes, Unstick(k) PROVE TypeOK' /\ Progress'
    <2>1. /\ step[k] \in Chosen /\ {"add", "stale"} \subseteq Chosen
          /\ step' = [step EXCEPT ![k] = "add"] \/ step' = [step EXCEPT ![k] = "stale"]
          /\ UNCHANGED <<cfg, tree, fetched, sha, candidate, root, attempt, again, orphans, reviews, moves,
                         disturbed, left>>
      BY <1>7 DEF Unstick, Go, Quiet, files, bounds, history, Chosen
    <2>2. /\ fetched' \subseteq Shas /\ dir' \in [Shas -> {"none", "partial", "ready"}]
          /\ again' \subseteq Processes /\ disturbed' \subseteq Shas
      BY <1>7, <2>1 DEF TypeOK, Unstick
    <2> QED BY <1>5, <2>1, <2>2
  <1>f. \A k \in Processes : AfterFailure(k) \in Chosen
    BY DEF AfterFailure, Chosen
  <1>8. ASSUME NEW k \in Processes, AddStarts(k) PROVE TypeOK' /\ Progress'
    <2>1. /\ step[k] \in Chosen /\ "adding" \in Chosen
          /\ \/ step' = [step EXCEPT ![k] = "adding"]
             \/ step' = [step EXCEPT ![k] = AfterFailure(k)]
          /\ UNCHANGED <<cfg, tree, fetched, sha, candidate, root, attempt, again, orphans, reviews, moves,
                         disturbed, left>>
      BY <1>8 DEF AddStarts, Go, Quiet, files, bounds, history, Chosen
    <2>2. /\ fetched' \subseteq Shas /\ dir' \in [Shas -> {"none", "partial", "ready"}]
          /\ again' \subseteq Processes /\ disturbed' \subseteq Shas
      BY <1>8, <2>1 DEF TypeOK, AddStarts
    <2> QED BY <1>5, <1>f, <2>1, <2>2
  <1>9. ASSUME NEW k \in Processes, AddEnds(k) PROVE TypeOK' /\ Progress'
    <2>1. /\ step[k] \in Chosen /\ "add" \in Chosen
          /\ step' = [step EXCEPT ![k] = "closing"] /\ root' = [root EXCEPT ![k] = sha[k]]
          /\ UNCHANGED <<cfg, tree, fetched, sha, candidate, attempt, again, orphans, reviews, moves,
                         disturbed, left>>
      BY <1>9 DEF AddEnds, UseCheckout, Go, Quiet, files, bounds, history, Chosen
    <2>2. /\ fetched' \subseteq Shas /\ dir' \in [Shas -> {"none", "partial", "ready"}]
          /\ again' \subseteq Processes /\ disturbed' \subseteq Shas
      BY <1>9, <2>1 DEF TypeOK, AddEnds
    <2> QED BY <1>5, <2>1, <2>2
  <1>10. ASSUME NEW k \in Processes, AddFails(k) PROVE TypeOK' /\ Progress'
    <2>1. /\ step[k] \in Chosen /\ sha[k] \in Shas
          /\ step' = [step EXCEPT ![k] = AfterFailure(k)]
          /\ disturbed' \in {disturbed, disturbed \cup {sha[k]}}
          /\ dir' \in {dir, [dir EXCEPT ![sha[k]] = "none"]}
          /\ UNCHANGED <<cfg, tree, fetched, sha, candidate, root, attempt, again, orphans, reviews, moves, left>>
      BY <1>10, <1>p DEF AddFails, Go, Disturb, bounds, Chosen
    <2>2. /\ fetched' \subseteq Shas /\ dir' \in [Shas -> {"none", "partial", "ready"}]
          /\ again' \subseteq Processes /\ disturbed' \subseteq Shas
      BY <2>1 DEF TypeOK
    <2> QED BY <1>5, <1>f, <2>1, <2>2
  <1>11. ASSUME NEW k \in Processes, Fetch(k) PROVE TypeOK' /\ Progress'
    <2>1. /\ step[k] \in Chosen /\ {"add", "stale"} \subseteq Chosen /\ sha[k] \in Shas
          /\ step' = [step EXCEPT ![k] = "add"] \/ step' = [step EXCEPT ![k] = "stale"]
          /\ fetched' \in {fetched, fetched \cup {sha[k]}} /\ again' \in {again, again \cup {k}}
          /\ UNCHANGED <<cfg, tree, dir, sha, candidate, root, attempt, orphans, reviews, moves,
                         disturbed, left>>
      BY <1>11, <1>p DEF Fetch, Go, Quiet, files, bounds, history, Chosen
    <2>2. /\ fetched' \subseteq Shas /\ dir' \in [Shas -> {"none", "partial", "ready"}]
          /\ again' \subseteq Processes /\ disturbed' \subseteq Shas
      BY <2>1 DEF TypeOK
    <2> QED BY <1>5, <2>1, <2>2
  <1>12. ASSUME NEW k \in Processes, ReadStale(k) PROVE TypeOK' /\ Progress'
    <2>1. /\ step[k] \in Chosen /\ "add" \in Chosen
          /\ step' = [step EXCEPT ![k] = "closing"] /\ root' = [root EXCEPT ![k] = candidate[k]]
          /\ UNCHANGED <<cfg, tree, fetched, dir, sha, candidate, attempt, again, orphans, reviews, moves,
                         disturbed, left>>
      BY <1>12 DEF ReadStale, Go, Quiet, files, bounds, history, Chosen
    <2>2. /\ fetched' \subseteq Shas /\ dir' \in [Shas -> {"none", "partial", "ready"}]
          /\ again' \subseteq Processes /\ disturbed' \subseteq Shas
      BY <2>1 DEF TypeOK
    <2> QED BY <1>5, <2>1, <2>2
  <1>h. ASSUME NEW k \in Processes, CloseQuery(k) PROVE TypeOK' /\ Progress'
    <2>1. /\ step[k] = "closing" /\ step' = [step EXCEPT ![k] = "reading"]
          /\ UNCHANGED <<cfg, tree, fetched, dir, sha, candidate, root, attempt, again, orphans, reviews,
                         moves, disturbed, left>>
      BY <1>h DEF CloseQuery, Go, Quiet, files, bounds, history
    <2>2. /\ "closing" \in Rooted /\ "reading" \in Rooted /\ "reading" \in Steps
          /\ "reading" \notin Chosen /\ "reading" # "cleanup"
      BY DEF Rooted, Steps, Chosen
    <2>3. root[k] \in Trees \cup {sha[k]} /\ (root[k] \in Shas => root[k] = sha[k])
      BY <1>p, <2>1, <2>2
    <2>4. /\ fetched' \subseteq Shas /\ dir' \in [Shas -> {"none", "partial", "ready"}]
          /\ attempt' \in [Processes -> 0..2] /\ again' \subseteq Processes /\ disturbed' \subseteq Shas
      BY <2>1 DEF TypeOK
    <2> QED BY <1>q, <1>e, <1>k, <2>1, <2>2, <2>3, <2>4
  <1>13. ASSUME NEW k \in Processes, TriesAgain(k) PROVE TypeOK' /\ Progress'
    BY <1>13 DEF TriesAgain, Quiet, files, bounds, history, TypeOK, Progress
  \* A review that ends, or comes to its cleanup
  <1>t. ASSUME NEW k \in Processes, NEW st \in {"idle", "cleanup"}, Reset(k, st),
               st = "cleanup" => root[k] \in Shas /\ step[k] # "idle",
               UNCHANGED <<cfg, fetched, reviews>>, tree' \in [Trees -> Shas \cup {Base, Gone}],
               dir' \in [Shas -> {"none", "partial", "ready"}],
               disturbed' \subseteq Shas, left' \subseteq Shas,
               orphans' \subseteq {"add", "remove", "read"} \X (Trees \cup Shas), moves' \in 0..MaxMoves
        PROVE  TypeOK' /\ Progress'
    <2>1. /\ step' = [step EXCEPT ![k] = st] /\ candidate' = [candidate EXCEPT ![k] = NoTree]
          /\ attempt' \in [Processes -> 0..2] /\ again' \subseteq Processes
          /\ st \in Steps /\ st \notin Chosen \cup Rooted
      BY <1>t DEF Reset, TypeOK, Steps, Chosen, Rooted
    <2>2. /\ step' \in [Processes -> Steps]
          /\ sha' \in [Processes -> Shas \cup {NoSha}]
          /\ candidate' \in [Processes -> Trees \cup {NoTree}]
          /\ root' \in [Processes -> Trees \cup Shas \cup {NoTree}]
          /\ Progress'
      <3>1. CASE st = "idle"
        <4>1. root' = [root EXCEPT ![k] = NoTree] /\ sha' = [sha EXCEPT ![k] = NoSha]
          BY <1>t, <3>1 DEF Reset
        <4> QED BY <1>r, <1>n, <2>1, <3>1, <4>1
      <3>2. CASE st = "cleanup"
        <4>1. /\ root' = [root EXCEPT ![k] = root[k]] /\ sha' = [sha EXCEPT ![k] = sha[k]]
              /\ root[k] = sha[k] /\ root[k] \in Shas
          BY <1>t, <1>e, <1>p, <3>2 DEF Reset
        <4> QED BY <1>r, <1>k, <2>1, <3>2, <4>1
      <3> QED BY <3>1, <3>2
    <2> QED BY <1>t, <2>1, <2>2 DEF TypeOK
  <1>c. \A k \in Processes : Child(k) \subseteq {"add", "remove", "read"} \X (Trees \cup Shas)
    BY <1>p DEF Child, Rooted
  <1>b. \A k \in Processes : LeftBehind(k) => left' \subseteq Shas
    BY <1>p DEF LeftBehind, IsTemp, TypeOK
  <1>i. ASSUME NEW k \in Processes, CloseFails(k) PROVE TypeOK' /\ Progress'
    <2>1. /\ UNCHANGED <<cfg, tree, fetched, dir, orphans, reviews, moves, disturbed>>
          /\ LeftBehind(k) /\ Reset(k, "idle")
      BY <1>i DEF CloseFails, files, bounds
    <2> QED BY <1>b, <1>t, <2>1 DEF TypeOK
  <1>14. ASSUME NEW k \in Processes, ReaderEnds(k) PROVE TypeOK' /\ Progress'
    BY <1>14, <1>t DEF ReaderEnds, IsTemp, Quiet, files, bounds, history, TypeOK
  <1>15. ASSUME NEW k \in Processes, Cleanup(k) PROVE TypeOK' /\ Progress'
    <2>1. root[k] \in Shas
      BY <1>15, <1>p DEF Cleanup
    <2>2. /\ dir' \in [Shas -> {"none", "partial", "ready"}]
          /\ disturbed' \subseteq Shas /\ left' \subseteq Shas
      BY <1>15, <2>1 DEF Cleanup, Disturb, TypeOK
    <2> QED BY <1>15, <1>t, <2>2 DEF Cleanup, bounds, TypeOK
  <1>16. ASSUME NEW k \in Processes, Cancel(k) PROVE TypeOK' /\ Progress'
    <2>1. /\ moves' \in 0..MaxMoves /\ disturbed' \subseteq Shas /\ left' \subseteq Shas
          /\ orphans' \subseteq {"add", "remove", "read"} \X (Trees \cup Shas)
          /\ UNCHANGED <<cfg, tree, fetched, dir, reviews>> /\ step[k] # "idle"
      BY <1>16, <1>b, <1>c, <1>p DEF Cancel, Move, DisturbedByEnd, files, TypeOK
    <2>2. Reset(k, IF step[k] = "reading" /\ IsTemp(k) THEN "cleanup" ELSE "idle")
      BY <1>16 DEF Cancel
    <2> QED BY <1>t, <2>1, <2>2 DEF IsTemp, TypeOK
  <1>17. ASSUME NEW k \in Processes, Crash(k) PROVE TypeOK' /\ Progress'
    <2>1. /\ moves' \in 0..MaxMoves /\ disturbed' \subseteq Shas /\ left' \subseteq Shas
          /\ orphans' \subseteq {"add", "remove", "read"} \X (Trees \cup Shas)
          /\ UNCHANGED <<cfg, tree, fetched, dir, reviews>> /\ Reset(k, "idle")
      BY <1>17, <1>c, <1>p DEF Crash, Move, files, TypeOK
    <2> QED BY <1>t, <2>1 DEF TypeOK
  <1>18. ASSUME NEW o \in orphans, OrphanEnds(o) PROVE TypeOK' /\ Progress'
    <2>1. dir' \in [Shas -> {"none", "partial", "ready"}]
      BY <1>18 DEF OrphanEnds, TypeOK
    <2> QED BY <1>18, <2>1 DEF OrphanEnds, review, bounds, history, TypeOK, Progress
  <1>19. ASSUME NEW t \in Trees, NEW s \in Shas, HeadMoves(t, s) PROVE TypeOK' /\ Progress'
    BY <1>19 DEF HeadMoves, Move, review, history, TypeOK, Progress
  <1>20. ASSUME NEW t \in Trees, TreeRemoved(t) PROVE TypeOK' /\ Progress'
    BY <1>20 DEF TreeRemoved, Move, review, files, history, TypeOK, Progress
  <1>21. CASE UNCHANGED vars
    BY <1>21 DEF vars, review, files, bounds, history, TypeOK, Progress
  <1> QED BY <1>1, <1>2, <1>3, <1>4, <1>6, <1>7, <1>8, <1>9, <1>10, <1>11, <1>12, <1>13, <1>14,
             <1>15, <1>16, <1>17, <1>18, <1>19, <1>20, <1>21, <1>h, <1>i DEF Next, Review

\* Every variable has its type.
THEOREM TypeCorrect == Spec => []TypeOK
  <1>1. Init => TypeOK /\ Progress
    BY TypeInit
  <1>2. (TypeOK /\ Progress) /\ [Next]_vars => (TypeOK /\ Progress)'
    BY TypeStep
  <1> QED BY <1>1, <1>2, PTL DEF Spec

-----------------------------------------------------------------------------
(* Checkouts *)

\* Process k makes, reads or removes the checkout of commit s.
Owns(k, s) ==
    /\ sha[k] = s
    /\ step[k] = "adding" \/ (step[k] \in Rooted \cup {"cleanup"} /\ root[k] = s)

\* Two reviews of a commit at once, and a git command that outlives its review, disturb
\* the commit; a directory of an undisturbed commit belongs to the review of that commit, or
\* was left behind complete, and stays so until the next review of the commit removes it.
Alone ==
    \A j, k \in Processes :
        j # k /\ step[j] # "idle" /\ step[k] # "idle" /\ sha[j] = sha[k] => sha[k] \in disturbed
OrphansDisturb == \A s \in Shas : Orphaned(s) => s \in disturbed
DirOwned ==
    \A s \in Shas : dir[s] # "none" /\ s \notin disturbed \cup left => \E k \in Processes : Owns(k, s)
LeftStands ==
    \A s \in left \ disturbed :
        /\ dir[s] = "ready"
        /\ \A k \in Processes : sha[k] = s => step[k] \notin {"unstick", "adding"}

CheckoutInv == Alone /\ OrphansDisturb /\ DirOwned /\ LeftStands /\ CheckoutStands

LEMMA CheckoutInit == Init => CheckoutInv
  BY DEF Init, CheckoutInv, Alone, OrphansDisturb, Orphaned, DirOwned, LeftStands, CheckoutStands

LEMMA CheckoutStep == TypeOK /\ Progress /\ CheckoutInv /\ [Next]_vars => CheckoutInv'
  <1> SUFFICES ASSUME TypeOK, Progress, CheckoutInv, [Next]_vars PROVE CheckoutInv'
    OBVIOUS
  <1>p. \A k \in Processes :
        /\ step[k] # "idle" => sha[k] \in Shas
        /\ step[k] = "cleanup" => root[k] \in Shas
        /\ root[k] \in Shas => root[k] = sha[k] /\ step[k] \in Rooted \cup {"cleanup"}
    BY DEF Progress
  <1>a. \A j, k \in Processes :
           j # k /\ step[j] # "idle" /\ step[k] # "idle" /\ sha[j] = sha[k] => sha[k] \in disturbed
    BY DEF CheckoutInv, Alone
  <1>w. \A s \in Shas : dir[s] # "none" /\ s \notin disturbed \cup left => \E k \in Processes : Owns(k, s)
    BY DEF CheckoutInv, DirOwned
  <1>v. \A k \in Processes :
           step[k] \in Rooted /\ root[k] \in Shas /\ root[k] \notin disturbed => dir[root[k]] = "ready"
    BY DEF CheckoutInv, CheckoutStands, IsTemp, Rooted
  <1>z. \A s \in left \ disturbed :
           /\ dir[s] = "ready"
           /\ \A k \in Processes : sha[k] = s => step[k] \notin {"unstick", "adding"}
    BY DEF CheckoutInv, LeftStands
  <1>o. \A s \in Shas : Orphaned(s) => s \in disturbed
    BY DEF CheckoutInv, OrphansDisturb
  \* A review that does not own the directory of its undisturbed commit finds none, unless
  \* one was left behind.
  <1>d. \A k \in Processes :
           step[k] # "idle" /\ ~Owns(k, sha[k]) /\ sha[k] \notin disturbed \cup left => dir[sha[k]] = "none"
    <2> SUFFICES ASSUME NEW k \in Processes, step[k] # "idle", ~Owns(k, sha[k]),
                        sha[k] \notin disturbed \cup left, dir[sha[k]] # "none"
                 PROVE  FALSE
      OBVIOUS
    <2>1. PICK j \in Processes : Owns(j, sha[k])
      BY <1>p, <1>w
    <2>2. j # k /\ step[j] # "idle" /\ sha[j] = sha[k]
      BY <2>1, <1>p DEF Owns, Rooted
    <2> QED BY <1>a, <2>2
  \* A step of the review of k touches the directory of its own commit only: what is to be
  \* shown is that the commit is disturbed, or that k owns what is there or leaves it complete.
  <1>l. ASSUME NEW k \in Processes, step[k] # "idle",
               \A j \in Processes : j # k => step'[j] = step[j] /\ sha'[j] = sha[j] /\ root'[j] = root[j],
               step'[k] # "idle" => sha'[k] = sha[k],
               \A s \in Shas : s # sha[k] => dir'[s] = dir[s],
               disturbed \subseteq disturbed', left' \subseteq left \cup {sha[k]},
               left \subseteq left' \cup {sha[k]},
               \A s \in Shas : Orphaned(s)' => Orphaned(s) \/ s \in disturbed',
               step'[k] \in Rooted /\ root'[k] \in Shas => root'[k] = sha[k],
               sha[k] \notin disturbed' =>
                  /\ step'[k] \in Rooted /\ root'[k] = sha[k] => dir'[sha[k]] = "ready"
                  /\ dir'[sha[k]] # "none" => sha[k] \in left' \/ Owns(k, sha[k])'
                  /\ sha[k] \in left' => dir'[sha[k]] = "ready" /\ step'[k] \notin {"unstick", "adding"}
        PROVE  CheckoutInv'
    <2>1. Alone'
      <3> SUFFICES ASSUME NEW i \in Processes, NEW j \in Processes, i # j,
                          step'[i] # "idle", step'[j] # "idle", sha'[i] = sha'[j]
                   PROVE  sha'[j] \in disturbed'
        BY DEF Alone
      <3>1. /\ step[i] # "idle" /\ step[j] # "idle" /\ sha[i] = sha'[i] /\ sha[j] = sha'[j]
        BY <1>l
      <3> QED BY <1>a, <1>l, <3>1
    <2>2. OrphansDisturb'
      BY <1>l, <1>o DEF OrphansDisturb
    <2>3. DirOwned'
      <3> SUFFICES ASSUME NEW s \in Shas, dir'[s] # "none", s \notin disturbed' \cup left'
                   PROVE  \E j \in Processes : Owns(j, s)'
        BY DEF DirOwned
      <3>1. CASE s = sha[k]
        <4>1. Owns(k, s)'
          BY <1>l, <3>1 DEF Owns, Rooted
        <4> QED BY <4>1
      <3>2. CASE s # sha[k]
        <4>1. PICK j \in Processes : Owns(j, s)
          BY <1>l, <1>w, <3>2
        <4>2. j # k
          BY <3>2, <4>1 DEF Owns
        <4> QED BY <1>l, <4>1, <4>2 DEF Owns
      <3> QED BY <3>1, <3>2
    <2>4. CheckoutStands'
      <3> SUFFICES ASSUME NEW j \in Processes, step'[j] \in Rooted, root'[j] \in Shas,
                          root'[j] \notin disturbed'
                   PROVE  dir'[root'[j]] = "ready"
        BY DEF CheckoutStands, IsTemp, Rooted
      <3>1. CASE j = k
        BY <1>l, <3>1
      <3>2. CASE j # k
        <4>1. /\ step[j] \in Rooted /\ step[j] # "idle" /\ root[j] = root'[j] /\ root[j] \in Shas /\ sha[j] = root[j]
              /\ root[j] \notin disturbed
          BY <1>l, <1>p, <3>2 DEF Rooted
        <4>2. sha[j] # sha[k]
          BY <1>a, <1>l, <3>2, <4>1
        <4> QED BY <1>l, <1>v, <4>1, <4>2
      <3> QED BY <3>1, <3>2
    <2>5. LeftStands'
      <3> SUFFICES ASSUME NEW s \in left', s \notin disturbed'
                   PROVE  /\ dir'[s] = "ready"
                          /\ \A j \in Processes : sha'[j] = s => step'[j] \notin {"unstick", "adding"}
        BY DEF LeftStands
      <3>1. CASE s = sha[k]
        <4>1. ASSUME NEW j \in Processes, sha'[j] = s, j # k PROVE step'[j] \notin {"unstick", "adding"}
          BY <1>a, <1>l, <3>1, <4>1
        <4> QED BY <1>l, <3>1, <4>1
      <3>2. CASE s # sha[k]
        <4>1. s \in left \ disturbed /\ s \in Shas
          BY <1>l, <3>2 DEF TypeOK
        <4>2. ASSUME NEW j \in Processes, sha'[j] = s PROVE step'[j] \notin {"unstick", "adding"}
          BY <1>l, <1>z, <3>2, <4>1, <4>2
        <4> QED BY <1>l, <1>z, <3>2, <4>1, <4>2
      <3> QED BY <3>1, <3>2
    <2> QED BY <2>1, <2>2, <2>3, <2>4, <2>5 DEF CheckoutInv
  <1>1. ASSUME NEW k \in Processes, NEW s \in Shas, Start(k, s) PROVE CheckoutInv'
    <2>1. /\ step[k] = "idle" /\ step' = [step EXCEPT ![k] = "resolve"] /\ sha' = [sha EXCEPT ![k] = s]
          /\ disturbed' = (IF Working(s) # {} THEN disturbed \cup {s} ELSE disturbed)
          /\ UNCHANGED <<dir, root, orphans, left>>
      BY <1>1 DEF Start, Go, files
    <2>2. /\ \A j \in Processes : j # k => step'[j] = step[j] /\ sha'[j] = sha[j]
          /\ step'[k] = "resolve" /\ sha'[k] = s
          /\ disturbed \subseteq disturbed'
          /\ \A j \in Processes : step[j] # "idle" /\ sha[j] = s => s \in disturbed'
      BY <2>1 DEF Working, TypeOK
    <2>3. Alone'
      BY <1>a, <2>2 DEF Alone
    <2>4. OrphansDisturb'
      BY <1>o, <2>1, <2>2 DEF OrphansDisturb, Orphaned
    <2>5. DirOwned'
      <3> SUFFICES ASSUME NEW r \in Shas, dir[r] # "none", r \notin disturbed \cup left
                   PROVE  \E j \in Processes : Owns(j, r)'
        BY <2>1, <2>2 DEF DirOwned
      <3>1. PICK j \in Processes : Owns(j, r)
        BY <1>w
      <3>2. j # k
        BY <2>1, <3>1 DEF Owns, Rooted
      <3> QED BY <2>1, <2>2, <3>1, <3>2 DEF Owns
    <2>6. CheckoutStands'
      BY <1>v, <2>1, <2>2 DEF CheckoutStands, IsTemp, Rooted
    <2>7. LeftStands'
      BY <1>z, <2>1, <2>2 DEF LeftStands
    <2> QED BY <2>3, <2>4, <2>5, <2>6, <2>7 DEF CheckoutInv
  \* A step of the resolution or of the checkout, with the directory as it was
  <1>s. ASSUME NEW k \in Processes, step[k] # "idle", ~Owns(k, sha[k]), NEW st \in Steps,
               step' = [step EXCEPT ![k] = st], UNCHANGED <<sha, dir, orphans, left>>,
               disturbed' = disturbed,
               \A j \in Processes : j # k => root'[j] = root[j],
               st # "adding", st = "unstick" => dir[sha[k]] # "ready",
               st \in Rooted /\ root'[k] \in Shas => root'[k] = sha[k] /\ dir[sha[k]] # "none"
        PROVE  CheckoutInv'
    <2>1. /\ \A j \in Processes : j # k => step'[j] = step[j] /\ sha'[j] = sha[j] /\ root'[j] = root[j]
          /\ step'[k] = st /\ sha'[k] = sha[k]
          /\ \A r \in Shas : Orphaned(r)' => Orphaned(r)
      BY <1>s DEF TypeOK, Orphaned
    <2>2. sha[k] \notin disturbed =>
             /\ dir[sha[k]] # "none" => sha[k] \in left
             /\ sha[k] \in left => dir[sha[k]] = "ready"
      BY <1>d, <1>s, <1>z
    <2> QED BY <1>l, <1>p, <1>s, <2>1, <2>2
  <1>2. ASSUME NEW k \in Processes, Refuse(k) PROVE CheckoutInv'
    <2>1. /\ step[k] = "resolve" /\ step' = [step EXCEPT ![k] = "idle"]
          /\ UNCHANGED <<dir, sha, root, orphans, disturbed, left>>
      BY <1>2 DEF Refuse, Go, Quiet, files, history
    <2>2. step[k] # "idle" /\ ~Owns(k, sha[k]) /\ "idle" \in Steps /\ "idle" \notin Rooted
      BY <2>1 DEF Owns, Rooted, Steps
    <2> QED BY <1>s, <2>1, <2>2
  <1>3. ASSUME NEW k \in Processes, Resolve(k) PROVE CheckoutInv'
    <2>1. PICK t \in Candidates : IF tree[t] \in {Gone, sha[k]}
                                  THEN root' = [root EXCEPT ![k] = t] /\ Go(k, "closing")
                                  ELSE UNCHANGED root /\ Go(k, "checkout")
      BY <1>3 DEF Resolve
    <2>2. /\ step[k] = "resolve" /\ t \notin Shas
          /\ UNCHANGED <<dir, sha, orphans, disturbed, left>>
      BY <1>3, CandidatesTyped, CheckoutAssumption DEF Resolve, Quiet, files, history
    <2>3. /\ step[k] # "idle" /\ ~Owns(k, sha[k]) /\ {"closing", "checkout"} \subseteq Steps
          /\ "checkout" \notin Rooted
      BY <2>2 DEF Owns, Rooted, Steps
    <2>4. CASE tree[t] \in {Gone, sha[k]}
      <3>1. step' = [step EXCEPT ![k] = "closing"] /\ root' = [root EXCEPT ![k] = t]
        BY <2>1, <2>4 DEF Go
      <3>2. /\ \A j \in Processes : j # k => root'[j] = root[j]
            /\ root'[k] \notin Shas
        BY <2>2, <3>1 DEF TypeOK
      <3> QED BY <1>s, <2>2, <2>3, <3>1, <3>2
    <2>5. CASE tree[t] \notin {Gone, sha[k]}
      <3>1. step' = [step EXCEPT ![k] = "checkout"] /\ root' = root
        BY <2>1, <2>5 DEF Go
      <3> QED BY <1>s, <2>2, <2>3, <3>1
    <2> QED BY <2>4, <2>5
  <1>4. ASSUME NEW k \in Processes, ResolveDegraded(k) PROVE CheckoutInv'
    <2>1. PICK t \in DegradedRoots : root' = [root EXCEPT ![k] = t]
      BY <1>4 DEF ResolveDegraded
    <2>2. /\ step[k] = "resolve" /\ t \notin Shas /\ step' = [step EXCEPT ![k] = "reading"]
          /\ UNCHANGED <<dir, sha, orphans, disturbed, left>>
      BY <1>4, CandidatesTyped, CheckoutAssumption DEF ResolveDegraded, Go, Quiet, files, history
    <2>3. step[k] # "idle" /\ ~Owns(k, sha[k]) /\ "reading" \in Steps
      BY <2>2 DEF Owns, Rooted, Steps
    <2>4. /\ \A j \in Processes : j # k => root'[j] = root[j]
          /\ root'[k] \notin Shas
      BY <2>1, <2>2 DEF TypeOK
    <2> QED BY <1>s, <2>2, <2>3, <2>4
  <1>5. ASSUME NEW k \in Processes, FindCheckout(k) PROVE CheckoutInv'
    <2>1. /\ step[k] = "checkout" /\ UNCHANGED <<dir, sha, orphans, disturbed, left>>
          /\ \/ step' = [step EXCEPT ![k] = "fetch"] /\ root' = root
             \/ step' = [step EXCEPT ![k] = "add"] /\ root' = root
             \/ step' = [step EXCEPT ![k] = "unstick"] /\ root' = root /\ dir[sha[k]] # "ready"
             \/ /\ step' = [step EXCEPT ![k] = "closing"] /\ root' = [root EXCEPT ![k] = sha[k]]
                /\ dir[sha[k]] # "none"
      BY <1>5 DEF FindCheckout, ProbeCheckout, UseCheckout, Go, Quiet, files, history
    <2>2. /\ step[k] # "idle" /\ ~Owns(k, sha[k]) /\ {"fetch", "add", "unstick", "closing"} \subseteq Steps
          /\ {"fetch", "add", "unstick"} \cap Rooted = {}
      BY <2>1 DEF Owns, Rooted, Steps
    <2>3. CASE step' = [step EXCEPT ![k] = "fetch"] /\ root' = root
      BY <1>s, <2>1, <2>2, <2>3
    <2>4. CASE step' = [step EXCEPT ![k] = "add"] /\ root' = root
      BY <1>s, <2>1, <2>2, <2>4
    <2>5. CASE step' = [step EXCEPT ![k] = "unstick"] /\ root' = root /\ dir[sha[k]] # "ready"
      BY <1>s, <2>1, <2>2, <2>5
    <2>6. CASE /\ step' = [step EXCEPT ![k] = "closing"] /\ root' = [root EXCEPT ![k] = sha[k]]
               /\ dir[sha[k]] # "none"
      <3>1. /\ \A j \in Processes : j # k => root'[j] = root[j]
            /\ root'[k] = sha[k]
        BY <2>6 DEF TypeOK
      <3> QED BY <1>s, <2>1, <2>2, <2>6, <3>1
    <2> QED BY <2>1, <2>3, <2>4, <2>5, <2>6
  <1>6. ASSUME NEW k \in Processes, Unstick(k) PROVE CheckoutInv'
    <2>1. /\ step[k] = "unstick" /\ UNCHANGED <<root, sha, orphans, disturbed, left>>
          /\ step' = [step EXCEPT ![k] = "add"] \/ step' = [step EXCEPT ![k] = "stale"]
          /\ dir' \in {dir, [dir EXCEPT ![sha[k]] = "none"]}
      BY <1>6 DEF Unstick, Go, Quiet, history
    <2>2. /\ \A j \in Processes : j # k => step'[j] = step[j] /\ sha'[j] = sha[j] /\ root'[j] = root[j]
          /\ step'[k] \in {"add", "stale"} /\ step'[k] \notin Rooted
          /\ sha'[k] = sha[k] /\ step[k] # "idle" /\ ~Owns(k, sha[k])
          /\ \A r \in Shas : Orphaned(r)' => Orphaned(r)
          /\ \A r \in Shas : r # sha[k] => dir'[r] = dir[r]
      BY <2>1 DEF TypeOK, Orphaned, Owns, Rooted
    <2>3. sha[k] \notin disturbed => sha[k] \notin left
      BY <1>z, <2>1
    <2>4. sha[k] \notin disturbed => dir'[sha[k]] = "none"
      BY <1>d, <1>p, <2>1, <2>2, <2>3 DEF TypeOK
    <2> QED BY <1>l, <2>1, <2>2, <2>3, <2>4
  <1>f. \A k \in Processes : /\ AfterFailure(k) \in {"stale", "fetch"}
                             /\ {"stale", "fetch"} \subseteq Steps /\ {"stale", "fetch"} \cap Rooted = {}
    BY DEF AfterFailure, Steps, Rooted
  <1>7. ASSUME NEW k \in Processes, AddStarts(k) PROVE CheckoutInv'
    <2>1. /\ step[k] = "add" /\ UNCHANGED <<root, sha, orphans, disturbed, left>>
          /\ \/ /\ step' = [step EXCEPT ![k] = "adding"] /\ dir' = [dir EXCEPT ![sha[k]] = "partial"]
                /\ dir[sha[k]] = "none"
             \/ step' = [step EXCEPT ![k] = AfterFailure(k)] /\ dir' = dir
      BY <1>7 DEF AddStarts, Go, Quiet, history
    <2>2. step[k] # "idle" /\ ~Owns(k, sha[k]) /\ sha[k] \in Shas
      BY <1>p, <2>1 DEF Owns, Rooted
    <2>3. CASE step' = [step EXCEPT ![k] = AfterFailure(k)] /\ dir' = dir
      BY <1>f, <1>s, <2>1, <2>2, <2>3
    <2>4. CASE /\ step' = [step EXCEPT ![k] = "adding"] /\ dir' = [dir EXCEPT ![sha[k]] = "partial"]
               /\ dir[sha[k]] = "none"
      <3>1. /\ \A j \in Processes : j # k => step'[j] = step[j] /\ sha'[j] = sha[j] /\ root'[j] = root[j]
            /\ step'[k] = "adding" /\ sha'[k] = sha[k]
            /\ \A r \in Shas : Orphaned(r)' => Orphaned(r)
            /\ \A r \in Shas : r # sha[k] => dir'[r] = dir[r]
        BY <2>1, <2>4 DEF TypeOK, Orphaned
      <3>2. Owns(k, sha[k])' /\ (sha[k] \notin disturbed => sha[k] \notin left) /\ "adding" \notin Rooted
        BY <1>z, <2>2, <2>4, <3>1 DEF Owns, Rooted
      <3> QED BY <1>l, <2>1, <2>2, <3>1, <3>2
    <2> QED BY <2>1, <2>3, <2>4
  <1>8. ASSUME NEW k \in Processes, AddEnds(k) PROVE CheckoutInv'
    <2>1. /\ step[k] = "adding" /\ UNCHANGED <<sha, orphans, disturbed, left>>
          /\ step' = [step EXCEPT ![k] = "closing"] /\ root' = [root EXCEPT ![k] = sha[k]]
          /\ dir' = [dir EXCEPT ![sha[k]] = "ready"]
      BY <1>8 DEF AddEnds, UseCheckout, Go, Quiet, history
    <2>2. /\ \A j \in Processes : j # k => step'[j] = step[j] /\ sha'[j] = sha[j] /\ root'[j] = root[j]
          /\ sha'[k] = sha[k] /\ step'[k] = "closing" /\ root'[k] = sha[k] /\ step[k] # "idle"
          /\ \A r \in Shas : Orphaned(r)' => Orphaned(r)
          /\ \A r \in Shas : r # sha[k] => dir'[r] = dir[r]
      BY <2>1 DEF TypeOK, Orphaned
    <2>3. dir'[sha[k]] = "ready" /\ Owns(k, sha[k])'
      BY <1>p, <2>1, <2>2 DEF TypeOK, Owns, Rooted
    <2> QED BY <1>l, <2>1, <2>2, <2>3
  <1>9. ASSUME NEW k \in Processes, AddFails(k) PROVE CheckoutInv'
    <2>1. /\ step[k] = "adding" /\ UNCHANGED <<sha, root, orphans, left>>
          /\ step' = [step EXCEPT ![k] = AfterFailure(k)]
          /\ \/ dir' = [dir EXCEPT ![sha[k]] = "none"] /\ disturbed' = disturbed
             \/ dir' = dir /\ disturbed' = disturbed \cup {sha[k]}
      BY <1>9 DEF AddFails, Go, Disturb
    <2>2. /\ \A j \in Processes : j # k => step'[j] = step[j] /\ sha'[j] = sha[j] /\ root'[j] = root[j]
          /\ sha'[k] = sha[k] /\ step'[k] = AfterFailure(k) /\ step[k] # "idle" /\ sha[k] \in Shas
          /\ \A r \in Shas : Orphaned(r)' => Orphaned(r)
          /\ \A r \in Shas : r # sha[k] => dir'[r] = dir[r]
      BY <1>p, <2>1 DEF TypeOK, Orphaned
    <2>3. sha[k] \notin disturbed' => dir'[sha[k]] = "none" /\ sha[k] \notin left
      BY <1>z, <2>1, <2>2 DEF TypeOK
    <2> QED BY <1>f, <1>l, <2>1, <2>2, <2>3
  <1>10. ASSUME NEW k \in Processes, Fetch(k) PROVE CheckoutInv'
    <2>1. /\ step[k] = "fetch" /\ UNCHANGED <<dir, root, sha, orphans, disturbed, left>>
          /\ step' = [step EXCEPT ![k] = "add"] \/ step' = [step EXCEPT ![k] = "stale"]
      BY <1>10 DEF Fetch, Go, Quiet, history
    <2>2. /\ step[k] # "idle" /\ ~Owns(k, sha[k]) /\ {"stale", "add"} \subseteq Steps
          /\ {"stale", "add"} \cap Rooted = {}
      BY <2>1 DEF Owns, Rooted, Steps
    <2> QED BY <1>s, <2>1, <2>2
  <1>11. ASSUME NEW k \in Processes, ReadStale(k) PROVE CheckoutInv'
    <2>1. /\ step[k] = "stale" /\ UNCHANGED <<dir, sha, orphans, disturbed, left>>
          /\ step' = [step EXCEPT ![k] = "closing"] /\ root' = [root EXCEPT ![k] = candidate[k]]
          /\ candidate[k] \notin Shas
      BY <1>11, CheckoutAssumption DEF ReadStale, Go, Quiet, files, history, Progress, Chosen
    <2>2. step[k] # "idle" /\ ~Owns(k, sha[k]) /\ "closing" \in Steps
      BY <2>1 DEF Owns, Rooted, Steps
    <2>3. /\ \A j \in Processes : j # k => root'[j] = root[j]
          /\ root'[k] \notin Shas
      BY <2>1 DEF TypeOK
    <2> QED BY <1>s, <2>1, <2>2, <2>3
  \* What is there when the session of the resolution closes
  <1>c. ASSUME NEW k \in Processes, step[k] # "idle", sha[k] \notin disturbed
        PROVE  /\ dir[sha[k]] # "none" => sha[k] \in left \/ Owns(k, sha[k])
               /\ sha[k] \in left => dir[sha[k]] = "ready"
    BY <1>c, <1>d, <1>z
  <1>h. ASSUME NEW k \in Processes, CloseQuery(k) PROVE CheckoutInv'
    <2>1. /\ step[k] = "closing" /\ UNCHANGED <<dir, root, sha, orphans, disturbed, left>>
          /\ step' = [step EXCEPT ![k] = "reading"]
      BY <1>h DEF CloseQuery, Go, Quiet, files, history
    <2>2. /\ \A j \in Processes : j # k => step'[j] = step[j] /\ sha'[j] = sha[j] /\ root'[j] = root[j]
          /\ step'[k] = "reading" /\ step[k] # "idle" /\ step[k] \in Rooted
          /\ \A r \in Shas : Orphaned(r)' => Orphaned(r)
      BY <2>1 DEF TypeOK, Orphaned, Rooted
    <2>3. Owns(k, sha[k]) => Owns(k, sha[k])'
      BY <2>1, <2>2 DEF Owns, Rooted
    <2>4. sha[k] \notin disturbed /\ root[k] = sha[k] => dir[sha[k]] = "ready"
      BY <1>p, <1>v, <2>2
    <2>5. root[k] \in Shas => root[k] = sha[k]
      BY <1>p
    <2> QED BY <1>c, <1>l, <2>1, <2>2, <2>3, <2>4, <2>5
  <1>12. ASSUME NEW k \in Processes, TriesAgain(k) PROVE CheckoutInv'
    BY <1>12 DEF TriesAgain, Quiet, files, history, CheckoutInv, Alone, OrphansDisturb, Orphaned, DirOwned,
                 Owns, LeftStands, CheckoutStands, IsTemp
  \* What ending or cleaning up does to the other processes, and to this one
  <1>t. ASSUME NEW k \in Processes, NEW st \in {"idle", "cleanup"}, Reset(k, st)
        PROVE  /\ \A j \in Processes : j # k => step'[j] = step[j] /\ sha'[j] = sha[j] /\ root'[j] = root[j]
               /\ step'[k] = st
               /\ st = "cleanup" => sha'[k] = sha[k] /\ root'[k] = root[k]
    BY <1>t DEF Reset, TypeOK
  \* A review that ends as the session closes leaves its checkout behind, which is complete.
  <1>b. ASSUME NEW k \in Processes, step[k] # "idle", LeftBehind(k)
        PROVE  /\ left' \subseteq left \cup {sha[k]} /\ left \subseteq left' \cup {sha[k]}
               /\ step[k] = "closing" /\ sha[k] \notin disturbed /\ dir[sha[k]] # "none" => sha[k] \in left'
               /\ sha[k] \notin disturbed /\ sha[k] \in left' => dir[sha[k]] = "ready"
    <2>1. step[k] = "closing" /\ IsTemp(k) /\ sha[k] \notin disturbed => dir[sha[k]] = "ready"
      BY <1>p, <1>v DEF IsTemp, Rooted
    <2>2. step[k] = "closing" /\ ~IsTemp(k) => ~Owns(k, sha[k])
      BY <1>b, <1>p DEF IsTemp, Owns
    <2> QED BY <1>b, <1>c, <2>1, <2>2 DEF LeftBehind
  <1>i. ASSUME NEW k \in Processes, CloseFails(k) PROVE CheckoutInv'
    <2>1. /\ step[k] = "closing" /\ step[k] # "idle" /\ UNCHANGED <<dir, orphans, disturbed>>
          /\ LeftBehind(k) /\ Reset(k, "idle")
      BY <1>i DEF CloseFails, files
    <2>2. /\ \A j \in Processes : j # k => step'[j] = step[j] /\ sha'[j] = sha[j] /\ root'[j] = root[j]
          /\ step'[k] = "idle" /\ step'[k] \notin Rooted
          /\ \A r \in Shas : Orphaned(r)' => Orphaned(r)
      BY <1>t, <2>1 DEF Orphaned, Rooted
    <2> QED BY <1>b, <1>l, <2>1, <2>2
  <1>13. ASSUME NEW k \in Processes, ReaderEnds(k) PROVE CheckoutInv'
    <2> DEFINE st == IF IsTemp(k) THEN "cleanup" ELSE "idle"
    <2>1. /\ step[k] = "reading" /\ UNCHANGED <<dir, orphans, disturbed, left>> /\ Reset(k, st)
          /\ st \in {"idle", "cleanup"} /\ st \notin Rooted
      BY <1>13 DEF ReaderEnds, Quiet, files, history, Rooted
    <2>2. /\ \A j \in Processes : j # k => step'[j] = step[j] /\ sha'[j] = sha[j] /\ root'[j] = root[j]
          /\ step'[k] = st /\ (st = "cleanup" => sha'[k] = sha[k] /\ root'[k] = root[k])
          /\ \A r \in Shas : Orphaned(r)' => Orphaned(r)
      BY <1>t, <2>1 DEF Orphaned
    <2>3. Owns(k, sha[k]) => Owns(k, sha[k])'
      <3>1. CASE IsTemp(k)
        BY <1>p, <2>2, <3>1 DEF IsTemp, Owns
      <3>2. CASE ~IsTemp(k)
        BY <1>p, <2>1, <3>2 DEF IsTemp, Owns
      <3> QED BY <3>1, <3>2
    <2>4. step[k] # "idle" /\ step'[k] \notin Rooted \cup {"unstick", "adding"} /\ (step'[k] # "idle" => sha'[k] = sha[k])
      BY <2>1, <2>2
    <2> QED BY <1>c, <1>l, <2>1, <2>2, <2>3, <2>4
  <1>14. ASSUME NEW k \in Processes, Cleanup(k) PROVE CheckoutInv'
    <2>1. /\ step[k] = "cleanup" /\ UNCHANGED orphans /\ Reset(k, "idle")
          /\ \/ dir' = [dir EXCEPT ![root[k]] = "none"] /\ disturbed' = disturbed /\ left' = left \ {root[k]}
             \/ dir' = dir /\ disturbed' = disturbed \cup {root[k]} /\ left' = left
      BY <1>14 DEF Cleanup, Disturb
    <2>2. root[k] = sha[k] /\ root[k] \in Shas /\ step[k] # "idle"
      BY <1>p, <2>1
    <2>3. /\ \A j \in Processes : j # k => step'[j] = step[j] /\ sha'[j] = sha[j] /\ root'[j] = root[j]
          /\ step'[k] = "idle" /\ step'[k] \notin Rooted
          /\ \A r \in Shas : Orphaned(r)' => Orphaned(r)
      BY <1>t, <2>1 DEF Orphaned, Rooted
    <2>4. /\ \A r \in Shas : r # sha[k] => dir'[r] = dir[r]
          /\ disturbed \subseteq disturbed' /\ left' \subseteq left /\ left \subseteq left' \cup {sha[k]}
          /\ sha[k] \notin disturbed' => dir'[sha[k]] = "none" /\ sha[k] \notin left'
      BY <2>1, <2>2 DEF TypeOK
    <2> QED BY <1>l, <2>2, <2>3, <2>4
  <1>15. ASSUME NEW k \in Processes, Cancel(k) PROVE CheckoutInv'
    <2> DEFINE st == IF step[k] = "reading" /\ IsTemp(k) THEN "cleanup" ELSE "idle"
    <2>1. /\ step[k] # "idle" /\ UNCHANGED dir /\ Reset(k, st) /\ st \in {"idle", "cleanup"}
          /\ orphans' = orphans \cup Child(k) /\ LeftBehind(k)
          /\ disturbed' = (IF step[k] \in {"adding", "unstick", "cleanup"} THEN disturbed \cup {sha[k]}
                           ELSE disturbed)
      BY <1>15 DEF Cancel, DisturbedByEnd, files
    <2>2. /\ \A j \in Processes : j # k => step'[j] = step[j] /\ sha'[j] = sha[j] /\ root'[j] = root[j]
          /\ step'[k] = st /\ (st = "cleanup" => sha'[k] = sha[k] /\ root'[k] = root[k])
      BY <1>t, <2>1
    <2>3. \A r \in Shas : Orphaned(r)' => Orphaned(r) \/ r \in disturbed'
      BY <2>1 DEF Orphaned, Child
    <2>4. sha[k] \notin disturbed' /\ dir[sha[k]] # "none" => sha[k] \in left' \/ Owns(k, sha[k])'
      <3>1. CASE step[k] = "closing"
        BY <1>b, <2>1, <3>1
      <3>2. CASE step[k] = "reading" /\ IsTemp(k)
        BY <1>p, <2>2, <3>2 DEF IsTemp, Owns
      <3>3. CASE step[k] # "closing" /\ ~(step[k] = "reading" /\ IsTemp(k))
        <4>1. sha[k] \notin disturbed' => sha[k] \notin disturbed /\ ~Owns(k, sha[k])
          BY <1>p, <2>1, <3>3 DEF IsTemp, Owns, Rooted
        <4>2. left' = left
          BY <2>1, <3>3 DEF LeftBehind
        <4> QED BY <1>c, <2>1, <4>1, <4>2
      <3> QED BY <3>1, <3>2, <3>3
    <2>5. /\ step'[k] \notin Rooted \cup {"unstick", "adding"} /\ (step'[k] # "idle" => sha'[k] = sha[k])
          /\ disturbed \subseteq disturbed'
      BY <2>1, <2>2 DEF Rooted
    <2> QED BY <1>b, <1>l, <2>1, <2>2, <2>3, <2>4, <2>5
  <1>16. ASSUME NEW k \in Processes, Crash(k) PROVE CheckoutInv'
    <2>1. /\ step[k] # "idle" /\ UNCHANGED <<dir, left>> /\ Reset(k, "idle")
          /\ orphans' \in {orphans, orphans \cup Child(k)}
          /\ disturbed' = disturbed \cup {sha[k]}
      BY <1>16 DEF Crash, files
    <2>2. /\ \A j \in Processes : j # k => step'[j] = step[j] /\ sha'[j] = sha[j] /\ root'[j] = root[j]
          /\ step'[k] = "idle" /\ step'[k] \notin Rooted
      BY <1>t, <2>1 DEF Rooted
    <2>3. \A r \in Shas : Orphaned(r)' => Orphaned(r) \/ r \in disturbed'
      BY <2>1 DEF Orphaned, Child
    <2> QED BY <1>l, <2>1, <2>2, <2>3
  <1>17. ASSUME NEW o \in orphans, OrphanEnds(o) PROVE CheckoutInv'
    <2>1. /\ UNCHANGED <<step, sha, root, disturbed, left>> /\ orphans' \subseteq orphans
          /\ dir' = CASE o[1] = "add" /\ dir[o[2]] = "partial" -> [dir EXCEPT ![o[2]] = "ready"]
                      [] o[1] = "remove" -> [dir EXCEPT ![o[2]] = "none"]
                      [] OTHER -> dir
      BY <1>17 DEF OrphanEnds, review, history
    <2>2. ASSUME NEW s \in Shas, s \notin disturbed PROVE dir'[s] = dir[s]
      <3>1. o = <<o[1], o[2]>>
        BY DEF TypeOK
      <3>2. o[1] \in {"add", "remove"} => o[2] # s
        BY <1>o, <2>2, <3>1 DEF Orphaned
      <3>3. CASE o[1] = "add"
        BY <2>1, <3>2, <3>3 DEF TypeOK
      <3>4. CASE o[1] = "remove"
        BY <2>1, <3>2, <3>4 DEF TypeOK
      <3>5. CASE o[1] \notin {"add", "remove"}
        BY <2>1, <3>5
      <3> QED BY <3>3, <3>4, <3>5
    <2>3. Alone' /\ OrphansDisturb'
      BY <1>a, <1>o, <2>1 DEF Alone, OrphansDisturb, Orphaned
    <2>4. DirOwned'
      BY <1>w, <2>1, <2>2 DEF DirOwned, Owns
    <2>5. CheckoutStands'
      BY <1>v, <2>1, <2>2 DEF CheckoutStands, IsTemp, Rooted
    <2>6. LeftStands'
      BY <1>z, <2>1, <2>2 DEF LeftStands, TypeOK
    <2> QED BY <2>3, <2>4, <2>5, <2>6 DEF CheckoutInv
  <1>u. ASSUME UNCHANGED <<dir, step, sha, root, orphans, disturbed, left>> PROVE CheckoutInv'
    BY <1>u DEF CheckoutInv, Alone, OrphansDisturb, Orphaned, DirOwned, Owns, LeftStands, CheckoutStands, IsTemp
  <1>18. ASSUME NEW t \in Trees, NEW s \in Shas, HeadMoves(t, s) PROVE CheckoutInv'
    BY <1>18, <1>u DEF HeadMoves, review, history
  <1>19. ASSUME NEW t \in Trees, TreeRemoved(t) PROVE CheckoutInv'
    BY <1>19, <1>u DEF TreeRemoved, review, files, history
  <1>20. CASE UNCHANGED vars
    BY <1>20, <1>u DEF vars, review, files, history
  <1> QED BY <1>1, <1>2, <1>3, <1>4, <1>5, <1>6, <1>7, <1>8, <1>9, <1>10, <1>11, <1>12, <1>13, <1>14,
             <1>15, <1>16, <1>17, <1>18, <1>19, <1>20, <1>h, <1>i DEF Next, Review

LEMMA CheckoutAlways == Spec => [](TypeOK /\ Progress /\ CheckoutInv)
  <1>1. Init => TypeOK /\ Progress /\ CheckoutInv
    BY TypeInit, CheckoutInit
  <1>2. (TypeOK /\ Progress /\ CheckoutInv) /\ [Next]_vars => (TypeOK /\ Progress /\ CheckoutInv)'
    BY TypeStep, CheckoutStep
  <1> QED BY <1>1, <1>2, PTL DEF Spec

\* A review keeps its complete checkout to the end, unless its commit was disturbed.
THEOREM CheckoutKept == Spec => []CheckoutStands
  <1>1. CheckoutInv => CheckoutStands
    BY DEF CheckoutInv
  <1> QED BY <1>1, CheckoutAlways, PTL

\* A directory of an undisturbed commit has a review that will remove it, unless its review
\* ended before its try block and no later one has removed it.
THEOREM CheckoutsRemoved == Spec => []NoCheckoutLeft
  <1>1. CheckoutInv => NoCheckoutLeft
    <2> SUFFICES ASSUME CheckoutInv, NEW s \in Shas, dir[s] # "none", s \notin disturbed \cup left
                 PROVE  Working(s) # {}
      BY DEF NoCheckoutLeft
    <2>1. PICK k \in Processes : Owns(k, s)
      BY DEF CheckoutInv, DirOwned
    <2> QED BY <2>1 DEF Owns, Rooted, Working
  <1> QED BY <1>1, CheckoutAlways, PTL

-----------------------------------------------------------------------------
(* Repositories *)

\* Behind a registry the foreign tree is neither chosen nor read.
NeverHost ==
    cfg.foreign /\ cfg.registry # "empty" =>
        \A k \in Processes : candidate[k] # "host" /\ root[k] # "host"

\* The deployment does not change.
LEMMA SettingsStay == [Next]_vars => cfg' = cfg
  <1> SUFFICES ASSUME [Next]_vars PROVE cfg' = cfg
    OBVIOUS
  <1>1. ASSUME NEW k \in Processes, Review(k) PROVE cfg' = cfg
    BY <1>1 DEF Review, Start, Refuse, Resolve, ResolveDegraded, FindCheckout, Unstick, AddStarts,
           AddEnds, AddFails, Fetch, ReadStale, CloseQuery, CloseFails, TriesAgain, ReaderEnds, Cleanup, Quiet
  <1>2. ASSUME NEW k \in Processes, Cancel(k) \/ Crash(k) PROVE cfg' = cfg
    BY <1>2 DEF Cancel, Crash, Move
  <1>3. ASSUME NEW o \in orphans, OrphanEnds(o) PROVE cfg' = cfg
    BY <1>3 DEF OrphanEnds
  <1>4. ASSUME NEW t \in Trees, TreeRemoved(t) \/ \E s \in Shas : HeadMoves(t, s) PROVE cfg' = cfg
    BY <1>4 DEF HeadMoves, TreeRemoved, Move
  <1>5. CASE UNCHANGED vars
    BY <1>5 DEF vars
  <1> QED BY <1>1, <1>2, <1>3, <1>4, <1>5 DEF Next

LEMMA HostStep == TypeOK /\ Progress /\ NeverHost /\ [Next]_vars => NeverHost'
  <1> SUFFICES ASSUME TypeOK, Progress, NeverHost, [Next]_vars, cfg.foreign, cfg.registry # "empty",
                      NEW j \in Processes
               PROVE  candidate'[j] # "host" /\ root'[j] # "host"
    BY SettingsStay DEF NeverHost
  <1>1. candidate[j] # "host" /\ root[j] # "host"
    BY DEF NeverHost
  <1>2. "host" \notin Candidates /\ "host" \notin DegradedRoots
    BY DEF Candidates, DegradedRoots
  <1>3. "host" \notin Shas /\ NoTree # "host"
    BY CheckoutAssumption DEF Trees
  <1>4. candidate'[j] = candidate[j] \/ candidate'[j] \in Candidates \/ candidate'[j] = NoTree
    <2>1. ASSUME NEW k \in Processes, Resolve(k) PROVE candidate'[j] = candidate[j] \/ candidate'[j] \in Candidates
      BY <2>1 DEF Resolve, TypeOK
    <2>2. ASSUME NEW k \in Processes, NEW st, Reset(k, st) PROVE candidate'[j] = candidate[j] \/ candidate'[j] = NoTree
      BY <2>2 DEF Reset, TypeOK
    <2>3. ASSUME NEW k \in Processes, Review(k), ~Resolve(k) PROVE candidate' = candidate \/ \E st : Reset(k, st)
      BY <2>3 DEF Review, Start, Refuse, ResolveDegraded, FindCheckout, Unstick, AddStarts,
             AddEnds, AddFails, Fetch, ReadStale, CloseQuery, CloseFails, TriesAgain, ReaderEnds, Cleanup
    <2>4. ASSUME NEW k \in Processes, Cancel(k) \/ Crash(k) PROVE \E st : Reset(k, st)
      BY <2>4 DEF Cancel, Crash
    <2>5. ASSUME ~(\E k \in Processes : Review(k) \/ Cancel(k) \/ Crash(k)) PROVE candidate' = candidate
      BY <2>5 DEF Next, OrphanEnds, HeadMoves, TreeRemoved, review, vars
    <2> QED BY <2>1, <2>2, <2>3, <2>4, <2>5
  <1>5. \/ root'[j] \in {root[j], candidate[j], NoTree} \cup Candidates \cup DegradedRoots
        \/ root'[j] \in Shas
    <2>1. ASSUME NEW k \in Processes, Resolve(k) PROVE root'[j] = root[j] \/ root'[j] \in Candidates
      BY <2>1 DEF Resolve, TypeOK
    <2>2. ASSUME NEW k \in Processes, ResolveDegraded(k) PROVE root'[j] = root[j] \/ root'[j] \in DegradedRoots
      BY <2>2 DEF ResolveDegraded, TypeOK
    <2>3. ASSUME NEW k \in Processes, FindCheckout(k) \/ AddEnds(k) PROVE root'[j] = root[j] \/ root'[j] \in Shas
      <3>1. sha[k] \in Shas
        BY <2>3 DEF FindCheckout, AddEnds, Progress
      <3> QED BY <2>3, <3>1 DEF FindCheckout, AddEnds, UseCheckout, TypeOK
    <2>4. ASSUME NEW k \in Processes, ReadStale(k) PROVE root'[j] = root[j] \/ root'[j] = candidate[j]
      BY <2>4 DEF ReadStale, TypeOK
    <2>5. ASSUME NEW k \in Processes, NEW st, Reset(k, st) PROVE root'[j] = root[j] \/ root'[j] = NoTree
      BY <2>5 DEF Reset, TypeOK
    <2>6. ASSUME NEW k \in Processes, Refuse(k) \/ Unstick(k) \/ AddStarts(k) \/ AddFails(k)
                 \/ Fetch(k) \/ CloseQuery(k) \/ TriesAgain(k)
          PROVE  root' = root
      BY <2>6 DEF Refuse, Unstick, AddStarts, AddFails, Fetch, CloseQuery, TriesAgain
    <2>7. ASSUME NEW k \in Processes, NEW s \in Shas, Start(k, s) PROVE root' = root
      BY <2>7 DEF Start
    <2>8. ASSUME NEW k \in Processes, ReaderEnds(k) \/ CloseFails(k) \/ Cleanup(k) \/ Cancel(k) \/ Crash(k)
          PROVE  \E st : Reset(k, st)
      BY <2>8 DEF ReaderEnds, CloseFails, Cleanup, Cancel, Crash
    <2>9. ASSUME ~(\E k \in Processes : Review(k) \/ Cancel(k) \/ Crash(k)) PROVE root' = root
      BY <2>9 DEF Next, OrphanEnds, HeadMoves, TreeRemoved, review, vars
    <2> QED BY <2>1, <2>2, <2>3, <2>4, <2>5, <2>6, <2>7, <2>8, <2>9 DEF Review
  <1> QED BY <1>1, <1>2, <1>3, <1>4, <1>5

\* Where there is a registry, no review reads another repository's tree.
THEOREM OnlyOwnRepository == Spec => []OwnRepository
  <1>1. Init => TypeOK /\ Progress /\ NeverHost
    <2>1. Init => NeverHost
      BY CheckoutAssumption DEF Init, NeverHost, Trees
    <2> QED BY <2>1, TypeInit
  <1>2. (TypeOK /\ Progress /\ NeverHost) /\ [Next]_vars => (TypeOK /\ Progress /\ NeverHost)'
    BY TypeStep, HostStep
  <1>3. NeverHost => OwnRepository
    BY DEF NeverHost, OwnRepository
  <1> QED BY <1>1, <1>2, <1>3, PTL DEF Spec
=============================================================================
