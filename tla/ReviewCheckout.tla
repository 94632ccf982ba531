---------------------------- MODULE ReviewCheckout ----------------------------
(***************************************************************************)
(* The tree a review reads (src/src/gateway/review_engine.py,              *)
(* resolve_pr_review_root and what it calls, the end of _review_pr and     *)
(* _run_review_agent; src/src/gateway/review_loop.py, the reviewers): the  *)
(* choice of a working tree, the disposable checkout of the head commit in *)
(* the main clone, the reviewer's process in it, and its removal. The      *)
(* reviews are of the pushes of one pull request, in several server        *)
(* processes; each process runs one at a time under its lock. What a       *)
(* review posts is in ReviewLoop.                                          *)
(*                                                                         *)
(* Git and the reviewers are child processes. A handler that is cancelled  *)
(* or a server that dies while it waits for one leaves it running.         *)
(* Working trees belong to agents, who move and remove them at any time.   *)
(***************************************************************************)
EXTENDS Integers, FiniteSets

CONSTANTS
    Processes, Shas,
    MaxReviews,     \* bound: reviews started
    MaxMoves,       \* bound: moves of the agents, cancellations and crashes
    Settings,       \* the deployments considered
    MayCrash,       \* whether servers crash
    Base,           \* any commit that is none of Shas
    NoSha, NoTree, Gone

Trees == {"owner", "branch", "clone", "host"}

ASSUME CheckoutAssumption ==
    /\ MaxReviews \in Nat /\ MaxMoves \in Nat /\ MayCrash \in BOOLEAN
    /\ {Base, NoSha, Gone} \cap Shas = {} /\ Gone # Base /\ NoTree \notin Trees \cup Shas
    /\ Trees \cap Shas = {}
    /\ Settings \subseteq
        [registry : {"empty", "other", "valid", "invalid"}, foreign : BOOLEAN,
         rows : SUBSET {"owner", "branch"}, factory : BOOLEAN]

VARIABLES
    cfg,            \* the settings, the worktree rows of the PR, and whether there is a database
    tree,           \* HEAD of each working tree, or Gone
    fetched,        \* commits the main clone has
    dir,            \* the checkout directory of each commit
    step, sha,      \* where the review of a process is, and the commit it is about
    candidate,      \* the tree it has chosen
    root,           \* the tree or checkout its reviewer reads
    attempt,        \* of the degraded path
    again,          \* processes at their second git worktree add
    orphans,        \* children whose server no longer waits for them
    reviews, moves, \* bounded counters
    disturbed,      \* history: commits of two reviews at once, or of a git child that did not end well
    left            \* history: commits whose review ended with its checkout made, before the try block

files == <<fetched, dir>>
review == <<step, sha, candidate, root, attempt, again>>
bounds == <<reviews, moves>>
history == <<disturbed, left>>
vars == <<cfg, tree, files, review, orphans, bounds, history>>

Steps == {"idle", "resolve", "checkout", "unstick", "add", "adding", "fetch", "stale",
          "closing", "reading", "cleanup"}

TypeOK ==
    /\ cfg \in Settings
    /\ tree \in [Trees -> Shas \cup {Base, Gone}]
    /\ fetched \subseteq Shas
    /\ dir \in [Shas -> {"none", "partial", "ready"}]
    /\ step \in [Processes -> Steps]
    /\ sha \in [Processes -> Shas \cup {NoSha}]
    /\ candidate \in [Processes -> Trees \cup {NoTree}]
    /\ root \in [Processes -> Trees \cup Shas \cup {NoTree}]
    /\ attempt \in [Processes -> 0..2] /\ again \subseteq Processes
    /\ orphans \subseteq {"add", "remove", "read"} \X (Trees \cup Shas)
    /\ reviews \in 0..MaxReviews /\ moves \in 0..MaxMoves
    /\ disturbed \subseteq Shas /\ left \subseteq Shas

Init ==
    /\ cfg \in Settings
    /\ tree = [t \in Trees |-> Base]
    /\ fetched = {}
    /\ dir = [s \in Shas |-> "none"]
    /\ step = [k \in Processes |-> "idle"] /\ sha = [k \in Processes |-> NoSha]
    /\ candidate = [k \in Processes |-> NoTree] /\ root = [k \in Processes |-> NoTree]
    /\ attempt = [k \in Processes |-> 0] /\ again = {}
    /\ orphans = {} /\ reviews = 0 /\ moves = 0 /\ disturbed = {} /\ left = {}

-----------------------------------------------------------------------------
(* Resolution *)

\* The registry has the path of the main clone of the PR's repository.
Registered == cfg.registry = "valid"

\* review_source_root is the main clone, or a clone of another repository.
HostTree == IF cfg.foreign THEN "host" ELSE "clone"

Standing(t) == t \in cfg.rows /\ tree[t] # Gone

\* Mutant: an unmatched repository falls back although there is a registry.
CandidatesNoRefusal ==
    CASE Standing("owner") -> {"owner"}
      [] ~Standing("owner") /\ Standing("branch") -> {"branch"}
      [] ~Standing("owner") /\ ~Standing("branch") /\ Registered -> {"clone"}
      [] OTHER -> {HostTree}

\* Paths 0 to 3: the worktree of the task with this PR, that of the branch, the
\* registry, and without a registry the host's own tree; none is a refusal.
Candidates ==
    CASE Standing("owner") -> {"owner"}
      [] ~Standing("owner") /\ Standing("branch") -> {"branch"}
      [] ~Standing("owner") /\ ~Standing("branch") /\ Registered -> {"clone"}
      [] OTHER -> IF cfg.registry = "empty" THEN {HostTree} ELSE {}

\* _run_review_agent looks at no worktree.
DegradedRoots ==
    CASE Registered -> {"clone"}
      [] cfg.registry = "empty" -> {HostTree}
      [] OTHER -> {}

\* The repository in which the checkout is made: a worktree knows its main clone.
Anchor(t) == IF Registered \/ (tree[t] # Gone /\ t # "host") THEN "clone" ELSE HostTree

\* _probe_git_head in a checkout directory: git looks upwards from one that is no repository yet
\* and finds the main clone, in which the directory lies.
ProbeCheckout(s) == IF dir[s] = "ready" THEN s ELSE tree["clone"]

Go(k, s) == step' = [step EXCEPT ![k] = s]
Working(s) == {k \in Processes : step[k] # "idle" /\ sha[k] = s}
Orphaned(s) == \E c \in {"add", "remove"} : <<c, s>> \in orphans
Disturb(s) == disturbed' = disturbed \cup {s}

\* Everything but the review itself
Quiet == UNCHANGED <<cfg, tree, orphans, bounds, history>>

-----------------------------------------------------------------------------
(* _review_pr under the lock of its process *)

Start(k, s) ==
    /\ step[k] = "idle" /\ reviews < MaxReviews
    /\ reviews' = reviews + 1
    /\ sha' = [sha EXCEPT ![k] = s]
    /\ disturbed' = IF Working(s) # {} THEN disturbed \cup {s} ELSE disturbed
    /\ Go(k, "resolve")
    /\ UNCHANGED <<cfg, tree, files, candidate, root, attempt, again, orphans, moves, left>>

Refuse(k) ==
    /\ step[k] = "resolve"
    /\ (IF cfg.factory THEN Candidates ELSE DegradedRoots) = {}
    /\ Go(k, "idle")
    /\ UNCHANGED <<files, sha, candidate, root, attempt, again>> /\ Quiet

\* The probes run without suspending, so a tree is chosen and compared in one step.
\* A tree that is at the head commit, or that does not say where it is, is read itself.
Resolve(k) ==
    /\ step[k] = "resolve" /\ cfg.factory
    /\ \E t \in Candidates :
        /\ candidate' = [candidate EXCEPT ![k] = t]
        /\ IF tree[t] \in {Gone, sha[k]}
           THEN root' = [root EXCEPT ![k] = t] /\ Go(k, "closing")
           ELSE UNCHANGED root /\ Go(k, "checkout")
    /\ UNCHANGED <<files, sha, attempt, again>> /\ Quiet

ResolveDegraded(k) ==
    /\ step[k] = "resolve" /\ ~cfg.factory
    /\ \E t \in DegradedRoots : root' = [root EXCEPT ![k] = t]
    /\ attempt' = [attempt EXCEPT ![k] = 1]
    /\ Go(k, "reading")
    /\ UNCHANGED <<files, sha, candidate, again>> /\ Quiet

-----------------------------------------------------------------------------
(* _create_review_checkout *)

UseCheckout(k) == root' = [root EXCEPT ![k] = sha[k]] /\ Go(k, "closing")

\* A directory that is there and seems to be at the commit is used.
FindCheckout(k) ==
    LET s == sha[k] IN
    /\ step[k] = "checkout"
    /\ \/ Anchor(candidate[k]) # "clone" /\ Go(k, "fetch") /\ UNCHANGED root
       \/ /\ Anchor(candidate[k]) = "clone"
          /\ \/ dir[s] = "none" /\ Go(k, "add") /\ UNCHANGED root
             \/ dir[s] # "none" /\ ProbeCheckout(s) = s /\ UseCheckout(k)
             \/ dir[s] # "none" /\ ProbeCheckout(s) # s /\ Go(k, "unstick") /\ UNCHANGED root
    /\ UNCHANGED <<files, sha, candidate, attempt, again>> /\ Quiet

\* git worktree remove of what is in the way
Unstick(k) ==
    /\ step[k] = "unstick"
    /\ \/ dir' = [dir EXCEPT ![sha[k]] = "none"] /\ Go(k, "add")
       \/ UNCHANGED dir /\ Go(k, "stale")
    /\ UNCHANGED <<fetched, sha, candidate, root, attempt, again>> /\ Quiet

\* An add that fails is tried again after a fetch, once.
AfterFailure(k) == IF k \in again THEN "stale" ELSE "fetch"

\* git worktree add makes the directory first; it fails if there is one, or if the
\* clone does not have the commit.
AddStarts(k) ==
    /\ step[k] = "add"
    /\ IF dir[sha[k]] = "none" /\ sha[k] \in fetched
       THEN dir' = [dir EXCEPT ![sha[k]] = "partial"] /\ Go(k, "adding")
       ELSE UNCHANGED dir /\ Go(k, AfterFailure(k))
    /\ UNCHANGED <<fetched, sha, candidate, root, attempt, again>> /\ Quiet

AddEnds(k) ==
    /\ step[k] = "adding" /\ dir[sha[k]] = "partial"
    /\ dir' = [dir EXCEPT ![sha[k]] = "ready"]
    /\ UseCheckout(k)
    /\ UNCHANGED <<fetched, sha, candidate, attempt, again>> /\ Quiet

\* git removes what it has made; killed after its timeout it leaves that, and so it does
\* when the directory was removed under it.
AddFails(k) ==
    /\ step[k] = "adding"
    /\ \/ dir' = [dir EXCEPT ![sha[k]] = "none"] /\ UNCHANGED disturbed
       \/ UNCHANGED dir /\ Disturb(sha[k])
    /\ Go(k, AfterFailure(k))
    /\ UNCHANGED <<cfg, tree, fetched, sha, candidate, root, attempt, again, orphans, bounds, left>>

\* git fetch of the branch, in the clone: it may fail, and another repository does not have
\* it. A branch that was rewritten does not bring the commit.
Fetch(k) ==
    /\ step[k] = "fetch"
    /\ \/ /\ Anchor(candidate[k]) = "clone"
          /\ fetched' \in {fetched, fetched \cup {sha[k]}}
          /\ again' = again \cup {k} /\ Go(k, "add")
       \/ UNCHANGED <<fetched, again>> /\ Go(k, "stale")
    /\ UNCHANGED <<dir, sha, candidate, root, attempt>> /\ Quiet

\* review_source_drift: the tree is read although it is elsewhere.
ReadStale(k) ==
    /\ step[k] = "stale"
    /\ root' = [root EXCEPT ![k] = candidate[k]]
    /\ Go(k, "closing")
    /\ UNCHANGED <<files, sha, candidate, attempt, again>> /\ Quiet

-----------------------------------------------------------------------------
(* The end of the resolution: its session is closed *)

IsTemp(k) == root[k] \in Shas

Reset(k, st) ==
    /\ step' = [step EXCEPT ![k] = st]
    /\ candidate' = [candidate EXCEPT ![k] = NoTree]
    /\ attempt' = [attempt EXCEPT ![k] = 0]
    /\ again' = again \ {k}
    /\ IF st = "idle" THEN /\ root' = [root EXCEPT ![k] = NoTree]
                           /\ sha' = [sha EXCEPT ![k] = NoSha]
       ELSE UNCHANGED <<root, sha>>

\* Until the session is closed the checkout is not under the try block that removes it.
LeftBehind(k) ==
    left' = IF step[k] = "closing" /\ IsTemp(k) THEN left \cup {sha[k]} ELSE left

CloseQuery(k) ==
    /\ step[k] = "closing"
    /\ Go(k, "reading")
    /\ UNCHANGED <<files, sha, candidate, root, attempt, again>> /\ Quiet

\* The connection is gone: __aexit__ raises.
CloseFails(k) ==
    /\ step[k] = "closing"
    /\ LeftBehind(k)
    /\ Reset(k, "idle")
    /\ UNCHANGED <<cfg, tree, files, orphans, bounds, disturbed>>

-----------------------------------------------------------------------------
(* The reviewer's process, and the end of the review *)

\* The degraded path tries once more after a timeout.
TriesAgain(k) ==
    /\ step[k] = "reading" /\ attempt[k] = 1
    /\ attempt' = [attempt EXCEPT ![k] = 2]
    /\ UNCHANGED <<files, step, sha, candidate, root, again>> /\ Quiet

\* Mutant: only a checkout made by this review is removed.
ReaderEndsUnowned(k) ==
    /\ step[k] = "reading"
    /\ Reset(k, "idle")
    /\ UNCHANGED files /\ Quiet

\* The stages have returned or raised, after a timeout with their process killed.
ReaderEnds(k) ==
    /\ step[k] = "reading"
    /\ Reset(k, IF IsTemp(k) THEN "cleanup" ELSE "idle")
    /\ UNCHANGED files /\ Quiet

\* Mutant: every checkout of the PR is removed.
CleanupAll(k) ==
    /\ step[k] = "cleanup"
    /\ dir' = [s \in Shas |-> "none"]
    /\ left' = left \ {root[k]} /\ UNCHANGED disturbed
    /\ Reset(k, "idle")
    /\ UNCHANGED <<cfg, tree, fetched, orphans, bounds>>

\* The finally block. git may fail or time out, which is only logged.
Cleanup(k) ==
    /\ step[k] = "cleanup"
    /\ \/ dir' = [dir EXCEPT ![root[k]] = "none"] /\ left' = left \ {root[k]} /\ UNCHANGED disturbed
       \/ Disturb(root[k]) /\ UNCHANGED <<dir, left>>
    /\ Reset(k, "idle")
    /\ UNCHANGED <<cfg, tree, fetched, orphans, bounds>>

-----------------------------------------------------------------------------
(* Cancellation, crashes, orphans and agents *)

Move == moves < MaxMoves /\ moves' = moves + 1 /\ UNCHANGED <<cfg, reviews>>

\* The child a process waits for
Child(k) ==
    CASE step[k] = "adding" -> {<<"add", sha[k]>>}
      [] step[k] \in {"unstick", "cleanup"} -> {<<"remove", sha[k]>>}
      [] step[k] = "reading" -> {<<"read", root[k]>>}
      [] OTHER -> {}

DisturbedByEnd(k) ==
    disturbed' = IF step[k] \in {"adding", "unstick", "cleanup"} THEN disturbed \cup {sha[k]}
                 ELSE disturbed

\* A newer push cancels the retry that reviews this one: nobody kills its child, and
\* only a review that has come to its try block runs the finally block.
Cancel(k) ==
    /\ Move /\ step[k] # "idle"
    /\ orphans' = orphans \cup Child(k)
    /\ DisturbedByEnd(k) /\ LeftBehind(k)
    /\ Reset(k, IF step[k] = "reading" /\ IsTemp(k) THEN "cleanup" ELSE "idle")
    /\ UNCHANGED <<tree, files>>

\* The server stops: nothing is cleaned up. A child ends with it or goes on.
Crash(k) ==
    /\ MayCrash /\ Move /\ step[k] # "idle"
    /\ orphans' \in {orphans, orphans \cup Child(k)}
    /\ disturbed' = disturbed \cup {sha[k]}
    /\ Reset(k, "idle")
    /\ UNCHANGED <<tree, files, left>>

OrphanEnds(o) ==
    /\ o \in orphans
    /\ orphans' = orphans \ {o}
    /\ dir' = CASE o[1] = "add" /\ dir[o[2]] = "partial" -> [dir EXCEPT ![o[2]] = "ready"]
                [] o[1] = "remove" -> [dir EXCEPT ![o[2]] = "none"]
                [] OTHER -> dir
    /\ UNCHANGED <<cfg, tree, fetched, review, bounds, history>>

\* An agent commits, rebases or resets in its worktree; the main clone is pulled.
HeadMoves(t, s) ==
    /\ Move /\ t \in cfg.rows \cup {"clone"} /\ tree[t] \notin {s, Gone}
    /\ tree' = [tree EXCEPT ![t] = s]
    /\ fetched' = fetched \cup {s}
    /\ UNCHANGED <<dir, review, orphans, history>>

\* The worktree is removed after its agent has ended; its row may stay.
TreeRemoved(t) ==
    /\ Move /\ t \in cfg.rows /\ tree[t] # Gone
    /\ tree' = [tree EXCEPT ![t] = Gone]
    /\ UNCHANGED <<files, review, orphans, history>>

-----------------------------------------------------------------------------
Review(k) ==
    \/ \E s \in Shas : Start(k, s)
    \/ Refuse(k) \/ Resolve(k) \/ ResolveDegraded(k)
    \/ FindCheckout(k) \/ Unstick(k) \/ AddStarts(k) \/ AddEnds(k) \/ AddFails(k)
    \/ Fetch(k) \/ ReadStale(k) \/ CloseQuery(k) \/ CloseFails(k)
    \/ TriesAgain(k) \/ ReaderEnds(k) \/ Cleanup(k)

Next ==
    \/ \E k \in Processes : Review(k) \/ Cancel(k) \/ Crash(k)
    \/ \E o \in orphans : OrphanEnds(o)
    \/ \E t \in Trees :
        \/ \E s \in Shas : HeadMoves(t, s)
        \/ TreeRemoved(t)

Spec == Init /\ [][Next]_vars

-----------------------------------------------------------------------------
(* Properties *)

\* A review that has chosen a disposable checkout finds it complete and at the head commit
\* until it has been read, however reviews of other commits of the PR make and remove theirs,
\* as long as no second process reviews the commit and no git command on it was cut short.
CheckoutStands ==
    \A k \in Processes :
        step[k] \in {"closing", "reading"} /\ IsTemp(k) /\ root[k] \notin disturbed =>
            dir[root[k]] = "ready"

\* "otherwise .cloglog/review-checkouts/ grows without bound": a directory is there only
\* while a review that will remove it runs. What may stay is the directory of a commit on
\* which git was cut short or that two processes reviewed at once, and one whose review
\* ended while the session of the resolution was closing - until the next review of the
\* commit has removed it.
NoCheckoutLeft ==
    \A s \in Shas : dir[s] # "none" /\ s \notin disturbed \cup left => Working(s) # {}

\* With a registry configured no review, sequenced or degraded, reads another repository's
\* tree: what cannot be matched is refused.
OwnRepository ==
    \A k \in Processes :
        step[k] = "reading" /\ cfg.foreign /\ cfg.registry # "empty" => root[k] # "host"

\* "only one codex review runs at a time": of the reviewer processes of one server.
OneReviewer ==
    \A k \in Processes : step[k] = "reading" => \A o \in orphans : o[1] # "read"
=============================================================================
