------------------------------- MODULE Workflow -------------------------------
(***************************************************************************)
(* The task workflow as agents and users see it (the docstrings of         *)
(* start_task, update_task_status and the blocker queries in               *)
(* src/src/agent/services.py): each request is one step that finds its     *)
(* guards true at the moment it takes effect. There are no transactions,   *)
(* no requests in flight and no stale reads here.                          *)
(* That a pull request belongs to one task is not promised: two agents     *)
(* may both read that it is unused before either records it. Nor is that a *)
(* task is still in review when its artifact is attached.                  *)
(***************************************************************************)
CONSTANTS
    Tasks, Worktrees, Prs, NoWt, NoPr,
    Type, FeatureOf, FeatureDeps, DependsOn, CloseOff, Mains

VARIABLES status, owner, pr, merged, artifact

vars == <<status, owner, pr, merged, artifact>>

Init ==
    /\ status = [t \in Tasks |-> "backlog"]
    /\ owner = [t \in Tasks |-> NoWt]
    /\ pr = [t \in Tasks |-> NoPr]
    /\ merged = [t \in Tasks |-> FALSE]
    /\ artifact = [t \in Tasks |-> FALSE]

\* Task u is finished, or waits for its review with a pull request to look at.
HandedOver(u) == status[u] = "done" \/ (status[u] = "review" /\ pr[u] # NoPr)

\* What has to come before t, and what its pipeline has to hand to it on paper.
Before(u, t) == u \in DependsOn[t] \/ FeatureOf[u] \in FeatureDeps[FeatureOf[t]]
FeedsInto(u, t) ==
    FeatureOf[u] = FeatureOf[t] /\ <<Type[u], Type[t]>> \in {<<"spec", "plan">>, <<"plan", "impl">>}

Ready(t) ==
    \A u \in Tasks :
        /\ Before(u, t) => HandedOver(u)
        /\ FeedsInto(u, t) => HandedOver(u) /\ (artifact[u] \/ status[u] = "done")

\* The agent has nothing else in its hands: its other tasks wait, are done or merged.
Free(w, t) ==
    \A u \in Tasks \ {t} : owner[u] = w => status[u] \in {"backlog", "done"} \/ merged[u]

\* The pull request q is recorded with the task, if the request names one.
Records(t, q) == pr' = IF q = NoPr THEN pr ELSE [pr EXCEPT ![t] = q]

Assign(t, w) ==
    /\ owner[t] = NoWt /\ status[t] = "backlog"
    /\ owner' = [owner EXCEPT ![t] = w]
    /\ UNCHANGED <<status, pr, merged, artifact>>

Begin(t) ==
    /\ status[t] = "backlog" /\ owner[t] \in Worktrees
    /\ Free(owner[t], t) /\ Ready(t)
    /\ status' = [status EXCEPT ![t] = "in_progress"]
    /\ UNCHANGED <<owner, pr, merged, artifact>>

HandOver(t, q) ==
    /\ status[t] = "in_progress" /\ owner[t] \in Worktrees
    /\ status' = [status EXCEPT ![t] = "review"]
    /\ Records(t, q)
    /\ UNCHANGED <<owner, merged, artifact>>

\* The main agent ends a close-off task itself; specs and impls go through review.
CloseOut(t, q) ==
    /\ status[t] = "in_progress" /\ owner[t] \in Mains
    /\ t \in CloseOff /\ Type[t] \notin {"spec", "impl"}
    /\ status' = [status EXCEPT ![t] = "done"]
    /\ Records(t, q)
    /\ UNCHANGED <<owner, merged, artifact>>

Accept(t) ==
    /\ status[t] = "review"
    /\ status' = [status EXCEPT ![t] = "done"]
    /\ UNCHANGED <<owner, pr, merged, artifact>>

Merge(t) ==
    /\ status[t] \in {"review", "done"} /\ pr[t] # NoPr
    /\ merged' = [merged EXCEPT ![t] = TRUE]
    /\ UNCHANGED <<status, owner, pr, artifact>>

\* An artifact that was reported in review may land when the task has been accepted.
Report(t) ==
    /\ status[t] \in {"review", "done"} /\ Type[t] \in {"spec", "plan"}
    /\ artifact' = [artifact EXCEPT ![t] = TRUE]
    /\ UNCHANGED <<status, owner, pr, merged>>

Next ==
    \E t \in Tasks :
        \/ \E w \in Worktrees : Assign(t, w)
        \/ \E q \in Prs \cup {NoPr} : HandOver(t, q) \/ CloseOut(t, q)
        \/ Begin(t) \/ Accept(t) \/ Merge(t) \/ Report(t)

Spec == Init /\ [][Next]_vars
=============================================================================
