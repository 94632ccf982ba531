---------------------------- MODULE TaskLifecycle ----------------------------
(***************************************************************************)
(* The life of a task between the agents and the board: assign_task,       *)
(* start_task, update_task_status, mark_pr_merged and report_artifact of   *)
(* src/src/agent/services.py, the blocker queries they use, and the board's *)
(* PATCH /tasks/{id} (src/src/board/routes.py).                            *)
(*                                                                         *)
(* start_task, update_task_status and report_artifact check their guards   *)
(* against what they read and write in later transactions, so each is a    *)
(* check (all reads of the handler) and its writes. SQLAlchemy writes a    *)
(* column only if its new value differs from the one the request read.     *)
(* "backlog" stands for every status no guard mentions (prioritized,       *)
(* blocked); the roll-up of feature and epic statuses is module Rollup.    *)
(***************************************************************************)
EXTENDS Naturals, FiniteSets

CONSTANTS
    Tasks, Worktrees, Prs, Calls,
    NoWt, NoPr, NoTask,
    Type,         \* task_type of each task
    FeatureOf,    \* the feature of each task
    FeatureDeps,  \* feature -> features it depends on
    DependsOn,    \* task -> tasks it is blocked_by
    CloseOff,     \* close-off tasks
    Mains,        \* worktrees with role 'main'
    Disciplined   \* TRUE: agents and users follow the documented workflow

ASSUME TypeAssumption == Type \in [Tasks -> {"task", "spec", "plan", "impl"}]
ASSUME FeatureAssumption ==
    \A t \in Tasks : FeatureOf[t] \in DOMAIN FeatureDeps
ASSUME DependsOnAssumption == DependsOn \in [Tasks -> SUBSET Tasks]
ASSUME NullAssumption == NoWt \notin Worktrees /\ NoPr \notin Prs /\ NoTask \notin Tasks
ASSUME RolesAssumption == CloseOff \subseteq Tasks /\ Mains \subseteq Worktrees
ASSUME DisciplinedAssumption == Disciplined \in BOOLEAN

VARIABLES
    status, owner, pr, merged, artifact,   \* columns of tasks
    current,                               \* worktrees.current_task_id
    documents,                             \* (feature, source) of the attached documents
    \* requests of agents: what they ask and what they read
    callPc, callWt, callTask, callTo, callPr,
    readStatus, readOwner, readPr, readCurrent

taskVars == <<status, owner, pr, merged, artifact>>
callArgs == <<callWt, callTask, callTo, callPr, readStatus, readOwner, readPr, readCurrent>>
vars == <<taskVars, current, documents, callPc, callArgs>>

Statuses == {"backlog", "in_progress", "review", "done"}

TypeOK ==
    /\ status \in [Tasks -> Statuses]
    /\ owner \in [Tasks -> Worktrees \cup {NoWt}]
    /\ pr \in [Tasks -> Prs \cup {NoPr}]
    /\ merged \in [Tasks -> BOOLEAN]
    /\ artifact \in [Tasks -> BOOLEAN]
    /\ current \in [Worktrees -> Tasks \cup {NoTask}]
    /\ documents \in SUBSET ((DOMAIN FeatureDeps) \X (Prs \cup {"artifact"}))
    /\ callPc \in [Calls -> {"idle", "start", "current", "update", "clear", "report", "document"}]
    /\ callWt \in [Calls -> Worktrees \cup {NoWt}]
    /\ callTask \in [Calls -> Tasks \cup {NoTask}]
    /\ callTo \in [Calls -> Statuses]
    /\ callPr \in [Calls -> Prs \cup {NoPr}]
    /\ readStatus \in [Calls -> Statuses]
    /\ readOwner \in [Calls -> Worktrees \cup {NoWt}]
    /\ readPr \in [Calls -> Prs \cup {NoPr}]
    /\ readCurrent \in [Calls -> Tasks \cup {NoTask}]

Init ==
    /\ status = [t \in Tasks |-> "backlog"]
    /\ owner = [t \in Tasks |-> NoWt]
    /\ pr = [t \in Tasks |-> NoPr]
    /\ merged = [t \in Tasks |-> FALSE]
    /\ artifact = [t \in Tasks |-> FALSE]
    /\ current = [w \in Worktrees |-> NoTask]
    /\ documents = {}
    /\ callPc = [c \in Calls |-> "idle"]
    /\ callWt = [c \in Calls |-> NoWt]
    /\ callTask = [c \in Calls |-> NoTask]
    /\ callTo = [c \in Calls |-> "backlog"]
    /\ callPr = [c \in Calls |-> NoPr]
    /\ readStatus = [c \in Calls |-> "backlog"]
    /\ readOwner = [c \in Calls |-> NoWt]
    /\ readPr = [c \in Calls |-> NoPr]
    /\ readCurrent = [c \in Calls |-> NoTask]

-----------------------------------------------------------------------------
(* Queries *)

\* Mutant: a task is active until its PR is merged, done or not.
ActiveUntilMerged(w, t) ==
    {u \in Tasks \ {t} : owner[u] = w /\ status[u] # "backlog" /\ ~merged[u]}

\* start_task's guard: the other tasks of the agent that are under way.
Active(w, t) ==
    {u \in Tasks \ {t} : owner[u] = w /\ status[u] \in {"in_progress", "review"} /\ ~merged[u]}

TaskResolved(u) == status[u] = "done" \/ (status[u] = "review" /\ pr[u] # NoPr)

\* A spec or plan predecessor also needs its artifact.
PipelineResolved(u) ==
    status[u] = "done" \/ (status[u] = "review" /\ pr[u] # NoPr /\ artifact[u])

Predecessor == [plan |-> "spec", impl |-> "plan"]

FeatureBlockers(t) ==
    {u \in Tasks : FeatureOf[u] \in FeatureDeps[FeatureOf[t]] /\ ~TaskResolved(u)}

TaskBlockers(t) == {u \in DependsOn[t] : ~TaskResolved(u)}

PipelineBlockers(t) ==
    {u \in Tasks : /\ Type[t] \in DOMAIN Predecessor
                   /\ FeatureOf[u] = FeatureOf[t]
                   /\ Type[u] = Predecessor[Type[t]]
                   /\ ~PipelineResolved(u)}

\* _collect_all_blockers
Blockers(t) == FeatureBlockers(t) \cup TaskBlockers(t) \cup PipelineBlockers(t)

-----------------------------------------------------------------------------
(* Requests of agents *)

\* A request reads its worktree and its task, and remembers what it asked for.
Read(c, w, t, to, p) ==
    /\ callWt' = [callWt EXCEPT ![c] = w]
    /\ callTask' = [callTask EXCEPT ![c] = t]
    /\ callTo' = [callTo EXCEPT ![c] = to]
    /\ callPr' = [callPr EXCEPT ![c] = p]
    /\ readStatus' = [readStatus EXCEPT ![c] = status[t]]
    /\ readOwner' = [readOwner EXCEPT ![c] = owner[t]]
    /\ readPr' = [readPr EXCEPT ![c] = pr[t]]
    /\ readCurrent' = [readCurrent EXCEPT ![c] = current[w]]

\* The response is sent.
Reply(c) ==
    /\ callPc' = [callPc EXCEPT ![c] = "idle"]
    /\ callWt' = [callWt EXCEPT ![c] = NoWt]
    /\ callTask' = [callTask EXCEPT ![c] = NoTask]
    /\ callTo' = [callTo EXCEPT ![c] = "backlog"]
    /\ callPr' = [callPr EXCEPT ![c] = NoPr]
    /\ readStatus' = [readStatus EXCEPT ![c] = "backlog"]
    /\ readOwner' = [readOwner EXCEPT ![c] = NoWt]
    /\ readPr' = [readPr EXCEPT ![c] = NoPr]
    /\ readCurrent' = [readCurrent EXCEPT ![c] = NoTask]

\* The documented workflow: an agent makes one call at a time, on its own tasks,
\* and moves them forward; each task is assigned once, before it is started.
OneCallAtATime(w) == \A c \in Calls : callWt[c] # w

\* Mutant: a task in review does not count as active.
StartTaskReviewFree(c, w, t) ==
    /\ callPc[c] = "idle"
    /\ Disciplined => OneCallAtATime(w) /\ owner[t] = w /\ status[t] = "backlog"
    /\ {u \in Active(w, t) : status[u] = "in_progress"} = {}
    /\ Blockers(t) = {}
    /\ callPc' = [callPc EXCEPT ![c] = "start"]
    /\ Read(c, w, t, "in_progress", NoPr)
    /\ UNCHANGED <<taskVars, current, documents>>

\* Mutant: no blocker check.
StartTaskUnblocked(c, w, t) ==
    /\ callPc[c] = "idle"
    /\ Disciplined => OneCallAtATime(w) /\ owner[t] = w /\ status[t] = "backlog"
    /\ Active(w, t) = {}
    /\ callPc' = [callPc EXCEPT ![c] = "start"]
    /\ Read(c, w, t, "in_progress", NoPr)
    /\ UNCHANGED <<taskVars, current, documents>>

\* start_task: any worktree, any task of any status; no check of ownership.
StartTask(c, w, t) ==
    /\ callPc[c] = "idle"
    /\ Disciplined => OneCallAtATime(w) /\ owner[t] = w /\ status[t] = "backlog"
    /\ Active(w, t) = {}
    /\ Blockers(t) = {}
    /\ callPc' = [callPc EXCEPT ![c] = "start"]
    /\ Read(c, w, t, "in_progress", NoPr)
    /\ UNCHANGED <<taskVars, current, documents>>

\* update_task(worktree_id, status): columns equal to what was read are not written.
StartWrite(c) ==
    LET t == callTask[c] IN
    /\ callPc[c] = "start"
    /\ status' = IF readStatus[c] = "in_progress" THEN status
                 ELSE [status EXCEPT ![t] = "in_progress"]
    /\ owner' = IF readOwner[c] = callWt[c] THEN owner ELSE [owner EXCEPT ![t] = callWt[c]]
    /\ callPc' = [callPc EXCEPT ![c] = "current"]
    /\ UNCHANGED <<pr, merged, artifact, current, documents, callArgs>>

\* set_worktree_current_task
StartCurrent(c) ==
    /\ callPc[c] = "current"
    /\ current' = [current EXCEPT ![callWt[c]] = callTask[c]]
    /\ Reply(c)
    /\ UNCHANGED <<taskVars, documents>>

\* Mutant: the done guard forgets the close-off exception and lets any owner through.
MayUpdateDoneByOwner(w, t, to, q, skip) ==
    /\ to = "done" => owner[t] = w
    /\ to = "in_progress" => Blockers(t) = {}
    /\ to = "review" => \/ q # NoPr \/ pr[t] # NoPr \/ skip
    /\ q # NoPr /\ to = "review" =>
         \A u \in Tasks \ {t} : ~(FeatureOf[u] = FeatureOf[t] /\ pr[u] = q /\ status[u] = "done")
    /\ to = "done" /\ Type[t] \in {"spec", "impl"} => status[t] = "review"

\* The guards of update_task_status, in its order; q is the pr_url parameter.
MayUpdate(w, t, to, q, skip) ==
    /\ to = "done" => t \in CloseOff /\ owner[t] = w /\ w \in Mains
    /\ to = "in_progress" => Blockers(t) = {}
    /\ to = "review" => \/ q # NoPr \/ pr[t] # NoPr \/ skip
    /\ q # NoPr /\ to = "review" =>
         \A u \in Tasks \ {t} : ~(FeatureOf[u] = FeatureOf[t] /\ pr[u] = q /\ status[u] = "done")
    /\ to = "done" /\ Type[t] \in {"spec", "impl"} => status[t] = "review"

UpdateTaskStatus(c, w, t, to, q, skip) ==
    /\ callPc[c] = "idle"
    /\ Disciplined => /\ OneCallAtATime(w) /\ owner[t] = w
                      /\ to \in {"review", "done"} /\ status[t] = "in_progress"
                      /\ \A u \in Tasks : q # NoPr => pr[u] # q
    /\ MayUpdate(w, t, to, q, skip)
    /\ callPc' = [callPc EXCEPT ![c] = "update"]
    /\ Read(c, w, t, to, q)
    /\ UNCHANGED <<taskVars, current, documents>>

\* update_task(status, pr_url), then for a done task the stale pointer is cleared.
UpdateWrite(c) ==
    LET t == callTask[c] IN
    /\ callPc[c] = "update"
    /\ status' = IF readStatus[c] = callTo[c] THEN status ELSE [status EXCEPT ![t] = callTo[c]]
    /\ pr' = IF callPr[c] \in {NoPr, readPr[c]} THEN pr ELSE [pr EXCEPT ![t] = callPr[c]]
    /\ \/ /\ callTo[c] = "done"
          /\ callPc' = [callPc EXCEPT ![c] = "clear"]
          /\ UNCHANGED callArgs
       \/ callTo[c] # "done" /\ Reply(c)
    /\ UNCHANGED <<owner, merged, artifact, current, documents>>

\* The pointer is compared as the request first read it.
UpdateClear(c) ==
    /\ callPc[c] = "clear"
    /\ current' = IF readCurrent[c] = callTask[c] THEN [current EXCEPT ![callWt[c]] = NoTask]
                  ELSE current
    /\ Reply(c)
    /\ UNCHANGED <<taskVars, documents>>

AssignTask(w, t) ==
    /\ owner[t] # w
    /\ Disciplined => owner[t] = NoWt /\ status[t] = "backlog"
    /\ owner' = [owner EXCEPT ![t] = w]
    /\ UNCHANGED <<status, pr, merged, artifact, current, documents, callPc, callArgs>>

\* mark_pr_merged, and the pull_request.merged webhook: pr_merged is never reset.
MarkPrMerged(t) ==
    /\ ~merged[t]
    /\ Disciplined => status[t] \in {"review", "done"} /\ pr[t] # NoPr
    /\ merged' = [merged EXCEPT ![t] = TRUE]
    /\ UNCHANGED <<status, owner, pr, artifact, current, documents, callPc, callArgs>>

\* report_artifact: any worktree, a spec or plan that is in review as it is read.
ReportArtifact(c, w, t) ==
    /\ callPc[c] = "idle"
    /\ Disciplined => OneCallAtATime(w) /\ owner[t] = w /\ ~artifact[t]
    /\ Type[t] \in {"spec", "plan"} /\ status[t] = "review"
    /\ callPc' = [callPc EXCEPT ![c] = "report"]
    /\ Read(c, w, t, "review", NoPr)
    /\ UNCHANGED <<taskVars, current, documents>>

\* update_task(artifact_path): the status is not written.
ReportWrite(c) ==
    /\ callPc[c] = "report"
    /\ artifact' = [artifact EXCEPT ![callTask[c]] = TRUE]
    /\ callPc' = [callPc EXCEPT ![c] = "document"]
    /\ UNCHANGED <<status, owner, pr, merged, current, documents, callArgs>>

\* create_document, attached to the feature
ReportDocument(c) ==
    /\ callPc[c] = "document"
    /\ documents' = documents \cup {<<FeatureOf[callTask[c]], "artifact">>}
    /\ Reply(c)
    /\ UNCHANGED <<taskVars, current>>

-----------------------------------------------------------------------------
(* The board's PATCH /tasks/{id}. One that carries a status and other      *)
(* fields is a BoardEdit followed by a BoardPatch.                          *)

\* The status, from any to any; a spec or plan sent to review attaches its PR.
BoardPatch(t, to) ==
    /\ Disciplined => status[t] = "review" /\ to = "done"
    /\ status' = [status EXCEPT ![t] = to]
    /\ documents' = IF to = "review" /\ pr[t] # NoPr /\ Type[t] \in {"spec", "plan"}
                    THEN documents \cup {<<FeatureOf[t], pr[t]>>} ELSE documents
    /\ UNCHANGED <<owner, pr, merged, artifact, current, callPc, callArgs>>

\* worktree_id, pr_url and pr_merged are writable too; the workflow lets the board
\* hand out a task that nobody has, and change nothing else.
BoardEdit(t, w, q, m) ==
    /\ Disciplined => owner[t] = NoWt /\ status[t] = "backlog" /\ q = pr[t] /\ m = merged[t]
    /\ owner' = [owner EXCEPT ![t] = w]
    /\ pr' = [pr EXCEPT ![t] = q]
    /\ merged' = [merged EXCEPT ![t] = m]
    /\ UNCHANGED <<status, artifact, current, documents, callPc, callArgs>>

Next ==
    \/ \E c \in Calls :
         \/ \E w \in Worktrees, t \in Tasks :
              \/ StartTask(c, w, t) \/ ReportArtifact(c, w, t)
              \/ \E to \in Statuses, q \in Prs \cup {NoPr}, skip \in BOOLEAN :
                   UpdateTaskStatus(c, w, t, to, q, skip)
         \/ StartWrite(c) \/ StartCurrent(c) \/ UpdateWrite(c) \/ UpdateClear(c)
         \/ ReportWrite(c) \/ ReportDocument(c)
    \/ \E w \in Worktrees, t \in Tasks : AssignTask(w, t)
    \/ \E t \in Tasks :
         \/ MarkPrMerged(t)
         \/ \E to \in Statuses : BoardPatch(t, to)
         \/ \E w \in Worktrees \cup {NoWt}, q \in Prs \cup {NoPr}, m \in BOOLEAN : BoardEdit(t, w, q, m)

Spec == Init /\ [][Next]_vars

\* Someone always acts while anything can be done.
FairSpec == Spec /\ WF_vars(Next)

-----------------------------------------------------------------------------
(* Properties *)

\* The single-active-task rule of start_task, as an invariant: an agent has at
\* most one task in progress or in unmerged review.
OneActiveTask ==
    \A w \in Worktrees : \A t, u \in Tasks :
        /\ owner[t] = w /\ status[t] \in {"in_progress", "review"} /\ ~merged[t]
        /\ u \in Active(w, t)
        => FALSE

\* With the documented workflow the check-then-write of start_task is enough,
\* however the calls of several agents, merges and the board interleave.
DisciplinedOneActive == Disciplined => OneActiveTask

\* An impl task is under way only if every plan of its feature, and through
\* those every spec, has left the agent's hands, whatever agents work on them.
SpecBeforeImpl ==
    Disciplined =>
        \A t, u \in Tasks :
            /\ Type[t] = "impl" /\ Type[u] \in {"plan", "spec"} /\ FeatureOf[t] = FeatureOf[u]
            /\ \E p \in Tasks : Type[p] = "plan" /\ FeatureOf[p] = FeatureOf[t]
            /\ status[t] # "backlog"
            => status[u] \in {"review", "done"}

\* With the documented workflow, requests that check in one transaction and write
\* in a later one implement requests that do both at once: whatever is in flight,
\* no guard that a request found true has become false when its write is made. The
\* one exception is the workflow's own: an artifact may land after the acceptance.
Atomic == INSTANCE Workflow

KeepsWorkflow == Atomic!Spec

\* Agents complete no task but a close-off: a task reaches done only by the
\* board's PATCH, also when the request works from a stale read.
AgentsNeverComplete ==
    [][\A t \in Tasks \ CloseOff :
         status[t] # "done" /\ status'[t] = "done" => UNCHANGED callPc]_vars

\* The guards of start_task never block each other for good: where the union of
\* pipeline, feature and task dependencies has no cycle, every task gets done.
EveryTaskDone == <>(\A t \in Tasks : status[t] = "done")

-----------------------------------------------------------------------------
(* What the proofs add to make the properties inductive.                    *)

\* A request that will write done is for a close-off task.
DoneIsCloseOff ==
    \A c \in Calls : callPc[c] = "update" /\ callTo[c] = "done" => callTask[c] \in CloseOff

\* A request in flight has a worktree and a task; an idle one has none.
CallsBound ==
    \A c \in Calls :
        /\ callPc[c] # "idle" => callWt[c] \in Worktrees /\ callTask[c] \in Tasks
        /\ callPc[c] = "idle" => callWt[c] = NoWt

\* Two requests in flight are of two agents.
CallsApart ==
    \A c, d \in Calls : c # d /\ callWt[c] # NoWt => callWt[c] # callWt[d]

\* Nothing read by start_task goes stale before its write.
StartFresh ==
    \A c \in Calls : callPc[c] = "start" =>
        /\ status[callTask[c]] = "backlog" /\ readStatus[c] = "backlog"
        /\ owner[callTask[c]] = callWt[c] /\ readOwner[c] = callWt[c]
        /\ Active(callWt[c], callTask[c]) = {}
        /\ Blockers(callTask[c]) = {}

\* Nor what is read by update_task_status.
UpdateFresh ==
    \A c \in Calls : callPc[c] = "update" =>
        /\ status[callTask[c]] = "in_progress"
        /\ owner[callTask[c]] = callWt[c]
        /\ callTo[c] \in {"review", "done"}

\* An update found its task in progress, and one to done is the main agent's, of a
\* close-off task that needs no review.
UpdateGuarded ==
    Disciplined =>
        \A c \in Calls : callPc[c] = "update" =>
            /\ readStatus[c] = "in_progress"
            /\ callTo[c] = "done" => /\ callWt[c] \in Mains /\ callTask[c] \in CloseOff
                                    /\ Type[callTask[c]] \notin {"spec", "impl"}

\* A report found its spec or plan in review; the board may have accepted it since.
ReportFresh ==
    Disciplined =>
        \A c \in Calls : callPc[c] = "report" =>
            Type[callTask[c]] \in {"spec", "plan"} /\ status[callTask[c]] \in {"review", "done"}

\* What has been started was not blocked, and is not blocked again.
StartedUnblocked == \A t \in Tasks : status[t] # "backlog" => Blockers(t) = {}

\* Every started task has an owner.
StartedOwned == \A t \in Tasks : status[t] # "backlog" => owner[t] # NoWt

WorkflowInv ==
    Disciplined => /\ CallsBound /\ CallsApart /\ StartFresh /\ UpdateFresh
                   /\ StartedUnblocked /\ StartedOwned /\ OneActiveTask

=============================================================================
