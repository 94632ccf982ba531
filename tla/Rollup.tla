------------------------------- MODULE Rollup -------------------------------
(***************************************************************************)
(* The statuses of features and of their epic, recomputed from the tasks by *)
(* recompute_rollup (src/src/board/services.py) after some of the          *)
(* operations that change a task, and left alone by the others.            *)
(*                                                                         *)
(* recompute_rollup reads the tasks, commits the feature, reads the        *)
(* features and commits the epic; requests run in two worker processes, so *)
(* other requests may come between any two of these steps. A row's status  *)
(* is written only if it differs from the one the request loaded.          *)
(***************************************************************************)
EXTENDS Naturals, FiniteSets

CONSTANTS
    Tasks, Features, Requests,
    FeatureOf,     \* the feature of each task; all features are of one epic
    TaskStatuses,  \* the columns of the board in use
    SetStatuses    \* the statuses given to features and epic by hand

ASSUME FeatureOfAssumption == FeatureOf \in [Tasks -> Features]
ASSUME TaskStatusesAssumption ==
    /\ TaskStatuses \subseteq {"backlog", "prioritized", "in_progress", "review", "done"}
    /\ "backlog" \in TaskStatuses
ASSUME SetStatusesAssumption ==
    SetStatuses \subseteq {"planned", "in_progress", "review", "done"}

VARIABLES
    task, feature, epic,             \* statuses; "none" is a row that does not exist
    pc, on, computed, loaded,        \* requests: the step they are at, their feature, what
                                     \* they computed, the status they loaded ("none": not yet)
    alone                            \* history: no operation overlapped the request on the
                                     \* "epic", on its "feature" only, or neither ("no")

rows == <<task, feature, epic>>
request == <<pc, on, computed, loaded>>
vars == <<rows, request, alone>>

RollupStatuses == {"planned", "in_progress", "review", "done"}

TypeOK ==
    /\ task \in [Tasks -> TaskStatuses \cup {"none"}]
    /\ feature \in [Features -> RollupStatuses \cup {"none"}]
    /\ epic \in RollupStatuses
    /\ pc \in [Requests -> 
         {"idle", "insert", "tasks", "load", "feature", "load_epic", "features", "epic"}]
    /\ on \in [Requests -> Features \cup {"none"}]
    /\ computed \in [Requests -> RollupStatuses \cup {"none"}]
    /\ loaded \in [Requests -> RollupStatuses \cup {"none"}]
    /\ alone \in [Requests -> {"epic", "feature", "no"}]

\* A new epic with new, empty features.
Init ==
    /\ task = [t \in Tasks |-> "none"]
    /\ feature = [f \in Features |-> "planned"]
    /\ epic = "planned"
    /\ pc = [r \in Requests |-> "idle"]
    /\ on = [r \in Requests |-> "none"]
    /\ computed = [r \in Requests |-> "none"]
    /\ loaded = [r \in Requests |-> "none"]
    /\ alone = [r \in Requests |-> "epic"]

-----------------------------------------------------------------------------
(* The roll-up *)

\* A feature's status from the statuses of its tasks.
FeatureRollup(S) ==
    IF S \subseteq {"done"} THEN "done"
    ELSE IF "review" \in S THEN "review"
    ELSE IF S \cap {"in_progress", "prioritized"} # {} THEN "in_progress"
    ELSE "planned"

\* An epic's status from the statuses of its features.
EpicRollup(S) ==
    IF S \subseteq {"done"} THEN "done"
    ELSE IF S \cap {"in_progress", "review"} # {} THEN "in_progress"
    ELSE "planned"

\* get_tasks_for_feature, list_features
TaskRows(f) == {t \in Tasks : FeatureOf[t] = f /\ task[t] # "none"}
FeatureRows == {f \in Features : feature[f] # "none"}

\* The statuses a request sees of the epic's features: its own feature as it is in
\* its session, the others as committed.
SeenFeatures(r) == {IF f = on[r] THEN computed[r] ELSE feature[f] : f \in FeatureRows}

-----------------------------------------------------------------------------
(* Operations that recompute *)

\* An operation on feature f overlaps the requests under way.
Isolation(r, f) ==
    IF pc[r] = "idle" THEN "epic" ELSE IF on[r] = f THEN "no" ELSE "feature"

Overlap(r, f) ==
    IF "no" \in {alone[r], Isolation(r, f)} THEN "no"
    ELSE IF "feature" \in {alone[r], Isolation(r, f)} THEN "feature" ELSE "epic"

\* A request r on f begins, as isolated as the requests under way let it be.
Begin(r, f) ==
    LET others == {Isolation(s, f) : s \in Requests \ {r}} IN
    alone' = [s \in Requests |->
        IF s # r THEN Overlap(s, f)
        ELSE IF "no" \in others THEN "no" ELSE IF "feature" \in others THEN "feature" ELSE "epic"]

Finish(r) ==
    /\ pc' = [pc EXCEPT ![r] = "idle"]
    /\ on' = [on EXCEPT ![r] = "none"]
    /\ computed' = [computed EXCEPT ![r] = "none"]
    /\ loaded' = [loaded EXCEPT ![r] = "none"]
    /\ alone' = [alone EXCEPT ![r] = "epic"]

\* PATCH /tasks/{id} with a status, and the done of a close-off task by its agent:
\* update_task commits.
PatchTask(r, t, to) ==
    /\ pc[r] = "idle" /\ task[t] # "none"
    /\ Begin(r, FeatureOf[t])
    /\ task' = [task EXCEPT ![t] = to]
    /\ pc' = [pc EXCEPT ![r] = "tasks"]
    /\ on' = [on EXCEPT ![r] = FeatureOf[t]]
    /\ UNCHANGED <<feature, epic, computed, loaded>>

\* create_task loads the feature first, and recompute_rollup finds it in the session.
CreateTask(r, f) ==
    /\ pc[r] = "idle" /\ feature[f] # "none"
    /\ Begin(r, f)
    /\ pc' = [pc EXCEPT ![r] = "insert"]
    /\ on' = [on EXCEPT ![r] = f]
    /\ loaded' = [loaded EXCEPT ![r] = feature[f]]
    /\ UNCHANGED <<rows, computed>>

InsertTask(r, t) ==
    /\ pc[r] = "insert" /\ FeatureOf[t] = on[r] /\ task[t] = "none"
    /\ feature[on[r]] # "none"
    /\ task' = [task EXCEPT ![t] = "backlog"]
    /\ pc' = [pc EXCEPT ![r] = "tasks"]
    /\ UNCHANGED <<feature, epic, on, computed, loaded, alone>>

\* recompute_rollup reads the tasks, then loads the feature.
ReadTasks(r) ==
    /\ pc[r] = "tasks"
    /\ computed' = [computed EXCEPT ![r] = FeatureRollup({task[t] : t \in TaskRows(on[r])})]
    /\ pc' = [pc EXCEPT ![r] = "load"]
    /\ UNCHANGED <<rows, on, loaded, alone>>

LoadFeature(r) ==
    /\ pc[r] = "load" /\ feature[on[r]] # "none"
    /\ loaded' = [loaded EXCEPT ![r] = IF @ = "none" THEN feature[on[r]] ELSE @]
    /\ pc' = [pc EXCEPT ![r] = "feature"]
    /\ UNCHANGED <<rows, on, computed, alone>>

\* Mutant: a feature that is done is not reopened.
WriteFeatureDoneStays(r) ==
    /\ pc[r] = "feature"
    /\ computed[r] # loaded[r] => feature[on[r]] # "none"
    /\ feature' = IF computed[r] = loaded[r] \/ loaded[r] = "done" THEN feature
                  ELSE [feature EXCEPT ![on[r]] = computed[r]]
    /\ pc' = [pc EXCEPT ![r] = "load_epic"]
    /\ UNCHANGED <<task, epic, on, computed, loaded, alone>>

WriteFeature(r) ==
    /\ pc[r] = "feature"
    /\ computed[r] # loaded[r] => feature[on[r]] # "none"
    /\ feature' = IF computed[r] = loaded[r] THEN feature
                  ELSE [feature EXCEPT ![on[r]] = computed[r]]
    /\ pc' = [pc EXCEPT ![r] = "load_epic"]
    /\ UNCHANGED <<task, epic, on, computed, loaded, alone>>

LoadEpic(r) ==
    /\ pc[r] = "load_epic"
    /\ loaded' = [loaded EXCEPT ![r] = epic]
    /\ pc' = [pc EXCEPT ![r] = "features"]
    /\ UNCHANGED <<rows, on, computed, alone>>

ReadFeatures(r) ==
    /\ pc[r] = "features"
    /\ computed' = [computed EXCEPT ![r] = EpicRollup(SeenFeatures(r))]
    /\ pc' = [pc EXCEPT ![r] = "epic"]
    /\ UNCHANGED <<rows, on, loaded, alone>>

\* Mutant: the roll-up stops at the feature unless it is done.
WriteEpicDoneOnly(r) ==
    /\ pc[r] = "epic"
    /\ epic' = IF computed[r] = "done" THEN "done" ELSE epic
    /\ Finish(r)
    /\ UNCHANGED <<task, feature>>

WriteEpic(r) ==
    /\ pc[r] = "epic"
    /\ epic' = IF computed[r] = loaded[r] THEN epic ELSE computed[r]
    /\ Finish(r)
    /\ UNCHANGED <<task, feature>>

\* The feature was deleted under the request: no roll-up, or an error response.
FeatureGone(r) ==
    /\ \/ pc[r] \in {"insert", "load"}
       \/ pc[r] = "feature" /\ computed[r] # loaded[r]
    /\ feature[on[r]] = "none"
    /\ Finish(r)
    /\ UNCHANGED rows

-----------------------------------------------------------------------------
(* Operations that do not recompute: one commit each *)

Plain(f) ==
    /\ alone' = [r \in Requests |-> Overlap(r, f)]
    /\ UNCHANGED request

\* start_task, and update_task_status to anything but done.
AgentStatus(t, to) ==
    /\ Plain(FeatureOf[t]) /\ task[t] # "none" /\ to # "done"
    /\ task' = [task EXCEPT ![t] = to]
    /\ UNCHANGED <<feature, epic>>

DeleteTask(t) ==
    /\ Plain(FeatureOf[t]) /\ task[t] # "none"
    /\ task' = [task EXCEPT ![t] = "none"]
    /\ UNCHANGED <<feature, epic>>

CreateFeature(f) ==
    /\ Plain(f) /\ feature[f] = "none"
    /\ feature' = [feature EXCEPT ![f] = "planned"]
    /\ UNCHANGED <<task, epic>>

\* The tasks go with the feature.
DeleteFeature(f) ==
    /\ Plain(f) /\ feature[f] # "none"
    /\ feature' = [feature EXCEPT ![f] = "none"]
    /\ task' = [t \in Tasks |-> IF FeatureOf[t] = f THEN "none" ELSE task[t]]
    /\ UNCHANGED epic

\* PATCH /features/{id} and /epics/{id} accept a status.
SetFeature(f, s) ==
    /\ Plain(f) /\ feature[f] # "none"
    /\ feature' = [feature EXCEPT ![f] = s]
    /\ UNCHANGED <<task, epic>>

SetEpic(s) ==
    /\ Plain("none")
    /\ epic' = s
    /\ UNCHANGED <<task, feature>>

Next ==
    \/ \E r \in Requests :
         \/ \E t \in Tasks : InsertTask(r, t) \/ \E to \in TaskStatuses : PatchTask(r, t, to)
         \/ \E f \in Features : CreateTask(r, f)
         \/ ReadTasks(r) \/ LoadFeature(r) \/ WriteFeature(r)
         \/ LoadEpic(r) \/ ReadFeatures(r) \/ WriteEpic(r) \/ FeatureGone(r)
    \/ \E t \in Tasks : DeleteTask(t) \/ \E to \in TaskStatuses : AgentStatus(t, to)
    \/ \E f \in Features :
         \/ CreateFeature(f) \/ DeleteFeature(f)
         \/ \E s \in SetStatuses : SetFeature(f, s)
    \/ \E s \in SetStatuses : SetEpic(s)

Spec == Init /\ [][Next]_vars

-----------------------------------------------------------------------------
(* Properties *)

Quiet == \A r \in Requests : pc[r] = "idle"
FeatureExact(f) == feature[f] = FeatureRollup({task[t] : t \in TaskRows(f)})
EpicExact == epic = EpicRollup({feature[f] : f \in FeatureRows})

\* Whatever made the board stale, a PATCH or creation that no operation on its
\* feature overlaps leaves the feature equal to the roll-up of its tasks.
FeatureRepaired ==
    [][\A r \in Requests, f \in Features :
         pc[r] = "epic" /\ on[r] = f /\ pc'[r] = "idle" /\ alone[r] # "no" => FeatureExact(f)']_vars

\* One that nothing overlaps leaves the epic equal to the roll-up of its features.
EpicRepaired ==
    [][\A r \in Requests :
         pc[r] = "epic" /\ pc'[r] = "idle" /\ alone[r] = "epic" => EpicExact']_vars

\* design.md: "the board always reflects reality. No stale "in progress" epics
\* with all-done tasks."
NoStaleEpics ==
    Quiet /\ (\E t \in Tasks : task[t] # "none") /\ (\A t \in Tasks : task[t] \in {"done", "none"})
       /\ (\A f \in FeatureRows : TaskRows(f) # {})
    => epic # "in_progress"

-----------------------------------------------------------------------------
(* What the proofs add to make the properties inductive.                    *)

Busy(r) == pc[r] # "idle"

\* What the history says of two requests under way at once.
Isolated ==
    \A r, s \in Requests : r # s /\ Busy(r) /\ Busy(s) =>
        alone[r] # "epic" /\ (on[r] = on[s] => alone[r] = "no")

\* A request under way has a feature, and has computed a status before it writes one;
\* one that is not has loaded none.
Bound ==
    \A r \in Requests :
        /\ Busy(r) => on[r] \in Features
        /\ ~Busy(r) => loaded[r] = "none"
        /\ pc[r] = "epic" => computed[r] # "none"

\* What a request whose feature nobody else touched knows of it.
FeatureKnown(r) ==
    alone[r] # "no" =>
        /\ pc[r] \in {"insert", "tasks", "load"} => loaded[r] \in {"none", feature[on[r]]}
        /\ pc[r] = "feature" => loaded[r] = feature[on[r]]
        /\ pc[r] \in {"load", "feature"} =>
             computed[r] = FeatureRollup({task[t] : t \in TaskRows(on[r])})
        /\ pc[r] \in {"load_epic", "features"} => computed[r] = feature[on[r]]
        /\ pc[r] \in {"load_epic", "features", "epic"} => FeatureExact(on[r])

\* What a request that nobody overlapped knows of the epic.
EpicKnown(r) ==
    alone[r] = "epic" =>
        /\ pc[r] \in {"features", "epic"} => loaded[r] = epic
        /\ pc[r] = "epic" => computed[r] = EpicRollup({feature[f] : f \in FeatureRows})

RollupKnown == \A r \in Requests : FeatureKnown(r) /\ EpicKnown(r)

=============================================================================
