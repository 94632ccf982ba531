---------------------------- MODULE RollupProofs ----------------------------
(* Type correctness of Rollup, and that a roll-up nothing overlaps repairs  *)
(* whatever was stale: the feature by FeatureRepaired, the epic by          *)
(* EpicRepaired, for any tasks, features and number of requests.            *)
EXTENDS Rollup, TLAPS

\* The roll-ups yield statuses.
LEMMA RollupTypes ==
    \A S : FeatureRollup(S) \in RollupStatuses /\ EpicRollup(S) \in RollupStatuses
  BY DEF FeatureRollup, EpicRollup, RollupStatuses

\* An operation on f leaves a request as isolated as it was, or less.
LEMMA OverlapIs ==
    ASSUME TypeOK, NEW r \in Requests, NEW f
    PROVE  /\ Overlap(r, f) \in {"epic", "feature", "no"}
           /\ Overlap(r, f) # "no" => alone[r] # "no" /\ (Busy(r) => on[r] # f)
           /\ Overlap(r, f) = "epic" => alone[r] = "epic" /\ ~Busy(r)
  BY DEF Overlap, Isolation, TypeOK, Busy

\* A request that begins knows of every other one under way.
LEMMA BeginIs ==
    ASSUME TypeOK, NEW r \in Requests, NEW f, Begin(r, f)
    PROVE  /\ alone' \in [Requests -> {"epic", "feature", "no"}]
           /\ \A s \in Requests \ {r} : alone'[s] = Overlap(s, f)
           /\ \A s \in Requests \ {r} : Busy(s) =>
                alone'[r] # "epic" /\ (on[s] = f => alone'[r] = "no")
  <1>1. \A s \in Requests : Overlap(s, f) \in {"epic", "feature", "no"}
    BY OverlapIs
  <1>2. \A s \in Requests \ {r} : Busy(s) =>
          Isolation(s, f) \in {"no", "feature"} /\ (on[s] = f => Isolation(s, f) = "no")
    BY DEF Isolation, Busy
  <1> QED
    BY <1>1, <1>2 DEF Begin

-----------------------------------------------------------------------------
(* Types *)

\* One step keeps the types and binds requests to features.
LEMMA StepType == TypeOK /\ Bound /\ [Next]_vars => TypeOK' /\ Bound'
  <1> SUFFICES ASSUME TypeOK, Bound, [Next]_vars PROVE TypeOK' /\ Bound'
    OBVIOUS
  <1> USE FeatureOfAssumption, TaskStatusesAssumption, SetStatusesAssumption, RollupTypes
  <1>1. ASSUME NEW r \in Requests, NEW t \in Tasks, InsertTask(r, t) PROVE TypeOK' /\ Bound'
    BY <1>1 DEF InsertTask, TypeOK, Bound, Busy
  <1>2. ASSUME NEW r \in Requests, NEW t \in Tasks, NEW to \in TaskStatuses, PatchTask(r, t, to)
        PROVE  TypeOK' /\ Bound'
    <2>1. alone' \in [Requests -> {"epic", "feature", "no"}]
      BY <1>2, BeginIs DEF PatchTask
    <2>2. TypeOK'
      BY <1>2, <2>1 DEF PatchTask, TypeOK
    <2>3. Bound'
      BY <1>2 DEF PatchTask, TypeOK, Bound, Busy
    <2> QED
      BY <2>2, <2>3
  <1>3. ASSUME NEW r \in Requests, NEW f \in Features, CreateTask(r, f) PROVE TypeOK' /\ Bound'
    <2>1. alone' \in [Requests -> {"epic", "feature", "no"}]
      BY <1>3, BeginIs DEF CreateTask
    <2>2. TypeOK'
      BY <1>3, <2>1 DEF CreateTask, rows, TypeOK
    <2>3. Bound'
      BY <1>3 DEF CreateTask, TypeOK, Bound, Busy
    <2> QED
      BY <2>2, <2>3
  <1>4. ASSUME NEW r \in Requests, ReadTasks(r) PROVE TypeOK' /\ Bound'
    BY <1>4 DEF ReadTasks, rows, TypeOK, Bound, Busy
  <1>5. ASSUME NEW r \in Requests, LoadFeature(r) PROVE TypeOK' /\ Bound'
    <2>1. on[r] \in Features
      BY <1>5 DEF LoadFeature, Bound, Busy
    <2> QED
      BY <1>5, <2>1 DEF LoadFeature, rows, TypeOK, Bound, Busy
  <1>6. ASSUME NEW r \in Requests, WriteFeature(r) PROVE TypeOK' /\ Bound'
    BY <1>6 DEF WriteFeature, TypeOK, Bound, Busy
  <1>7. ASSUME NEW r \in Requests, LoadEpic(r) PROVE TypeOK' /\ Bound'
    BY <1>7 DEF LoadEpic, rows, TypeOK, Bound, Busy
  <1>8. ASSUME NEW r \in Requests, ReadFeatures(r) PROVE TypeOK' /\ Bound'
    <2>1. EpicRollup(SeenFeatures(r)) \in RollupStatuses /\ "none" \notin RollupStatuses
      BY DEF RollupStatuses
    <2> QED
      BY <1>8, <2>1 DEF ReadFeatures, rows, TypeOK, Bound, Busy
  <1>9. ASSUME NEW r \in Requests, WriteEpic(r) PROVE TypeOK' /\ Bound'
    <2>1. epic' \in RollupStatuses
      BY <1>9 DEF WriteEpic, TypeOK, Bound
    <2> QED
      BY <1>9, <2>1 DEF WriteEpic, Finish, TypeOK, Bound, Busy
  <1>10. ASSUME NEW r \in Requests, FeatureGone(r) PROVE TypeOK' /\ Bound'
    BY <1>10 DEF FeatureGone, Finish, rows, TypeOK, Bound, Busy
  <1>11. ASSUME NEW f, Plain(f)
         PROVE  /\ alone' \in [Requests -> {"epic", "feature", "no"}]
                /\ UNCHANGED <<pc, on, computed, loaded>>
    BY <1>11, OverlapIs DEF Plain, request
  <1>12. ASSUME NEW t \in Tasks, DeleteTask(t) PROVE TypeOK' /\ Bound'
    <2>1. Plain(FeatureOf[t])
      BY <1>12 DEF DeleteTask
    <2> QED
      BY <1>11, <1>12, <2>1 DEF DeleteTask, TypeOK, Bound, Busy
  <1>13. ASSUME NEW t \in Tasks, NEW to \in TaskStatuses, AgentStatus(t, to)
         PROVE  TypeOK' /\ Bound'
    <2>1. Plain(FeatureOf[t])
      BY <1>13 DEF AgentStatus
    <2> QED
      BY <1>11, <1>13, <2>1 DEF AgentStatus, TypeOK, Bound, Busy
  <1>14. ASSUME NEW f \in Features, CreateFeature(f) PROVE TypeOK' /\ Bound'
    BY <1>11, <1>14 DEF CreateFeature, TypeOK, Bound, Busy, RollupStatuses
  <1>15. ASSUME NEW f \in Features, DeleteFeature(f) PROVE TypeOK' /\ Bound'
    BY <1>11, <1>15 DEF DeleteFeature, TypeOK, Bound, Busy
  <1>16. ASSUME NEW f \in Features, NEW s \in SetStatuses, SetFeature(f, s)
         PROVE  TypeOK' /\ Bound'
    BY <1>11, <1>16 DEF SetFeature, TypeOK, Bound, Busy, RollupStatuses
  <1>17. ASSUME NEW s \in SetStatuses, SetEpic(s) PROVE TypeOK' /\ Bound'
    BY <1>11, <1>17 DEF SetEpic, TypeOK, Bound, Busy, RollupStatuses
  <1>18. CASE UNCHANGED vars
    BY <1>18 DEF vars, rows, request, TypeOK, Bound, Busy
  <1> QED
    BY <1>1, <1>2, <1>3, <1>4, <1>5, <1>6, <1>7, <1>8, <1>9, <1>10, <1>12, <1>13, <1>14,
       <1>15, <1>16, <1>17, <1>18 DEF Next

\* The initial state is well typed.
LEMMA InitType == Init => TypeOK /\ Bound
  BY DEF Init, TypeOK, Bound, Busy, RollupStatuses

\* Every reachable state is well typed: every status a roll-up or a request writes is
\* one of its kind, and no request computes or loads a status that does not exist.
THEOREM TypeCorrect == Spec => []TypeOK
  <1>1. TypeOK /\ Bound => TypeOK
    OBVIOUS
  <1> QED
    BY <1>1, InitType, StepType, PTL DEF Spec

-----------------------------------------------------------------------------
(* Isolation *)

\* What a step that is not its own does to a request: nothing to what it holds, and
\* nothing to its feature, or to any row, unless the history says so.
Undisturbed(r) ==
    /\ pc'[r] = pc[r] /\ on'[r] = on[r] /\ computed'[r] = computed[r] /\ loaded'[r] = loaded[r]
    /\ alone'[r] # "no" => alone[r] # "no"
    /\ alone'[r] # "no" /\ Busy(r) =>
         /\ feature'[on[r]] = feature[on[r]]
         /\ \A t \in Tasks : FeatureOf[t] = on[r] => task'[t] = task[t]
    /\ alone'[r] = "epic" => alone[r] = "epic" /\ (Busy(r) => UNCHANGED rows)

\* The steps of a request's own.
Begins(r) ==
    \/ \E t \in Tasks, to \in TaskStatuses : PatchTask(r, t, to)
    \/ \E f \in Features : CreateTask(r, f)
Continues(r) ==
    \/ \E t \in Tasks : InsertTask(r, t)
    \/ ReadTasks(r) \/ LoadFeature(r) \/ WriteFeature(r) \/ LoadEpic(r) \/ ReadFeatures(r)
Ends(r) == WriteEpic(r) \/ FeatureGone(r)

\* A step that is no request's own leaves every request undisturbed.
LEMMA PlainUndisturbed ==
    ASSUME TypeOK, NEW r \in Requests, NEW f, Plain(f),
           \A g \in Features \ {f} : feature'[g] = feature[g],
           \A t \in Tasks : FeatureOf[t] # f => task'[t] = task[t],
           Bound
    PROVE  Undisturbed(r)
  <1>1. alone'[r] = Overlap(r, f) /\ UNCHANGED <<pc, on, computed, loaded>>
    BY DEF Plain, request
  <1>2. Busy(r) => on[r] \in Features
    BY DEF Bound
  <1> QED
    BY <1>1, <1>2, OverlapIs DEF Undisturbed

\* Nor does a request that begins disturb another.
LEMMA BeginUndisturbed ==
    ASSUME TypeOK, Bound, NEW r \in Requests, NEW s \in Requests \ {r}, Begins(s)
    PROVE  Undisturbed(r)
  <1> USE FeatureOfAssumption
  <1>1. ASSUME NEW t \in Tasks, NEW to \in TaskStatuses, PatchTask(s, t, to)
        PROVE  Undisturbed(r)
    <2>1. /\ alone'[r] = Overlap(r, FeatureOf[t]) /\ UNCHANGED <<feature, epic, computed, loaded>>
          /\ pc'[r] = pc[r] /\ on'[r] = on[r]
      BY <1>1, BeginIs DEF PatchTask, TypeOK
    <2>2. \A u \in Tasks : FeatureOf[u] # FeatureOf[t] => task'[u] = task[u]
      BY <1>1 DEF PatchTask, TypeOK
    <2> QED
      BY <2>1, <2>2, OverlapIs DEF Undisturbed
  <1>2. ASSUME NEW f \in Features, CreateTask(s, f) PROVE Undisturbed(r)
    <2>1. /\ alone'[r] = Overlap(r, f) /\ UNCHANGED <<task, feature, epic, computed>>
          /\ pc'[r] = pc[r] /\ on'[r] = on[r] /\ loaded'[r] = loaded[r]
      BY <1>2, BeginIs DEF CreateTask, TypeOK, rows
    <2> QED
      BY <2>1, OverlapIs DEF Undisturbed
  <1> QED
    BY <1>1, <1>2 DEF Begins

\* A request that goes on or ends disturbs only those that the history names.
LEMMA StepUndisturbed ==
    ASSUME TypeOK, Bound, Isolated, NEW r \in Requests, NEW s \in Requests \ {r},
           Continues(s) \/ Ends(s)
    PROVE  Undisturbed(r)
  <1>1. Busy(s) /\ on[s] \in Features
    BY DEF Continues, Ends, InsertTask, ReadTasks, LoadFeature, WriteFeature, LoadEpic,
           ReadFeatures, WriteEpic, FeatureGone, Busy, Bound
  <1>2. Busy(r) => alone[r] # "epic" /\ (on[r] = on[s] => alone[r] = "no")
    BY <1>1 DEF Isolated
  <1>3. /\ pc'[r] = pc[r] /\ on'[r] = on[r] /\ computed'[r] = computed[r]
        /\ loaded'[r] = loaded[r] /\ alone'[r] = alone[r]
    <2>1. CASE Continues(s)
      BY <2>1 DEF Continues, InsertTask, ReadTasks, LoadFeature, WriteFeature, LoadEpic,
                  ReadFeatures, TypeOK
    <2>2. CASE Ends(s)
      BY <2>2 DEF Ends, WriteEpic, FeatureGone, Finish, TypeOK
    <2> QED
      BY <2>1, <2>2
  <1>4. /\ \A g \in Features \ {on[s]} : feature'[g] = feature[g]
        /\ \A t \in Tasks : FeatureOf[t] # on[s] => task'[t] = task[t]
    <2>1. CASE Continues(s)
      BY <2>1 DEF Continues, InsertTask, ReadTasks, LoadFeature, WriteFeature, LoadEpic,
                  ReadFeatures, TypeOK, rows
    <2>2. CASE Ends(s)
      BY <2>2 DEF Ends, WriteEpic, FeatureGone, rows
    <2> QED
      BY <2>1, <2>2
  <1>5. Busy(r) => on[r] \in Features
    BY DEF Bound
  <1> QED
    BY <1>2, <1>3, <1>4, <1>5 DEF Undisturbed

\* A step that is not the request's own leaves it undisturbed.
LEMMA OthersUndisturbed ==
    ASSUME TypeOK, Bound, Isolated, NEW r \in Requests, [Next]_vars,
           ~Begins(r), ~Continues(r), ~Ends(r)
    PROVE  Undisturbed(r)
  <1> USE FeatureOfAssumption
  <1>1. ASSUME NEW s \in Requests, Begins(s) \/ Continues(s) \/ Ends(s) PROVE Undisturbed(r)
    BY <1>1, BeginUndisturbed, StepUndisturbed
  <1>2. ASSUME NEW t \in Tasks, DeleteTask(t) \/ \E to \in TaskStatuses : AgentStatus(t, to)
        PROVE  Undisturbed(r)
    <2>1. Plain(FeatureOf[t]) /\ UNCHANGED feature
      BY <1>2 DEF DeleteTask, AgentStatus
    <2>2. \A u \in Tasks : FeatureOf[u] # FeatureOf[t] => task'[u] = task[u]
      BY <1>2 DEF DeleteTask, AgentStatus, TypeOK
    <2> QED
      BY <2>1, <2>2, PlainUndisturbed
  <1>3. ASSUME NEW f \in Features,
               CreateFeature(f) \/ DeleteFeature(f) \/ \E s \in SetStatuses : SetFeature(f, s)
        PROVE  Undisturbed(r)
    <2>1. Plain(f) /\ \A g \in Features \ {f} : feature'[g] = feature[g]
      BY <1>3 DEF CreateFeature, DeleteFeature, SetFeature, TypeOK
    <2>2. \A u \in Tasks : FeatureOf[u] # f => task'[u] = task[u]
      BY <1>3 DEF CreateFeature, DeleteFeature, SetFeature, TypeOK
    <2> QED
      BY <2>1, <2>2, PlainUndisturbed
  <1>4. ASSUME NEW s \in SetStatuses, SetEpic(s) PROVE Undisturbed(r)
    <2>1. Plain("none") /\ UNCHANGED <<task, feature>>
      BY <1>4 DEF SetEpic
    <2> QED
      BY <2>1, PlainUndisturbed
  <1>5. CASE UNCHANGED vars
    BY <1>5 DEF vars, rows, request, Undisturbed
  <1> QED
    BY <1>1, <1>2, <1>3, <1>4, <1>5 DEF Next, Begins, Continues, Ends

\* The history stays right about every two requests.
LEMMA StepIsolated ==
    ASSUME TypeOK, Bound, Isolated, [Next]_vars PROVE Isolated'
  <1> SUFFICES ASSUME NEW r \in Requests, NEW s \in Requests, r # s, Busy(r)', Busy(s)'
               PROVE  /\ alone'[r] # "epic"
                      /\ on'[r] = on'[s] => alone'[r] = "no"
    BY DEF Isolated
  <1> USE FeatureOfAssumption
  <1>1. CASE Begins(s)
    <2>1. Undisturbed(r) /\ Busy(r)
      BY <1>1, BeginUndisturbed DEF Undisturbed, Busy
    <2>2. PICK f \in Features : Begin(s, f) /\ on'[s] = f
      BY <1>1 DEF Begins, PatchTask, CreateTask, TypeOK
    <2>3. alone'[r] = Overlap(r, f)
      BY <2>2, BeginIs
    <2> QED
      BY <2>1, <2>2, <2>3, OverlapIs DEF Undisturbed
  <1>2. CASE Begins(r)
    <2>1. Undisturbed(s) /\ Busy(s)
      BY <1>2, BeginUndisturbed DEF Undisturbed, Busy
    <2>2. PICK f \in Features : Begin(r, f) /\ on'[r] = f
      BY <1>2 DEF Begins, PatchTask, CreateTask, TypeOK
    <2> QED
      BY <2>1, <2>2, BeginIs DEF Undisturbed
  <1>3. ASSUME NEW q \in Requests, Ends(q) PROVE ~Busy(q)'
    BY <1>3 DEF Ends, WriteEpic, FeatureGone, Finish, Busy, TypeOK
  <1>4. ASSUME NEW q \in Requests, Continues(q)
        PROVE  Busy(q) /\ on'[q] = on[q] /\ alone'[q] = alone[q]
    BY <1>4 DEF Continues, InsertTask, ReadTasks, LoadFeature, WriteFeature, LoadEpic,
                ReadFeatures, Busy, TypeOK
  <1>5. ASSUME NEW q \in Requests, q \in {r, s}, ~Begins(q), ~Ends(q)
        PROVE  /\ Busy(q) /\ on'[q] = on[q]
               /\ alone'[q] # "no" => alone[q] # "no"
               /\ alone'[q] = "epic" => alone[q] = "epic"
    <2>1. CASE Continues(q)
      BY <1>4, <2>1
    <2>2. CASE ~Continues(q)
      <3>1. Undisturbed(q)
        BY <1>5, <2>2, OthersUndisturbed
      <3> QED
        BY <1>5, <3>1 DEF Undisturbed, Busy
    <2> QED
      BY <2>1, <2>2
  <1> QED
    BY <1>1, <1>2, <1>3, <1>5 DEF Isolated

-----------------------------------------------------------------------------
(* Repair *)

\* What a request knows stays true while it is undisturbed.
LEMMA UndisturbedKnown ==
    ASSUME TypeOK, Bound, NEW r \in Requests, Undisturbed(r), FeatureKnown(r), EpicKnown(r)
    PROVE  FeatureKnown(r)' /\ EpicKnown(r)'
  <1>1. CASE ~Busy(r)
    BY <1>1 DEF Undisturbed, FeatureKnown, EpicKnown, Busy
  <1>2. CASE Busy(r)
    <2>1. ASSUME alone'[r] # "no"
          PROVE  /\ feature'[on[r]] = feature[on[r]] /\ TaskRows(on[r])' = TaskRows(on[r])
                 /\ {task'[t] : t \in TaskRows(on[r])} = {task[t] : t \in TaskRows(on[r])}
      BY <1>2, <2>1 DEF Undisturbed, TaskRows
    <2>2. FeatureKnown(r)'
      BY <2>1 DEF Undisturbed, FeatureKnown, FeatureExact, TaskRows
    <2>3. EpicKnown(r)'
      BY <1>2 DEF Undisturbed, EpicKnown, rows, FeatureRows
    <2> QED
      BY <2>2, <2>3
  <1> QED
    BY <1>1, <1>2

\* What a request knows stays true through its own steps.
LEMMA OwnKnown ==
    ASSUME TypeOK, Bound, NEW r \in Requests, FeatureKnown(r), EpicKnown(r),
           Begins(r) \/ Continues(r) \/ Ends(r)
    PROVE  FeatureKnown(r)' /\ EpicKnown(r)'
  <1> USE FeatureOfAssumption
  <1>1. ASSUME NEW t \in Tasks, NEW to \in TaskStatuses, PatchTask(r, t, to)
        PROVE  FeatureKnown(r)' /\ EpicKnown(r)'
    <2>1. pc'[r] = "tasks" /\ loaded'[r] = "none"
      BY <1>1 DEF PatchTask, TypeOK, Bound, Busy
    <2> QED
      BY <2>1 DEF FeatureKnown, EpicKnown
  <1>2. ASSUME NEW f \in Features, CreateTask(r, f) PROVE FeatureKnown(r)' /\ EpicKnown(r)'
    <2>1. pc'[r] = "insert" /\ on'[r] = f /\ loaded'[r] = feature'[f]
      BY <1>2 DEF CreateTask, TypeOK, rows
    <2> QED
      BY <2>1 DEF FeatureKnown, EpicKnown
  <1>3. ASSUME NEW t \in Tasks, InsertTask(r, t) PROVE FeatureKnown(r)' /\ EpicKnown(r)'
    <2>1. pc[r] = "insert" /\ pc'[r] = "tasks" /\ UNCHANGED <<feature, on, loaded, alone>>
      BY <1>3 DEF InsertTask, TypeOK
    <2> QED
      BY <2>1 DEF FeatureKnown, EpicKnown
  <1>4. CASE ReadTasks(r)
    <2>1. /\ pc[r] = "tasks" /\ pc'[r] = "load" /\ UNCHANGED <<task, feature, on, loaded, alone>>
          /\ computed'[r] = FeatureRollup({task[t] : t \in TaskRows(on[r])})
      BY <1>4 DEF ReadTasks, TypeOK, rows
    <2>2. TaskRows(on[r])' = TaskRows(on[r])
      BY <2>1 DEF TaskRows
    <2> QED
      BY <2>1, <2>2 DEF FeatureKnown, EpicKnown
  <1>5. CASE LoadFeature(r)
    <2>1. /\ pc[r] = "load" /\ pc'[r] = "feature" /\ UNCHANGED <<task, feature, on, computed, alone>>
          /\ loaded'[r] = IF loaded[r] = "none" THEN feature[on[r]] ELSE loaded[r]
      BY <1>5 DEF LoadFeature, TypeOK, rows
    <2>2. TaskRows(on[r])' = TaskRows(on[r])
      BY <2>1 DEF TaskRows
    <2> QED
      BY <2>1, <2>2 DEF FeatureKnown, EpicKnown
  <1>6. CASE WriteFeature(r)
    <2>1. /\ pc[r] = "feature" /\ pc'[r] = "load_epic" /\ on[r] \in Features
          /\ UNCHANGED <<task, on, computed, alone>>
      BY <1>6 DEF WriteFeature, TypeOK, Bound, Busy
    <2>2. feature'[on[r]] = IF computed[r] = loaded[r] THEN feature[on[r]] ELSE computed[r]
      BY <1>6, <2>1 DEF WriteFeature, TypeOK
    <2>3. TaskRows(on[r])' = TaskRows(on[r])
      BY <2>1 DEF TaskRows
    <2>4. alone[r] # "no" =>
            /\ feature'[on[r]] = computed[r]
            /\ computed[r] = FeatureRollup({task[t] : t \in TaskRows(on[r])})
      BY <2>1, <2>2 DEF FeatureKnown
    <2> QED
      BY <2>1, <2>3, <2>4 DEF FeatureKnown, EpicKnown, FeatureExact
  <1>7. CASE LoadEpic(r)
    <2>1. /\ pc[r] = "load_epic" /\ pc'[r] = "features" /\ loaded'[r] = epic
          /\ UNCHANGED <<rows, on, computed, alone>>
      BY <1>7 DEF LoadEpic, TypeOK
    <2>2. FeatureExact(on[r])' = FeatureExact(on[r])
      BY <2>1 DEF FeatureExact, TaskRows, rows
    <2> QED
      BY <2>1, <2>2 DEF FeatureKnown, EpicKnown, rows
  <1>8. CASE ReadFeatures(r)
    <2>1. /\ pc[r] = "features" /\ pc'[r] = "epic" /\ computed'[r] = EpicRollup(SeenFeatures(r))
          /\ UNCHANGED <<rows, on, loaded, alone>>
      BY <1>8 DEF ReadFeatures, TypeOK
    <2>2. FeatureExact(on[r])' = FeatureExact(on[r]) /\ FeatureRows' = FeatureRows
      BY <2>1 DEF FeatureExact, TaskRows, FeatureRows, rows
    <2>3. alone[r] # "no" => SeenFeatures(r) = {feature[f] : f \in FeatureRows}
      BY <2>1 DEF SeenFeatures, FeatureKnown
    <2>4. {feature'[f] : f \in FeatureRows'} = {feature[f] : f \in FeatureRows}
      BY <2>1, <2>2 DEF rows
    <2> QED
      BY <2>1, <2>2, <2>3, <2>4 DEF FeatureKnown, EpicKnown, rows
  <1>9. CASE Ends(r)
    <2>1. pc'[r] = "idle"
      BY <1>9 DEF Ends, WriteEpic, FeatureGone, Finish, TypeOK
    <2> QED
      BY <2>1 DEF FeatureKnown, EpicKnown
  <1> QED
    BY <1>1, <1>2, <1>3, <1>4, <1>5, <1>6, <1>7, <1>8, <1>9 DEF Begins, Continues

RepairInv == TypeOK /\ Bound /\ Isolated /\ RollupKnown

\* The invariant the repair rests on holds in every reachable state.
LEMMA Repairs == Spec => []RepairInv
  <1>1. Init => RepairInv
    <2>1. Init => Isolated /\ RollupKnown
      BY DEF Init, Isolated, RollupKnown, FeatureKnown, EpicKnown, Busy
    <2> QED
      BY <2>1, InitType DEF RepairInv
  <1>2. RepairInv /\ [Next]_vars => RepairInv'
    <2> SUFFICES ASSUME RepairInv, [Next]_vars PROVE RepairInv'
      OBVIOUS
    <2>1. TypeOK' /\ Bound' /\ Isolated'
      BY StepType, StepIsolated DEF RepairInv
    <2>2. ASSUME NEW r \in Requests PROVE FeatureKnown(r)' /\ EpicKnown(r)'
      BY OwnKnown, OthersUndisturbed, UndisturbedKnown DEF RepairInv, RollupKnown
    <2> QED
      BY <2>1, <2>2 DEF RepairInv, RollupKnown
  <1> QED
    BY <1>1, <1>2, PTL DEF Spec

\* Only its last commit takes a request from "epic" to "idle".
LEMMA LastStep ==
    ASSUME RepairInv, [Next]_vars, NEW r \in Requests, pc[r] = "epic", pc'[r] = "idle"
    PROVE  WriteEpic(r)
  <1>1. ~Begins(r) /\ ~Continues(r) /\ ~FeatureGone(r)
    BY DEF Begins, PatchTask, CreateTask, Continues, InsertTask, ReadTasks, LoadFeature,
           WriteFeature, LoadEpic, ReadFeatures, FeatureGone
  <1> QED
    BY <1>1, OthersUndisturbed DEF RepairInv, Ends, Undisturbed

\* A roll-up that no operation on its feature overlapped leaves the feature equal to
\* the roll-up of its tasks, whatever the other requests do to the rest of the board.
THEOREM FeatureIsRepaired == Spec => FeatureRepaired
  <1>1. ASSUME RepairInv, [Next]_vars, NEW r \in Requests, NEW f \in Features,
               pc[r] = "epic", on[r] = f, pc'[r] = "idle", alone[r] # "no"
        PROVE  FeatureExact(f)'
    <2>1. WriteEpic(r)
      BY <1>1, LastStep
    <2>2. FeatureExact(f)
      BY <1>1 DEF RepairInv, RollupKnown, FeatureKnown
    <2> QED
      BY <2>1, <2>2 DEF WriteEpic, FeatureExact, TaskRows
  <1>2. RepairInv /\ [Next]_vars =>
          [\A r \in Requests, f \in Features :
             pc[r] = "epic" /\ on[r] = f /\ pc'[r] = "idle" /\ alone[r] # "no"
             => FeatureExact(f)']_vars
    BY <1>1
  <1> QED
    BY <1>2, Repairs, PTL DEF Spec, FeatureRepaired

\* A roll-up that nothing overlapped leaves the epic equal to the roll-up of its
\* features.
THEOREM EpicIsRepaired == Spec => EpicRepaired
  <1>1. ASSUME RepairInv, [Next]_vars, NEW r \in Requests,
               pc[r] = "epic", pc'[r] = "idle", alone[r] = "epic"
        PROVE  EpicExact'
    <2>1. WriteEpic(r)
      BY <1>1, LastStep
    <2>2. loaded[r] = epic /\ computed[r] = EpicRollup({feature[f] : f \in FeatureRows})
      BY <1>1 DEF RepairInv, RollupKnown, EpicKnown
    <2>3. epic' = computed[r] /\ UNCHANGED <<task, feature>>
      BY <2>1, <2>2 DEF WriteEpic
    <2> QED
      BY <2>2, <2>3 DEF EpicExact, FeatureRows
  <1>2. RepairInv /\ [Next]_vars =>
          [\A r \in Requests :
             pc[r] = "epic" /\ pc'[r] = "idle" /\ alone[r] = "epic" => EpicExact']_vars
    BY <1>1
  <1> QED
    BY <1>2, Repairs, PTL DEF Spec, EpicRepaired
=============================================================================
