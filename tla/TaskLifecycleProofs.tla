------------------------ MODULE TaskLifecycleProofs ------------------------
(***************************************************************************)
(* Proofs about TaskLifecycle, for any sets of tasks, agents, pull requests *)
(* and concurrent requests, and any features and dependencies.             *)
(***************************************************************************)
EXTENDS TaskLifecycle, TLAPS

USE TypeAssumption, FeatureAssumption, DependsOnAssumption, NullAssumption,
    RolesAssumption, DisciplinedAssumption

\* A request under way has a task.
CallsNamed == \A c \in Calls : callPc[c] # "idle" => callTask[c] \in Tasks

\* The initial state has the declared types: no task is started, no request is under way.
LEMMA InitType == Init => TypeOK
  BY DEF Init, TypeOK, Statuses

\* Reading for a request keeps the request's variables well typed.
LEMMA ReadType ==
    ASSUME TypeOK, NEW c \in Calls, NEW w \in Worktrees, NEW t \in Tasks,
           NEW to \in Statuses, NEW p \in Prs \cup {NoPr}, Read(c, w, t, to, p)
    PROVE  /\ callWt' \in [Calls -> Worktrees \cup {NoWt}]
           /\ callTask' \in [Calls -> Tasks \cup {NoTask}]
           /\ callTo' \in [Calls -> Statuses]
           /\ callPr' \in [Calls -> Prs \cup {NoPr}]
           /\ readStatus' \in [Calls -> Statuses]
           /\ readOwner' \in [Calls -> Worktrees \cup {NoWt}]
           /\ readPr' \in [Calls -> Prs \cup {NoPr}]
           /\ readCurrent' \in [Calls -> Tasks \cup {NoTask}]
  BY DEF TypeOK, Read

\* So does sending the response.
LEMMA ReplyType ==
    ASSUME TypeOK, NEW c \in Calls, Reply(c)
    PROVE  /\ callPc' \in [Calls -> {"idle", "start", "current", "update", "clear", "report", "document"}]
           /\ callWt' \in [Calls -> Worktrees \cup {NoWt}]
           /\ callTask' \in [Calls -> Tasks \cup {NoTask}]
           /\ callTo' \in [Calls -> Statuses]
           /\ callPr' \in [Calls -> Prs \cup {NoPr}]
           /\ readStatus' \in [Calls -> Statuses]
           /\ readOwner' \in [Calls -> Worktrees \cup {NoWt}]
           /\ readPr' \in [Calls -> Prs \cup {NoPr}]
           /\ readCurrent' \in [Calls -> Tasks \cup {NoTask}]
  BY DEF TypeOK, Reply, Statuses

\* Every request and every board operation keeps the declared types.
LEMMA StepType == TypeOK /\ CallsNamed /\ [Next]_vars => TypeOK'
  <1> SUFFICES ASSUME TypeOK, CallsNamed, [Next]_vars PROVE TypeOK'
    OBVIOUS
  <1>1. ASSUME NEW c \in Calls, NEW w \in Worktrees, NEW t \in Tasks, StartTask(c, w, t)
        PROVE  TypeOK'
    <2>1. Read(c, w, t, "in_progress", NoPr)
      BY <1>1 DEF StartTask
    <2> QED
      BY <1>1, <2>1, ReadType DEF StartTask, TypeOK, taskVars, Statuses
  <1>2. ASSUME NEW c \in Calls, StartWrite(c) PROVE TypeOK'
    BY <1>2 DEF StartWrite, TypeOK, callArgs, Statuses
  <1>3. ASSUME NEW c \in Calls, StartCurrent(c) PROVE TypeOK'
    <2>1. Reply(c)
      BY <1>3 DEF StartCurrent
    <2> QED
      BY <1>3, <2>1, ReplyType DEF StartCurrent, TypeOK, taskVars
  <1>4. ASSUME NEW c \in Calls, NEW w \in Worktrees, NEW t \in Tasks, NEW to \in Statuses,
               NEW q \in Prs \cup {NoPr}, NEW skip \in BOOLEAN,
               UpdateTaskStatus(c, w, t, to, q, skip)
        PROVE  TypeOK'
    <2>1. Read(c, w, t, to, q)
      BY <1>4 DEF UpdateTaskStatus
    <2> QED
      BY <1>4, <2>1, ReadType DEF UpdateTaskStatus, TypeOK, taskVars
  <1>5. ASSUME NEW c \in Calls, UpdateWrite(c) PROVE TypeOK'
    <2>1. status' \in [Tasks -> Statuses] /\ pr' \in [Tasks -> Prs \cup {NoPr}]
      BY <1>5 DEF UpdateWrite, TypeOK
    <2>2. CASE callTo[c] # "done" /\ Reply(c)
      BY <1>5, <2>1, <2>2, ReplyType DEF UpdateWrite, TypeOK
    <2>3. CASE callPc' = [callPc EXCEPT ![c] = "clear"] /\ UNCHANGED callArgs
      BY <1>5, <2>1, <2>3 DEF UpdateWrite, TypeOK, callArgs
    <2> QED
      BY <1>5, <2>2, <2>3 DEF UpdateWrite
  <1>6. ASSUME NEW c \in Calls, UpdateClear(c) PROVE TypeOK'
    <2>1. Reply(c)
      BY <1>6 DEF UpdateClear
    <2> QED
      BY <1>6, <2>1, ReplyType DEF UpdateClear, TypeOK, taskVars
  <1>7. ASSUME NEW w \in Worktrees, NEW t \in Tasks, AssignTask(w, t) PROVE TypeOK'
    BY <1>7 DEF AssignTask, TypeOK, callArgs
  <1>8. ASSUME NEW t \in Tasks, MarkPrMerged(t) PROVE TypeOK'
    BY <1>8 DEF MarkPrMerged, TypeOK, callArgs
  <1>9. ASSUME NEW c \in Calls, NEW w \in Worktrees, NEW t \in Tasks, ReportArtifact(c, w, t)
        PROVE  TypeOK'
    <2>1. Read(c, w, t, "review", NoPr)
      BY <1>9 DEF ReportArtifact
    <2> QED
      BY <1>9, <2>1, ReadType DEF ReportArtifact, TypeOK, taskVars, Statuses
  <1>10. ASSUME NEW t \in Tasks, NEW to \in Statuses, BoardPatch(t, to) PROVE TypeOK'
    BY <1>10 DEF BoardPatch, TypeOK, callArgs
  <1>11. ASSUME NEW t \in Tasks, NEW w \in Worktrees \cup {NoWt}, NEW q \in Prs \cup {NoPr},
                NEW m \in BOOLEAN, BoardEdit(t, w, q, m)
         PROVE  TypeOK'
    BY <1>11 DEF BoardEdit, TypeOK, callArgs
  <1>12. ASSUME NEW c \in Calls, ReportWrite(c) PROVE TypeOK'
    BY <1>12 DEF ReportWrite, TypeOK, callArgs
  <1>13. ASSUME NEW c \in Calls, ReportDocument(c) PROVE TypeOK'
    <2>1. Reply(c)
      BY <1>13 DEF ReportDocument
    <2>2. documents' \in SUBSET ((DOMAIN FeatureDeps) \X (Prs \cup {"artifact"}))
      BY <1>13 DEF ReportDocument, CallsNamed, TypeOK
    <2> QED
      BY <1>13, <2>1, <2>2, ReplyType DEF ReportDocument, TypeOK, taskVars
  <1>14. CASE UNCHANGED vars
    BY <1>14 DEF vars, taskVars, callArgs, TypeOK
  <1> QED
    BY <1>1, <1>2, <1>3, <1>4, <1>5, <1>6, <1>7, <1>8, <1>9, <1>10, <1>11, <1>12, <1>13, <1>14 DEF Next

\* A response leaves no request of c that could still write.
LEMMA ReplyIdle ==
    ASSUME TypeOK, NEW c \in Calls, Reply(c)
    PROVE  \A d \in Calls : /\ d = c => callPc'[d] = "idle" /\ callWt'[d] = NoWt
                            /\ d # c => /\ callPc'[d] = callPc[d] /\ callWt'[d] = callWt[d]
                                        /\ callTask'[d] = callTask[d] /\ callTo'[d] = callTo[d]
                                        /\ readStatus'[d] = readStatus[d]
                                        /\ readOwner'[d] = readOwner[d]
  BY DEF TypeOK, Reply

\* A read concerns the request's own variables only.
LEMMA ReadOwn ==
    ASSUME TypeOK, NEW c \in Calls, NEW w, NEW t, NEW to, NEW p, Read(c, w, t, to, p)
    PROVE  \A d \in Calls : /\ d = c => /\ callWt'[d] = w /\ callTask'[d] = t /\ callTo'[d] = to
                                        /\ readStatus'[d] = status[t] /\ readOwner'[d] = owner[t]
                            /\ d # c => /\ callWt'[d] = callWt[d] /\ callTask'[d] = callTask[d]
                                        /\ callTo'[d] = callTo[d]
                                        /\ readStatus'[d] = readStatus[d]
                                        /\ readOwner'[d] = readOwner[d]
  BY DEF TypeOK, Read

\* A request keeps its task until its response.
LEMMA StepNamed == TypeOK /\ CallsNamed /\ [Next]_vars => CallsNamed'
  <1> SUFFICES ASSUME TypeOK, CallsNamed, [Next]_vars PROVE CallsNamed'
    OBVIOUS
  <1>1. ASSUME NEW c \in Calls, NEW w, NEW t \in Tasks, NEW to, NEW p, NEW pc,
               Read(c, w, t, to, p), callPc' = [callPc EXCEPT ![c] = pc]
        PROVE  CallsNamed'
    BY <1>1, ReadOwn DEF CallsNamed, TypeOK
  <1>2. ASSUME NEW c \in Calls, Reply(c) PROVE CallsNamed'
    BY <1>2, ReplyIdle DEF CallsNamed
  <1>3. ASSUME NEW c \in Calls, NEW pc, callPc[c] # "idle",
               callPc' = [callPc EXCEPT ![c] = pc], UNCHANGED callArgs
        PROVE  CallsNamed'
    BY <1>3 DEF CallsNamed, callArgs, TypeOK
  <1>4. ASSUME UNCHANGED <<callPc, callArgs>> PROVE CallsNamed'
    BY <1>4 DEF CallsNamed, callArgs
  <1>5. ASSUME NEW c \in Calls, NEW w \in Worktrees, NEW t \in Tasks,
               \/ StartTask(c, w, t) \/ ReportArtifact(c, w, t)
               \/ \E to \in Statuses, q \in Prs \cup {NoPr}, skip \in BOOLEAN :
                    UpdateTaskStatus(c, w, t, to, q, skip)
        PROVE  CallsNamed'
    BY <1>1, <1>5 DEF StartTask, ReportArtifact, UpdateTaskStatus
  <1>6. ASSUME NEW c \in Calls, StartWrite(c) \/ UpdateWrite(c) \/ ReportWrite(c)
        PROVE  CallsNamed'
    BY <1>2, <1>3, <1>6 DEF StartWrite, UpdateWrite, ReportWrite
  <1>7. CASE UNCHANGED vars
    BY <1>4, <1>7 DEF vars
  <1> QED
    BY <1>2, <1>4, <1>5, <1>6, <1>7
       DEF Next, StartCurrent, UpdateClear, ReportDocument, AssignTask, MarkPrMerged,
           BoardPatch, BoardEdit

\* Tasks, worktrees and requests always hold values of their columns' types.
THEOREM TypeCorrect == Spec => []TypeOK
  <1>1. Init => CallsNamed
    BY DEF Init, CallsNamed
  <1> QED
    BY <1>1, InitType, StepType, StepNamed, PTL DEF Spec

-----------------------------------------------------------------------------
(* Who may complete a task *)

\* The done guard of update_task_status holds until the request writes.
LEMMA StepDoneIsCloseOff ==
    TypeOK /\ DoneIsCloseOff /\ [Next]_vars => DoneIsCloseOff'
  <1> SUFFICES ASSUME TypeOK, DoneIsCloseOff, [Next]_vars, NEW d \in Calls,
                      callPc'[d] = "update", callTo'[d] = "done"
               PROVE  callTask'[d] \in CloseOff
    BY DEF DoneIsCloseOff
  <1>1. ASSUME NEW c \in Calls, NEW w \in Worktrees, NEW t \in Tasks, StartTask(c, w, t)
        PROVE  callTask'[d] \in CloseOff
    <2>1. Read(c, w, t, "in_progress", NoPr)
      BY <1>1 DEF StartTask
    <2> QED
      BY <1>1, <2>1, ReadOwn DEF StartTask, TypeOK, DoneIsCloseOff
  <1>2. ASSUME NEW c \in Calls, StartWrite(c) PROVE callTask'[d] \in CloseOff
    BY <1>2 DEF StartWrite, TypeOK, DoneIsCloseOff, callArgs
  <1>3. ASSUME NEW c \in Calls, StartCurrent(c) PROVE callTask'[d] \in CloseOff
    BY <1>3, ReplyIdle DEF StartCurrent, DoneIsCloseOff
  <1>4. ASSUME NEW c \in Calls, NEW w \in Worktrees, NEW t \in Tasks, NEW to \in Statuses,
               NEW q \in Prs \cup {NoPr}, NEW skip \in BOOLEAN,
               UpdateTaskStatus(c, w, t, to, q, skip)
        PROVE  callTask'[d] \in CloseOff
    <2>1. Read(c, w, t, to, q) /\ (to = "done" => t \in CloseOff)
      BY <1>4 DEF UpdateTaskStatus, MayUpdate
    <2> QED
      BY <1>4, <2>1, ReadOwn DEF UpdateTaskStatus, TypeOK, DoneIsCloseOff
  <1>5. ASSUME NEW c \in Calls, UpdateWrite(c) PROVE callTask'[d] \in CloseOff
    <2>1. CASE callTo[c] # "done" /\ Reply(c)
      BY <1>5, <2>1, ReplyIdle DEF DoneIsCloseOff
    <2>2. CASE callPc' = [callPc EXCEPT ![c] = "clear"] /\ UNCHANGED callArgs
      BY <1>5, <2>2 DEF TypeOK, DoneIsCloseOff, callArgs
    <2> QED
      BY <1>5, <2>1, <2>2 DEF UpdateWrite
  <1>6. ASSUME NEW c \in Calls, UpdateClear(c) PROVE callTask'[d] \in CloseOff
    BY <1>6, ReplyIdle DEF UpdateClear, DoneIsCloseOff
  <1>7. ASSUME UNCHANGED <<callPc, callArgs>> PROVE callTask'[d] \in CloseOff
    BY <1>7 DEF DoneIsCloseOff, callArgs
  <1>8. ASSUME NEW c \in Calls, NEW w \in Worktrees, NEW t \in Tasks, ReportArtifact(c, w, t)
        PROVE  callTask'[d] \in CloseOff
    <2>1. Read(c, w, t, "review", NoPr)
      BY <1>8 DEF ReportArtifact
    <2> QED
      BY <1>8, <2>1, ReadOwn DEF ReportArtifact, TypeOK, DoneIsCloseOff
  <1>9. ASSUME NEW c \in Calls, ReportWrite(c) PROVE callTask'[d] \in CloseOff
    BY <1>9 DEF ReportWrite, TypeOK, DoneIsCloseOff, callArgs
  <1>10. ASSUME NEW c \in Calls, ReportDocument(c) PROVE callTask'[d] \in CloseOff
    BY <1>10, ReplyIdle DEF ReportDocument, DoneIsCloseOff
  <1>11. CASE UNCHANGED vars
    BY <1>7, <1>11 DEF vars
  <1> QED
    BY <1>1, <1>2, <1>3, <1>4, <1>5, <1>6, <1>7, <1>8, <1>9, <1>10, <1>11
       DEF Next, AssignTask, MarkPrMerged, BoardPatch, BoardEdit

\* One step completes no task but a close-off, unless it is the board's.
LEMMA StepCompletes ==
    ASSUME TypeOK, DoneIsCloseOff, [Next]_vars,
           NEW t \in Tasks \ CloseOff, status[t] # "done", status'[t] = "done"
    PROVE  UNCHANGED callPc
  <1>1. ASSUME NEW c \in Calls, StartWrite(c) PROVE FALSE
    BY <1>1 DEF StartWrite, TypeOK
  <1>2. ASSUME NEW c \in Calls, UpdateWrite(c) PROVE FALSE
    BY <1>2 DEF UpdateWrite, TypeOK, DoneIsCloseOff
  <1>3. CASE UNCHANGED status
    BY <1>3
  <1>4. CASE UNCHANGED vars
    BY <1>4 DEF vars
  <1> QED
    BY <1>1, <1>2, <1>3, <1>4
       DEF Next, StartTask, StartCurrent, UpdateTaskStatus, UpdateClear, taskVars,
           AssignTask, MarkPrMerged, ReportArtifact, ReportWrite, ReportDocument,
           BoardPatch, BoardEdit

\* However stale what update_task_status read, agents complete only close-off tasks.
THEOREM OnlyBoardCompletes == Spec => AgentsNeverComplete
  <1>1. Init => DoneIsCloseOff
    BY DEF Init, DoneIsCloseOff
  <1>2. TypeOK /\ DoneIsCloseOff /\ [Next]_vars
          => [\A t \in Tasks \ CloseOff :
                status[t] # "done" /\ status'[t] = "done" => UNCHANGED callPc]_vars
    BY StepCompletes
  <1> QED
    BY <1>1, <1>2, TypeCorrect, StepDoneIsCloseOff, PTL DEF Spec, AgentsNeverComplete

-----------------------------------------------------------------------------
(* The documented workflow *)

\* What start_task may be made to wait for is gone for good once it is resolved.
LEMMA BlockersShrink ==
    ASSUME NEW t \in Tasks, Blockers(t) = {},
           \A u \in Tasks : TaskResolved(u) => TaskResolved(u)',
           \A u \in Tasks : PipelineResolved(u) => PipelineResolved(u)'
    PROVE  Blockers(t)' = {}
  BY DEF Blockers, FeatureBlockers, TaskBlockers, PipelineBlockers

\* The task columns after a write of start_task.
LEMMA StartWriteEffect ==
    ASSUME TypeOK, CallsBound, StartFresh, NEW c \in Calls, StartWrite(c)
    PROVE  /\ callTask[c] \in Tasks /\ callWt[c] \in Worktrees
           /\ status[callTask[c]] = "backlog" /\ status'[callTask[c]] = "in_progress"
           /\ \A u \in Tasks : u # callTask[c] => status'[u] = status[u]
           /\ UNCHANGED <<owner, pr, merged, artifact, callArgs>>
           /\ \A d \in Calls : /\ d = c => callPc'[d] = "current"
                               /\ d # c => callPc'[d] = callPc[d]
  <1>1. callTask[c] \in Tasks /\ callWt[c] \in Worktrees /\ callPc[c] = "start"
    BY DEF CallsBound, StartWrite
  <1>2. /\ readStatus[c] = "backlog" /\ status[callTask[c]] = "backlog"
        /\ readOwner[c] = callWt[c]
    BY <1>1 DEF StartFresh
  <1> QED
    BY <1>1, <1>2 DEF StartWrite, TypeOK

\* The task columns after a write of update_task_status.
LEMMA UpdateWriteEffect ==
    ASSUME TypeOK, CallsBound, UpdateFresh, NEW c \in Calls, UpdateWrite(c)
    PROVE  /\ callTask[c] \in Tasks /\ callWt[c] \in Worktrees
           /\ status[callTask[c]] = "in_progress"
           /\ status'[callTask[c]] \in {"in_progress", "review", "done"}
           /\ \A u \in Tasks : u # callTask[c] => status'[u] = status[u] /\ pr'[u] = pr[u]
           /\ UNCHANGED <<owner, merged, artifact>>
  <1>1. callTask[c] \in Tasks /\ callWt[c] \in Worktrees /\ callPc[c] = "update"
    BY DEF CallsBound, UpdateWrite
  <1>2. status[callTask[c]] = "in_progress" /\ callTo[c] \in {"review", "done"}
    BY <1>1 DEF UpdateFresh
  <1> QED
    BY <1>1, <1>2 DEF UpdateWrite, TypeOK

\* What one step of the workflow may do to a task: it moves forward, keeps its
\* owner, and starts only by a start_task that found it in the backlog.
TaskMoves(u) ==
    /\ TaskResolved(u) => TaskResolved(u)'
    /\ PipelineResolved(u) => PipelineResolved(u)'
    /\ owner[u] # NoWt => owner'[u] = owner[u]
    /\ owner'[u] # owner[u] => status[u] = "backlog" /\ status'[u] = "backlog"
    /\ merged[u] => merged'[u]
    /\ \/ status'[u] = status[u]
       \/ status[u] = "review" /\ status'[u] = "done"
       \/ /\ status[u] = "in_progress" /\ status'[u] \in {"review", "done"}
          /\ \E c \in Calls : UpdateWrite(c) /\ u = callTask[c]
       \/ /\ status[u] = "backlog" /\ status'[u] = "in_progress"
          /\ \E c \in Calls : StartWrite(c) /\ u = callTask[c]

\* Every step moves every task that way: no guard is passed on a read that the
\* other agents, the merges or the board have since made stale.
LEMMA TaskStep ==
    ASSUME TypeOK, CallsBound, StartFresh, UpdateFresh, Disciplined, [Next]_vars, NEW u \in Tasks
    PROVE  TaskMoves(u)
  <1>1. ASSUME NEW c \in Calls, StartWrite(c) PROVE TaskMoves(u)
    BY <1>1, StartWriteEffect DEF TaskMoves, TaskResolved, PipelineResolved, TypeOK
  <1>2. ASSUME NEW c \in Calls, UpdateWrite(c) PROVE TaskMoves(u)
    BY <1>2, UpdateWriteEffect DEF TaskMoves, TaskResolved, PipelineResolved, TypeOK
  <1>3. ASSUME NEW w \in Worktrees, NEW t \in Tasks, AssignTask(w, t) PROVE TaskMoves(u)
    BY <1>3 DEF AssignTask, TaskMoves, TaskResolved, PipelineResolved, TypeOK
  <1>4. ASSUME NEW t \in Tasks, MarkPrMerged(t) PROVE TaskMoves(u)
    <2>1. merged[u] => merged'[u]
      BY <1>4 DEF MarkPrMerged, TypeOK
    <2> QED
      BY <1>4, <2>1 DEF MarkPrMerged, TaskMoves, TaskResolved, PipelineResolved
  <1>5. ASSUME NEW c \in Calls, ReportWrite(c) PROVE TaskMoves(u)
    <2>1. artifact[u] => artifact'[u]
      BY <1>5 DEF ReportWrite, TypeOK
    <2> QED
      BY <1>5, <2>1 DEF ReportWrite, TaskMoves, TaskResolved, PipelineResolved
  <1>6. ASSUME NEW t \in Tasks, NEW to \in Statuses, BoardPatch(t, to) PROVE TaskMoves(u)
    BY <1>6 DEF BoardPatch, TaskMoves, TaskResolved, PipelineResolved, TypeOK
  <1>7. CASE UNCHANGED taskVars
    BY <1>7 DEF taskVars, TaskMoves, TaskResolved, PipelineResolved
  <1>8. CASE UNCHANGED vars
    BY <1>7, <1>8 DEF vars
  <1>9. ASSUME NEW t \in Tasks, NEW w \in Worktrees \cup {NoWt}, NEW q \in Prs \cup {NoPr},
               NEW m \in BOOLEAN, BoardEdit(t, w, q, m)
        PROVE  TaskMoves(u)
    <2>1. UNCHANGED <<status, pr, merged, artifact>>
      BY <1>9 DEF BoardEdit, TypeOK
    <2>2. owner[t] = NoWt /\ status[t] = "backlog" /\ owner' = [owner EXCEPT ![t] = w]
      BY <1>9 DEF BoardEdit
    <2> QED
      BY <2>1, <2>2 DEF TaskMoves, TaskResolved, PipelineResolved, TypeOK
  <1> QED
    BY <1>1, <1>2, <1>3, <1>4, <1>5, <1>6, <1>7, <1>8, <1>9
       DEF Next, StartTask, StartCurrent, UpdateTaskStatus, UpdateClear, ReportArtifact,
           ReportDocument

\* A request is bound to its agent and its task from its read to its response,
\* and an agent has one at a time.
LEMMA StepCalls ==
    ASSUME TypeOK, CallsBound, CallsApart, Disciplined, [Next]_vars
    PROVE  CallsBound' /\ CallsApart'
  <1>1. ASSUME NEW c \in Calls, NEW w \in Worktrees, NEW t \in Tasks,
               NEW to, NEW p, NEW pc \in {"start", "update", "report"},
               Read(c, w, t, to, p), OneCallAtATime(w), callPc' = [callPc EXCEPT ![c] = pc]
        PROVE  CallsBound' /\ CallsApart'
    <2>1. CallsBound'
      BY <1>1, ReadOwn DEF CallsBound, TypeOK
    <2>2. CallsApart'
      BY <1>1, ReadOwn DEF CallsApart, OneCallAtATime
    <2> QED
      BY <2>1, <2>2
  <1>2. ASSUME NEW c \in Calls, Reply(c) PROVE CallsBound' /\ CallsApart'
    BY <1>2, ReplyIdle DEF CallsBound, CallsApart
  <1>3. ASSUME NEW c \in Calls, NEW pc \in {"current", "clear", "document"}, callPc[c] # "idle",
               callPc' = [callPc EXCEPT ![c] = pc], UNCHANGED callArgs
        PROVE  CallsBound' /\ CallsApart'
    BY <1>3 DEF CallsBound, CallsApart, callArgs, TypeOK
  <1>4. ASSUME UNCHANGED <<callPc, callArgs>> PROVE CallsBound' /\ CallsApart'
    BY <1>4 DEF CallsBound, CallsApart, callArgs
  <1>5. ASSUME NEW c \in Calls, NEW w \in Worktrees, NEW t \in Tasks,
               StartTask(c, w, t) \/ ReportArtifact(c, w, t)
        PROVE  CallsBound' /\ CallsApart'
    BY <1>1, <1>5 DEF StartTask, ReportArtifact
  <1>6. ASSUME NEW c \in Calls, NEW w \in Worktrees, NEW t \in Tasks, NEW to \in Statuses,
               NEW q \in Prs \cup {NoPr}, NEW skip \in BOOLEAN,
               UpdateTaskStatus(c, w, t, to, q, skip)
        PROVE  CallsBound' /\ CallsApart'
    BY <1>1, <1>6 DEF UpdateTaskStatus
  <1>7. ASSUME NEW c \in Calls, StartWrite(c) PROVE CallsBound' /\ CallsApart'
    BY <1>3, <1>7 DEF StartWrite
  <1>8. ASSUME NEW c \in Calls, UpdateWrite(c) PROVE CallsBound' /\ CallsApart'
    BY <1>2, <1>3, <1>8 DEF UpdateWrite
  <1>9. ASSUME NEW c \in Calls, ReportWrite(c) PROVE CallsBound' /\ CallsApart'
    BY <1>3, <1>9 DEF ReportWrite
  <1>10. CASE UNCHANGED vars
    BY <1>4, <1>10 DEF vars
  <1> QED
    BY <1>2, <1>4, <1>5, <1>6, <1>7, <1>8, <1>9, <1>10
       DEF Next, StartCurrent, UpdateClear, ReportDocument, AssignTask, MarkPrMerged,
           BoardPatch, BoardEdit

\* A started task is not blocked and has an owner, and no agent has two under way.
LEMMA StepTasks ==
    ASSUME TypeOK, CallsBound, StartFresh, UpdateFresh, Disciplined, [Next]_vars,
           StartedUnblocked, StartedOwned, OneActiveTask
    PROVE  StartedUnblocked' /\ StartedOwned' /\ OneActiveTask'
  <1> USE TaskStep
  <1>1. ASSUME NEW t \in Tasks, Blockers(t) = {} PROVE Blockers(t)' = {}
    BY <1>1, BlockersShrink DEF TaskMoves
  <1>2. ASSUME NEW t \in Tasks, status[t] = "backlog", status'[t] # "backlog"
        PROVE  /\ Blockers(t) = {} /\ owner[t] \in Worktrees /\ owner'[t] = owner[t]
               /\ Active(owner[t], t) = {}
               /\ \A u \in Tasks : u # t => status'[u] = status[u] /\ owner'[u] = owner[u] /\ merged'[u] = merged[u]
    <2>1. PICK c \in Calls : StartWrite(c) /\ t = callTask[c]
      BY <1>2 DEF TaskMoves
    <2>2. callPc[c] = "start"
      BY <2>1 DEF StartWrite
    <2>3. /\ t \in Tasks /\ owner' = owner /\ merged' = merged /\ callWt[c] \in Worktrees
          /\ \A u \in Tasks : u # t => status'[u] = status[u]
      BY <2>1, StartWriteEffect
    <2>4. owner[t] = callWt[c] /\ Active(owner[t], t) = {} /\ Blockers(t) = {}
      BY <2>1, <2>2 DEF StartFresh
    <2> QED
      BY <2>3, <2>4
  <1>3. StartedUnblocked'
    BY <1>1, <1>2 DEF StartedUnblocked
  <1>4. StartedOwned'
    BY <1>2 DEF StartedOwned, TaskMoves
  <1>5. OneActiveTask'
    <2> SUFFICES ASSUME NEW t \in Tasks, NEW u \in Tasks, u # t, owner'[t] \in Worktrees,
                        owner'[u] = owner'[t],
                        status'[t] \in {"in_progress", "review"}, ~merged'[t],
                        status'[u] \in {"in_progress", "review"}, ~merged'[u]
                 PROVE  FALSE
      BY DEF OneActiveTask, Active
    <2>1. CASE status[t] = "backlog"
      BY <1>2, <2>1 DEF Active
    <2>2. CASE status[u] = "backlog"
      BY <1>2, <2>2 DEF Active
    <2>3. CASE status[t] # "backlog" /\ status[u] # "backlog"
      <3>1. /\ owner'[t] = owner[t] /\ owner'[u] = owner[u] /\ ~merged[t] /\ ~merged[u]
            /\ status[t] \in {"in_progress", "review"} /\ status[u] \in {"in_progress", "review"}
        BY <2>3 DEF TaskMoves, TypeOK, Statuses
      <3> QED
        BY <3>1 DEF OneActiveTask, Active
    <2> QED
      BY <2>1, <2>2, <2>3
  <1> QED
    BY <1>3, <1>4, <1>5

\* A request that is waiting to write read its guards now, or has not changed.
CallBegins(d) ==
    \/ \E w \in Worktrees, t \in Tasks : StartTask(d, w, t) \/ ReportArtifact(d, w, t)
    \/ \E w \in Worktrees, t \in Tasks, to \in Statuses, q \in Prs \cup {NoPr}, skip \in BOOLEAN :
         UpdateTaskStatus(d, w, t, to, q, skip)

CallWaits(d) ==
    /\ callPc'[d] = callPc[d] /\ callWt'[d] = callWt[d] /\ callTask'[d] = callTask[d]
    /\ callTo'[d] = callTo[d] /\ readStatus'[d] = readStatus[d] /\ readOwner'[d] = readOwner[d]

\* Only the request itself changes what it asked for and what it read.
LEMMA CallStep ==
    ASSUME TypeOK, [Next]_vars, NEW d \in Calls, callPc'[d] \in {"start", "update", "report"}
    PROVE  CallBegins(d) \/ CallWaits(d)
  <1>1. ASSUME NEW c \in Calls, NEW w \in Worktrees, NEW t \in Tasks, StartTask(c, w, t)
        PROVE  CallBegins(d) \/ CallWaits(d)
    <2>1. Read(c, w, t, "in_progress", NoPr)
      BY <1>1 DEF StartTask
    <2>2. CASE c # d
      BY <1>1, <2>1, <2>2, ReadOwn DEF StartTask, CallWaits, TypeOK
    <2> QED
      BY <1>1, <2>2 DEF CallBegins
  <1>2. ASSUME NEW c \in Calls, NEW w \in Worktrees, NEW t \in Tasks, NEW to \in Statuses,
               NEW q \in Prs \cup {NoPr}, NEW skip \in BOOLEAN,
               UpdateTaskStatus(c, w, t, to, q, skip)
        PROVE  CallBegins(d) \/ CallWaits(d)
    <2>1. Read(c, w, t, to, q)
      BY <1>2 DEF UpdateTaskStatus
    <2>2. CASE c # d
      BY <1>2, <2>1, <2>2, ReadOwn DEF UpdateTaskStatus, CallWaits, TypeOK
    <2> QED
      BY <1>2, <2>2 DEF CallBegins
  <1>3. ASSUME NEW c \in Calls, Reply(c) PROVE CallWaits(d)
    BY <1>3, ReplyIdle DEF CallWaits
  <1>4. ASSUME NEW c \in Calls, NEW pc \in {"current", "clear", "document"},
               callPc' = [callPc EXCEPT ![c] = pc], UNCHANGED callArgs
        PROVE  CallWaits(d)
    BY <1>4 DEF CallWaits, callArgs, TypeOK
  <1>5. ASSUME UNCHANGED <<callPc, callArgs>> PROVE CallWaits(d)
    BY <1>5 DEF CallWaits, callArgs
  <1>6. ASSUME NEW c \in Calls, StartWrite(c) PROVE CallWaits(d)
    BY <1>4, <1>6 DEF StartWrite
  <1>7. ASSUME NEW c \in Calls, UpdateWrite(c) PROVE CallWaits(d)
    BY <1>3, <1>4, <1>7 DEF UpdateWrite
  <1>8. ASSUME NEW c \in Calls, NEW w \in Worktrees, NEW t \in Tasks, ReportArtifact(c, w, t)
        PROVE  CallBegins(d) \/ CallWaits(d)
    <2>1. Read(c, w, t, "review", NoPr)
      BY <1>8 DEF ReportArtifact
    <2>2. CASE c # d
      BY <1>8, <2>1, <2>2, ReadOwn DEF ReportArtifact, CallWaits, TypeOK
    <2> QED
      BY <1>8, <2>2 DEF CallBegins
  <1>9. ASSUME NEW c \in Calls, ReportWrite(c) PROVE CallWaits(d)
    BY <1>4, <1>9 DEF ReportWrite
  <1>10. CASE UNCHANGED vars
    BY <1>5, <1>10 DEF vars
  <1> QED
    BY <1>1, <1>2, <1>3, <1>5, <1>6, <1>7, <1>8, <1>9, <1>10
       DEF Next, StartCurrent, UpdateClear, ReportDocument, AssignTask, MarkPrMerged,
           BoardPatch, BoardEdit

\* While an agent's request waits to write, no other step starts or finishes a
\* task of that agent.
LEMMA StepFresh ==
    ASSUME TypeOK, CallsBound, CallsApart, StartFresh, UpdateFresh, Disciplined, [Next]_vars
    PROVE  StartFresh' /\ UpdateFresh'
  <1>1. ASSUME NEW d \in Calls, CallBegins(d)
        PROVE  /\ callPc'[d] = "start" =>
                   /\ status'[callTask'[d]] = "backlog" /\ readStatus'[d] = "backlog"
                   /\ owner'[callTask'[d]] = callWt'[d] /\ readOwner'[d] = callWt'[d]
                   /\ Active(callWt[d], callTask[d])' = {}
                   /\ Blockers(callTask[d])' = {}
               /\ callPc'[d] = "update" =>
                   /\ status'[callTask'[d]] = "in_progress"
                   /\ owner'[callTask'[d]] = callWt'[d]
                   /\ callTo'[d] \in {"review", "done"}
    <2>1. ASSUME NEW w \in Worktrees, NEW t \in Tasks, StartTask(d, w, t)
          PROVE  /\ callPc'[d] = "start" /\ callWt'[d] = w /\ callTask'[d] = t
                 /\ status'[t] = "backlog" /\ readStatus'[d] = "backlog"
                 /\ owner'[t] = w /\ readOwner'[d] = w
                 /\ Active(callWt[d], callTask[d])' = {}
                 /\ Blockers(callTask[d])' = {}
      <3>1. /\ callPc'[d] = "start" /\ callWt'[d] = w /\ callTask'[d] = t
            /\ readStatus'[d] = "backlog" /\ readOwner'[d] = w
            /\ status[t] = "backlog" /\ owner[t] = w /\ UNCHANGED taskVars
        BY <2>1, ReadOwn DEF StartTask, TypeOK
      <3>2. Active(callWt[d], callTask[d])' = {}
        BY <2>1, <3>1 DEF StartTask, Active, taskVars
      <3>3. Blockers(callTask[d])' = {}
        <4>1. Blockers(t) = {}
          BY <2>1 DEF StartTask
        <4>2. \A u \in Tasks : (TaskResolved(u) => TaskResolved(u)')
                               /\ (PipelineResolved(u) => PipelineResolved(u)')
          BY <3>1 DEF taskVars, TaskResolved, PipelineResolved
        <4>3. Blockers(callTask[d])' = {u \in Tasks : u \in Blockers(t)'}
          BY <3>1 DEF Blockers, FeatureBlockers, TaskBlockers, PipelineBlockers
        <4> QED
          BY <4>1, <4>2, <4>3, BlockersShrink
      <3> QED
        BY <3>1, <3>2, <3>3 DEF taskVars
    <2>2. ASSUME NEW w \in Worktrees, NEW t \in Tasks, NEW to \in Statuses,
                 NEW q \in Prs \cup {NoPr}, NEW skip \in BOOLEAN,
                 UpdateTaskStatus(d, w, t, to, q, skip)
          PROVE  /\ callPc'[d] = "update" /\ callWt'[d] = w /\ callTask'[d] = t /\ callTo'[d] = to
                 /\ status'[t] = "in_progress" /\ owner'[t] = w /\ to \in {"review", "done"}
      BY <2>2, ReadOwn DEF UpdateTaskStatus, TypeOK, taskVars
    <2>3. ASSUME NEW w \in Worktrees, NEW t \in Tasks, ReportArtifact(d, w, t)
          PROVE  callPc'[d] = "report"
      BY <2>3 DEF ReportArtifact, TypeOK
    <2> QED
      BY <1>1, <2>1, <2>2, <2>3 DEF CallBegins
  <1>2. ASSUME NEW d \in Calls, NEW c \in Calls, CallWaits(d), callPc[d] \in {"start", "update"},
               StartWrite(c) \/ UpdateWrite(c)
        PROVE  /\ callWt[c] # callWt[d]
               /\ owner[callTask[c]] = callWt[c]
    <2>1. callPc'[c] # callPc[c]
      BY <1>2 DEF StartWrite, UpdateWrite, Reply, TypeOK
    <2>2. c # d
      BY <1>2, <2>1 DEF CallWaits
    <2>3. callPc[c] \in {"start", "update"} /\ callWt[c] \in Worktrees
      BY <1>2 DEF StartWrite, UpdateWrite, CallsBound
    <2> QED
      BY <2>2, <2>3 DEF CallsApart, StartFresh, UpdateFresh
  <1>3. ASSUME NEW d \in Calls, CallWaits(d), callPc[d] = "start"
        PROVE  /\ status'[callTask'[d]] = "backlog" /\ readStatus'[d] = "backlog"
               /\ owner'[callTask'[d]] = callWt'[d] /\ readOwner'[d] = callWt'[d]
               /\ Active(callWt[d], callTask[d])' = {}
               /\ Blockers(callTask[d])' = {}
    <2> DEFINE t == callTask[d]
               w == callWt[d]
    <2>1. /\ t \in Tasks /\ w \in Worktrees /\ callTask'[d] = t /\ callWt'[d] = w
          /\ status[t] = "backlog" /\ owner[t] = w /\ Active(w, t) = {} /\ Blockers(t) = {}
          /\ readStatus'[d] = "backlog" /\ readOwner'[d] = w
      BY <1>3 DEF CallsBound, StartFresh, CallWaits
    <2>2. status'[t] = "backlog" /\ owner'[t] = w
      BY <1>2, <1>3, <2>1, TaskStep DEF TaskMoves
    <2>3. ASSUME NEW u \in Tasks, u # t, owner'[u] = w,
                 status'[u] \in {"in_progress", "review"}, ~merged'[u]
          PROVE  FALSE
      <3>1. CASE status[u] = "backlog"
        <4>1. PICK c \in Calls : StartWrite(c) /\ u = callTask[c]
          BY <2>3, <3>1, TaskStep DEF TaskMoves
        <4>2. owner'[u] = owner[u]
          BY <2>3, TaskStep DEF TaskMoves
        <4> QED
          BY <1>2, <1>3, <2>3, <4>1, <4>2
      <3>2. CASE status[u] # "backlog"
        <4>1. /\ owner[u] = w /\ ~merged[u] /\ status[u] \in {"in_progress", "review"}
          BY <2>3, <3>2, TaskStep DEF TaskMoves, TypeOK, Statuses
        <4> QED
          BY <2>1, <2>3, <4>1 DEF Active
      <3> QED
        BY <3>1, <3>2
    <2>4. Active(callWt[d], callTask[d])' = {}
      BY <2>1, <2>3 DEF Active
    <2>5. Blockers(t)' = {}
      <3>1. \A u \in Tasks : (TaskResolved(u) => TaskResolved(u)')
                             /\ (PipelineResolved(u) => PipelineResolved(u)')
        BY TaskStep DEF TaskMoves
      <3> HIDE DEF t
      <3>2. ASSUME NEW x \in Tasks, Blockers(x) = {}, x = callTask'[d]
            PROVE  Blockers(callTask[d])' = {}
        <4>1. Blockers(callTask[d])' = {u \in Tasks : u \in Blockers(x)'}
          BY <3>2 DEF Blockers, FeatureBlockers, TaskBlockers, PipelineBlockers
        <4> QED
          BY <3>1, <3>2, <4>1, BlockersShrink
      <3> QED
        BY <2>1, <3>2 DEF t
    <2> QED
      BY <2>1, <2>2, <2>4, <2>5
  <1>4. ASSUME NEW d \in Calls, CallWaits(d), callPc[d] = "update"
        PROVE  /\ status'[callTask'[d]] = "in_progress"
               /\ owner'[callTask'[d]] = callWt'[d]
               /\ callTo'[d] \in {"review", "done"}
    <2>1. /\ callTask[d] \in Tasks /\ callWt[d] \in Worktrees
          /\ status[callTask[d]] = "in_progress" /\ owner[callTask[d]] = callWt[d]
          /\ callTo[d] \in {"review", "done"}
      BY <1>4 DEF CallsBound, UpdateFresh
    <2>2. status'[callTask[d]] = "in_progress" /\ owner'[callTask[d]] = callWt[d]
      BY <1>2, <1>4, <2>1, TaskStep DEF TaskMoves
    <2> QED
      BY <1>4, <2>1, <2>2 DEF CallWaits
  <1>5. ASSUME NEW d \in Calls, callPc'[d] = "start"
        PROVE  /\ status'[callTask'[d]] = "backlog" /\ readStatus'[d] = "backlog"
               /\ owner'[callTask'[d]] = callWt'[d] /\ readOwner'[d] = callWt'[d]
               /\ Active(callWt[d], callTask[d])' = {}
               /\ Blockers(callTask[d])' = {}
    <2>1. CallBegins(d) \/ CallWaits(d)
      BY <1>5, CallStep
    <2>2. CASE CallWaits(d)
      BY <1>3, <1>5, <2>2 DEF CallWaits
    <2>3. CASE CallBegins(d)
      BY <1>1, <1>5, <2>3
    <2> QED
      BY <2>1, <2>2, <2>3
  <1>6. ASSUME NEW d \in Calls, callPc'[d] = "update"
        PROVE  /\ status'[callTask'[d]] = "in_progress"
               /\ owner'[callTask'[d]] = callWt'[d]
               /\ callTo'[d] \in {"review", "done"}
    BY <1>1, <1>4, <1>6, CallStep DEF CallWaits
  <1> QED
    BY <1>5, <1>6 DEF StartFresh, UpdateFresh

\* The inductive invariant holds when the server starts.
LEMMA InitWorkflow == Init => WorkflowInv
  BY DEF Init, WorkflowInv, CallsBound, CallsApart, StartFresh, UpdateFresh,
         StartedUnblocked, StartedOwned, OneActiveTask

\* And every step keeps it.
LEMMA StepWorkflow == TypeOK /\ WorkflowInv /\ [Next]_vars => WorkflowInv'
  <1> SUFFICES ASSUME TypeOK, WorkflowInv, [Next]_vars, Disciplined
               PROVE  (CallsBound /\ CallsApart /\ StartFresh /\ UpdateFresh
                        /\ StartedUnblocked /\ StartedOwned /\ OneActiveTask)'
    BY DEF WorkflowInv
  <1>1. CallsBound /\ CallsApart /\ StartFresh /\ UpdateFresh
          /\ StartedUnblocked /\ StartedOwned /\ OneActiveTask
    BY DEF WorkflowInv
  <1> QED
    BY <1>1, StepCalls, StepFresh, StepTasks

\* The documented workflow keeps the strengthened invariant.
LEMMA WorkflowSafe == Spec => []WorkflowInv
  BY InitWorkflow, StepWorkflow, TypeCorrect, PTL DEF Spec

\* Agents that make one call at a time never hold two active tasks: start_task's
\* check is enough although its write is a later transaction.
THEOREM OneActive == Spec => []DisciplinedOneActive
  <1>1. WorkflowInv => DisciplinedOneActive
    BY DEF WorkflowInv, DisciplinedOneActive
  <1> QED
    BY <1>1, WorkflowSafe, PTL

\* Work under way is never blocked, although its blockers are other agents' tasks.
THEOREM WorkUnblocked == Spec => [](Disciplined => StartedUnblocked)
  <1>1. WorkflowInv => (Disciplined => StartedUnblocked)
    BY DEF WorkflowInv
  <1> QED
    BY <1>1, WorkflowSafe, PTL

\* The spec -> plan -> impl order holds across the agents that share a feature.
THEOREM PipelineOrder == Spec => []SpecBeforeImpl
  <1>1. TypeOK /\ WorkflowInv => SpecBeforeImpl
    <2> SUFFICES ASSUME StartedUnblocked, NEW t \in Tasks, NEW u \in Tasks, NEW p \in Tasks,
                        Type[t] = "impl", Type[u] \in {"plan", "spec"}, FeatureOf[t] = FeatureOf[u],
                        Type[p] = "plan", FeatureOf[p] = FeatureOf[t], status[t] # "backlog"
                 PROVE  status[u] \in {"review", "done"}
      BY DEF WorkflowInv, SpecBeforeImpl
    <2>1. ASSUME NEW x \in Tasks, NEW y \in Tasks, status[x] # "backlog",
                 Type[x] \in {"plan", "impl"}, Type[y] = Predecessor[Type[x]],
                 FeatureOf[y] = FeatureOf[x]
          PROVE  status[y] \in {"review", "done"}
      <3>1. Type[x] \in DOMAIN Predecessor
        BY <2>1 DEF Predecessor
      <3>2. y \notin PipelineBlockers(x)
        BY <2>1 DEF StartedUnblocked, Blockers
      <3> QED
        BY <2>1, <3>1, <3>2 DEF PipelineBlockers, PipelineResolved
    <2>2. Predecessor["impl"] = "plan" /\ Predecessor["plan"] = "spec"
      BY DEF Predecessor
    <2>3. status[p] \in {"review", "done"}
      BY <2>1, <2>2
    <2> QED
      BY <2>1, <2>2, <2>3
  <1> QED
    BY <1>1, WorkflowSafe, TypeCorrect, PTL

-----------------------------------------------------------------------------
(* TaskLifecycle implements Workflow *)

\* The guards of an update that waits to write are those its request passed.
LEMMA StepGuarded ==
    TypeOK /\ UpdateGuarded /\ [Next]_vars => UpdateGuarded'
  <1> SUFFICES ASSUME TypeOK, UpdateGuarded, [Next]_vars, Disciplined,
                      NEW d \in Calls, callPc'[d] = "update"
               PROVE  /\ readStatus'[d] = "in_progress"
                      /\ callTo'[d] = "done" =>
                           /\ callWt'[d] \in Mains /\ callTask'[d] \in CloseOff
                           /\ Type[callTask'[d]] \notin {"spec", "impl"}
    BY DEF UpdateGuarded
  <1>1. CASE CallWaits(d)
    BY <1>1 DEF UpdateGuarded, CallWaits
  <1>2. ASSUME NEW w \in Worktrees, NEW t \in Tasks, StartTask(d, w, t) PROVE FALSE
    BY <1>2 DEF StartTask, TypeOK
  <1>3. ASSUME NEW w \in Worktrees, NEW t \in Tasks, ReportArtifact(d, w, t) PROVE FALSE
    BY <1>3 DEF ReportArtifact, TypeOK
  <1>4. ASSUME NEW w \in Worktrees, NEW t \in Tasks, NEW to \in Statuses,
               NEW q \in Prs \cup {NoPr}, NEW skip \in BOOLEAN,
               UpdateTaskStatus(d, w, t, to, q, skip)
        PROVE  /\ readStatus'[d] = "in_progress"
               /\ callTo'[d] = "done" =>
                    /\ callWt'[d] \in Mains /\ callTask'[d] \in CloseOff
                    /\ Type[callTask'[d]] \notin {"spec", "impl"}
    <2>1. /\ readStatus'[d] = status[t] /\ callTo'[d] = to
          /\ callWt'[d] = w /\ callTask'[d] = t
      BY <1>4, ReadOwn DEF UpdateTaskStatus
    <2>2. /\ status[t] = "in_progress"
          /\ to = "done" => w \in Mains /\ t \in CloseOff /\ Type[t] \notin {"spec", "impl"}
      BY <1>4 DEF UpdateTaskStatus, MayUpdate
    <2> QED
      BY <2>1, <2>2
  <1> QED
    BY <1>1, <1>2, <1>3, <1>4, CallStep DEF CallBegins

\* A report that waits to write found its task in review, from where it only goes to done.
LEMMA StepReport ==
    TypeOK /\ WorkflowInv /\ ReportFresh /\ [Next]_vars => ReportFresh'
  <1> SUFFICES ASSUME TypeOK, WorkflowInv, ReportFresh, [Next]_vars, Disciplined,
                      NEW d \in Calls, callPc'[d] = "report"
               PROVE  /\ Type[callTask'[d]] \in {"spec", "plan"}
                      /\ status'[callTask'[d]] \in {"review", "done"}
    BY DEF ReportFresh
  <1>1. CASE CallWaits(d)
    <2>1. /\ callTask'[d] = callTask[d] /\ callTask[d] \in Tasks
          /\ Type[callTask[d]] \in {"spec", "plan"} /\ status[callTask[d]] \in {"review", "done"}
      BY <1>1 DEF CallWaits, ReportFresh, WorkflowInv, CallsBound
    <2>2. TaskMoves(callTask[d])
      BY <2>1, TaskStep DEF WorkflowInv
    <2> QED
      BY <2>1, <2>2 DEF TaskMoves
  <1>2. ASSUME NEW w \in Worktrees, NEW t \in Tasks, ReportArtifact(d, w, t)
        PROVE  /\ Type[callTask'[d]] \in {"spec", "plan"}
               /\ status'[callTask'[d]] \in {"review", "done"}
    <2>1. /\ callTask'[d] = t /\ status' = status
          /\ Type[t] \in {"spec", "plan"} /\ status[t] = "review"
      BY <1>2, ReadOwn DEF ReportArtifact, taskVars
    <2> QED
      BY <2>1
  <1>3. ASSUME NEW w \in Worktrees, NEW t \in Tasks,
               \/ StartTask(d, w, t)
               \/ \E to \in Statuses, q \in Prs \cup {NoPr}, skip \in BOOLEAN :
                    UpdateTaskStatus(d, w, t, to, q, skip)
        PROVE  FALSE
    BY <1>3 DEF StartTask, UpdateTaskStatus, TypeOK
  <1> QED
    BY <1>1, <1>2, <1>3, CallStep DEF CallBegins

\* The blocker queries find nothing exactly when everything that comes first is
\* handed over.
LEMMA NothingBlocks ==
    ASSUME TypeOK, NEW t \in Tasks, Blockers(t) = {}
    PROVE  Atomic!Ready(t)
  <1> SUFFICES ASSUME NEW u \in Tasks
               PROVE  /\ Atomic!Before(u, t) => Atomic!HandedOver(u)
                      /\ Atomic!FeedsInto(u, t) =>
                           Atomic!HandedOver(u) /\ (artifact[u] \/ status[u] = "done")
    BY DEF Atomic!Ready
  <1>1. u \notin FeatureBlockers(t) /\ u \notin TaskBlockers(t) /\ u \notin PipelineBlockers(t)
    BY DEF Blockers
  <1>2. TaskResolved(u) <=> Atomic!HandedOver(u)
    BY DEF TaskResolved, Atomic!HandedOver
  <1>3. Atomic!Before(u, t) => Atomic!HandedOver(u)
    BY <1>1, <1>2 DEF Atomic!Before, FeatureBlockers, TaskBlockers
  <1>4. ASSUME Atomic!FeedsInto(u, t)
        PROVE  Atomic!HandedOver(u) /\ (artifact[u] \/ status[u] = "done")
    <2>1. /\ FeatureOf[u] = FeatureOf[t] /\ Type[t] \in DOMAIN Predecessor
          /\ Type[u] = Predecessor[Type[t]]
      BY <1>4 DEF Atomic!FeedsInto, Predecessor
    <2>2. PipelineResolved(u)
      BY <1>1, <2>1 DEF PipelineBlockers
    <2> QED
      BY <2>2 DEF PipelineResolved, Atomic!HandedOver
  <1> QED
    BY <1>3, <1>4

\* The write of start_task is the step that begins the task: nothing its request
\* read has changed since.
LEMMA WriteBegins ==
    ASSUME TypeOK, CallsBound, StartFresh, NEW c \in Calls, StartWrite(c)
    PROVE  Atomic!Begin(callTask[c])
  <1> DEFINE t == callTask[c]
  <1>1. /\ t \in Tasks /\ status[t] = "backlog" /\ callWt[c] \in Worktrees
        /\ callPc[c] = "start" /\ UNCHANGED <<owner, pr, merged, artifact>>
    BY StartWriteEffect DEF StartWrite
  <1>2. /\ owner[t] = callWt[c] /\ Active(callWt[c], t) = {} /\ Blockers(t) = {}
        /\ readStatus[c] = "backlog"
    BY <1>1 DEF StartFresh
  <1>3. status' = [status EXCEPT ![t] = "in_progress"]
    BY <1>2 DEF StartWrite
  <1>4. Atomic!Free(owner[t], t)
    BY <1>1, <1>2 DEF Active, Atomic!Free, TypeOK, Statuses
  <1> HIDE DEF t
  <1>5. Atomic!Ready(t)
    BY <1>1, <1>2, NothingBlocks
  <1>6. Atomic!Begin(t)
    BY <1>1, <1>2, <1>3, <1>4, <1>5 DEF Atomic!Begin
  <1> QED
    BY <1>6 DEF t

\* The write of update_task_status hands the task over, or closes it out.
LEMMA WriteHandsOver ==
    ASSUME TypeOK, CallsBound, UpdateFresh, UpdateGuarded, Disciplined,
           NEW c \in Calls, UpdateWrite(c)
    PROVE  \E t \in Tasks, q \in Prs \cup {NoPr} : Atomic!HandOver(t, q) \/ Atomic!CloseOut(t, q)
  <1> DEFINE t == callTask[c]
             q == IF callPr[c] = readPr[c] THEN NoPr ELSE callPr[c]
  <1>1. callPc[c] = "update" /\ UNCHANGED <<owner, merged, artifact>>
    BY DEF UpdateWrite
  <1>2. /\ t \in Tasks /\ callWt[c] \in Worktrees /\ status[t] = "in_progress"
        /\ owner[t] = callWt[c] /\ callTo[c] \in {"review", "done"}
        /\ readStatus[c] = "in_progress"
        /\ callTo[c] = "done" => /\ callWt[c] \in Mains /\ t \in CloseOff
                                /\ Type[t] \notin {"spec", "impl"}
    BY <1>1 DEF CallsBound, UpdateFresh, UpdateGuarded
  <1>3. status' = [status EXCEPT ![t] = callTo[c]]
    BY <1>2 DEF UpdateWrite
  <1>4. q \in Prs \cup {NoPr} /\ Atomic!Records(t, q)
    BY DEF UpdateWrite, TypeOK, Atomic!Records
  <1> HIDE DEF t, q
  <1>5. CASE callTo[c] = "review"
    <2>1. Atomic!HandOver(t, q)
      BY <1>1, <1>2, <1>3, <1>4, <1>5 DEF Atomic!HandOver
    <2> QED
      BY <1>2, <1>4, <2>1
  <1>6. CASE callTo[c] = "done"
    <2>1. Atomic!CloseOut(t, q)
      BY <1>1, <1>2, <1>3, <1>4, <1>6 DEF Atomic!CloseOut
    <2> QED
      BY <1>2, <1>4, <2>1
  <1> QED
    BY <1>2, <1>5, <1>6

\* Every step of the server is one step of the atomic workflow, or none: a check
\* changes nothing that the workflow sees, and a write does it all.
LEMMA AtomicStep ==
    ASSUME TypeOK, WorkflowInv, UpdateGuarded, ReportFresh, Disciplined, [Next]_vars
    PROVE  [Atomic!Next]_(Atomic!vars)
  <1>0. CallsBound /\ StartFresh /\ UpdateFresh
    BY DEF WorkflowInv
  <1>1. CASE UNCHANGED taskVars
    BY <1>1 DEF taskVars, Atomic!vars
  <1>2. ASSUME NEW c \in Calls, StartWrite(c) PROVE Atomic!Next
    <2>1. callTask[c] \in Tasks /\ Atomic!Begin(callTask[c])
      BY <1>0, <1>2, WriteBegins, StartWriteEffect
    <2> QED
      BY <2>1 DEF Atomic!Next
  <1>3. ASSUME NEW c \in Calls, UpdateWrite(c) PROVE Atomic!Next
    BY <1>0, <1>3, WriteHandsOver DEF Atomic!Next
  <1>4. ASSUME NEW w \in Worktrees, NEW t \in Tasks, AssignTask(w, t) PROVE Atomic!Next
    <2>1. Atomic!Assign(t, w)
      BY <1>4 DEF AssignTask, Atomic!Assign
    <2> QED
      BY <2>1 DEF Atomic!Next
  <1>5. ASSUME NEW t \in Tasks, MarkPrMerged(t) PROVE Atomic!Next
    <2>1. Atomic!Merge(t)
      BY <1>5 DEF MarkPrMerged, Atomic!Merge
    <2> QED
      BY <2>1 DEF Atomic!Next
  <1>6. ASSUME NEW c \in Calls, ReportWrite(c) PROVE Atomic!Next
    <2>1. callPc[c] = "report" /\ callTask[c] \in Tasks
      BY <1>0, <1>6 DEF ReportWrite, CallsBound
    <2>2. Atomic!Report(callTask[c])
      BY <1>6, <2>1 DEF ReportWrite, ReportFresh, Atomic!Report
    <2> QED
      BY <2>1, <2>2 DEF Atomic!Next
  <1>7. ASSUME NEW t \in Tasks, NEW to \in Statuses, BoardPatch(t, to) PROVE Atomic!Next
    <2>1. Atomic!Accept(t)
      BY <1>7 DEF BoardPatch, Atomic!Accept
    <2> QED
      BY <2>1 DEF Atomic!Next
  <1>8. ASSUME NEW t \in Tasks, NEW w \in Worktrees \cup {NoWt}, NEW q \in Prs \cup {NoPr},
               NEW m \in BOOLEAN, BoardEdit(t, w, q, m)
        PROVE  [Atomic!Next]_(Atomic!vars)
    <2>1. /\ owner[t] = NoWt /\ status[t] = "backlog" /\ owner' = [owner EXCEPT ![t] = w]
          /\ UNCHANGED <<status, pr, merged, artifact>>
      BY <1>8 DEF BoardEdit, TypeOK
    <2>2. CASE w = NoWt
      <3>1. owner' = owner
        BY <2>1, <2>2 DEF TypeOK
      <3> QED
        BY <2>1, <3>1 DEF Atomic!vars
    <2>3. CASE w \in Worktrees
      <3>1. Atomic!Assign(t, w)
        BY <2>1 DEF Atomic!Assign
      <3> QED
        BY <2>3, <3>1 DEF Atomic!Next
    <2> QED
      BY <2>2, <2>3
  <1>9. CASE UNCHANGED vars
    BY <1>1, <1>9 DEF vars
  <1> QED
    BY <1>1, <1>2, <1>3, <1>4, <1>5, <1>6, <1>7, <1>8, <1>9
       DEF Next, StartTask, StartCurrent, UpdateTaskStatus, UpdateClear, ReportArtifact,
           ReportDocument

\* The check-then-write requests of agents that follow the workflow implement the
\* atomic one: no interleaving of reads, writes, merges and the board shows, but that
\* an artifact reported in review may be attached when the board has accepted the task.
THEOREM WorkflowImplemented == Disciplined => (Spec => KeepsWorkflow)
  <1> SUFFICES ASSUME Disciplined PROVE Spec => KeepsWorkflow
    OBVIOUS
  <1>1. Init => Atomic!Init /\ UpdateGuarded /\ ReportFresh
    BY DEF Init, Atomic!Init, UpdateGuarded, ReportFresh
  <1>2. TypeOK /\ WorkflowInv /\ UpdateGuarded /\ ReportFresh /\ [Next]_vars => [Atomic!Next]_(Atomic!vars)
    BY AtomicStep
  <1> QED
    BY <1>1, <1>2, TypeCorrect, WorkflowSafe, StepGuarded, StepReport, PTL
       DEF Spec, KeepsWorkflow, Atomic!Spec

=============================================================================
