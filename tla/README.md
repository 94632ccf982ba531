# A TLA+ model of cloglog

cloglog is a multi-project Kanban board whose workers are autonomous coding
agents. A FastAPI backend (PostgreSQL, two gunicorn workers in production,
`src/Makefile:244` and `:280`) keeps the board, the registry of agent worktrees and the
review turns; agents reach it through an MCP server; GitHub webhooks drive
automated code review and agent notifications; browsers follow along over
server-sent events.

This directory models the backend's own logic, checks it with TLC on small
instances and proves its central invariants with TLAPS for every instance.

## 1. Inventory

| Part | State | Operations | Hard behaviour | What makes it correct |
|---|---|---|---|---|
| Agent sessions (`src/src/agent`) | `worktrees` and `sessions` rows, agent token, worktree inbox file | register, heartbeat, request_shutdown, unregister in three forms, remove_offline_agents, heartbeat sweep | each repository call is its own transaction; handlers of two workers interleave; a worker may stop between two commits | one active session per worktree, an ended session stays ended, silent agents noticed, no row deleted silently |
| Task lifecycle (`agent/services.py`, `board/routes.py`) | task status, owner, PR, merge and artifact; the agent's current task; documents | assign, start, update status, mark merged, report artifact, board PATCH | guards are checked in one transaction and the write made in another | one active task per agent, spec before plan before impl, no work on a blocked task, only humans complete tasks, nobody waits for ever |
| Board roll-up (`board/services.py:195`) | feature and epic status | recompute_rollup after some operations, not after others | two read-compute-write cycles per request | the board reflects the tasks |
| Dependencies (`board/services.py:240-300`) | feature and task dependency edges | add with a depth-first search, remove | the search reads node by node, the insert comes later | acyclic, within a project, the search ends |
| Close-off tasks (`board/services.py:414`) | a task paired with a worktree by a unique key; one Operations epic and feature | find or create, in up to four commits | two requests at once, a crash half way, deletions between the commits | the task that was answered stays the one of its worktree; one home for all |
| Numbering, import, reorder (`board/repository.py:92`) | counters on the project | next number, bulk import | read, increment and flush without a lock | unique numbers |
| Review turns and loop (`src/src/review`, `gateway/review_loop.py`) | `pr_review_turns` rows | claim, complete, fail, reset, mark posted; the stages of the loop | redelivered webhooks, timeouts, crashed runs, two workers | one review per turn and head commit, no turn lost or posted twice |
| Review queue (`gateway/review_engine.py:190-332`, `:1400-1610`) | rate limiter window and reservations, retry tasks, the review lock | handle a push, defer, retry, refuse | time, cancellation, the limit itself | never more than N per hour, the newest push of a PR is the one that waits, a promised review happens |
| Review checkout (`gateway/review_engine.py:400-960`) | working trees of agents, the main clone, disposable checkouts, child processes | choose a tree, make a checkout, read it, remove it | agents move their trees, git fails, a cancelled review leaves children behind | a review reads the commit it is about, in its own repository; nothing is left on disk |
| Webhooks (`gateway/webhook*.py`) | seen delivery ids per worker, task rows, inboxes | verify, dispatch, resolve a recipient, write | redelivery, eviction, the other worker, rows that go while they are resolved | an event an agent must react to reaches an inbox; old deliveries do no harm |
| Event bus, SSE, notifications (`shared/events.py`, `gateway/sse.py`, `notification_listener.py`) | subscriber queues, LISTEN connection | publish, NOTIFY, listen, reconnect | lost connection, oversize payload, echo of one's own message | a stream repeats nothing, keeps order and has no unnoticed gap; one notification row per event |
| Auth, documents, GitHub token, CLI, MCP server, frontend, plugin | keys; documents; cached token; client state | lookups, inserts, translations | little of their own | |

How they interact: routes call services, services call repositories and publish to
the event bus; the bus feeds SSE and the notification listener; webhooks go through
the dispatcher to the consumers, which write agent inboxes and drive the review
engine; the agent service reads and writes tasks through the board repository
(`src/src/agent/services.py`), which is why a task is changed by two contexts.

Facts of the code that all modules rest on:

* every repository method commits by itself (`self._session.commit()`), so a handler
  of *n* repository calls is *n* atomic steps and other handlers run in between;
* transactions are READ COMMITTED, and nothing takes a row lock;
* sessions are made with `expire_on_commit=False`, and the unit of work writes only
  the columns that differ from what the request loaded: a stale read can both
  overwrite and fail to write;
* `scalar_one_or_none` raises when two rows match, and an UPDATE or DELETE through an
  object whose row is gone raises: both end the request at that point.

`PROJECT.json` lists the components with their status, and under `hazards` what in
this code is hard to test, at its line, with the properties that would catch it.

## 2. Modules

| Module | Models | Composes |
|---|---|---|
| `AgentSession` | the agent context's worktree and session tables with all their writers | |
| `Workflow` | the life of a task as agents and users see it, each request one step (abstract) | |
| `TaskLifecycle` | tasks between agents, merges and the board | implements `Workflow` |
| `Rollup` | feature and epic statuses | |
| `Dependencies` | the dependency graph and the cycle search | |
| `ReviewLoop` | the codex review of a pull request: `_review_pr`, the loop, the turn table and the badge | |
| `ReviewPromise` | what the rate limit promises, without timers, reservations or locks (abstract) | |
| `ReviewQueue` | the rate limiter, its retries and the review lock of one process | implements `ReviewPromise` |
| `ReviewCheckout` | which tree a review reads, and the life of a disposable checkout | |
| `Webhooks` | deliveries from GitHub to task rows and inboxes | |
| `Entities` | numbers, creation, import, close-off tasks, attached documents | |
| `EventBus` | publish, NOTIFY mirror, SSE streams, notification listener | |
| `MC*` | instances for TLC; the `.cfg` files are named after the module they instantiate | the module |
| `*Proofs` | theorems and proofs for TLAPS | the module; `BoardProofs` is about `Entities` and `Dependencies`, `GatewayProofs` about `ReviewQueue` and `Webhooks` |

Definitions whose comment begins with "Mutant" are not part of a model: each is one
mapped definition with a plausible bug, and shows that the property listed with it in
`PROJECT.json` notices.

### AgentSession

`status`, `gen`, `token`, `shutdown` are the worktree row of each path; a row is
addressed by `<<path, generation>>`, which stands for its UUID and changes when the
row is deleted and made again. A session is named after the register call that
inserted it. `regPc`, `beatPc`, `tdPc`, `swPc` say at which repository call a
register, heartbeat, teardown or sweep is, and the variables next to them hold what it
read before: this is where stale reads come from. `Unregister`, `UnregisterByPath`,
`ForceUnregister` and `RemoveOffline` start a teardown of their kind;
`TeardownFind`, `TeardownEnd`, `TeardownPublish` and `TeardownDelete` are the calls
they share. `Expire` is the passage of the heartbeat timeout, `Crash` a worker that
stops in the middle of a handler. `announced`, `signalled` are the WORKTREE_OFFLINE
events and the inbox lines, as sets.

Bounds: `Regs` bounds how often agents register, `MaxShutdowns` and `MaxCrashes` the
calls and crashes. Two registrations of one path are what it takes to have a second
session, a re-created row and a token that no longer works; paths do not interact.

### Workflow and TaskLifecycle

`StartTask` and `UpdateTaskStatus` are the check (all reads of the handler and the
guards, in the code's order), `StartWrite` and `UpdateWrite` the commit of the task,
`StartCurrent` and `UpdateClear` the commit of the worktree's current task. `read*`
hold what the request loaded. `ReportArtifact` is the check of `report_artifact`,
`ReportWrite` the commit of the path and `ReportDocument` that of the document.
Assignment, merge and the board's PATCH are one commit each. `"backlog"` stands for every status that no guard mentions. The
dependency graphs are constants here: their own dynamics are module `Dependencies`.

`Disciplined = TRUE` restricts callers to the workflow the repository documents for
agents (one call at a time, on one's own tasks, forward only, the human completes what
is in review). It restricts *callers*: the guards of the code are the same. With
`FALSE` any request comes in any state, and the board edits any column.

`Workflow` has the columns of the tasks and nothing else: no transactions, no requests in
flight, no reads that could go stale. Its `Begin` asks that the agent is free and the task
is ready at the moment the task starts, its `CloseOut` that the owner is a main agent at
the moment the task ends. `KeepsWorkflow` says that disciplined callers see just this,
although the code checks in one transaction and writes in a later one: a check maps to a
stutter, a write to the whole request. The one guard that may have become false by then is
that of `report_artifact`: the human may accept the task between its check and its write,
so `Report` is allowed in `done` as well as in review. `Ready` is written from the order of the work (what
comes before what), `Blockers` from the queries, so the two also check each other. What
the workflow does not promise is that a pull request belongs to one task: two requests may
both find it unused.

### Rollup

A request that recomputes goes through `ReadTasks`, `LoadFeature`, `WriteFeature`,
`LoadEpic`, `ReadFeatures`, `WriteEpic`, one step per statement of `recompute_rollup`;
the other operations are one step. `alone` is a history variable: whether any
operation overlapped the request, on its feature or elsewhere in the epic. What a
relationship loads eagerly is not modelled: it could only make a read older, inside a
window the model has already. The statuses in use are constants to bound the run.

### Dependencies

`edges` is either dependency table, since feature and task dependencies are the same
code twice. A request's search pops one node per step (one query each) from `stack`;
the order is left open, and the model's stack is a set, so a node that the code pushes
twice is popped once. `serial` is a history variable: no two adds have overlapped so
far.

### ReviewLoop

One pull request, several server processes. A row of `pr_review_turns` is addressed by
head commit and turn; `status`, `consensus`, `session`, `posted` and `outcome` are its
columns (`"none"` is no row). `pc` says at which call a worker is, `row` the turn it
works on, `sess` the session number it computed at the start; `used`, `agree`,
`retryable` and `timedOut` are the fields of `LoopOutcome` and the test on its errors.
`Deliver` takes a delivery, new or repeated, at any time: the dispatcher forgets ids on
a restart and does not share them between processes. `CheckCap`, `ReadTurns`,
`ClaimTurn`, `ResetToRunning`, `CompleteTurn`, `MarkPosted`, `RecordFindings` and
`EndStage` are one database or GitHub call each. The reviewer's answer is free
(`NoResult`, `PostReview`, `PostFailed`), and so is whether GitHub kept a review whose
post was not confirmed. `Crash` is a restart, a cancelled task or an exception that
leaves the handler. `github`, `acked`, `ci` and `alerted` are what the outside sees;
`acked`, `ci` and `alerted` are history, no guard reads them.

Left out: stage A (`opencode_enabled` is off by default; the same loop on rows of its
own, with no dispatch), the degraded path without a database or head commit, the
rows from before `session_index` existed, and the payload of findings and learnings.

### ReviewPromise and ReviewQueue

One server process with its own limiter, as in the code. A push is a number, in the order
of arrival; `stage` says where its handler or its retry is (`sleeping` in the retry's
`asyncio.sleep`, `waiting` for the lock, `reviewing`, `stopping` when cancelled while it
reviews). `stamp` is `_timestamps` by push, `reservations` the list of wake times without its order (a bag), `wake`
the time a retry was given, `pending` is `_pending_retries`, `line` the waiters of the
lock. The event loop runs a handler up to its first await, so a decision on a push is one
action of four (`HandleAllowed`, `HandleDeferred`, `HandleRefused`, `HandleBlocked`);
`RetryFires` is the retry after its sleep. `Wake` is the computation in `reserve`, over
the sorted starts already planned. Timers are punctual; starts then wait for the lock and
may bunch, which the limit does not speak of.

`ReviewPromise` knows none of this: a push is admitted, deferred or refused, at most `max`
are admitted in a window, and a deferred push is admitted when there is room unless a
newer one of its PR has come. `KeepsPromise` is `ReviewPromise!Spec` under `admitted <-
stamp` and `promised <-` the pending push while it sleeps. It includes the fairness of
`Retry`, and it is where the reservations earn their keep: a retry that fires does not
look at the window, and the abstract `Retry` does.

Bounds: five pushes to two PRs under limits 0, 1 and 2, in a window of three and with
webhooks up to time four, so that pushes leave the window while retries sleep; a retry
can be replaced by a push that is admitted, deferred or refused, and two retries can be
planned beyond the window.

### ReviewCheckout

`tree` is HEAD of the four kinds of trees a review may be pointed at (the task's own
worktree, a worktree of the branch, the main clone, the tree of the host process), `dir`
the checkout directory of each commit, `fetched` the commits the clone has. `step` says
where the review of a process is, from `resolve` to `cleanup`; `orphans` are children
whose server no longer waits for them. `Resolve` is the chain of lookups of
`resolve_pr_review_root` with its refusal, `FindCheckout` to `Fetch` are
`_create_review_checkout` (`again` says that the second `git worktree add`, after the
fetch, is on), `ReaderEnds` and `Cleanup` the end of `_review_pr`. Between the two the
resolution's session is closed: at the step `closing` the checkout exists and the `try`
that removes it has not begun, so a cancellation or a close that raises (`CloseFails`)
leaves it. `Cancel` and `Crash` are what interrupts a review, `OrphanEnds`, `HeadMoves` and `TreeRemoved`
what goes on beside it. The deployments (`Settings`) are all combinations of a registry,
a foreign repository, worktree rows and a database.

`disturbed` is history: commits that two processes review at once, or on which a git
command was cut short; `left`, commits whose review ended at `closing` with its checkout on
disk. Properties are stated for the others, and `left` excuses no reader. `MaxReviews` (three) lets a
commit be reviewed again; `MaxMoves` (two) allows two of the interruptions at any step.

### Webhooks

A webhook is its event, action and PR; a head SHA is the number of the delivery that
reported it, so that "older" means something. A handler is one task created by the
dispatcher with a session of its own, and `step` says which query or write is next; what
the session has read of a task stays as it was read (`known`). `Dispatch` remembers an id
and, at `MaxSeen`, evicts any half of the set. A delivery that was created may arrive for
the first time at any time (`Receive`), after newer ones too, and again (`Redeliver`). The
requests of the board and of agents (`AgentSetsUrl`, `BoardSetsUrl`, `Finish`,
`GoesOffline`, `Removed`) change what a handler is about to read; `envSet` is whether the
deployment has configured an inbox. `late` is history: the head deliveries that met another
of their PR under way, and those that a process accepted without remembering them after a
newer one of the PR had been accepted.

The reads of one lookup (a task and its owner's row; the project, the branch and the main
agent) are one step each, and a database or a disk that fails is not modelled.

Bounds: two processes, up to three webhooks of a tracked and a foreign PR, one request,
memories of two ids. The constraint `PairsAndTurns` gives every pair of handlers, and
with it one request where no inbox is configured; up to four handlers where they are for
pushes of one PR handled in turn, which is what late arrivals, redeliveries and evictions
need.

### Entities

The rows of one project with their numbers, parents and pairings. A request reads a
counter in one step and commits counter and row in a later one; an import reads all three
and writes them with its first row; `CloseOff` to `Stamp` are the commits of
`create_close_off_task`; `Attach` and `AttachEnds` the lookup and the insert of
`auto_attach_document_on_review`. Deletions cascade, and the unique key and the foreign
keys refuse what they refuse in the database. `overlapped`, `overran` and `troubled` are
history and are the only excuses a property accepts. Bounds: two requests, two worktrees,
six rows: two close-off tasks in one home, or two homes when the requests overlap.

### EventBus

One project, several processes. `fed` are the events put into a stream's queue, `waiting`
the publish calls at `_publisher_lock`, `mail` the notifications on the way to a LISTEN
connection, `inbox` the queue of a process's notification listener and `doing` what that
listener is in the middle of. `Publish` feeds local subscribers at once and the mirror
later (`Notify`), unless the payload is too large. `Detach` and `Attach` are the LISTEN
loop, `NotifyFails`, `ListenFails` and `Crash` the faults. `owed` and `failed` are
history: what a connected stream has to see, and whose notification row cannot be
expected. Bounds: two processes, a stream that may connect to either, three events of
which a move to review takes two (its announcement is an event itself), two faults.

## 3. Runs

| Run | Expect | Shows |
|---|---|---|
| `agent_safety` | pass | one path, two registrations in turn, a teardown, a sweeper, a request_shutdown and a crash anywhere: sessions do not double and do not revive; a shutdown flag has its inbox line; deletions are announced |
| `agent_liveness` | pass | with a sweeper that runs, a silent session ends and a worktree without a session goes offline |
| `agent_no_checker` | violation | without one, as the lifespan starts the application, it does not |
| `task_pipeline` | pass | two agents share a pipeline and a dependent feature: the calls implement the atomic `Workflow`, the single-task rule and the order hold, no agent completes its own work, and every task gets done |
| `rollup_safety` | pass | two roll-ups at a time, every other operation between their steps: one that nothing overlaps repairs its feature and the epic, whatever went before |
| `deps_graph` | pass | two adds and removals interleaved with the searches, in two projects of one and three nodes |
| `review_turns` | pass | two workers, redeliveries, failures and crashes: one reviewer and one confirmed review per turn; alert, badge and CI dispatch are true; every run ends |
| `review_queue` | pass | pushes, retries, replacements and refusals around the limit: no window holds more than the limit, the bag of reservations is exactly the sleeping retries, the newest push is the one that waits, promises are kept, and the queue implements `ReviewPromise` |
| `webhooks_delivery` | pass | webhooks arrive late and come again, to either process, while tasks and worktrees change: an event an agent must react to reaches an inbox unless its handler raises in one of two named ways, a foreign one reaches at most the owner of its PR's task, a head SHA goes back only by a delivery in `late` |
| `review_checkout` | pass | two processes, git failures, sessions that fail to close, cancellations at any await, crashes and agents at work, in every deployment: a review keeps its checkout, only the named interruptions leave one, no foreign tree is read |
| `entities` | pass | creations, imports, close-offs, deletions and documents overlap and crash: numbers and documents repeat only where an overlap or an import let them, a worktree keeps the close-off task it was answered |
| `event_bus` | pass | two processes, broken connections, failed NOTIFYs and restarts: one notification row per move to review, streams without repetition, reordering or an unnoticed gap |

The bounds are the smallest in which the hard case happens. Two handlers are enough
for a race between a check and a write, as each reads and writes once or twice; four
tasks hold a full pipeline and a dependent feature; three nodes of one
project hold a cycle longer than two and a path that a removal cuts during a search,
the fourth is in another project. `review_turns` has two workers and two commits of one
turn each (`codex_max_turns` as shipped) or one commit of two turns, which is what the
constraint `OneCommitIfManyTurns` selects: commits meet only in the session numbers,
turns only within a commit. Two sessions are enough to reach the cap and to share a
number. The bounds of the other modules are given with them in section 2. Where a module
is proved, the proofs drop the bounds.

`CHECK_DEADLOCK FALSE` is in every configuration but those of `ReviewLoop` and
`EventBus`, because each run ends when its bounded requests are used up or its tasks are
done; a backend without requests is simply idle. That nobody waits for ever is
`EveryTaskDone`, `SearchEnds`, `RunEnds`, `PromiseKept` and the two liveness properties
of `AgentSession`.

### Configurations beside the runs

Some configurations are kept for a reader who wants to see a behaviour for himself:
`tlc -config X.cfg MCModule`. All but the first three end in a counterexample, which the
observations of section 6 describe.

| Configuration | Shows |
|---|---|
| `AgentSession_overlap` | the session invariants that survive overlapping registrations, when `get_active_session` can find two rows (passes) |
| `TaskLifecycle_anything` | any request in any state: an agent completes nothing but a close-off task (passes) |
| `Dependencies_exact` | additions only, two at a time: the search refuses nothing but cycles, and `Reached`, which the proof rests on, holds (passes; with removals in the middle of a search `OnlyCyclesRefused` fails, as the edge that led to the refusal may be gone) |
| `Rollup_stale` | `NoStaleEpics`: deleting the last open task leaves its epic in progress |
| `Dependencies_race` | `Acyclic`: two overlapping adds make a cycle |
| `ReviewLoop_cap` | `CapRespected`: two commits reviewed at once exceed the cap of sessions |
| `ReviewQueue_swap` | `SwapSucceeds`: a push stops the retry of its PR and is refused itself |
| `ReviewCheckout_orphan` | `OneReviewer`: a cancelled review's reviewer still runs when the next one starts |
| `Webhooks_head` | `HeadMatchesPr`: a task keeps the head SHA of the PR it carried before |
| `Entities_import` | `NumbersUnique`: an import hands out numbers beyond the counter |

### Fairness

* `AgentSession!Fairness`: weak fairness of each handler's steps (asyncio runs a
  request that was accepted to its end) and of the sweep loop (`scheduler.py:21` runs it
  every minute for as long as its process lives). Nothing is assumed of agents, users
  or time, and `agent_liveness` has no crash: after one, a register that committed
  `online` but no session is not repaired (section 6).
* `TaskLifecycle!FairSpec`: someone does something while anything can be done. In a
  disciplined run every action moves a task forward, so this asks only that agents and
  humans do not all stop; it is what makes a circular wait between guards visible.
* `Dependencies!FairSpec`: a request that searches goes on searching.
* `ReviewLoop!FairSpec`: a review that was started goes on, as asyncio resumes it and
  the reviewer and the HTTP calls have timeouts. No webhook has to come and no worker
  has to crash.
* `ReviewQueue!FairSpec`: the clock runs, a timer that is due fires (asyncio's sleep), a
  review that has the lock ends (its reviewers run under timeouts) and the lock passes
  on. `ReviewPromise!Spec` has weak fairness of `Retry`, which is the promise itself and
  is what the refinement has to show.
* `ReviewCheckout`, `Webhooks`, `Entities` and `EventBus` have none: their properties are
  safety properties.

## 4. Proofs

All are checked by `tlapm` for any number of paths, agents, tasks, nodes, workers, commits,
pushes, processes, streams, requests and faults.
The assumptions are the `ASSUME`s of the modules: null values are not members of the
sets, the constant functions have their domains, the switches are Booleans.

| Theorem | States | Argument |
|---|---|---|
| `AgentSessionProofs!TypeCorrect` | `TypeOK` | inductive |
| `NeverRevives` | `SessionNeverRevives` | the only write of `active` is the insert, and a register call inserts its session once (`InsertsOnce`), so neither an ended nor a deleted session comes back |
| `OneActiveSession` | `AtMostOneActive` | `ExclusiveInv`: registrations in flight are on different paths (`RegistersApart`); between find and end the session that was read covers all active ones (`EndOldCoversAll`), from there to the insert there is none (`NoneBeforeInsert`) |
| `ShutdownSignalled` | `ShutdownFlagSignalled` | `ShuttingSignalled`: a request past its first step has written the line for the id it will flag |
| `DeletionsAnnounced` | `DeletedAnnounced` | `DeleteReady`: a teardown at its delete has published, unless it is remove_offline_agents |
| `TaskLifecycleProofs!TypeCorrect` | `TypeOK` | inductive |
| `OnlyBoardCompletes` | `AgentsNeverComplete` | `DoneIsCloseOff`: the done guard is checked at the read, and what it looks at of the task's kind does not change |
| `OneActive`, `WorkUnblocked`, `PipelineOrder` | `DisciplinedOneActive`, `StartedUnblocked`, `SpecBeforeImpl` | `WorkflowInv`: requests in flight are of different agents, and nothing a request read goes stale before its write (`StartFresh`, `UpdateFresh`), because others move tasks forward only and forward never blocks |
| `WorkflowImplemented` | `KeepsWorkflow` | step by step from `WorkflowInv` and `UpdateGuarded` (an update that waits to write has passed its guards): the write of `start_task` is `Begin`, since what it read is still so and no blocker is exactly `Ready` (`NothingBlocks`); the write of `update_task_status` is `HandOver` or `CloseOut`; an artifact that waits to be written is of a spec or plan in review or, since, accepted (`ReportFresh`) |
| `BoardProofs!GraphTypeCorrect`, `ProjectsApart` | `GraphTypeOK`, `SameProject` | `ProjectInv`: the edge a request carries was checked |
| `AcyclicForever` | `SerialAcyclic` | `SearchInv`: stack and visited cover the target and all successors of visited nodes, and never the source; when the stack is empty, visited is closed under the edges. `ClosedSearchSafe`: an edge from outside a closed set into it makes no cycle |
| `RefusalsRight` | `OnlyCyclesRefused` under `GrowSpec` (additions only) | `Reached`: every set that holds the target and is closed under the edges holds the stack. `ReachedMakesCycle`: if no closed set separates the target from the source, the complement of the largest closed set without the source is a cycle through the new edge |
| `ReviewLoopProofs!TypeCorrect` | `TypeOK` | inductive |
| `OneReviewer`, `PostedOnce`, `PassBacked` | `OneReviewerPerTurn`, `ReviewPostedOnce`, `PassIsBacked` | `TurnInv`: a row is `running` while a worker owns it and the owner is alone; only a row that is not confirmed can be failed, so only such a row is reset; consensus and posted are written after the confirmation |
| `SessionsNumbered` | `SessionNumbers` | `SessionInv`: every number in use, held by a worker or stored in a row, is at most one more than the posted count, which never shrinks; so a new one fills the next place or a taken one |
| `AlertTrue`, `CiLast` | `AlertIsTrue`, `CiIsLast` | `OneTurnInv`, for `codex_max_turns = 1`: what a worker remembers of its turn is what the row says (`Local`), who still owes the dispatch is the one who finished the row (`Owes`), and a row that is final stays so (`Final`) |
| `RollupProofs!TypeCorrect` | `TypeOK` | inductive |
| `FeatureIsRepaired`, `EpicIsRepaired` | `FeatureRepaired`, `EpicRepaired` | `RollupKnown` says at each step what a request that nothing overlapped on its feature (`FeatureKnown`) or in the epic (`EpicKnown`) knows: what it has loaded and computed is what the rows say. `Isolated` and `Bound` tie the history to the requests under way |
| `EventBusProofs!TypeCorrect` | `TypeOK` | inductive |
| `OneRowEach` | `NotifiedOnce` | `RowInv`: an event is in at most one listener's queue, once and only while it has no row (`OwnQueue`), and ids in queues are in the order of publication |
| `StreamsOrdered` | `StreamInOrder` | `OrderInv`: calls at the lock and mail are ordered per source (`CallsInOrder`, `MailInOrder`), and what a stream has been shown of a source is older than what is still in either (`StreamsBehind`) |
| `NothingDropped` | `NoSilentGap` | `GapInv`: `NoSilentGap` with `OwedByConnected`, only a connected stream is owed anything |
| `ReviewCheckoutProofs!TypeCorrect` | `TypeOK` | with `Progress`: where a review is says what it has chosen, and a root that is a commit is the review's own |
| `CheckoutKept`, `CheckoutsRemoved` | `CheckoutStands`, `NoCheckoutLeft` | `CheckoutInv`: two reviews of one commit (`Alone`) and a git child left behind (`OrphansDisturb`) disturb it, and a directory of a commit that is neither disturbed nor in `left` has an owner (`DirOwned`); so a review that owns nothing finds no directory, or one that is complete because an earlier review left it (`LeftStands`) |
| `OnlyOwnRepository` | `OwnRepository` | `NeverHost`: with a registry neither list of candidates holds the host's tree |
| `BoardProofs!EntityInvariant`, `EntitiesTypeCorrect` | `EntityInv`, `TypeOK` | inductive; what each part of `EntityInv` is for is said below |
| `CloseOffsAlwaysPaired`, `TaskAnsweredStands` | `CloseOffsPaired`, `SameTaskAnswered` | `OneHome`: without an overlap one request at a time looks for the close-off epic and feature, and what it goes on to create is not there yet; `Paired`: an untroubled worktree has one request that files its task, and only while it has none |
| `DocumentAlwaysOnce` | `DocumentOnce` | `Documented`: between lookup and insert of one request there is no document, and no other request is there |
| `NumbersNeverReused` | `NumberNeverReused` | `Numbering`: every number given is below its counter; what a request has read is still the counter, and a number it owes is not used and no other request's |
| `GatewayProofs!NewestWaits` | `PendingNewest` | `NewestInv`: pushes arrive in order, the registry files a push under its own PR (`PendingOwn`), a limit of 0 schedules nothing; `ReplacedRetry`: a newer push leaves no retry of its PR asleep |
| `ReservationsExact` | `ReservationsMatch` | `Counts`: the reservations hold the wake times of the sleeping retries, each as often as it occurs, through every `reserve`, release and replacement |
| `RateAlwaysHeld`, `TypeCorrect` | `RateHeld`, `TypeOK` | `QueueInv`, below |
| `PromiseImplemented` | the safety part of `ReviewPromise!Spec`, under the mapping of `KeepsPromise` | step by step from `QueueInv`: an admission, a retry that fires included, finds room in the abstract window because `Capacity` counted it |
| `HookInvariant`, `HookTypeCorrect` | `HookInv`, `HookTypeOK` | inductive, below |
| `NeverDroppedSilently` | `NoSilentDrop` | `Undropped`: worktree rows only go, so an inbox that every project has now was there when the recipient was chosen; from then to the line the recipient is kept; the two ways to `failed` are those named in the property |
| `ForeignAlwaysUnheard` | `ForeignUnheard` | step by step: only `ResolveOwner` chooses a recipient for a repository of no project, from the row of a task that carries the PR at that moment |
| `HeadNeverGoesBack` | `HeadNeverRollsBack` | `LateKnown`, with `Remembering` and `Reported`, below |

Three of the invariants are long, because the properties count or compare what happened at
different times.

* `QueueInv`. `RateHeld` speaks of starts that were, but is not inductive: a retry that
  fires does not look at the window. `Capacity` counts past and *planned* starts together:
  no window of any position holds more than `max` of them. A push that is admitted or
  deferred finds a place that keeps this (`reserve` looks at the sorted planned starts), a
  retry that fires turns a planned start into a past one at a time that is not later
  (`Timed`), and a replaced retry only frees a place. The limiter counts slots of the
  reservations; `SlotCount` gives a bijection between slots and sleeping retries, so that
  the code's count is the count of the retries.
* `EntityInv`. `Tree`, `References` say that ids are given once and that what a request or
  a row refers to is there or was deleted with all below it; `OneHome`, `Paired`,
  `Documented` and `Numbering` are stated for what the histories `overlapped`, `overran`
  and `troubled` leave out, and say of each request between its two transactions that
  what it read is still so.
* `HookInv`. `Handling` says what a handler has at each step, and that handlers start in
  order. `Remembering`: every delivery was handled by a process that still remembers it or
  has evicted it, so one that is accepted again was forgotten or is with the other process.
  `LateKnown`: a head handler under way is in `late` if any other of its PR, ended or not,
  has a newer delivery. `Reported`: every head SHA was reported to a
  handler. A SHA that is about to be written is therefore no older than the one that is
  there, or in `late`. Each step of a handler is shown to be a `GoesOn` (it touches its own
  variables, keeps a recipient it has, writes only its own SHA), each start a `Starts`
  (`ArrivesLate` gives what it adds to `late`), and these two and the requests keep the
  invariant (`EachStep`).

All parts of the three invariants were model-checked on the instances of the runs.

Acyclicity is stated as "every non-empty set of nodes has one with no successor in
it", which for finite graphs is the absence of a cycle and needs no paths, hence no
induction.

`SessionNumbers` (`ReviewLoop`), `SameProject` and `OnlyCyclesRefused` (`Dependencies`)
are proved although no run lists them.

Every invariant and action property that a run checks is a theorem. Only model-checked are
the liveness properties (`StaleSessionEnds`, `OrphanGoesOffline`, `EveryTaskDone`,
`SearchEnds`, `RunEnds`, `PromiseKept`) and, in the refinement `KeepsPromise`, the fairness
of the abstract `Retry`: liveness under fairness and ENABLED are out of the prover's reach.

## 5. Findings

The violation run is a disagreement between the code and a sentence in the repository,
quoted in `PROJECT.json`: `run_heartbeat_checker` is never started, though its docstring
and `docs/design.md` say it runs in the lifespan (`agent_no_checker`).

## 6. Observed, without a run

What follows is the code as it is, met while modelling it. Where a configuration beside
the runs shows it, its name is given; the properties of the runs are stated so that they
say what holds all the same.

Sessions and tasks

* The sweep marks a worktree offline in a second commit; a worktree that re-registered
  in between has an active session and is shown offline until it registers again
  (`src/src/agent/services.py:887`; `docs/ddd-context-map.md:84`).
* A worker that stops between `upsert_worktree` and `create_session` leaves a worktree
  online that no sweep looks at (`services.py:146`).
* `update_task_status` to `in_progress` and `assign_task` do not check the single-task
  rule that `start_task` enforces (`services.py:577`).
* Two overlapping registrations of a worktree both find no session and insert two
  active ones, after which every caller of `get_active_session` fails
  (`services.py:159`); `AtMostOneActive` is therefore stated for registrations that do
  not overlap (`AgentSession_overlap` for what else holds).
* `start_task` exempts a task with `pr_merged` whatever its status, and nothing resets
  the flag when the task goes back to in progress (`services.py:397`).
* `report_artifact` checks that the task is in review and writes later: the path and the
  document also land on a task that has left review in between (`services.py:687-705`).
* A feature dependency and a task dependency may wait for each other: each table's
  search sees only its own edges, `start_task` waits for both (`board/services.py:303`).

Board

* Deleting a task recomputes no roll-up (`board/routes.py:378`): with its last open task
  deleted an epic stays in progress, although `docs/design.md:234` says "the board always
  reflects reality. No stale "in progress" epics" (`Rollup_stale`). `start_task` changes a
  status without a roll-up too (`agent/services.py:414`), and two overlapping roll-ups of
  one feature may commit in the wrong order (`board/services.py:213`).
* The cycle check and the insert are separate transactions: two overlapping adds in
  opposite directions make a cycle, although `docs/design.md:247` promises none
  (`board/services.py:269`, `Dependencies_race`).
* An import advances each counter by one however many rows of the kind it inserts
  (`board/services.py`, `Advanced` in `Entities`), so the next creation repeats a number;
  `docs/design.md:186` speaks of a monotonic counter (`Entities_import`).
* A creation below a feature or epic takes the counter of the project in the URL and does
  not ask whether the parent belongs to it. The counters are read without a lock.
* A close-off task that is found again does not get the assignment it may have missed;
  `dismiss-task` marks one notification of a task, not all; two documents of one PR make
  every later lookup raise.

Reviews

* The number of posted sessions is read when a review starts and stored when it posts:
  commits reviewed at once share a number, and a reset row keeps its old one, so more
  reviews are posted than `MAX_REVIEWS_PER_PR` (`review_engine.py:1695`,
  `review_loop.py:428`; the docstring at `review/interfaces.py:236`; `ReviewLoop_cap`).
* A worker that stops during a review leaves its row `running`: `reset_to_running` takes
  failed rows only, so with one turn per commit the commit is not reviewed again and the
  badge stays at working until the next push (`review/repository.py:174`).
* With `codex_max_turns = 2` a redelivery may run turn 2 while turn 1 runs elsewhere,
  and both dispatch CI, though `review_loop.py:71-75` says "Called exactly once per
  (pr_url, head_sha)"; and a failed turn 1 that is retried after turn 2 completed ends
  without a dispatch if turn 1's retry does not agree. `CiIsLast` and `AlertIsTrue` are
  stated for the shipped setting of one turn.
* A review that GitHub took although the post was not confirmed leaves a failed row; if
  it approved, and the PR has an earlier posted session, redeliveries are skipped as
  approved and CI is never dispatched (`review_engine.py:1702`).
* A push that cancels a retry of its PR frees the retry's reservation and takes its
  place; the docstring at `review_engine.py:1540-1543` says this swap always succeeds. If
  the retry had fired already there is nothing to free, and the push may be refused
  (`ReviewQueue_swap`).
* The limiter is one per process and forgets on a restart; retries that sleep are lost
  with it. The cache that keeps the skip comment from being posted twice is filled before
  the post.
* The checkout is made in the `async with` that closes the resolution's session; a review
  that is cancelled there, or whose session fails to close, has not reached the `try` whose
  `finally` removes the checkout, and leaves it until the commit is reviewed again
  (`review_engine.py:1951-2003`).
* A cancelled review does not kill its reviewer: the next review starts while the old
  process still reads, although `docs/design/two-stage-pr-review.md:378` has one codex
  review at a time (`ReviewCheckout_orphan`). A git command that timed out leaves a
  partial directory, which makes the next attempt on that commit read a drifted tree; two
  processes that review one commit share its directory, and the first to end removes it;
  and a tree that was at the right commit may move while it is read.

Webhooks

* An eviction keeps an arbitrary half of the ids, as the set has no order, so the newest
  may be the one forgotten (`webhook_dispatcher.py:56`).
* `update_task_status` sets another `pr_url` and leaves `pr_head_sha`
  (`agent/services.py:597-602`), while the board's PATCH clears it with the comment "the
  stored head SHA belongs to the old PR" (`board/routes.py:331-333`; `Webhooks_head`).
* Overlapping handlers of two pushes write the head SHA in the order of their commits.
* The dispatcher compares ids and not the order of the events: a push whose webhook first
  arrives, or is accepted again, after that of a newer push rolls the task's head SHA back
  (`webhook_dispatcher.py:70-76`, `webhook_consumers.py:260-263`).
* An inbox line is written under a worktree path that may be gone, and recreates it;
  two online worktrees of one branch, or a task that is deleted before it is marked as
  merged, raise and lose the event; a repository that several
  projects track is resolved to any of them; `pr_merged` is set on the latest task of the
  PR whatever its project; a worker that stops between its answer to GitHub and the
  handler loses the event.

Events

* Local delivery does not wait for the mirror; an event published while a process's LISTEN
  connection is down (up to 15 seconds), too large for NOTIFY, or whose NOTIFY failed,
  does not reach the other processes' streams. `NoSilentGap` says that there are no other
  gaps. A worker that stops between a commit and its publish call loses the event.

## 7. Not modelled, and the plan

Left out for good: formatting, prompts, the filtering of diffs and the parsing of the
reviewer's output; signatures and keys, which are stateless comparisons; the CLI, the MCP
server's translation, the frontend, shell scripts, migrations, the content of documents
and notes; and the external services (GitHub, git, the review subprocesses), which appear
by how the code uses them.

Not yet modelled: the opencode stage (off by default; the same loop on rows of its own),
the GitHub App token with its expiry, and `retire` and `reorder`, which change columns
that nothing modelled reads.

Next, in this order:

1. `ReviewLoop` behind `ReviewQueue`: a composition in which an admitted push is a
   `Deliver`, so that cancellation by a newer push meets the turn table.
2. An abstract roll-up of one step, refined by the six steps of requests that run alone.
