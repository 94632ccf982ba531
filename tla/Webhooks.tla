------------------------------ MODULE Webhooks ------------------------------
(***************************************************************************)
(* GitHub webhooks from their arrival to the board and the agents' inboxes *)
(* (src/src/gateway/webhook.py, webhook_dispatcher.py,                     *)
(* webhook_consumers.py). Every server process has a WebhookDispatcher of  *)
(* its own, which remembers delivery ids; every event it accepts is        *)
(* handled by a task of its own (AgentNotifierConsumer.handle) with its    *)
(* own database session, so handlers of one PR interleave. The board's and *)
(* the agents' requests are here as far as they touch what a handler reads *)
(* or writes. GitHub sends a webhook when it likes and as often as it      *)
(* likes: the first arrival may be late, after newer ones.                 *)
(*                                                                         *)
(* A signed webhook is given by its event and action; an unsigned one      *)
(* changes nothing (verify_signature) and is not modelled. Deliveries are  *)
(* numbered as GitHub created them; a head SHA is the number of the        *)
(* delivery that reported it; 0 is no SHA.                                 *)
(***************************************************************************)
EXTENDS Integers, Sequences, SequencesExt, FiniteSets, FiniteSetsExt

CONSTANTS
    Tasks, PullRequests, Projects, Worktrees, Workers,
    MaxDeliveries,  \* bound: webhooks GitHub creates
    MaxHandlers,    \* bound: handlers started
    MaxMoves,       \* bound: requests of the board, the agents and the worktrees
    MaxSeen,        \* _max_seen
    Actions,        \* the events and actions GitHub sends
    ProjectOf,      \* the project of a task or worktree
    Tracks,         \* per PR, the projects whose repo_url is its repository
    OwnerOf,        \* the worktree_id of a task
    BranchOf,       \* the PR whose head branch a worktree has
    Mains,          \* worktrees with role 'main'
    EnvInbox,       \* settings.main_agent_inbox_path
    Nobody

Deliveries == 1..MaxDeliveries
WebhookEvents == [action : Actions, pr : PullRequests]
Unread == -1
NothingRead == [t \in Tasks |-> Unread]
Handlers == 1..MaxHandlers

\* parse_webhook_event: the events that are handled; every other is ignored.
Type ==
    [opened |-> "PR_OPENED", synchronize |-> "PR_SYNCHRONIZE",
     closed |-> "PR_CLOSED", closed_merged |-> "PR_MERGED",
     review |-> "REVIEW_SUBMITTED", review_comment_created |-> "REVIEW_COMMENT",
     comment_created |-> "ISSUE_COMMENT",
     check_failed |-> "CHECK_RUN_COMPLETED", check_pending |-> "CHECK_RUN_COMPLETED"]

MAIN_AGENT_EVENTS ==
    {"PR_MERGED", "PR_CLOSED", "REVIEW_SUBMITTED", "REVIEW_COMMENT", "CHECK_RUN_COMPLETED"}
HeadTypes == {"PR_OPENED", "PR_SYNCHRONIZE"}

\* _build_message: no line for a head event or a check that has not failed.
Message(a) == Type[a] \notin HeadTypes /\ a # "check_pending"

ASSUME WebhookAssumption ==
    /\ MaxDeliveries \in Nat /\ MaxHandlers \in Nat /\ MaxMoves \in Nat /\ MaxSeen \in Nat \ {0}
    /\ ProjectOf \in [Tasks \cup Worktrees -> Projects]
    /\ Tracks \in [PullRequests -> SUBSET Projects]
    /\ OwnerOf \in [Tasks -> Worktrees \cup {Nobody}]
    /\ BranchOf \in [Worktrees -> PullRequests \cup {Nobody}]
    /\ Mains \subseteq Worktrees
    /\ IsFiniteSet(Tasks)
    /\ Nobody \notin Tasks \cup Worktrees \cup PullRequests \cup Workers \cup WebhookEvents
    /\ EnvInbox \notin Worktrees \cup {Nobody}

VARIABLES
    url,        \* Task.pr_url
    status,     \* Task.status: "live" is in_progress or review
    merged,     \* Task.pr_merged
    head,       \* Task.pr_head_sha
    order,      \* the tasks by updated_at, the latest first
    envSet,     \* whether the deployment has main_agent_inbox_path
    rows,       \* the worktree rows
    online,     \* those with status 'online'
    sent,       \* what each delivery that has arrived reports
    seen,       \* _seen_delivery_ids of each process
    forgotten,  \* history: the ids each process has evicted
    late,       \* history: head deliveries that met another of their PR, or came after a newer one
    step,       \* where a handler is
    worker, job,    \* the process and the delivery of a handler
    to,         \* its recipient
    found,      \* the task it is about to write
    known,      \* the head SHA of each task as its session first read it
    todo,       \* _update_pr_head_sha: the projects left
    moves,      \* how many of those requests there were
    wrote       \* the inbox to which a handler appended its line

task == <<url, status, merged, head, order>>
worktree == <<envSet, rows, online, moves>>
dispatcher == <<sent, seen, forgotten, late, worker, job>>
local == <<to, found, known, todo>>
handler == <<dispatcher, local, step, wrote>>
hookVars == <<task, worktree, handler>>

Steps == {"none", "owner", "fallback", "merge", "mark", "sha", "set", "write",
          "timed_out", "done", "failed"}

HookTypeOK ==
    /\ url \in [Tasks -> PullRequests \cup {Nobody}]
    /\ status \in [Tasks -> {"live", "done", "deleted"}]
    /\ merged \in [Tasks -> BOOLEAN]
    /\ head \in [Tasks -> 0..MaxDeliveries]
    /\ order \in Seq(Tasks) /\ ToSet(order) = Tasks
    /\ envSet \in BOOLEAN /\ online \subseteq rows /\ rows \subseteq Worktrees
    /\ moves \in 0..MaxMoves
    /\ sent \in [Deliveries -> WebhookEvents \cup {Nobody}]
    /\ seen \in [Workers -> SUBSET Deliveries]
    /\ forgotten \in [Workers -> SUBSET Deliveries]
    /\ late \subseteq Deliveries
    /\ step \in [Handlers -> Steps]
    /\ worker \in [Handlers -> Workers \cup {Nobody}]
    /\ job \in [Handlers -> Deliveries \cup {0}]
    /\ to \in [Handlers -> Worktrees \cup {EnvInbox, Nobody}]
    /\ found \in [Handlers -> Tasks \cup {Nobody}]
    /\ known \in [Handlers -> [Tasks -> Unread..MaxDeliveries]]
    /\ todo \in [Handlers -> SUBSET Projects]
    /\ wrote \in [Handlers -> Worktrees \cup {EnvInbox, Nobody}]

HookInit ==
    /\ url \in [Tasks -> PullRequests \cup {Nobody}]
    /\ status = [t \in Tasks |-> "live"]
    /\ merged = [t \in Tasks |-> FALSE]
    /\ head = [t \in Tasks |-> 0]
    /\ order = SetToSeq(Tasks)
    /\ envSet \in BOOLEAN /\ rows = Worktrees /\ online = Worktrees /\ moves = 0
    /\ sent = [d \in Deliveries |-> Nobody]
    /\ seen = [k \in Workers |-> {}] /\ forgotten = [k \in Workers |-> {}]
    /\ late = {}
    /\ step = [h \in Handlers |-> "none"]
    /\ worker = [h \in Handlers |-> Nobody] /\ job = [h \in Handlers |-> 0]
    /\ to = [h \in Handlers |-> Nobody] /\ found = [h \in Handlers |-> Nobody]
    /\ known = [h \in Handlers |-> NothingRead] /\ todo = [h \in Handlers |-> {}]
    /\ wrote = [h \in Handlers |-> Nobody]

-----------------------------------------------------------------------------
(* Queries *)

\* find_task_by_pr_url and, within a project, find_task_by_pr_url_for_project:
\* the live task of the PR that was updated last.
Carriers(p, projects) ==
    {t \in Tasks : url[t] = p /\ status[t] = "live" /\ ProjectOf[t] \in projects}
Latest(ts) ==
    IF ts = {} THEN Nobody ELSE order[Min({i \in DOMAIN order : order[i] \in ts})]
FindTask(p) == Latest(Carriers(p, Projects))

\* get_worktree_by_branch, of which two raise MultipleResultsFound
ByBranch(p, project) ==
    {w \in online : ProjectOf[w] = project /\ BranchOf[w] = p}

\* get_main_agent_worktree with the fallback to the configured path
MainInbox(project) ==
    LET mains == {w \in rows \cap Mains : ProjectOf[w] = project}
    IN  IF mains # {} THEN mains ELSE IF envSet THEN {EnvInbox} ELSE {Nobody}

\* The task is the latest now; those that were later each move back by one.
Place(t) == CHOOSE i \in DOMAIN order : order[i] = t
Touched(t) ==
    [i \in DOMAIN order |-> IF i = 1 THEN t ELSE IF i <= Place(t) THEN order[i - 1] ELSE order[i]]

\* A row the session holds already keeps the attributes it was read with.
Read(h, t) == [known EXCEPT ![h][t] = IF @ = Unread THEN head[t] ELSE @]

-----------------------------------------------------------------------------
(* WebhookDispatcher.dispatch *)

Pr(h) == sent[job[h]].pr
Action(h) == sent[job[h]].action
TypeOf(h) == Type[Action(h)]
Busy(h) == step[h] \notin {"none", "done", "failed"}

\* Mutant: a delivery id that is known does not stop the event.
FreshAlways(k, d) == d \in Deliveries

Fresh(k, d) == d \notin seen[k]

\* The set has no order, so what is evicted is any half, the new id included.
Remembered(k, d) ==
    LET ids == seen[k] \cup {d}
    IN  IF Cardinality(ids) <= MaxSeen THEN {ids}
        ELSE {s \in SUBSET ids : Cardinality(s) = Cardinality(ids) - MaxSeen \div 2}

\* The handlers of head events of PR p
HeadHandlers(p) == {g \in Handlers : worker[g] # Nobody /\ Pr(g) = p /\ TypeOf(g) \in HeadTypes}

\* What delivery d, a head event of PR p that process k accepts, disorders: itself and those
\* that are being handled, or itself where a newer one has come before it and k does not
\* remember it.
Disordered(k, d, p) ==
    LET others == HeadHandlers(p)
        busy == {g \in others : Busy(g)}
        remembered == \E g \in others : job[g] = d /\ worker[g] = k /\ d \notin forgotten[k]
    IN  IF busy # {} THEN {d} \cup {job[g] : g \in busy}
        ELSE IF ~remembered /\ (\E g \in others : job[g] > d) THEN {d} ELSE {}

\* The task that runs handle for delivery d is created.
Dispatch(h, k, d, p, a) ==
    /\ step[h] = "none" /\ \A g \in Handlers : g < h => step[g] # "none"
    /\ Fresh(k, d)
    /\ \E ids \in Remembered(k, d) :
        /\ seen' = [seen EXCEPT ![k] = ids]
        /\ forgotten' = [forgotten EXCEPT ![k] = (@ \cup (seen[k] \ ids) \cup ({d} \ ids)) \ ids]
    /\ late' = IF Type[a] \in HeadTypes THEN late \cup Disordered(k, d, p) ELSE late
    /\ step' = [step EXCEPT ![h] = "owner"]
    /\ worker' = [worker EXCEPT ![h] = k]
    /\ job' = [job EXCEPT ![h] = d]
    /\ UNCHANGED <<task, worktree, local, wrote>>

\* receive_webhook: a delivery arrives for the first time, at once or after newer ones.
Receive(h, k, d, p, a) ==
    /\ sent[d] = Nobody
    /\ sent' = [sent EXCEPT ![d] = [action |-> a, pr |-> p]]
    /\ Dispatch(h, k, d, p, a)

\* GitHub sends a delivery again: a retry, or the Redeliver button.
Redeliver(h, k, d) ==
    /\ sent[d] # Nobody
    /\ UNCHANGED sent
    /\ Dispatch(h, k, d, sent[d].pr, sent[d].action)

-----------------------------------------------------------------------------
(* AgentNotifierConsumer.handle *)

Go(h, s) == step' = [step EXCEPT ![h] = s]

\* The locals and the session are gone.
EndSession(h) ==
    /\ to' = [to EXCEPT ![h] = Nobody] /\ found' = [found EXCEPT ![h] = Nobody]
    /\ known' = [known EXCEPT ![h] = NothingRead] /\ todo' = [todo EXCEPT ![h] = {}]

\* What follows the resolution
Resolved(h) ==
    CASE TypeOf(h) = "PR_MERGED" -> "merge"
      [] TypeOf(h) \in HeadTypes -> IF Tracks[Pr(h)] = {} THEN "done" ELSE "sha"
      [] OTHER -> "write"

\* Mutant: a task whose worktree row is gone ends the search.
ResolveOwnerOnly(h) ==
    LET t == FindTask(Pr(h))
        w == IF t = Nobody THEN Nobody ELSE OwnerOf[t]
    IN  /\ step[h] = "owner"
        /\ known' = IF t = Nobody \/ TypeOf(h) \notin HeadTypes THEN known ELSE Read(h, t)
        /\ IF w # Nobody
           THEN to' = [to EXCEPT ![h] = IF w \in rows THEN w ELSE Nobody] /\ Go(h, Resolved(h))
           ELSE UNCHANGED to /\ Go(h, "fallback")
        /\ todo' = [todo EXCEPT ![h] = IF TypeOf(h) \in HeadTypes THEN Tracks[Pr(h)] ELSE {}]
        /\ UNCHANGED <<task, worktree, dispatcher, found, wrote>>

\* _resolve_agent by pr_url; the row is read whatever its status.
ResolveOwner(h) ==
    LET t == FindTask(Pr(h))
        w == IF t = Nobody THEN Nobody ELSE OwnerOf[t]
    IN  /\ step[h] = "owner"
        /\ known' = IF t = Nobody \/ TypeOf(h) \notin HeadTypes THEN known ELSE Read(h, t)
        /\ IF w \in rows
           THEN to' = [to EXCEPT ![h] = w] /\ Go(h, Resolved(h))
           ELSE UNCHANGED to /\ Go(h, "fallback")
        /\ todo' = [todo EXCEPT ![h] = IF TypeOf(h) \in HeadTypes THEN Tracks[Pr(h)] ELSE {}]
        /\ UNCHANGED <<task, worktree, dispatcher, found, wrote>>

\* The main agent hears of the event when its type allows it.
Fallback(h, project) == IF TypeOf(h) \in MAIN_AGENT_EVENTS THEN MainInbox(project) ELSE {Nobody}

\* Mutant: the configured inbox is used for a repository that is no project.
ResolveUntrackedToEnv(h) ==
    /\ step[h] = "fallback" /\ Tracks[Pr(h)] = {}
    /\ to' = [to EXCEPT ![h] = IF envSet THEN EnvInbox ELSE Nobody]
    /\ Go(h, Resolved(h))
    /\ UNCHANGED <<task, worktree, dispatcher, found, known, todo, wrote>>

\* The repository is no project: nobody hears of it.
ResolveUntracked(h) ==
    /\ step[h] = "fallback" /\ Tracks[Pr(h)] = {}
    /\ Go(h, Resolved(h))
    /\ UNCHANGED <<task, worktree, dispatcher, local, wrote>>

\* By branch, which a comment does not have, then the main agent. Of several projects
\* that track the repository, find_project_by_repo returns any. Two worktrees of the
\* branch raise, and the event is lost with all that was still to do for it.
ResolveFallback(h) ==
    /\ step[h] = "fallback"
    /\ \E project \in Tracks[Pr(h)] :
        LET ws == IF TypeOf(h) = "ISSUE_COMMENT" THEN {} ELSE ByBranch(Pr(h), project)
        IN  IF Cardinality(ws) > 1 THEN Go(h, "failed") /\ EndSession(h)
            ELSE /\ Go(h, Resolved(h))
                 /\ \E w \in IF ws # {} THEN ws ELSE Fallback(h, project) : to' = [to EXCEPT ![h] = w]
                 /\ UNCHANGED <<found, known, todo>>
    /\ UNCHANGED <<task, worktree, dispatcher, wrote>>

\* _mark_pr_merged looks the task up again; the flag is not scoped to a project.
FindMerged(h) ==
    /\ step[h] = "merge"
    /\ found' = [found EXCEPT ![h] = FindTask(Pr(h))]
    /\ Go(h, IF FindTask(Pr(h)) = Nobody THEN "write" ELSE "mark")
    /\ UNCHANGED <<task, worktree, dispatcher, to, known, todo, wrote>>

\* update_task writes the row by its id, whatever has become of it; if it has been
\* deleted the commit raises. A flag the session has read as set is not written.
MarkMerged(h) ==
    LET t == found[h] IN
    /\ step[h] = "mark"
    /\ \/ status[t] = "deleted" /\ Go(h, "failed") /\ EndSession(h) /\ UNCHANGED <<merged, order>>
       \/ merged[t] /\ Go(h, "write") /\ UNCHANGED <<merged, order, local>>
       \/ /\ status[t] # "deleted" /\ Go(h, "write")
          /\ merged' = [merged EXCEPT ![t] = TRUE]
          /\ order' = Touched(t)
          /\ UNCHANGED local
    /\ UNCHANGED <<url, status, head, worktree, dispatcher, wrote>>

\* _update_pr_head_sha: the next project. A head event leaves no line, so the last
\* project ends the handler.
NextProject(h, left) ==
    IF left = {} THEN Go(h, "done") /\ EndSession(h)
    ELSE Go(h, "sha") /\ todo' = [todo EXCEPT ![h] = left] /\ UNCHANGED <<to, found, known>>

FindForSha(h) ==
    /\ step[h] = "sha"
    /\ \E project \in todo[h] :
        LET t == Latest(Carriers(Pr(h), {project}))
            left == todo[h] \ {project}
        IN  IF t = Nobody THEN NextProject(h, left)
            ELSE /\ Go(h, "set")
                 /\ todo' = [todo EXCEPT ![h] = left]
                 /\ found' = [found EXCEPT ![h] = t]
                 /\ known' = Read(h, t)
                 /\ UNCHANGED to
    /\ UNCHANGED <<task, worktree, dispatcher, wrote>>

\* An attribute set to the value the session read is not written.
SetSha(h) ==
    LET t == found[h]
        same == known[h][t] = job[h]
    IN
    /\ step[h] = "set"
    /\ IF status[t] = "deleted" /\ ~same
       THEN Go(h, "failed") /\ EndSession(h) /\ UNCHANGED <<head, order>>
       ELSE /\ head' = IF same THEN head ELSE [head EXCEPT ![t] = job[h]]
            /\ order' = IF same THEN order ELSE Touched(t)
            /\ NextProject(h, todo[h])
    /\ UNCHANGED <<url, status, merged, worktree, dispatcher, wrote>>

\* The inbox file is created where it is missing, also under a worktree that is gone.
WriteLine(h) ==
    /\ step[h] = "write"
    /\ Go(h, "done")
    /\ wrote' = [wrote EXCEPT ![h] = IF Message(Action(h)) THEN to[h] ELSE Nobody]
    /\ EndSession(h)
    /\ UNCHANGED <<task, worktree, dispatcher>>

\* emit_codex_review_timed_out, for the review of the push that delivery d reported:
\* it is told to the main agent of a project, or to nobody.
ReviewTimesOut(h, d) ==
    /\ step[h] = "none" /\ \A g \in Handlers : g < h => step[g] # "none"
    /\ sent[d] # Nobody /\ Type[sent[d].action] \in HeadTypes
    /\ Go(h, "timed_out")
    /\ job' = [job EXCEPT ![h] = d]
    /\ UNCHANGED <<task, worktree, local, sent, seen, forgotten, late, worker, wrote>>

TellMainAgent(h) ==
    /\ step[h] = "timed_out"
    /\ Go(h, "done")
    /\ IF Tracks[Pr(h)] = {} THEN UNCHANGED wrote
       ELSE \E j \in Tracks[Pr(h)] : \E w \in MainInbox(j) : wrote' = [wrote EXCEPT ![h] = w]
    /\ UNCHANGED <<task, worktree, dispatcher, local>>

HandleEvent(h) ==
    \/ ResolveOwner(h) \/ ResolveUntracked(h) \/ ResolveFallback(h)
    \/ FindMerged(h) \/ MarkMerged(h)
    \/ FindForSha(h) \/ SetSha(h)
    \/ WriteLine(h) \/ TellMainAgent(h)

-----------------------------------------------------------------------------
(* The board and the agents *)

Move == moves < MaxMoves /\ moves' = moves + 1

\* update_task_status of an agent, with a pr_url: the SHA stays.
AgentSetsUrl(t, p) ==
    /\ Move /\ status[t] = "live" /\ url[t] # p
    /\ url' = [url EXCEPT ![t] = p]
    /\ order' = Touched(t)
    /\ UNCHANGED <<status, merged, head, envSet, rows, online, handler>>

\* PATCH of the board: another pr_url clears the SHA.
BoardSetsUrl(t, p) ==
    /\ Move /\ status[t] = "live" /\ url[t] # p
    /\ url' = [url EXCEPT ![t] = p]
    /\ head' = [head EXCEPT ![t] = 0]
    /\ order' = Touched(t)
    /\ UNCHANGED <<status, merged, envSet, rows, online, handler>>

\* The user drags the card to done, or deletes it.
Finish(t, s) ==
    /\ Move /\ status[t] = "live"
    /\ status' = [status EXCEPT ![t] = s]
    /\ order' = IF s = "done" THEN Touched(t) ELSE order
    /\ UNCHANGED <<url, merged, head, envSet, rows, online, handler>>

\* Unregistration and removal of worktrees
GoesOffline(w) ==
    /\ Move /\ w \in online
    /\ online' = online \ {w}
    /\ UNCHANGED <<task, envSet, rows, handler>>

Removed(w) ==
    /\ Move /\ w \in rows
    /\ rows' = rows \ {w} /\ online' = online \ {w}
    /\ UNCHANGED <<task, envSet, handler>>

-----------------------------------------------------------------------------
HookNext ==
    \/ \E h \in Handlers, k \in Workers, d \in Deliveries :
        \/ \E p \in PullRequests, a \in Actions : Receive(h, k, d, p, a)
        \/ Redeliver(h, k, d)
    \/ \E h \in Handlers : HandleEvent(h) \/ (\E d \in Deliveries : ReviewTimesOut(h, d))
    \/ \E t \in Tasks :
        \/ \E p \in PullRequests : AgentSetsUrl(t, p) \/ BoardSetsUrl(t, p)
        \/ \E s \in {"done", "deleted"} : Finish(t, s)
    \/ \E w \in Worktrees : GoesOffline(w) \/ Removed(w)

HookSpec == HookInit /\ [][HookNext]_hookVars

-----------------------------------------------------------------------------
(* Properties *)

\* The head SHA of a task goes back to an older commit of its PR only by a delivery that was
\* disordered: it was handled while another head event of the PR was, or it came, for the
\* first time or after its process had forgotten it, when a newer one had been accepted
\* before. A delivery that comes again to a process that remembers it rolls nothing back,
\* whatever it overtakes or meets.
HeadNeverRollsBack ==
    [][\A t \in Tasks :
         head[t] # 0 /\ head'[t] # 0 /\ sent[head[t]].pr = sent[head'[t]].pr /\ head'[t] < head[t] =>
            head'[t] \in late]_hookVars

\* An event that an agent must react to, of a repository that is a project
MustBeHeard(h) ==
    /\ Busy(h) /\ step[h] # "timed_out"
    /\ TypeOf(h) \in MAIN_AGENT_EVENTS /\ Message(Action(h)) /\ Tracks[Pr(h)] # {}

\* Every project that tracks the repository has a main agent, or the deployment an inbox.
MainsStand(h) == \A j \in Tracks[Pr(h)] : envSet \/ \E w \in rows \cap Mains : ProjectOf[w] = j

\* The two ways in which a handler raises
DeletedUnderIt(h) == step[h] = "mark" /\ status[found[h]] = "deleted"
TwoOfBranch(h) == step[h] = "fallback" /\ \E j \in Tracks[Pr(h)] : Cardinality(ByBranch(Pr(h), j)) > 1

\* "they reach the main agent instead of being silently dropped": the handler of an event an
\* agent must react to, of a repository only projects with a main agent track, ends with a
\* line in some inbox, whatever becomes of tasks and worktrees while it runs, unless it
\* raises: the task it marks as merged was deleted after it was found, or two worktrees of
\* the branch are online.
NoSilentDrop ==
    [][\A h \in Handlers :
         MustBeHeard(h) /\ MainsStand(h) /\ ~Busy(h)' /\ wrote'[h] = Nobody =>
            step'[h] = "failed" /\ (DeletedUnderIt(h) \/ TwoOfBranch(h))]_hookVars

\* A valid webhook of a repository that no project tracks is addressed to nobody but the
\* owner of a task that carries that very PR, and what is written goes to the addressee.
ForeignUnheard ==
    [][\A h \in Handlers : Busy(h) /\ Tracks[Pr(h)] = {} =>
         /\ to'[h] \notin {to[h], Nobody} => \E t \in Carriers(Pr(h), Projects) : to'[h] = OwnerOf[t]
         /\ wrote'[h] \in {wrote[h], to[h]}]_hookVars

\* "the stored head SHA belongs to the old PR": a task's head SHA is one of the PR it carries.
HeadMatchesPr ==
    \A t \in Tasks : head[t] # 0 /\ url[t] # Nobody => sent[head[t]].pr = url[t]
=============================================================================
