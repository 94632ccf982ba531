------------------------------ MODULE Entities ------------------------------
(***************************************************************************)
(* The numbered entities of one project: epics, features and tasks made by  *)
(* the board's routes, by a bulk import and by the find-or-create of a      *)
(* worktree's close-off task, and the document a review attaches.           *)
(*                                                                         *)
(* A number comes from a counter on the project row.  The counter is read   *)
(* into the session, incremented in Python and flushed; the UPDATE keeps    *)
(* the row locked until the commit that also inserts the entity, so the     *)
(* write of the counter and the insert are one step here and the read is    *)
(* an earlier one.  Requests interleave between the two.                    *)
(***************************************************************************)
EXTENDS Naturals, Sequences, FiniteSets

CONSTANTS Reqs,       \* requests in flight
          Worktrees,  \* worktree rows a close-off task may be paired with
          Plans,      \* import plans, as the kinds of their rows depth first
          MaxRows,    \* bound: rows ever inserted
          MaxCalls,   \* bound: requests, deletions and crashes
          None

Kinds == {"epic", "feature", "task"}

ASSUME EntityAssumption ==
    /\ \A plan \in Plans : plan \in Seq(Kinds) /\ (plan = << >> \/ Head(plan) = "epic")
    /\ MaxRows \in Nat
    /\ None \notin Nat \cup Worktrees

VARIABLES rows,        \* the entity rows
          counter,     \* Project.next_epic_num, next_feature_num, next_task_num
          worktrees,   \* worktree rows that exist
          docs,        \* documents attached for a feature's pull request
          req,         \* what each request is doing
          calls,       \* bound: calls so far
          made,        \* rows ever inserted (the id of the latest)
          used,        \* history: the numbers ever given, by kind
          answered,    \* history: the task last returned for each worktree
          overlapped,  \* history: what two requests were ever working on at once
          overran,     \* history: kinds an import gave more than one number of
          troubled     \* history: worktrees whose close-off overlapped or crashed

vars == <<rows, counter, worktrees, docs, req, calls, made, used, answered,
          overlapped, overran, troubled>>

history == <<answered, overlapped, overran, troubled>>

Ids == 1..MaxRows

Idle == [op |-> "idle"]

(* The row with an id, the rows of a kind, and everything below a row. *)
Row(id) == CHOOSE row \in rows : row.id = id
Live == {row.id : row \in rows}
Above(kind) == IF kind = "task" THEN "feature" ELSE "epic"
Under(id) == {row \in rows : \/ row.id = id
                             \/ row.parent = id
                             \/ \E mid \in rows : mid.parent = id /\ row.parent = mid.id}

HasParent(kind, parent) == kind = "epic" \/ parent \in Live

Init ==
    /\ rows = {}
    /\ counter = [kind \in Kinds |-> 1]
    /\ worktrees = Worktrees
    /\ docs = [id \in Ids |-> 0]
    /\ req = [r \in Reqs |-> Idle]
    /\ calls = 0
    /\ made = 0
    /\ used = {}
    /\ answered = [w \in Worktrees |-> None]
    /\ overlapped = {}
    /\ overran = {}
    /\ troubled = {}

-----------------------------------------------------------------------------
(* Inserting a row with a number.  `advanced' is the set of kinds whose      *)
(* counter the same commit writes, from the value the request read.         *)

Numbered(kind, num) == <<kind, num>>

\* Mutant: the counter is not written back.
NotAdvanced(read, advanced) == counter

Advanced(read, advanced) ==
    [kind \in Kinds |-> IF kind \in advanced THEN read[kind] + 1 ELSE counter[kind]]

Insert(kind, parent, num, title, for, read, advanced) ==
    /\ made < MaxRows
    /\ made' = made + 1
    /\ rows' = rows \cup {[id |-> made + 1, kind |-> kind, num |-> num, parent |-> parent,
                           title |-> title, for |-> for, close |-> None]}
    /\ used' = used \cup {Numbered(kind, num)}
    /\ counter' = Advanced(read, advanced)

NoInsert == UNCHANGED <<rows, counter, made, used>>

(* The counters a request has read and may yet write. *)
Pending(q) ==
    CASE req[q].op = "create" -> {req[q].kind}
      [] req[q].op = "import" -> IF req[q].first THEN Kinds ELSE {}
      [] req[q].op \in {"epic", "newEpic"} -> Kinds
      [] req[q].op \in {"feature", "newFeature"} -> {"feature", "task"}
      [] req[q].op = "task" -> {"task"}
      [] OTHER -> {}

(* What a request that reads the counters `kinds' shares with the others. *)
Shares(kinds) == UNION {kinds \cap Pending(q) : q \in Reqs}

(* A request, a deletion or a crash counts against the bound. *)
Call == calls < MaxCalls /\ calls' = calls + 1

Finish(r) == req' = [req EXCEPT ![r] = Idle]

-----------------------------------------------------------------------------
(* POST epics, features, tasks *)

Create(r, kind, parent) ==
    /\ req[r] = Idle
    /\ Call
    /\ IF kind = "epic" THEN parent = None
       ELSE parent \in Live /\ Row(parent).kind = Above(kind)
    /\ req' = [req EXCEPT ![r] = [op |-> "create", kind |-> kind, parent |-> parent,
                                  read |-> counter]]
    /\ overlapped' = overlapped \cup Shares({kind})
    /\ NoInsert
    /\ UNCHANGED <<worktrees, docs, answered, overran, troubled>>

(* The commit; a parent deleted meanwhile fails the foreign key. *)
CreateEnds(r) ==
    /\ req[r].op = "create"
    /\ LET q == req[r] IN
       IF HasParent(q.kind, q.parent)
       THEN Insert(q.kind, q.parent, q.read[q.kind], "plain", None, q.read, {q.kind})
       ELSE NoInsert
    /\ Finish(r)
    /\ UNCHANGED <<worktrees, docs, calls, history>>

(* DELETE of a row takes everything below it; the foreign keys of documents *)
(* are not enforced, so those stay.                                         *)
Delete(id) ==
    /\ Call
    /\ id \in Live
    /\ rows' = rows \ Under(id)
    /\ UNCHANGED <<counter, worktrees, docs, req, made, used, history>>

-----------------------------------------------------------------------------
(* POST import: the three counters are read and advanced by one each, which *)
(* the first row's commit makes durable; the numbers of the rows count up   *)
(* from the values read.                                                    *)

Times(plan, kind) == Cardinality({i \in DOMAIN plan : plan[i] = kind})

Import(r, plan) ==
    /\ req[r] = Idle
    /\ Call
    /\ plan # << >>
    /\ req' = [req EXCEPT ![r] = [op |-> "import", todo |-> plan, read |-> counter,
                                  num |-> counter, first |-> TRUE,
                                  at |-> [kind \in Kinds |-> None]]]
    /\ overlapped' = overlapped \cup Shares(Kinds)
    /\ overran' = overran \cup {kind \in Kinds : Times(plan, kind) > 1}
    /\ NoInsert
    /\ UNCHANGED <<worktrees, docs, answered, troubled>>

ImportRow(r) ==
    /\ req[r].op = "import"
    /\ LET q == req[r]
           kind == Head(q.todo)
           parent == IF kind = "epic" THEN None ELSE q.at[Above(kind)]
       IN IF HasParent(kind, parent)
          THEN /\ Insert(kind, parent, q.num[kind], "plain", None, q.read,
                         IF q.first THEN Kinds ELSE {})
               /\ req' = [req EXCEPT ![r] =
                            IF Tail(q.todo) = << >> THEN Idle
                            ELSE [q EXCEPT !.todo = Tail(@), !.first = FALSE,
                                           !.num[kind] = @ + 1,
                                           !.at[kind] = made + 1]]
          ELSE NoInsert /\ Finish(r)
    /\ UNCHANGED <<worktrees, docs, calls, history>>

-----------------------------------------------------------------------------
(* POST agents/close-off-task: find or create, one commit per row.          *)

\* Mutant: the lookup never matches.
NeverFound(w) == {}

Found(w) == {row \in rows : row.close = w}

Titled(kind, parent) == {row \in rows : row.kind = kind /\ row.title = "closeoff"
                                        /\ row.parent = parent}

(* Requests still looking for, or making, the epic and the feature. *)
Housing == {q \in Reqs : req[q].op \in {"epic", "newEpic", "feature", "newFeature"}}
Filing(w) == {q \in Reqs : req[q].op \in {"epic", "newEpic", "feature", "newFeature",
                                          "task", "stamp"} /\ req[q].w = w}

(* The project was loaded when the key was checked, so all three counters   *)
(* keep the values of that moment (expire_on_commit is off).                *)
CloseOff(r, w) ==
    /\ req[r] = Idle
    /\ Call
    /\ w \in worktrees
    /\ IF Found(w) # {}
       THEN /\ answered' = [answered EXCEPT ![w] = (CHOOSE row \in Found(w) : TRUE).id]
            /\ UNCHANGED <<req, overlapped, troubled>>
       ELSE /\ req' = [req EXCEPT ![r] = [op |-> "epic", w |-> w, read |-> counter, at |-> None]]
            /\ overlapped' = overlapped \cup Shares(Kinds)
                             \cup (IF Housing = {} THEN {} ELSE {"home"})
            /\ troubled' = IF Filing(w) = {} THEN troubled ELSE troubled \cup {w}
            /\ UNCHANGED answered
    /\ NoInsert
    /\ UNCHANGED <<worktrees, docs, overran>>

(* find_epic_by_title and find_feature_by_title take any one match. *)
FindHome(r, op, kind, found, missing) ==
    /\ req[r].op = op
    /\ LET homes == Titled(kind, req[r].at) IN
       \/ \E home \in homes :
            req' = [req EXCEPT ![r].op = found, ![r].at = home.id]
       \/ /\ homes = {}
          /\ req' = [req EXCEPT ![r].op = missing]
    /\ NoInsert
    /\ UNCHANGED <<worktrees, docs, calls, history>>

FindEpic(r) == FindHome(r, "epic", "epic", "feature", "newEpic")
FindFeature(r) == FindHome(r, "feature", "feature", "task", "newFeature")

(* A request that fails leaves what it committed so far. *)
Fails(r) == NoInsert /\ Finish(r)

MakeRow(r, op, kind, title, next) ==
    /\ req[r].op = op
    /\ LET q == req[r] IN
       \/ /\ HasParent(kind, q.at)
          /\ Insert(kind, q.at, q.read[kind], title, IF kind = "task" THEN q.w ELSE None,
                    q.read, {kind})
          /\ req' = [req EXCEPT ![r].op = next, ![r].at = made + 1]
       \/ ~HasParent(kind, q.at) /\ Fails(r)
    /\ UNCHANGED <<worktrees, docs, calls, history>>

MakeEpic(r) == MakeRow(r, "newEpic", "epic", "closeoff", "feature")
MakeFeature(r) == MakeRow(r, "newFeature", "feature", "closeoff", "task")
MakeTask(r) == MakeRow(r, "task", "task", "plain", "stamp")

(* update_task pairs the task with the worktree; the unique key, the        *)
(* foreign key or the task's own deletion can refuse it.                    *)
\* Mutant: close_off_worktree_id is not unique.
StampableTwice(id, w) == id \in Live /\ w \in worktrees

Stampable(id, w) == /\ id \in Live
                    /\ w \in worktrees
                    /\ \A row \in rows : row.close # w

Stamp(r) ==
    /\ req[r].op = "stamp"
    /\ LET q == req[r] IN
       \/ /\ Stampable(q.at, q.w)
          /\ rows' = (rows \ {Row(q.at)}) \cup {[Row(q.at) EXCEPT !.close = q.w]}
          /\ answered' = [answered EXCEPT ![q.w] = q.at]
          /\ Finish(r)
          /\ UNCHANGED <<counter, made, used>>
       \/ ~Stampable(q.at, q.w) /\ Fails(r) /\ UNCHANGED answered
    /\ UNCHANGED <<worktrees, docs, calls, overlapped, overran, troubled>>

(* Deleting the worktree row clears the pairing (ON DELETE SET NULL). *)
RemoveWorktree(w) ==
    /\ Call
    /\ w \in worktrees
    /\ worktrees' = worktrees \ {w}
    /\ rows' = {[row EXCEPT !.close = IF @ = w THEN None ELSE @] : row \in rows}
    /\ UNCHANGED <<counter, docs, req, made, used, history>>

-----------------------------------------------------------------------------
(* PATCH of a spec or plan task to review: the document is looked up, then  *)
(* inserted by a commit of its own.  With two of them the lookup raises.    *)

\* Mutant: the lookup misses the document that is there.
NeverAttached(id) == 0

Attached(id) == docs[id]

Attaching(id) == {q \in Reqs : req[q].op = "attach" /\ req[q].feature = id}

Attach(r, id) ==
    /\ req[r] = Idle
    /\ Call
    /\ id \in Live /\ Row(id).kind = "feature"
    /\ Attached(id) = 0
    /\ req' = [req EXCEPT ![r] = [op |-> "attach", feature |-> id]]
    /\ overlapped' = IF Attaching(id) = {} THEN overlapped ELSE overlapped \cup {"doc"}
    /\ NoInsert
    /\ UNCHANGED <<worktrees, docs, answered, overran, troubled>>

AttachEnds(r) ==
    /\ req[r].op = "attach"
    /\ docs' = [docs EXCEPT ![req[r].feature] = @ + 1]
    /\ Finish(r)
    /\ NoInsert
    /\ UNCHANGED <<worktrees, calls, history>>

-----------------------------------------------------------------------------
(* The worker of a request stops: what is not committed is rolled back. *)
Crash(r) ==
    /\ req[r] # Idle
    /\ Call
    /\ Finish(r)
    /\ troubled' = IF \E w \in Worktrees : r \in Filing(w)
                   THEN troubled \cup {req[r].w} ELSE troubled
    /\ NoInsert
    /\ UNCHANGED <<worktrees, docs, answered, overlapped, overran>>

Next ==
    \/ \E r \in Reqs, kind \in Kinds, parent \in Live \cup {None} : Create(r, kind, parent)
    \/ \E r \in Reqs, plan \in Plans : Import(r, plan)
    \/ \E r \in Reqs, w \in Worktrees : CloseOff(r, w)
    \/ \E r \in Reqs, id \in Live : Attach(r, id)
    \/ \E r \in Reqs : \/ CreateEnds(r) \/ ImportRow(r)
                       \/ FindEpic(r) \/ MakeEpic(r) \/ FindFeature(r) \/ MakeFeature(r)
                       \/ MakeTask(r) \/ Stamp(r) \/ AttachEnds(r) \/ Crash(r)
    \/ \E id \in Live : Delete(id)
    \/ \E w \in Worktrees : RemoveWorktree(w)

Spec == Init /\ [][Next]_vars

-----------------------------------------------------------------------------
(* Properties *)

Sane(q) == /\ q.op \in {"idle", "create", "import", "epic", "newEpic", "feature",
                        "newFeature", "task", "stamp", "attach"}
           /\ q.op = "import" => q.todo # << >>

(* Every row has an id below the next one and a number its kind was given,  *)
(* every row but an epic has its parent, and no id is used twice: the       *)
(* foreign keys hold whatever is deleted while a request is half way.       *)
TypeOK ==
    /\ \A row \in rows : /\ row.id \in 1..made
                         /\ Numbered(row.kind, row.num) \in used
                         /\ HasParent(row.kind, row.parent)
                         /\ row.close \in worktrees \cup {None}
    /\ Cardinality(Live) = Cardinality(rows)
    /\ worktrees \subseteq Worktrees
    /\ made \in 0..MaxRows
    /\ \A r \in Reqs : Sane(req[r])

(* docs/design.md: every entity gets a number from a monotonic counter.  A   *)
(* number is given a second time, to a live entity or after the first was   *)
(* deleted, only if two requests had read that kind's counter at once or an *)
(* import gave out more than one number of the kind.                        *)
NumberNeverReused ==
    [][ made' = made + 1 =>
          LET row == CHOOSE new \in rows' : new.id = made' IN
          \/ Numbered(row.kind, row.num) \notin used
          \/ row.kind \in overlapped \cup overran ]_vars

(* The same without the excuse: no two entities of a kind carry one number. *)
NumbersUnique ==
    \A a, b \in rows : a.kind = b.kind /\ a.num = b.num => a = b

(* create_close_off_task is "idempotent on close_off_worktree_id": once a   *)
(* caller was given a task for a worktree, no later answer names another    *)
(* one while that task exists, whatever overlaps or crashes.                *)
SameTaskAnswered ==
    [][ \A w \in Worktrees :
          answered[w] \in Live => answered'[w] = answered[w] ]_vars

(* Close-off tasks share one Operations epic and one feature, unless two    *)
(* requests looked for them at once; and a task made to close off a         *)
(* worktree that still exists is paired with it, or a request is about to,  *)
(* or one crashed half way or overlapped another.                           *)
CloseOffsPaired ==
    /\ \/ "home" \in overlapped
       \/ \A kind \in {"epic", "feature"} :
            Cardinality({row \in rows : row.kind = kind /\ row.title = "closeoff"}) <= 1
    /\ \A row \in rows :
         row.for # None /\ row.for \in worktrees =>
           \/ row.close = row.for
           \/ row.for \in troubled
           \/ \E r \in Reqs : req[r].op = "stamp" /\ req[r].at = row.id

(* A feature has two documents for one pull request only if two requests    *)
(* attached them at once; then every later lookup raises.                   *)
DocumentOnce == \A id \in Ids : docs[id] > 1 => "doc" \in overlapped
=============================================================================
