----------------------------- MODULE BoardProofs -----------------------------
(***************************************************************************)
(* Proofs about the board's data: the entities with their numbers,         *)
(* parents, close-off tasks and documents (Entities), and the dependency   *)
(* graph (Dependencies), for any number of requests and rows.              *)
(***************************************************************************)
EXTENDS Entities, Dependencies, FiniteSetTheorems, TLAPS

-----------------------------------------------------------------------------
(* Entities: the inductive invariant, in the parts that the properties need *)


\* What a request may be doing
Creating == [op : {"create"}, kind : Kinds, parent : Nat \cup {None}, read : [Kinds -> Nat]]
Importing == [op : {"import"}, todo : Seq(Kinds), read : [Kinds -> Nat], num : [Kinds -> Nat],
              first : BOOLEAN, at : [Kinds -> Nat \cup {None}]]
ClosingOff == [op : {"epic", "newEpic", "feature", "newFeature", "task", "stamp"}, w : Worktrees,
               read : [Kinds -> Nat], at : Nat \cup {None}]
Documenting == [op : {"attach"}, feature : Ids]
RequestRecords == {Idle} \cup Creating \cup Importing \cup ClosingOff \cup Documenting

RowRecords ==
    [id : Nat, kind : Kinds, num : Nat, parent : Nat \cup {None}, title : {"plain", "closeoff"},
     for : Worktrees \cup {None}, close : Worktrees \cup {None}]

EntityTypes ==
    /\ rows \subseteq RowRecords /\ made \in Nat /\ made <= MaxRows
    /\ counter \in [Kinds -> Nat] /\ worktrees \subseteq Worktrees
    /\ docs \in [Ids -> Nat] /\ answered \in [Worktrees -> Nat \cup {None}]
    /\ req \in [Reqs -> RequestRecords]

\* Ids are never used twice, and a row is deleted with everything below it.
Tree ==
    /\ \A row \in rows : row.id \in 1..made
    /\ \A a, b \in rows : a.id = b.id => a = b
    /\ \A row \in rows : row.kind = "epic" => row.parent = None
    /\ \A row \in rows : row.kind # "epic" =>
         \E mid \in rows : /\ mid.id = row.parent /\ mid.kind = Above(row.kind)
                           /\ row.title = "closeoff" => mid.title = "closeoff"
    /\ \A row \in rows : row.kind = "task" => row.title = "plain"

\* A row that a request is going to use has been made, and is what it was found or made as,
\* unless it is gone.
IsRow(id, kind) == \A row \in rows : row.id = id => row.kind = kind
IsHome(id, kind) == \A row \in rows : row.id = id => row.kind = kind /\ row.title = "closeoff"
Given(id) == id = None \/ id <= made

Refers(r) ==
    /\ req[r].op = "create" =>
         /\ Given(req[r].parent)
         /\ IF req[r].kind = "epic" THEN req[r].parent = None ELSE IsRow(req[r].parent, Above(req[r].kind))
    /\ req[r].op = "import" =>
         \A kind \in Kinds : Given(req[r].at[kind]) /\ IsRow(req[r].at[kind], kind)
    /\ req[r].op \in {"epic", "newEpic"} => req[r].at = None
    /\ req[r].op \in {"feature", "newFeature"} => Given(req[r].at) /\ IsHome(req[r].at, "epic")
    /\ req[r].op = "task" => Given(req[r].at) /\ IsRow(req[r].at, "feature")
    /\ req[r].op = "stamp" =>
         /\ Given(req[r].at)
         /\ \A row \in rows : row.id = req[r].at => row.for = req[r].w /\ row.close = None

References ==
    /\ \A r \in Reqs : Refers(r)
    /\ \A q, r \in Reqs :
         req[q].op = "stamp" /\ req[r].op = "stamp" /\ req[q].at = req[r].at => q = r

\* As long as no two requests looked for the close-off epic and feature at once
OneHome ==
    "home" \notin overlapped =>
        /\ \A q, r \in Housing : q = r
        /\ \A a, b \in rows : a.title = "closeoff" /\ b.title = "closeoff" /\ a.kind = b.kind => a = b
        /\ \A r \in Reqs :
             /\ req[r].op = "newEpic" => \A row \in rows : row.title # "closeoff"
             /\ req[r].op \in {"feature", "newFeature"} =>
                  \A row \in rows : row.title = "closeoff" /\ row.kind = "epic" => row.id = req[r].at
             /\ req[r].op = "newFeature" =>
                  \A row \in rows : row.title = "closeoff" => row.kind = "epic"

\* A worktree that no overlap or crash has troubled has at most one request that files its task,
\* and that one goes on only as long as there is none.
Paired ==
    /\ \A a, b \in rows : a.close = b.close /\ a.close # None => a = b
    /\ \A row \in rows : row.close \in worktrees \cup {None}
    /\ \A w \in Worktrees \ troubled :
         /\ \A q, r \in Filing(w) : q = r
         /\ Filing(w) # {} => \A row \in rows : row.close # w
    /\ \A row \in rows :
         row.for # None /\ row.for \in worktrees =>
           \/ row.close = row.for
           \/ row.for \in troubled
           \/ \E r \in Reqs : req[r].op = "stamp" /\ req[r].at = row.id
    /\ \A w \in Worktrees :
         /\ Given(answered[w])
         /\ w \in worktrees => \A row \in rows : row.id = answered[w] => row.close = w

Documented ==
    "doc" \notin overlapped =>
        \A id \in Ids : /\ docs[id] <= 1
                        /\ \A q, r \in Attaching(id) : q = r
                        /\ Attaching(id) # {} => docs[id] = 0

\* An import that has committed its first row will still give its number of the kind.
Owes(r, kind) == req[r].op = "import" /\ \E i \in DOMAIN req[r].todo : req[r].todo[i] = kind

\* The numbers of a kind of which no two requests ever read the counter at once and no import
\* made more than one
Counted(kind) ==
    /\ \A given \in used : given[1] = kind => given[2] < counter[kind]
    /\ \A r \in Reqs : kind \in Pending(r) =>
         /\ req[r].read[kind] = counter[kind]
         /\ \A q \in Reqs : kind \in Pending(q) => q = r
    /\ \A r \in Reqs : Owes(r, kind) =>
         /\ \A i, j \in DOMAIN req[r].todo : req[r].todo[i] = kind /\ req[r].todo[j] = kind => i = j
         /\ IF req[r].first THEN req[r].num[kind] = req[r].read[kind]
            ELSE /\ req[r].num[kind] < counter[kind]
                 /\ Numbered(kind, req[r].num[kind]) \notin used
                 /\ \A q \in Reqs : (/\ Owes(q, kind) /\ ~req[q].first
                                     /\ req[q].num[kind] = req[r].num[kind]) => q = r

Numbering == 
    /\ used \subseteq Kinds \X Nat
    /\ \A r \in Reqs : req[r].op = "import" => req[r].todo # << >>
    /\ \A kind \in Kinds : kind \in overlapped \cup overran \/ Counted(kind)

EntityInv ==
    EntityTypes /\ Tree /\ References /\ OneHome /\ Paired /\ Documented /\ Numbering

-----------------------------------------------------------------------------
(* Facts about the state *)

\* A request at a step has the record of that step.
LEMMA Shapes ==
  ASSUME EntityTypes, NEW r \in Reqs
  PROVE  /\ req[r].op = "create" => req[r] \in Creating
         /\ req[r].op = "import" => req[r] \in Importing
         /\ req[r].op \in {"epic", "newEpic", "feature", "newFeature", "task", "stamp"} => req[r] \in ClosingOff
         /\ req[r].op = "attach" => req[r] \in Documenting
         /\ req[r].op \in {"idle", "create", "import", "epic", "newEpic", "feature", "newFeature", "task",
                           "stamp", "attach"}
         /\ req[r].op = "idle" <=> req[r] = Idle
  <1>1. req[r] \in {Idle} \cup Creating \cup Importing \cup ClosingOff \cup Documenting
    BY DEF EntityTypes, RequestRecords
  <1> QED BY <1>1 DEF Idle, Creating, Importing, ClosingOff, Documenting

\* The columns of a row
LEMMA RowFacts ==
  ASSUME EntityTypes
  PROVE  \A row \in rows : /\ row.id \in Nat /\ row.kind \in Kinds /\ row.num \in Nat
                           /\ row.parent \in Nat \cup {None} /\ row.title \in {"plain", "closeoff"}
                           /\ row.for \in Worktrees \cup {None} /\ row.close \in Worktrees \cup {None}
  BY DEF EntityTypes, RowRecords

\* The record of request r becomes x.
LEMMA OneRequest ==
  ASSUME EntityTypes, NEW r \in Reqs, NEW x \in RequestRecords, req' = [req EXCEPT ![r] = x]
  PROVE  /\ req' \in [Reqs -> RequestRecords]
         /\ \A q \in Reqs : req'[q] = IF q = r THEN x ELSE req[q]
  BY DEF EntityTypes

\* The three kinds and what is above them; None is neither a row nor a worktree.
LEMMA KindFacts == /\ Kinds = {"epic", "feature", "task"}
                   /\ \A kind \in Kinds : Above(kind) \in Kinds
                   /\ Above("feature") = "epic" /\ Above("task") = "feature"
                   /\ None \notin Nat /\ None \notin Worktrees
  BY EntityAssumption DEF Kinds, Above

\* The row that Insert adds
Adds(new) ==
    /\ new \in RowRecords /\ new.id = made + 1 /\ new.close = None
    /\ rows' = rows \cup {new} /\ rows' \subseteq RowRecords /\ \A row \in rows : row.id # made + 1
    /\ made < MaxRows /\ made' = made + 1 /\ made' \in Nat /\ made' <= MaxRows
    /\ counter' \in [Kinds -> Nat]

Made(kind, parent, num, title, for) ==
    \E new : /\ Adds(new) /\ new.kind = kind /\ new.num = num /\ new.parent = parent
             /\ new.title = title /\ new.for = for

\* What Insert does, as a fact about one new row
LEMMA InsertAdds ==
  ASSUME EntityTypes, Tree, NEW kind \in Kinds, NEW parent \in Nat \cup {None}, NEW num \in Nat,
         NEW title \in {"plain", "closeoff"}, NEW for \in Worktrees \cup {None}, NEW read \in [Kinds -> Nat],
         NEW advanced, Insert(kind, parent, num, title, for, read, advanced)
  PROVE  Made(kind, parent, num, title, for)
  <1> DEFINE new == [id |-> made + 1, kind |-> kind, num |-> num, parent |-> parent, title |-> title,
                     for |-> for, close |-> None]
  <1>1. made \in Nat /\ made < MaxRows /\ MaxRows \in Nat /\ counter \in [Kinds -> Nat]
    BY EntityAssumption DEF EntityTypes, Insert
  <1>2. new \in RowRecords
    BY <1>1 DEF RowRecords
  <1>3. rows' = rows \cup {new} /\ made' = made + 1
    BY DEF Insert
  <1>4. \A row \in rows : row.id # made + 1
    BY <1>1 DEF Tree
  <1>5. counter' \in [Kinds -> Nat]
    BY <1>1 DEF Insert, Advanced
  <1>6. made' <= MaxRows /\ made' \in Nat
    BY <1>1, <1>3
  <1>7. rows' \subseteq RowRecords
    BY <1>2, <1>3 DEF EntityTypes
  <1>8. Adds(new)
    BY <1>1, <1>2, <1>3, <1>4, <1>5, <1>6, <1>7 DEF Adds
  <1> QED BY <1>8 DEF Made

\* A row may be added below a row that is there.
Fits(new) ==
    /\ HasParent(new.kind, new.parent)
    /\ new.kind = "epic" => new.parent = None
    /\ new.kind # "epic" => IsRow(new.parent, Above(new.kind))
    /\ new.title = "closeoff" => new.kind = "epic" \/ (new.kind = "feature" /\ IsHome(new.parent, "epic"))

\* A row that has its parent keeps the tree whole.
LEMMA InsertTree ==
  ASSUME EntityTypes, Tree, NEW new, Adds(new), Fits(new)
  PROVE  Tree'
  <1>1. made \in Nat /\ new.kind \in Kinds /\ new.title \in {"plain", "closeoff"}
    BY DEF EntityTypes, Adds, RowRecords
  <1>2. new.kind # "epic" => \E mid \in rows : mid.id = new.parent /\ mid.kind = Above(new.kind)
                                           /\ (new.title = "closeoff" => mid.title = "closeoff")
    BY DEF HasParent, Live, IsRow, IsHome, Fits
  <1>3. new.kind = "epic" => new.parent = None
    BY DEF Fits
  <1>4. new.title = "closeoff" => new.kind # "task"
    BY DEF Fits
  <1> QED BY <1>1, <1>2, <1>3, <1>4 DEF Tree, Adds

\* DELETE takes the rows below along, so no row loses its parent: there are no rows below a task.
LEMMA DeleteTree ==
  ASSUME EntityTypes, Tree, NEW id \in Live, Delete(id)
  PROVE  Tree'
  <1>1. rows' = rows \ Under(id) /\ made' = made
    BY DEF Delete
  <1>2. ASSUME NEW row \in rows', row.kind # "epic"
        PROVE  \E mid \in rows' : /\ mid.id = row.parent /\ mid.kind = Above(row.kind)
                                  /\ row.title = "closeoff" => mid.title = "closeoff"
    <2>1. row \in rows /\ row \notin Under(id)
      BY <1>1, <1>2
    <2>2. PICK mid \in rows : /\ mid.id = row.parent /\ mid.kind = Above(row.kind)
                              /\ row.title = "closeoff" => mid.title = "closeoff"
      BY <1>2, <2>1 DEF Tree
    <2>3. mid \notin Under(id)
      <3> SUFFICES ASSUME mid \in Under(id) PROVE FALSE
        OBVIOUS
      <3>1. mid.id # id /\ mid.parent # id
        BY <2>1, <2>2 DEF Under
      <3>2. PICK top \in rows : top.parent = id /\ mid.parent = top.id
        BY <3>1 DEF Under
      <3>3. id \in Nat
        BY RowFacts DEF Live
      <3>4. top.kind # "epic"
        BY <3>2, <3>3, KindFacts DEF Tree
      <3>5. mid.kind # "epic" /\ row.kind \in Kinds /\ top.id \in Nat
        BY <2>1, <3>2, RowFacts, KindFacts DEF Tree
      <3>6. mid.kind = "feature"
        BY <1>2, <2>2, <3>5, KindFacts
      <3>7. PICK up \in rows : up.id = mid.parent /\ up.kind = "epic"
        BY <3>5, <3>6, KindFacts DEF Tree
      <3> QED BY <3>2, <3>4, <3>7 DEF Tree
    <2> QED BY <1>1, <2>2, <2>3
  <1> QED BY <1>1, <1>2 DEF Tree

\* A row that keeps its id, kind, parent and title may be paired or lose its pairing.
LEMMA PairedTree ==
  ASSUME EntityTypes, Tree, made' = made, \A a, b \in rows' : a.id = b.id => a = b,
         \A x \in rows' : \E row \in rows : /\ x.id = row.id /\ x.kind = row.kind
                                            /\ x.parent = row.parent /\ x.title = row.title,
         \A row \in rows : \E x \in rows' : /\ x.id = row.id /\ x.kind = row.kind /\ x.title = row.title
  PROVE  Tree'
  <1>1. ASSUME NEW x \in rows', x.kind # "epic"
        PROVE  \E y \in rows' : /\ y.id = x.parent /\ y.kind = Above(x.kind)
                                /\ x.title = "closeoff" => y.title = "closeoff"
    <2>1. PICK row \in rows : row.id = x.id /\ row.kind = x.kind /\ row.parent = x.parent /\ row.title = x.title
      OBVIOUS
    <2>2. PICK mid \in rows : /\ mid.id = row.parent /\ mid.kind = Above(row.kind)
                              /\ row.title = "closeoff" => mid.title = "closeoff"
      BY <1>1, <2>1 DEF Tree
    <2> QED BY <2>1, <2>2
  <1> QED BY <1>1 DEF Tree

\* A request that does not move still refers to rows that are what it takes them for.
LEMMA RefersKept ==
  ASSUME EntityTypes, NEW r \in Reqs, Refers(r), req'[r] = req[r], made' \in {made, made + 1},
         NEW skip, req[r].op = "stamp" => req[r].at # skip,
         \A x \in rows' : \/ x.id = made + 1
                          \/ \E row \in rows : /\ row.id = x.id /\ row.kind = x.kind /\ row.for = x.for
                                               /\ row.title = x.title
                                               /\ row.close = None /\ x.id # skip => x.close = None
  PROVE  Refers(r)'
  <1>1. made \in Nat /\ None \notin Nat
    BY KindFacts DEF EntityTypes
  <1>2. \A id : Given(id) /\ (id \in Nat \cup {None}) => Given(id)' /\ id # made + 1
    BY <1>1 DEF Given
  <1>3. ASSUME NEW id \in Nat \cup {None}, Given(id), NEW kind, IsRow(id, kind) PROVE IsRow(id, kind)'
    BY <1>2, <1>3 DEF IsRow
  <1>4. ASSUME NEW id \in Nat \cup {None}, Given(id), NEW kind, IsHome(id, kind) PROVE IsHome(id, kind)'
    BY <1>2, <1>4 DEF IsHome
  <1>5. CASE req[r].op = "create"
    <2>1. req[r].parent \in Nat \cup {None}
      BY <1>5, Shapes DEF Creating
    <2> QED BY <1>2, <1>3, <1>5, <2>1 DEF Refers
  <1>6. CASE req[r].op = "import"
    <2>1. \A kind \in Kinds : req[r].at[kind] \in Nat \cup {None}
      BY <1>6, Shapes DEF Importing
    <2> QED BY <1>2, <1>3, <1>6, <2>1 DEF Refers
  <1>7. CASE req[r].op \in {"epic", "newEpic", "feature", "newFeature", "task", "stamp"}
    <2>1. req[r].at \in Nat \cup {None}
      BY <1>7, Shapes DEF ClosingOff
    <2>2. CASE req[r].op = "stamp"
      <3>1. /\ Given(req[r].at) /\ Given(req[r].at)'
            /\ req[r].at # made + 1
            /\ \A row \in rows : row.id = req[r].at => row.for = req[r].w /\ row.close = None
        BY <1>2, <2>1, <2>2 DEF Refers
      <3> QED BY <2>2, <3>1 DEF Refers
    <2>3. CASE req[r].op # "stamp"
      BY <1>2, <1>3, <1>4, <1>7, <2>1, <2>3 DEF Refers
    <2> QED BY <2>2, <2>3
  <1>8. CASE req[r].op \in {"idle", "attach"}
    BY <1>8 DEF Refers
  <1> QED BY <1>5, <1>6, <1>7, <1>8, Shapes

\* The counters a request has in hand, by its step
LEMMA PendingFacts ==
  ASSUME NEW q \in Reqs
  PROVE  /\ req[q].op = "create" => Pending(q) = {req[q].kind}
         /\ req[q].op = "import" => Pending(q) = IF req[q].first THEN Kinds ELSE {}
         /\ req[q].op \in {"epic", "newEpic"} => Pending(q) = Kinds
         /\ req[q].op \in {"feature", "newFeature"} => Pending(q) = {"feature", "task"}
         /\ req[q].op = "task" => Pending(q) = {"task"}
         /\ req[q].op \in {"idle", "stamp", "attach"} => Pending(q) = {}
  BY DEF Pending

\* A request that does not move has the same counters in hand and the same numbers to give.
LEMMA SamePending ==
  ASSUME NEW q \in Reqs, req'[q] = req[q]
  PROVE  Pending(q)' = Pending(q) /\ \A kind : Owes(q, kind)' = Owes(q, kind)
  BY DEF Pending, Owes

\* No number is given and no counter read: request r lets go of counters or keeps them.
LEMMA NothingNumbered ==
  ASSUME EntityTypes, Numbering, NEW r \in Reqs, NEW x, NoInsert,
         \A q \in Reqs : req'[q] = IF q = r THEN x ELSE req[q],
         Pending(r)' \subseteq Pending(r), x.op # "import",
         \A kind \in Pending(r)' : x.read[kind] = req[r].read[kind],
         overlapped \subseteq overlapped', overran \subseteq overran'
  PROVE  Numbering'
  <1>1. UNCHANGED <<counter, used>>
    BY DEF NoInsert
  <1>2. \A q \in Reqs \ {r} : Pending(q)' = Pending(q) /\ req'[q] = req[q] /\ \A kind : Owes(q, kind)' = Owes(q, kind)
    BY SamePending
  <1>3. \A kind : ~Owes(r, kind)'
    BY DEF Owes
  <1>4. ASSUME NEW kind \in Kinds, Counted(kind) PROVE Counted(kind)'
    BY <1>1, <1>2, <1>3, <1>4 DEF Counted
  <1> QED BY <1>1, <1>4 DEF Numbering

\* A request ends and has changed nothing with it: it failed, or its work is done.
LEMMA RequestEnds ==
  ASSUME EntityInv, NEW r \in Reqs, req' = [req EXCEPT ![r] = Idle], NoInsert,
         worktrees' = worktrees, answered' = answered, docs' \in [Ids -> Nat],
         overlapped' = overlapped, overran' = overran, troubled \subseteq troubled',
         \A row \in rows : req[r].op = "stamp" /\ req[r].at = row.id /\ row.for \in worktrees => row.for \in troubled'
  PROVE  /\ EntityTypes' /\ Tree' /\ References' /\ OneHome' /\ Paired' /\ Numbering'
         /\ docs' = docs => Documented'
  <1>1. /\ EntityTypes /\ Tree /\ References /\ OneHome /\ Paired /\ Documented /\ Numbering
        /\ UNCHANGED <<rows, made, counter, used>>
    BY DEF EntityInv, NoInsert
  <1>2. /\ req' \in [Reqs -> RequestRecords]
        /\ \A q \in Reqs : req'[q] = IF q = r THEN Idle ELSE req[q]
    BY <1>1, OneRequest DEF RequestRecords
  <1>3. Idle.op = "idle"
    BY DEF Idle
  <1>4. EntityTypes'
    BY <1>1, <1>2 DEF EntityTypes
  <1>5. Tree'
    BY <1>1 DEF Tree
  <1>6. References'
    <2>1. ASSUME NEW q \in Reqs, q # r PROVE Refers(q)'
      BY <1>1, <1>2, <2>1, RefersKept, KindFacts DEF References
    <2>2. Refers(r)'
      BY <1>2, <1>3 DEF Refers
    <2> QED BY <1>1, <1>2, <1>3, <2>1, <2>2 DEF References
  <1>7. OneHome'
    <2>1. Housing' \subseteq Housing
      BY <1>2, <1>3 DEF Housing
    <2> QED BY <1>1, <1>2, <1>3, <2>1 DEF OneHome
  <1>8. Paired'
    <2>1. \A w : Filing(w)' \subseteq Filing(w)
      BY <1>2, <1>3 DEF Filing
    <2>2. ASSUME NEW row \in rows, row.for # None, row.for \in worktrees, row.close # row.for, row.for \notin troubled'
          PROVE  \E q \in Reqs : req'[q].op = "stamp" /\ req'[q].at = row.id
      <3>1. PICK q \in Reqs : req[q].op = "stamp" /\ req[q].at = row.id
        BY <1>1, <2>2 DEF Paired
      <3> QED BY <1>2, <2>2, <3>1
    <2>3. \A w : Given(answered[w])' = Given(answered[w])
      BY <1>1 DEF Given
    <2> QED BY <1>1, <2>1, <2>2, <2>3 DEF Paired
  <1>9. Numbering'
    <2>1. Pending(r)' = {}
      BY <1>2, <1>3 DEF Pending
    <2> QED BY <1>1, <1>2, <1>3, <2>1, NothingNumbered
  <1>10. docs' = docs => Documented'
    <2>1. \A id : Attaching(id)' \subseteq Attaching(id)
      BY <1>2, <1>3 DEF Attaching
    <2> QED BY <1>1, <2>1 DEF Documented
  <1> QED BY <1>4, <1>5, <1>6, <1>7, <1>8, <1>9, <1>10

\* A request reads the counters K; of an import, the numbers it will give start there.
LEMMA CountersRead ==
  ASSUME EntityTypes, Numbering, NEW r \in Reqs, NEW x, NEW K \in SUBSET Kinds, NoInsert,
         \A q \in Reqs : req'[q] = IF q = r THEN x ELSE req[q],
         Pending(r)' = K, x.read = counter, overlapped' = overlapped \cup Shares(K) \/ Shares(K) \subseteq overlapped',
         overlapped \subseteq overlapped', overran \subseteq overran',
         x.op = "import" => /\ x.first /\ x.num = counter /\ x.todo # << >>
                            /\ \A kind \in Kinds \ overran' : \A i, j \in DOMAIN x.todo :
                                 x.todo[i] = kind /\ x.todo[j] = kind => i = j
  PROVE  Numbering'
  <1>1. UNCHANGED <<counter, used>>
    BY DEF NoInsert
  <1>2. \A q \in Reqs \ {r} : Pending(q)' = Pending(q) /\ req'[q] = req[q] /\ \A kind : Owes(q, kind)' = Owes(q, kind)
    BY SamePending
  <1>3. \A kind \in K : \A q \in Reqs : kind \in Pending(q) => kind \in overlapped'
    BY DEF Shares
  <1>4. ASSUME NEW kind \in Kinds, Counted(kind), kind \notin overlapped' \cup overran' PROVE Counted(kind)'
    <2>1. \A q \in Reqs : kind \in Pending(q)' =>
            /\ req'[q].read[kind] = counter[kind]
            /\ \A p \in Reqs : kind \in Pending(p)' => p = q
      BY <1>2, <1>3, <1>4 DEF Counted
    <2>2. ASSUME NEW q \in Reqs, Owes(q, kind)'
          PROVE  /\ \A i, j \in DOMAIN req'[q].todo : req'[q].todo[i] = kind /\ req'[q].todo[j] = kind => i = j
                 /\ IF req'[q].first THEN req'[q].num[kind] = req'[q].read[kind]
                    ELSE /\ req'[q].num[kind] < counter[kind]
                         /\ Numbered(kind, req'[q].num[kind]) \notin used
                         /\ \A p \in Reqs : (/\ Owes(p, kind)' /\ ~req'[p].first
                                             /\ req'[p].num[kind] = req'[q].num[kind]) => p = q
      <3>1. CASE q = r
        BY <1>4, <2>2, <3>1 DEF Owes
      <3>2. CASE q # r
        <4>1. Owes(q, kind)
          BY <1>2, <2>2, <3>2
        <4>2. \A p \in Reqs : Owes(p, kind)' /\ ~req'[p].first => p # r /\ Owes(p, kind) /\ req'[p] = req[p]
          BY <1>2 DEF Owes
        <4> QED BY <1>2, <1>4, <3>2, <4>1, <4>2 DEF Counted
      <3> QED BY <3>1, <3>2
    <2> QED BY <1>1, <1>4, <2>1, <2>2 DEF Counted
  <1>5. \A q \in Reqs : req'[q].op = "import" => req'[q].todo # << >>
    BY DEF Numbering
  <1> QED BY <1>1, <1>4, <1>5 DEF Numbering

\* A request that did nothing begins with record x, and is neither an attachment nor a close-off.
LEMMA RequestBegins ==
  ASSUME EntityInv, NEW r \in Reqs, NEW x \in RequestRecords, req[r] = Idle, req' = [req EXCEPT ![r] = x], NoInsert,
         x.op \in {"create", "import"}, Refers(r)', UNCHANGED <<worktrees, docs, answered, troubled>>,
         overlapped \subseteq overlapped', Numbering'
  PROVE  EntityInv'
  <1>1. /\ EntityTypes /\ Tree /\ References /\ OneHome /\ Paired /\ Documented /\ Numbering
        /\ UNCHANGED <<rows, made, counter, used>>
    BY DEF EntityInv, NoInsert
  <1>2. /\ req' \in [Reqs -> RequestRecords]
        /\ \A q \in Reqs : req'[q] = IF q = r THEN x ELSE req[q]
    BY <1>1, OneRequest
  <1>3. req[r].op = "idle"
    BY DEF Idle
  <1>4. EntityTypes'
    BY <1>1, <1>2 DEF EntityTypes
  <1>5. Tree'
    BY <1>1 DEF Tree
  <1>6. References'
    <2>1. ASSUME NEW q \in Reqs, q # r PROVE Refers(q)'
      BY <1>1, <1>2, <2>1, RefersKept, KindFacts DEF References
    <2> QED BY <1>1, <1>2, <2>1 DEF References
  <1>7. OneHome'
    <2>1. Housing' = Housing
      BY <1>2, <1>3 DEF Housing
    <2> QED BY <1>1, <1>2, <2>1 DEF OneHome
  <1>8. Paired'
    <2>1. \A w : Filing(w)' = Filing(w)
      BY <1>2, <1>3 DEF Filing
    <2>2. \A q \in Reqs : req[q].op = "stamp" => req'[q] = req[q]
      BY <1>2, <1>3
    <2>3. \A w : Given(answered[w])' = Given(answered[w])
      BY <1>1 DEF Given
    <2> QED BY <1>1, <2>1, <2>2, <2>3 DEF Paired
  <1>9. Documented'
    <2>1. \A id : Attaching(id)' = Attaching(id)
      BY <1>2, <1>3 DEF Attaching
    <2> QED BY <1>1, <2>1 DEF Documented
  <1> QED BY <1>4, <1>5, <1>6, <1>7, <1>8, <1>9 DEF EntityInv

\* POST of an epic, feature or task reads the counter of its kind.
LEMMA CreateStep ==
  ASSUME EntityInv, NEW r \in Reqs, NEW kind \in Kinds, NEW parent \in Live \cup {None}, Create(r, kind, parent)
  PROVE  EntityInv'
  <1> DEFINE x == [op |-> "create", kind |-> kind, parent |-> parent, read |-> counter]
  <1>1. /\ EntityTypes /\ Tree /\ Numbering /\ req[r] = Idle /\ req' = [req EXCEPT ![r] = x] /\ NoInsert
        /\ UNCHANGED <<worktrees, docs, answered, overran, troubled>> /\ overlapped' = overlapped \cup Shares({kind})
        /\ IF kind = "epic" THEN parent = None ELSE parent \in Live /\ Row(parent).kind = Above(kind)
    BY DEF Create, EntityInv
  <1>2. parent \in Nat \cup {None}
    BY <1>1, RowFacts DEF Live
  <1>3. x \in RequestRecords
    BY <1>1, <1>2 DEF RequestRecords, Creating, EntityTypes
  <1>4. /\ \A q \in Reqs : req'[q] = IF q = r THEN x ELSE req[q]
        /\ UNCHANGED <<rows, made, counter, used>>
    BY <1>1, <1>3, OneRequest DEF NoInsert
  <1>5. Refers(r)'
    <2>1. CASE kind = "epic"
      BY <1>1, <1>4, <2>1 DEF Refers, Given
    <2>2. CASE kind # "epic"
      <3>1. PICK row \in rows : row.id = parent
        BY <1>1, <2>2 DEF Live
      <3>2. Row(parent) = row
        BY <1>1, <3>1 DEF Row, Tree
      <3>3. parent \in 1..made /\ made \in Nat
        BY <1>1, <3>1 DEF Tree, EntityTypes
      <3>4. IsRow(parent, Above(kind))' /\ Given(parent)'
        BY <1>1, <1>4, <2>2, <3>1, <3>2, <3>3 DEF IsRow, Given, Tree
      <3> QED BY <1>4, <2>2, <3>4 DEF Refers
    <2> QED BY <2>1, <2>2
  <1>6. Numbering'
    <2>1. Pending(r)' = {kind}
      BY <1>4 DEF Pending
    <2> QED BY <1>1, <1>4, <2>1, CountersRead
  <1> QED BY <1>1, <1>3, <1>5, <1>6, RequestBegins

\* POST import reads the three counters.
LEMMA ImportStep ==
  ASSUME EntityInv, NEW r \in Reqs, NEW plan \in Plans, Import(r, plan)
  PROVE  EntityInv'
  <1> DEFINE x == [op |-> "import", todo |-> plan, read |-> counter, num |-> counter, first |-> TRUE,
                   at |-> [kind \in Kinds |-> None]]
  <1>1. /\ EntityTypes /\ Numbering /\ req[r] = Idle /\ req' = [req EXCEPT ![r] = x] /\ NoInsert /\ plan # << >>
        /\ UNCHANGED <<worktrees, docs, answered, troubled>> /\ overlapped' = overlapped \cup Shares(Kinds)
        /\ overran' = overran \cup {kind \in Kinds : Times(plan, kind) > 1}
    BY DEF Import, EntityInv
  <1>2. plan \in Seq(Kinds)
    BY EntityAssumption
  <1>3. x \in RequestRecords
    BY <1>1, <1>2 DEF RequestRecords, Importing, EntityTypes
  <1>4. /\ \A q \in Reqs : req'[q] = IF q = r THEN x ELSE req[q]
        /\ UNCHANGED <<rows, made, counter, used>>
    BY <1>1, <1>3, OneRequest DEF NoInsert
  <1>5. Refers(r)'
    <2>1. \A kind \in Kinds : Given(None)' /\ IsRow(None, kind)'
      BY <1>1, <1>4, RowFacts, KindFacts DEF Given, IsRow
    <2> QED BY <1>4, <2>1 DEF Refers
  <1>6. ASSUME NEW kind \in Kinds \ overran', NEW i \in DOMAIN plan, NEW j \in DOMAIN plan,
               plan[i] = kind, plan[j] = kind
        PROVE  i = j
    <2> DEFINE S == {k \in DOMAIN plan : plan[k] = kind}
    <2>1. IsFiniteSet(S) /\ Cardinality(S) \in Nat
      <3>1. DOMAIN plan = 1..Len(plan) /\ Len(plan) \in Nat
        BY <1>2
      <3>2. IsFiniteSet(DOMAIN plan)
        BY <3>1, FS_Interval
      <3> QED BY <3>2, FS_Subset, FS_CardinalityType
    <2>2. Cardinality(S) <= 1
      BY <1>1, <1>6, <2>1 DEF Times
    <2>3. i \in S /\ j \in S
      BY <1>6
    <2> HIDE DEF S
    <2>4. Cardinality(S) = 1
      BY <2>1, <2>2, <2>3, FS_EmptySet
    <2> QED BY <2>1, <2>3, <2>4, FS_Singleton
  <1>7. Numbering'
    <2>1. Pending(r)' = Kinds
      BY <1>4 DEF Pending
    <2> QED BY <1>1, <1>4, <1>6, <2>1, CountersRead
  <1> QED BY <1>1, <1>3, <1>5, <1>7, RequestBegins

\* A row is made and request r goes on with record x: what does not depend on which row it is.
LEMMA RowMade ==
  ASSUME EntityInv, NEW r \in Reqs, NEW x \in RequestRecords, req' = [req EXCEPT ![r] = x],
         NEW new, Adds(new), Fits(new),
         UNCHANGED <<worktrees, docs, answered, overlapped, overran, troubled>>,
         req[r].op \notin {"stamp", "attach"}, x.op # "attach", Refers(r)',
         x.op = "stamp" => x.at = made + 1, new.for # None => x.op = "stamp",
         x.op \in {"epic", "newEpic", "feature", "newFeature", "task", "stamp"} =>
           /\ req[r].op \in {"epic", "newEpic", "feature", "newFeature", "task", "stamp"}
           /\ x.w = req[r].w
  PROVE  /\ EntityTypes' /\ Tree' /\ References' /\ Paired' /\ Documented'
         /\ new.title = "plain" /\ x.op \notin {"epic", "newEpic", "feature", "newFeature"} => OneHome'
  <1>1. EntityTypes /\ Tree /\ References /\ OneHome /\ Paired /\ Documented /\ made \in Nat /\ None \notin Nat
    BY KindFacts DEF EntityInv, EntityTypes
  <1>2. /\ req' \in [Reqs -> RequestRecords]
        /\ \A q \in Reqs : req'[q] = IF q = r THEN x ELSE req[q]
    BY <1>1, OneRequest
  <1>3. /\ rows' = rows \cup {new} /\ made' = made + 1 /\ made' <= MaxRows /\ made < MaxRows
        /\ new.id = made + 1 /\ new.close = None
        /\ \A row \in rows : row.id # made + 1
        /\ rows' \subseteq RowRecords /\ counter' \in [Kinds -> Nat] /\ made' \in Nat
    BY DEF Adds
  <1>4. UNCHANGED <<worktrees, docs, answered, overlapped, overran, troubled>>
    OBVIOUS
  <1>5. EntityTypes'
    BY <1>1, <1>2, <1>3, <1>4 DEF EntityTypes
  <1>6. Tree'
    BY <1>1, InsertTree
  <1>7. References'
    <2>1. ASSUME NEW q \in Reqs, q # r PROVE Refers(q)'
      <3>1. \A y \in rows' : y.id = made + 1 \/ y \in rows
        BY <1>3
      <3>2. None \notin Nat /\ (req[q].op = "stamp" => req[q].at # made + 1)
        BY <1>1 DEF References, Refers, Given
      <3> QED BY <1>1, <1>2, <1>3, <2>1, <3>1, <3>2, RefersKept DEF References
    <2>2. ASSUME NEW q \in Reqs, q # r, req[q].op = "stamp", x.op = "stamp" PROVE req[q].at # x.at
      BY <1>1, <2>2 DEF References, Refers, Given
    <2> QED BY <1>1, <1>2, <2>1, <2>2 DEF References
  <1>8. Paired'
    <2>1. \A w : Filing(w)' \subseteq Filing(w)
      BY <1>2 DEF Filing
    <2>2. \A a, b \in rows' : a.close = b.close /\ a.close # None => a = b
      BY <1>1, <1>3 DEF Paired
    <2>3. \A w \in Worktrees \ troubled : (\A row \in rows : row.close # w) => \A row \in rows' : row.close # w
      BY <1>3, KindFacts
    <2>4. ASSUME NEW row \in rows', row.for # None, row.for \in worktrees, row.close # row.for, row.for \notin troubled
          PROVE  \E q \in Reqs : req'[q].op = "stamp" /\ req'[q].at = row.id
      <3>1. CASE row \in rows
        <4>1. PICK q \in Reqs : req[q].op = "stamp" /\ req[q].at = row.id
          BY <1>1, <2>4, <3>1 DEF Paired
        <4> QED BY <1>2, <4>1
      <3>2. CASE row = new
        BY <1>2, <1>3, <2>4, <3>2
      <3> QED BY <1>3, <3>1, <3>2
    <2>5. \A w \in Worktrees :
            /\ Given(answered[w])'
            /\ w \in worktrees => \A row \in rows' : row.id = answered[w] => row.close = w
      <3>1. answered \in [Worktrees -> Nat \cup {None}]
        BY <1>1 DEF EntityTypes
      <3> QED BY <1>1, <1>3, <1>4, <3>1 DEF Paired, Given
    <2>6. \A row \in rows' : row.close \in worktrees \cup {None}
      BY <1>1, <1>3 DEF Paired
    <2> QED BY <1>1, <1>4, <2>1, <2>2, <2>3, <2>4, <2>5, <2>6 DEF Paired
  <1>9. Documented'
    <2>1. \A id : Attaching(id)' = Attaching(id)
      BY <1>2 DEF Attaching
    <2> QED BY <1>1, <1>4, <2>1 DEF Documented
  <1>10. ASSUME new.title = "plain", x.op \notin {"epic", "newEpic", "feature", "newFeature"} PROVE OneHome'
    <2>1. Housing' \subseteq Housing
      BY <1>2, <1>10 DEF Housing
    <2>2. \A row \in rows' : row.title = "closeoff" => row \in rows
      BY <1>3, <1>10
    <2> QED BY <1>1, <1>2, <1>4, <1>10, <2>1, <2>2 DEF OneHome
  <1> QED BY <1>5, <1>6, <1>7, <1>8, <1>9, <1>10

\* A number is given from a counter in hand, and the counter is written.
LEMMA CounterWritten ==
  ASSUME EntityTypes, Numbering, NEW r \in Reqs, NEW x, \A q \in Reqs : req'[q] = IF q = r THEN x ELSE req[q],
         NEW kind \in Pending(r), NEW parent, NEW title, NEW for, NEW read \in [Kinds -> Nat],
         kind \in Kinds, read = req[r].read, req[r].op # "import",
         Insert(kind, parent, read[kind], title, for, read, {kind}),
         x.op # "import", Pending(r)' \subseteq Pending(r) \ {kind}, \A k \in Pending(r)' : x.read = read,
         UNCHANGED <<overlapped, overran>>
  PROVE  Numbering'
  <1>1. /\ used' = used \cup {<<kind, read[kind]>>}
        /\ \A k \in Kinds : counter'[k] = IF k = kind THEN read[kind] + 1 ELSE counter[k]
        /\ counter \in [Kinds -> Nat] /\ read[kind] \in Nat /\ used \subseteq Kinds \X Nat
    BY DEF Insert, Advanced, Numbered, EntityTypes, Numbering
  <1>2. \A q \in Reqs \ {r} : Pending(q)' = Pending(q) /\ req'[q] = req[q] /\ \A k : Owes(q, k)' = Owes(q, k)
    BY SamePending
  <1>3. \A k : ~Owes(r, k) /\ ~Owes(r, k)'
    BY DEF Owes
  <1>4. ASSUME NEW k \in Kinds, Counted(k) PROVE Counted(k)'
    <2>1. CASE k = kind
      <3>1. read[k] = counter[k] /\ counter'[k] = counter[k] + 1 /\ \A q \in Reqs : k \notin Pending(q)'
        BY <1>1, <1>2, <1>4, <2>1 DEF Counted
      <3>2. \A given \in used' : given[1] = k => given[2] < counter'[k]
        BY <1>1, <1>4, <2>1, <3>1 DEF Counted
      <3>3. ASSUME NEW q \in Reqs, Owes(q, k)'
            PROVE  /\ q # r /\ Owes(q, k) /\ req'[q] = req[q]
                   /\ ~req[q].first => /\ req[q].num[k] < counter'[k]
                                       /\ Numbered(k, req[q].num[k]) \notin used'
        <4>1. q # r /\ Owes(q, k) /\ req'[q] = req[q]
          BY <1>2, <1>3, <3>3
        <4>2. req[q].op = "import"
          BY <4>1 DEF Owes
        <4>3. req[q].num[k] \in Nat
          BY <4>2, Shapes DEF Importing
        <4> QED BY <1>1, <1>4, <2>1, <3>1, <4>1, <4>3 DEF Counted, Numbered
      <3> QED BY <1>4, <3>1, <3>2, <3>3 DEF Counted
    <2>2. CASE k # kind
      <3>1. counter'[k] = counter[k] /\ \A given \in used' : given[1] = k => given \in used
        BY <1>1, <2>2
      <3>2. \A n : Numbered(k, n) \in used' => Numbered(k, n) \in used
        BY <1>1, <2>2 DEF Numbered
      <3>3. \A q \in Reqs : /\ k \in Pending(q)' => k \in Pending(q) /\ req'[q].read = req[q].read
                            /\ Owes(q, k)' => q # r /\ Owes(q, k) /\ req'[q] = req[q]
        BY <1>2, <1>3
      <3> QED BY <1>4, <3>1, <3>2, <3>3 DEF Counted
    <2> QED BY <2>1, <2>2
  <1>5. used' \subseteq Kinds \X Nat
    BY <1>1
  <1> QED BY <1>4, <1>5 DEF Numbering

\* The commit of a POST
LEMMA CreateEndsStep ==
  ASSUME EntityInv, NEW r \in Reqs, CreateEnds(r)
  PROVE  EntityInv'
  <1>1. /\ EntityTypes /\ Tree /\ References /\ Numbering /\ req[r].op = "create" /\ req' = [req EXCEPT ![r] = Idle]
        /\ UNCHANGED <<worktrees, docs, answered, overlapped, overran, troubled>>
    BY DEF CreateEnds, EntityInv, history, Finish
  <1>2. /\ req[r].kind \in Kinds /\ req[r].parent \in Nat \cup {None} /\ req[r].read \in [Kinds -> Nat]
        /\ IF req[r].kind = "epic" THEN req[r].parent = None ELSE IsRow(req[r].parent, Above(req[r].kind))
    BY <1>1, Shapes DEF Creating, References, Refers
  <1>3. CASE HasParent(req[r].kind, req[r].parent)
    <2>1. /\ Insert(req[r].kind, req[r].parent, req[r].read[req[r].kind], "plain", None, req[r].read, {req[r].kind})
          /\ req[r].read[req[r].kind] \in Nat
      BY <1>2, <1>3 DEF CreateEnds
    <2>2. /\ Idle \in RequestRecords /\ Idle.op = "idle"
          /\ \A q \in Reqs : req'[q] = IF q = r THEN Idle ELSE req[q]
      BY <1>1, OneRequest DEF RequestRecords, Idle
    <2>3. Refers(r)' /\ Pending(r)' = {} /\ Pending(r) = {req[r].kind}
      BY <1>1, <2>2 DEF Refers, Pending
    <2>4. Numbering'
      BY <1>1, <1>2, <2>1, <2>2, <2>3, CounterWritten
    <2>5a. Made(req[r].kind, req[r].parent, req[r].read[req[r].kind], "plain", None)
      BY <1>1, <1>2, <2>1, InsertAdds
    <2>5. PICK new : /\ Adds(new) /\ new.kind = req[r].kind /\ new.parent = req[r].parent
                     /\ new.title = "plain" /\ new.for = None
      BY <2>5a DEF Made
    <2>6. Fits(new)
      BY <1>2, <1>3, <2>5 DEF Fits
    <2> QED BY <1>1, <2>2, <2>3, <2>4, <2>5, <2>6, RowMade DEF EntityInv
  <1>4. CASE ~HasParent(req[r].kind, req[r].parent)
    <2>1. NoInsert
      BY <1>4 DEF CreateEnds
    <2> QED BY <1>1, <2>1, RequestEnds DEF EntityInv, EntityTypes
  <1> QED BY <1>3, <1>4

\* Find-or-create: the epic, the feature or the task is made, or its parent is gone and the request fails.
LEMMA MakeRowStep ==
  ASSUME EntityInv, NEW r \in Reqs, MakeEpic(r) \/ MakeFeature(r) \/ MakeTask(r)
  PROVE  EntityInv'
  <1>0. PICK op \in {"newEpic", "newFeature", "task"}, kind \in Kinds, title \in {"plain", "closeoff"},
             next \in {"feature", "task", "stamp"} :
          /\ MakeRow(r, op, kind, title, next)
          /\ \/ op = "newEpic" /\ kind = "epic" /\ title = "closeoff" /\ next = "feature"
             \/ op = "newFeature" /\ kind = "feature" /\ title = "closeoff" /\ next = "task"
             \/ op = "task" /\ kind = "task" /\ title = "plain" /\ next = "stamp"
    BY DEF MakeEpic, MakeFeature, MakeTask, Kinds
  <1>1. /\ EntityTypes /\ Tree /\ References /\ OneHome /\ Paired /\ Numbering /\ req[r].op = op
        /\ UNCHANGED <<worktrees, docs, answered, overlapped, overran, troubled>>
    BY <1>0 DEF MakeRow, EntityInv, history
  <1>2. /\ req[r] \in ClosingOff /\ req[r].read \in [Kinds -> Nat] /\ req[r].at \in Nat \cup {None}
        /\ req[r].w \in Worktrees /\ Given(req[r].at)
        /\ op = "newEpic" => req[r].at = None
        /\ op = "newFeature" => IsHome(req[r].at, "epic")
        /\ op = "task" => IsRow(req[r].at, "feature")
    BY <1>1, Shapes DEF ClosingOff, References, Refers, Given
  <1>3. CASE /\ HasParent(kind, req[r].at)
             /\ Insert(kind, req[r].at, req[r].read[kind], title, IF kind = "task" THEN req[r].w ELSE None,
                       req[r].read, {kind})
             /\ req' = [req EXCEPT ![r].op = next, ![r].at = made + 1]
    <2> DEFINE x == [req[r] EXCEPT !.op = next, !.at = made + 1]
               for == IF kind = "task" THEN req[r].w ELSE None
    <2>1. /\ x \in ClosingOff /\ x.op = next /\ x.at = made + 1 /\ x.w = req[r].w /\ x.read = req[r].read
      <3>1. next \in {"newEpic", "feature", "newFeature", "task", "stamp"} /\ made + 1 \in Nat \cup {None}
        BY <1>0, <1>1 DEF EntityTypes
      <3> QED BY <1>2, <3>1 DEF ClosingOff
    <2>2. req' = [req EXCEPT ![r] = x] /\ x \in RequestRecords
      BY <1>1, <1>3, <2>1 DEF RequestRecords, EntityTypes
    <2> HIDE DEF x
    <2>3. \A q \in Reqs : req'[q] = IF q = r THEN x ELSE req[q]
      BY <1>1, <2>2, OneRequest
    <2>4. Insert(kind, req[r].at, req[r].read[kind], title, for, req[r].read, {kind}) /\ req[r].read[kind] \in Nat
      BY <1>2, <1>3
    <2>5. for \in Worktrees \cup {None} /\ (for # None => x.op = "stamp")
      BY <1>0, <1>2, <2>1
    <2> HIDE DEF for
    <2>5b. Made(kind, req[r].at, req[r].read[kind], title, for)
      BY <1>1, <1>2, <2>4, <2>5, InsertAdds
    <2>5a. PICK new : /\ Adds(new) /\ new.kind = kind /\ new.parent = req[r].at /\ new.title = title /\ new.for = for
      BY <2>5b DEF Made
    <2>6. /\ rows' = rows \cup {new} /\ made' = made + 1 /\ new.id = made + 1 /\ new.close = None
          /\ \A row \in rows : row.id # made + 1
          /\ new.kind = kind /\ new.parent = req[r].at /\ new.title = title /\ new.for = for
      BY <2>5a DEF Adds
    <2>7. Refers(r)'
      <3>1. \A row \in rows' : row.id = made + 1 => row = new
        BY <2>6
      <3>2. Given(new.id)' /\ new.id = made + 1
        BY <1>1, <2>6 DEF Given, EntityTypes
      <3>3. next = "stamp" => new.for = req[r].w
        BY <1>0, <2>6 DEF for
      <3> QED BY <1>0, <2>1, <2>3, <2>6, <3>1, <3>2, <3>3 DEF Refers, IsRow, IsHome
    <2>8. /\ kind \in Pending(r) /\ Pending(r)' \subseteq Pending(r) \ {kind}
      BY <1>0, <1>1, <2>1, <2>3 DEF Pending, Kinds
    <2>9. Numbering'
      BY <1>1, <1>2, <2>1, <2>3, <2>4, <2>8, <1>0, CounterWritten
    <2>10. /\ EntityTypes' /\ Tree' /\ References' /\ Paired' /\ Documented'
           /\ title = "plain" /\ x.op \notin {"epic", "newEpic", "feature", "newFeature"} => OneHome'
      <3>1. Fits(new)
        <4>1. /\ op = "newEpic" => kind = "epic" /\ req[r].at = None
              /\ op = "newFeature" => kind = "feature" /\ Above(kind) = "epic" /\ IsRow(req[r].at, "epic")
              /\ op = "task" => kind = "task" /\ Above(kind) = "feature" /\ title = "plain"
          BY <1>0, <1>2, KindFacts DEF IsRow, IsHome
        <4> QED BY <1>0, <1>2, <1>3, <2>6, <4>1 DEF Fits
      <3>2. x.op \in {"feature", "task", "stamp"} /\ req[r].op \in {"newEpic", "newFeature", "task"}
        BY <1>0, <1>1, <2>1
      <3> QED BY <1>1, <2>1, <2>2, <2>5, <2>5a, <2>6, <2>7, <3>1, <3>2, RowMade
    <2>11. OneHome'
      <3> SUFFICES ASSUME "home" \notin overlapped, op # "task" PROVE OneHome'
        BY <1>0, <1>1, <2>1, <2>10 DEF OneHome
      <3>1. Housing' \subseteq Housing /\ r \in Housing /\ \A q \in Housing : q = r
        BY <1>0, <1>1, <2>1, <2>3 DEF Housing, OneHome
      <3>2. CASE op = "newEpic"
        <4>1. \A row \in rows' : row.title = "closeoff" => row = new
          BY <1>1, <2>6, <3>2 DEF OneHome
        <4> QED BY <1>0, <1>1, <2>1, <2>3, <2>6, <3>1, <3>2, <4>1 DEF OneHome, Housing
      <3>3. CASE op = "newFeature"
        <4>1. \A row \in rows : row.title = "closeoff" => row.kind = "epic" /\ row.id = req[r].at
          BY <1>1, <3>3 DEF OneHome
        <4>2. \A a, b \in rows' : a.title = "closeoff" /\ b.title = "closeoff" /\ a.kind = b.kind => a = b
          BY <1>0, <1>1, <2>6, <3>3, <4>1 DEF Tree
        <4>3. \A q \in Reqs : req'[q].op \notin {"epic", "newEpic", "feature", "newFeature"}
          BY <1>0, <2>1, <2>3, <3>1, <3>3 DEF Housing
        <4> QED BY <1>1, <3>1, <4>2, <4>3 DEF OneHome, Housing
      <3> QED BY <3>2, <3>3
    <2> QED BY <2>9, <2>10, <2>11 DEF EntityInv
  <1>4. CASE ~HasParent(kind, req[r].at) /\ Fails(r)
    BY <1>0, <1>1, <1>4, RequestEnds DEF EntityInv, EntityTypes, Fails, Finish
  <1> QED BY <1>0, <1>3, <1>4 DEF MakeRow

\* An import gives its next number: the first row's commit writes all three counters.
LEMMA NumberImported ==
  ASSUME EntityTypes, Numbering, NEW r \in Reqs, NEW x, \A q \in Reqs : req'[q] = IF q = r THEN x ELSE req[q],
         req[r].op = "import", NEW kind \in Kinds, NEW at \in DOMAIN req[r].todo, req[r].todo[at] = kind,
         used' = used \cup {<<kind, req[r].num[kind]>>},
         \A k \in Kinds : counter'[k] = IF req[r].first THEN req[r].read[k] + 1 ELSE counter[k],
         x.op \in {"idle", "import"},
         x.op = "import" =>
           /\ ~x.first /\ x.todo # << >>
           /\ \A k \in Kinds \ {kind} : x.num[k] = req[r].num[k]
           /\ \A i \in DOMAIN x.todo : i + 1 \in DOMAIN req[r].todo /\ x.todo[i] = req[r].todo[i + 1]
           /\ \A i \in DOMAIN x.todo : i \in Nat /\ i + 1 # at,
         UNCHANGED <<overlapped, overran>>
  PROVE  Numbering'
  <1> DEFINE old == req[r]
  <1>1. /\ old.num \in [Kinds -> Nat] /\ old.read \in [Kinds -> Nat] /\ old.first \in BOOLEAN
        /\ counter \in [Kinds -> Nat] /\ used \subseteq Kinds \X Nat
    BY Shapes DEF Importing, EntityTypes, Numbering
  <1>2. \A q \in Reqs \ {r} : Pending(q)' = Pending(q) /\ req'[q] = req[q] /\ \A k : Owes(q, k)' = Owes(q, k)
    BY SamePending
  <1>3. Pending(r)' = {} /\ Pending(r) = IF old.first THEN Kinds ELSE {}
    BY DEF Pending
  <1>4. Owes(r, kind)
    BY DEF Owes
  <1>5. ASSUME NEW k \in Kinds, Counted(k), Owes(r, k)'
        PROVE  /\ Owes(r, k) /\ k # kind /\ req'[r].num[k] = old.num[k] /\ ~req'[r].first
               /\ \A i, j \in DOMAIN req'[r].todo : req'[r].todo[i] = k /\ req'[r].todo[j] = k => i = j
    <2>1. x.op = "import"
      BY <1>5 DEF Owes
    <2>2. PICK i \in DOMAIN x.todo : x.todo[i] = k
      BY <1>5 DEF Owes
    <2>3. Owes(r, k)
      BY <2>1, <2>2 DEF Owes
    <2>4. \A i1, i2 \in DOMAIN old.todo : old.todo[i1] = k /\ old.todo[i2] = k => i1 = i2
      BY <1>5, <2>3 DEF Counted
    <2>5. k # kind
      BY <2>1, <2>2, <2>4
    <2> QED BY <2>1, <2>3, <2>4, <2>5
  <1>6. ASSUME NEW k \in Kinds, Counted(k) PROVE Counted(k)'
    <2>1. CASE old.first
      <3>1. /\ counter'[k] = counter[k] + 1 /\ \A q \in Reqs : k \notin Pending(q)'
            /\ \A q \in Reqs \ {r} : k \notin Pending(q)
        BY <1>1, <1>2, <1>3, <1>6, <2>1 DEF Counted
      <3>2. /\ Owes(r, k) => old.num[k] = counter[k] /\ old.read[k] = counter[k]
        BY <1>3, <1>6, <2>1 DEF Counted
      <3>3. \A given \in used' : given[1] = k => given \in used \/ given[2] = counter[k]
        BY <1>4, <3>2
      <3>4. \A given \in used' : given[1] = k => given[2] < counter'[k]
        BY <1>1, <1>6, <3>1, <3>3 DEF Counted
      <3>5. ASSUME NEW q \in Reqs, Owes(q, k)', q # r
            PROVE  /\ Owes(q, k) /\ req'[q] = req[q] /\ ~req[q].first /\ req[q].num[k] \in Nat
                   /\ req[q].num[k] < counter[k] /\ Numbered(k, req[q].num[k]) \notin used
        <4>1. Owes(q, k) /\ req'[q] = req[q]
          BY <1>2, <3>5
        <4>2. ~req[q].first
          BY <3>1, <3>5, <4>1, PendingFacts DEF Owes
        <4>3. req[q].num[k] \in Nat
          BY <4>1, Shapes DEF Owes, Importing
        <4> QED BY <1>6, <4>1, <4>2, <4>3 DEF Counted
      <3>6. \A n \in Nat : Numbered(k, n) \in used' => Numbered(k, n) \in used \/ n = counter[k]
        BY <3>3 DEF Numbered
      <3>7. Numbered(k, counter[k]) \notin used
        <4>1. \A given \in used : given[1] = k => given[2] < counter[k]
          BY <1>6 DEF Counted
        <4>2. counter[k] \in Nat /\ ~(counter[k] < counter[k])
          BY <1>1
        <4> DEFINE given == <<k, counter[k]>>
        <4>3. given[1] = k /\ given[2] = counter[k]
          OBVIOUS
        <4>4. given \notin used
          <5> HIDE DEF given
          <5> QED BY <4>1, <4>2, <4>3
        <4> QED BY <4>4 DEF Numbered
      <3>8. ASSUME Owes(r, k)'
            PROVE  /\ \A i, j \in DOMAIN req'[r].todo : req'[r].todo[i] = k /\ req'[r].todo[j] = k => i = j
                   /\ ~req'[r].first /\ req'[r].num[k] = counter[k] /\ Numbered(k, counter[k]) \notin used'
        BY <1>5, <1>6, <3>2, <3>7, <3>8 DEF Numbered
      <3>9. \A q \in Reqs : Owes(q, k)' /\ q # r =>
              /\ \A i, j \in DOMAIN req'[q].todo : req'[q].todo[i] = k /\ req'[q].todo[j] = k => i = j
              /\ Numbered(k, req'[q].num[k]) \notin used'
              /\ \A p \in Reqs : p # r /\ Owes(p, k)' /\ req'[p].num[k] = req'[q].num[k] => p = q
        <4>1. ASSUME NEW q \in Reqs, Owes(q, k)', q # r, NEW p \in Reqs, p # r, Owes(p, k)',
                     req'[p].num[k] = req'[q].num[k]
              PROVE  p = q
          <5>1. Owes(q, k) /\ Owes(p, k) /\ ~req[q].first /\ ~req[p].first /\ req[p].num[k] = req[q].num[k]
            BY <3>5, <4>1
          <5> QED BY <1>6, <5>1 DEF Counted
        <4>2. ASSUME NEW q \in Reqs, Owes(q, k)', q # r
              PROVE  /\ \A i, j \in DOMAIN req'[q].todo : req'[q].todo[i] = k /\ req'[q].todo[j] = k => i = j
                     /\ Numbered(k, req'[q].num[k]) \notin used'
          <5>1. \A i, j \in DOMAIN req[q].todo : req[q].todo[i] = k /\ req[q].todo[j] = k => i = j
            BY <1>6, <3>5, <4>2 DEF Counted
          <5>2. req[q].num[k] # counter[k]
            BY <1>1, <3>5, <4>2
          <5> QED BY <3>5, <3>6, <4>2, <5>1, <5>2
        <4> QED BY <4>1, <4>2
      <3>10. counter[k] \in Nat
        BY <1>1
      <3> QED BY <3>1, <3>4, <3>5, <3>8, <3>9, <3>10 DEF Counted
    <2>2. CASE ~old.first
      <3>1. /\ counter'[k] = counter[k]
            /\ \A q \in Reqs : k \in Pending(q)' => k \in Pending(q) /\ req'[q] = req[q]
        BY <1>2, <1>3, <2>2
      <3>2. Owes(r, k) => old.num[k] < counter[k]
        BY <1>6, <2>2 DEF Counted
      <3>3. \A given \in used' : given[1] = k => given[2] < counter'[k]
        BY <1>4, <1>6, <3>1, <3>2 DEF Counted
      <3>4. ASSUME NEW q \in Reqs, Owes(q, k)'
            PROVE  /\ Owes(q, k)
                   /\ \A i, j \in DOMAIN req'[q].todo : req'[q].todo[i] = k /\ req'[q].todo[j] = k => i = j
                   /\ q # r => req'[q] = req[q]
                   /\ q = r => k # kind /\ req'[q].num[k] = old.num[k] /\ ~req'[q].first
        BY <1>2, <1>5, <1>6, <3>4 DEF Counted
      <3>5. ASSUME NEW q \in Reqs, Owes(q, k)', ~req'[q].first
            PROVE  /\ req'[q].num[k] = req[q].num[k] /\ req[q].num[k] < counter[k] /\ ~req[q].first
                   /\ Numbered(k, req[q].num[k]) \notin used /\ (k = kind => req[q].num[k] # old.num[k])
        BY <1>4, <1>6, <2>2, <3>4, <3>5 DEF Counted
      <3>6. ASSUME NEW q \in Reqs, Owes(q, k)', req'[q].first PROVE req'[q].num[k] = req'[q].read[k]
        BY <1>6, <3>4, <3>6 DEF Counted
      <3>7. ASSUME NEW q \in Reqs, Owes(q, k)', ~req'[q].first PROVE Numbered(k, req[q].num[k]) \notin used'
        BY <3>5, <3>7 DEF Numbered
      <3>8. ASSUME NEW q \in Reqs, Owes(q, k)', ~req'[q].first, NEW p \in Reqs, Owes(p, k)', ~req'[p].first,
                   req'[p].num[k] = req'[q].num[k]
            PROVE  p = q
        <4>1. Owes(q, k) /\ Owes(p, k) /\ ~req[q].first /\ ~req[p].first /\ req[p].num[k] = req[q].num[k]
          BY <3>4, <3>5, <3>8
        <4> QED BY <1>6, <4>1 DEF Counted
      <3>9. \A q \in Reqs : k \in Pending(q)' =>
              req'[q].read[k] = counter[k] /\ \A p \in Reqs : k \in Pending(p)' => p = q
        BY <1>6, <3>1 DEF Counted
      <3> QED BY <3>1, <3>3, <3>4, <3>5, <3>6, <3>7, <3>8, <3>9 DEF Counted
    <2> QED BY <1>1, <2>1, <2>2
  <1>7. used' \subseteq Kinds \X Nat
    BY <1>1
  <1>8. \A q \in Reqs : req'[q].op = "import" => req'[q].todo # << >>
    BY DEF Numbering
  <1> QED BY <1>6, <1>7, <1>8 DEF Numbering

\* The rest of a sequence is the sequence shifted by one.
LEMMA TailFacts ==
  ASSUME NEW S, NEW s \in Seq(S), s # << >>
  PROVE  \A i \in DOMAIN Tail(s) : /\ i + 1 \in DOMAIN s /\ Tail(s)[i] = s[i + 1]
                                    /\ i \in Nat /\ i + 1 # 1
  <1>1. DOMAIN Tail(s) = 1..(Len(s) - 1) /\ DOMAIN s = 1..Len(s) /\ Len(s) \in Nat
    OBVIOUS
  <1> QED BY <1>1

\* A row of an import is committed, or its parent is gone and the import fails.
LEMMA ImportRowStep ==
  ASSUME EntityInv, NEW r \in Reqs, ImportRow(r)
  PROVE  EntityInv'
  <1> DEFINE old == req[r]
             kind == Head(old.todo)
             parent == IF kind = "epic" THEN None ELSE old.at[Above(kind)]
             advanced == IF old.first THEN Kinds ELSE {}
             x == IF Tail(old.todo) = << >> THEN Idle
                  ELSE [old EXCEPT !.todo = Tail(@), !.first = FALSE, !.num[kind] = @ + 1, !.at[kind] = made + 1]
  <1>1. /\ EntityTypes /\ Tree /\ References /\ Numbering /\ old.op = "import"
        /\ UNCHANGED <<worktrees, docs, answered, overlapped, overran, troubled>>
    BY DEF ImportRow, EntityInv, history
  <1>2. /\ old \in Importing /\ old.read \in [Kinds -> Nat] /\ old.num \in [Kinds -> Nat]
        /\ old.at \in [Kinds -> Nat \cup {None}] /\ old.todo \in Seq(Kinds) /\ old.todo # << >>
    BY <1>1, Shapes DEF Importing, Numbering
  <1>3. kind \in Kinds /\ 1 \in DOMAIN old.todo /\ old.todo[1] = kind /\ old.num[kind] \in Nat
    BY <1>2
  <1>4. parent \in Nat \cup {None}
    BY <1>2, <1>3, KindFacts
  <1>5. CASE HasParent(kind, parent)
    <2>1. /\ Insert(kind, parent, old.num[kind], "plain", None, old.read, advanced)
          /\ req' = [req EXCEPT ![r] = x]
      BY <1>5 DEF ImportRow
    <2>2. made + 1 \in Nat \cup {None} /\ made \in Nat
      BY <1>1 DEF EntityTypes
    <2>3. x = Idle \/ (/\ x \in Importing /\ ~x.first /\ x.todo = Tail(old.todo) /\ x.todo # << >>
                       /\ x.at = [old.at EXCEPT ![kind] = made + 1]
                       /\ x.num = [old.num EXCEPT ![kind] = old.num[kind] + 1])
      <3>1. CASE Tail(old.todo) # << >>
        <4> DEFINE num == [old.num EXCEPT ![kind] = old.num[kind] + 1]
                   at == [old.at EXCEPT ![kind] = made + 1]
        <4>0. Tail(old.todo) \in Seq(Kinds)
          BY <1>2
        <4>1. num \in [Kinds -> Nat] /\ at \in [Kinds -> Nat \cup {None}] /\ Tail(old.todo) \in Seq(Kinds)
          <5> HIDE DEF kind
          <5>1. num \in [Kinds -> Nat]
            BY <1>2, <1>3
          <5>2. at \in [Kinds -> Nat \cup {None}]
            BY <1>2, <2>2
          <5> QED BY <4>0, <5>1, <5>2
        <4>2. x.num = num /\ x.at = at /\ x.todo = Tail(old.todo) /\ ~x.first /\ x.op = old.op /\ x.read = old.read
          BY <1>2, <3>1 DEF Importing
        <4>3. x \in Importing
          BY <1>2, <3>1, <4>1 DEF Importing
        <4> QED BY <3>1, <4>2, <4>3
      <3> QED BY <3>1
    <2>3a. PICK y : y = x
      OBVIOUS
    <2> HIDE DEF x
    <2>3b. /\ req' = [req EXCEPT ![r] = y]
           /\ y = Idle \/ (/\ y \in Importing /\ ~y.first /\ y.todo = Tail(old.todo) /\ y.todo # << >>
                           /\ y.at = [old.at EXCEPT ![kind] = made + 1]
                           /\ y.num = [old.num EXCEPT ![kind] = old.num[kind] + 1])
      BY <2>1, <2>3, <2>3a
    <2>4. y \in RequestRecords /\ y.op \in {"idle", "import"} /\ (y.op = "import" => y # Idle)
      BY <2>3b DEF RequestRecords, Importing, Idle
    <2>5. \A q \in Reqs : req'[q] = IF q = r THEN y ELSE req[q]
      BY <1>1, <2>3b, <2>4, OneRequest
    <2>6. Made(kind, parent, old.num[kind], "plain", None)
      BY <1>1, <1>2, <1>3, <1>4, <2>1, InsertAdds
    <2>7. PICK new : Adds(new) /\ new.kind = kind /\ new.parent = parent /\ new.title = "plain" /\ new.for = None
      BY <2>6 DEF Made
    <2>8. /\ rows' = rows \cup {new} /\ made' = made + 1 /\ new.id = made + 1 /\ \A row \in rows : row.id # made + 1
      BY <2>7 DEF Adds
    <2>9. \A k \in Kinds : /\ Given(old.at[k]) /\ IsRow(old.at[k], k) /\ old.at[k] \in Nat \cup {None}
      BY <1>1, <1>2 DEF References, Refers
    <2>10. Refers(r)'
      <3> SUFFICES ASSUME y.op = "import", NEW k \in Kinds PROVE Given(y.at[k])' /\ IsRow(y.at[k], k)'
        BY <2>4, <2>5 DEF Refers
      <3>1. y.at = [old.at EXCEPT ![kind] = made + 1]
        BY <2>3b, <2>4
      <3>2. CASE k = kind
        <4>1. y.at[k] = made + 1
          BY <1>2, <3>1, <3>2
        <4>2. Given(y.at[k])'
          BY <2>2, <2>8, <4>1 DEF Given
        <4>3. \A row \in rows' : row.id = y.at[k] => row = new
          BY <2>8, <4>1
        <4> QED BY <2>7, <3>2, <4>2, <4>3 DEF IsRow
      <3>3. CASE k # kind
        <4>1. y.at[k] = old.at[k]
          BY <1>2, <3>1, <3>3
        <4>2. None \notin Nat
          BY KindFacts
        <4>3. Given(y.at[k]) /\ IsRow(y.at[k], k) /\ y.at[k] \in Nat \cup {None}
          BY <2>9, <4>1
        <4>4. y.at[k] # made + 1
          BY <2>2, <4>2, <4>3 DEF Given
        <4> QED BY <2>2, <2>8, <4>2, <4>3, <4>4 DEF IsRow, Given
      <3> QED BY <3>2, <3>3
    <2>11. Fits(new)
      <3>1. kind # "epic" => Above(kind) \in Kinds /\ IsRow(parent, Above(kind))
        BY <1>3, <2>9, KindFacts
      <3> QED BY <1>5, <2>7, <3>1 DEF Fits
    <2>12. EntityTypes' /\ Tree' /\ References' /\ Paired' /\ Documented' /\ OneHome'
      <3>1. /\ req[r].op \notin {"stamp", "attach"} /\ new.title = "plain" /\ new.for = None
            /\ y.op \notin {"attach", "epic", "newEpic", "feature", "newFeature", "task", "stamp"}
        BY <1>1, <2>4, <2>7
      <3>2. /\ y \in RequestRecords /\ req' = [req EXCEPT ![r] = y] /\ Adds(new)
            /\ UNCHANGED <<worktrees, docs, answered, overlapped, overran, troubled>>
        BY <1>1, <2>3b, <2>4, <2>7
      <3> HIDE DEF old, kind, parent, advanced
      <3> QED BY <2>10, <2>11, <3>1, <3>2, RowMade
    <2>13. Numbering'
      <3>1. used' = used \cup {<<kind, old.num[kind]>>}
        BY <2>1 DEF Insert, Numbered
      <3>2. \A k \in Kinds : counter'[k] = IF old.first THEN old.read[k] + 1 ELSE counter[k]
        BY <2>1 DEF Insert, Advanced
      <3>3. y.op = "import" => /\ ~y.first /\ y.todo # << >> /\ y.todo = Tail(old.todo)
                               /\ \A k \in Kinds \ {kind} : y.num[k] = old.num[k]
        BY <1>2, <2>3b, <2>4
      <3>4. y.op = "import" => \A i \in DOMAIN y.todo : /\ i + 1 \in DOMAIN old.todo
                                                        /\ y.todo[i] = old.todo[i + 1]
                                                        /\ i \in Nat /\ i + 1 # 1
        <4>1. \A i \in DOMAIN Tail(old.todo) : /\ i + 1 \in DOMAIN old.todo
                                               /\ Tail(old.todo)[i] = old.todo[i + 1]
                                               /\ i \in Nat /\ i + 1 # 1
          BY <1>2, TailFacts
        <4> QED BY <3>3, <4>1
      <3> HIDE DEF kind, parent
      <3> QED BY <1>1, <1>3, <2>4, <2>5, <3>1, <3>2, <3>3, <3>4, NumberImported
    <2> QED BY <2>12, <2>13 DEF EntityInv
  <1>6. CASE ~HasParent(kind, parent)
    <2>1. NoInsert /\ Finish(r)
      BY <1>6 DEF ImportRow
    <2> QED BY <1>1, <2>1, RequestEnds DEF EntityInv, EntityTypes, Finish
  <1> QED BY <1>5, <1>6

\* Deleting rows leaves every request with what it had found, or with nothing.
LEMMA DeleteStep ==
  ASSUME EntityInv, NEW id \in Live, Delete(id)
  PROVE  EntityInv'
  <1>1. /\ EntityTypes /\ Tree /\ References /\ OneHome /\ Paired /\ Documented /\ Numbering
        /\ UNCHANGED <<counter, worktrees, docs, req, made, used, answered, overlapped, overran, troubled>>
        /\ rows' \subseteq rows
    BY DEF Delete, EntityInv, history
  <1>2. EntityTypes'
    BY <1>1 DEF EntityTypes
  <1>3. Tree'
    BY <1>1, DeleteTree
  <1>4. References'
    <2>1. ASSUME NEW q \in Reqs PROVE Refers(q)'
      BY <1>1, RefersKept, KindFacts DEF References
    <2> QED BY <1>1, <2>1 DEF References
  <1>5. OneHome'
    <2>1. Housing' = Housing
      BY <1>1 DEF Housing
    <2> QED BY <1>1, <2>1 DEF OneHome
  <1>6. Paired'
    <2>1. \A w : Filing(w)' = Filing(w) /\ Given(answered[w])' = Given(answered[w])
      BY <1>1 DEF Filing, Given
    <2> QED BY <1>1, <2>1 DEF Paired
  <1>7. Documented'
    <2>1. \A f : Attaching(f)' = Attaching(f)
      BY <1>1 DEF Attaching
    <2> QED BY <1>1, <2>1 DEF Documented
  <1>8. Numbering'
    <2>1. \A q : Pending(q)' = Pending(q) /\ \A kind : Owes(q, kind)' = Owes(q, kind)
      BY <1>1 DEF Pending, Owes
    <2>2. \A kind : Counted(kind) => Counted(kind)'
      BY <1>1, <2>1 DEF Counted
    <2> QED BY <1>1, <2>2 DEF Numbering
  <1> QED BY <1>2, <1>3, <1>4, <1>5, <1>6, <1>7, <1>8 DEF EntityInv

\* Deleting a worktree unpairs its close-off task and no other.
LEMMA RemoveWorktreeStep ==
  ASSUME EntityInv, NEW w \in Worktrees, RemoveWorktree(w)
  PROVE  EntityInv'
  <1> DEFINE Freed(row) == [row EXCEPT !.close = IF @ = w THEN None ELSE @]
  <1>1. /\ EntityTypes /\ Tree /\ References /\ OneHome /\ Paired /\ Documented /\ Numbering
        /\ UNCHANGED <<counter, docs, req, made, used, answered, overlapped, overran, troubled>>
        /\ rows' = {Freed(row) : row \in rows} /\ worktrees' = worktrees \ {w}
    BY DEF RemoveWorktree, EntityInv, history
  <1>2. \A row \in rows : /\ Freed(row) \in RowRecords
                          /\ Freed(row).id = row.id /\ Freed(row).kind = row.kind /\ Freed(row).parent = row.parent
                          /\ Freed(row).title = row.title /\ Freed(row).for = row.for
                          /\ Freed(row).close = IF row.close = w THEN None ELSE row.close
    BY <1>1 DEF EntityTypes, RowRecords
  <1> HIDE DEF Freed
  <1>3. EntityTypes'
    BY <1>1, <1>2 DEF EntityTypes
  <1>4. \A x \in rows' : \E row \in rows : x = Freed(row)
    BY <1>1
  <1>5. \A a, b \in rows' : a.id = b.id => a = b
    <2> SUFFICES ASSUME NEW a \in rows', NEW b \in rows', a.id = b.id PROVE a = b
      OBVIOUS
    <2>1. PICK c \in rows, d \in rows : a = Freed(c) /\ b = Freed(d)
      BY <1>4
    <2> QED BY <1>1, <1>2, <2>1 DEF Tree
  <1>6. Tree'
    <2>1. \A x \in rows' : \E row \in rows : /\ x.id = row.id /\ x.kind = row.kind
                                             /\ x.parent = row.parent /\ x.title = row.title
      BY <1>2, <1>4
    <2>2. \A row \in rows : \E x \in rows' : x.id = row.id /\ x.kind = row.kind /\ x.title = row.title
      BY <1>1, <1>2
    <2> QED BY <1>1, <1>5, <2>1, <2>2, PairedTree
  <1>7. References'
    <2>1. ASSUME NEW q \in Reqs PROVE Refers(q)'
      <3>1. \A x \in rows' : \E row \in rows :
              /\ row.id = x.id /\ row.kind = x.kind /\ row.for = x.for /\ row.title = x.title
              /\ row.close = None => x.close = None
        BY <1>2, <1>4
      <3> QED BY <1>1, <3>1, RefersKept DEF References
    <2> QED BY <1>1, <2>1 DEF References
  <1>8. OneHome'
    <2>1. Housing' = Housing
      BY <1>1 DEF Housing
    <2>2. ASSUME "home" \notin overlapped, NEW a \in rows', NEW b \in rows',
                 a.title = "closeoff", b.title = "closeoff", a.kind = b.kind
          PROVE a = b
      <3>1. PICK c \in rows, d \in rows : a = Freed(c) /\ b = Freed(d)
        BY <1>4
      <3> QED BY <1>1, <1>2, <2>2, <3>1 DEF OneHome
    <2>3. \A x \in rows' : \E row \in rows : row.title = x.title /\ row.kind = x.kind /\ row.id = x.id
      BY <1>2, <1>4
    <2> QED BY <1>1, <2>1, <2>2, <2>3 DEF OneHome
  <1>9. Paired'
    <2>1. \A v : Filing(v)' = Filing(v) /\ Given(answered[v])' = Given(answered[v])
      BY <1>1 DEF Filing, Given
    <2>2. \A x \in rows' : \E row \in rows : /\ row.id = x.id /\ row.for = x.for /\ x = Freed(row)
                                             /\ x.close = IF row.close = w THEN None ELSE row.close
      BY <1>2, <1>4
    <2>3. None \notin Worktrees
      BY KindFacts
    <2>4. ASSUME NEW a \in rows', NEW b \in rows', a.close = b.close, a.close # None PROVE a = b
      <3>1. PICK c \in rows, d \in rows : a = Freed(c) /\ b = Freed(d)
        BY <1>4
      <3> QED BY <1>1, <1>2, <2>4, <3>1 DEF Paired
    <2>5. \A row \in rows' : row.close \in worktrees' \cup {None}
      BY <1>1, <2>2 DEF Paired
    <2>6. \A v \in Worktrees : (\A row \in rows : row.close # v) => \A row \in rows' : row.close # v
      BY <2>2, <2>3
    <2>7. ASSUME NEW x \in rows', x.for # None, x.for \in worktrees', x.close # x.for, x.for \notin troubled
          PROVE  \E q \in Reqs : req[q].op = "stamp" /\ req[q].at = x.id
      <3>1. PICK row \in rows : /\ row.id = x.id /\ row.for = x.for
                                /\ x.close = IF row.close = w THEN None ELSE row.close
        BY <2>2
      <3> QED BY <1>1, <2>7, <3>1 DEF Paired
    <2>8. \A v \in Worktrees : v \in worktrees' => \A x \in rows' : x.id = answered[v] => x.close = v
      BY <1>1, <2>2 DEF Paired
    <2> QED BY <1>1, <2>1, <2>4, <2>5, <2>6, <2>7, <2>8 DEF Paired
  <1>10. Documented'
    <2>1. \A f : Attaching(f)' = Attaching(f)
      BY <1>1 DEF Attaching
    <2> QED BY <1>1, <2>1 DEF Documented
  <1>11. Numbering'
    <2>1. \A q : Pending(q)' = Pending(q) /\ \A kind : Owes(q, kind)' = Owes(q, kind)
      BY <1>1 DEF Pending, Owes
    <2>2. \A kind : Counted(kind) => Counted(kind)'
      BY <1>1, <2>1 DEF Counted
    <2> QED BY <1>1, <2>2 DEF Numbering
  <1> QED BY <1>3, <1>6, <1>7, <1>8, <1>9, <1>10, <1>11 DEF EntityInv

\* The document lookup and its insert
LEMMA AttachStep ==
  ASSUME EntityInv, NEW r \in Reqs, NEW id \in Live, Attach(r, id)
  PROVE  EntityInv'
  <1> DEFINE x == [op |-> "attach", feature |-> id]
  <1>1. /\ EntityTypes /\ Tree /\ References /\ OneHome /\ Paired /\ Documented /\ Numbering
        /\ UNCHANGED <<rows, counter, made, used, worktrees, docs, answered, overran, troubled>> /\ NoInsert
        /\ req[r] = Idle /\ req' = [req EXCEPT ![r] = x] /\ docs[id] = 0
        /\ overlapped' = IF Attaching(id) = {} THEN overlapped ELSE overlapped \cup {"doc"}
    BY DEF Attach, EntityInv, Attached, NoInsert
  <1>2. id \in Ids
    <2>1. made \in Nat /\ made <= MaxRows /\ MaxRows \in Nat /\ id \in 1..made
      BY <1>1, EntityAssumption DEF EntityTypes, Tree, Live
    <2> QED BY <2>1 DEF Ids
  <1>3. x \in RequestRecords /\ req[r].op = "idle" /\ x.op = "attach"
    BY <1>1, <1>2 DEF RequestRecords, Documenting, Idle
  <1>4. /\ req' \in [Reqs -> RequestRecords]
        /\ \A q \in Reqs : req'[q] = IF q = r THEN x ELSE req[q]
    BY <1>1, <1>3, OneRequest
  <1>5. overlapped \subseteq overlapped' /\ overlapped' \subseteq overlapped \cup {"doc"}
    BY <1>1
  <1>6. EntityTypes' /\ Tree'
    BY <1>1, <1>4 DEF EntityTypes, Tree
  <1>7. References'
    <2>1. ASSUME NEW q \in Reqs, q # r PROVE Refers(q)'
      BY <1>1, <1>4, <2>1, RefersKept, KindFacts DEF References
    <2>2. Refers(r)'
      BY <1>4 DEF Refers
    <2> QED BY <1>1, <1>4, <2>1, <2>2 DEF References
  <1>8. OneHome'
    <2>1. Housing' = Housing
      BY <1>3, <1>4 DEF Housing
    <2>2. ASSUME NEW q \in Reqs, req'[q].op \in {"newEpic", "feature", "newFeature"} PROVE req'[q] = req[q]
      BY <1>4, <2>2
    <2> QED BY <1>1, <1>5, <2>1, <2>2 DEF OneHome
  <1>9. Paired'
    <2>1. \A w : Filing(w)' = Filing(w) /\ Given(answered[w])' = Given(answered[w])
      BY <1>1, <1>3, <1>4 DEF Filing, Given
    <2>2. \A q \in Reqs : req[q].op = "stamp" => req'[q] = req[q]
      BY <1>3, <1>4
    <2> QED BY <1>1, <2>1, <2>2 DEF Paired
  <1>10. Documented'
    <2>1. \A f : Attaching(f)' = IF f = id THEN Attaching(f) \cup {r} ELSE Attaching(f)
      BY <1>3, <1>4 DEF Attaching
    <2>2. "doc" \notin overlapped' => Attaching(id) = {} /\ "doc" \notin overlapped
      BY <1>1
    <2>3. ASSUME "doc" \notin overlapped', NEW f \in Ids
          PROVE  docs[f] <= 1 /\ (\A p, q \in Attaching(f)' : p = q) /\ (Attaching(f)' # {} => docs[f] = 0)
      <3>1. CASE f = id
        BY <1>1, <2>1, <2>2, <2>3, <3>1
      <3>2. CASE f # id
        BY <1>1, <2>1, <2>2, <2>3, <3>2 DEF Documented
      <3> QED BY <3>1, <3>2
    <2> QED BY <1>1, <2>3 DEF Documented
  <1>11. Numbering'
    <2>1. Pending(r)' = {}
      BY <1>4 DEF Pending
    <2> QED BY <1>1, <1>3, <1>4, <1>5, <2>1, NothingNumbered
  <1> QED BY <1>6, <1>7, <1>8, <1>9, <1>10, <1>11 DEF EntityInv

\* The document is inserted: the one the lookup had missed, or a second one after an overlap.
LEMMA AttachEndsStep ==
  ASSUME EntityInv, NEW r \in Reqs, AttachEnds(r)
  PROVE  EntityInv'
  <1> DEFINE f == req[r].feature
  <1>1. /\ EntityTypes /\ Documented /\ req[r].op = "attach" /\ req' = [req EXCEPT ![r] = Idle] /\ NoInsert
        /\ docs' = [docs EXCEPT ![f] = @ + 1] /\ docs \in [Ids -> Nat]
        /\ UNCHANGED <<worktrees, answered, overlapped, overran, troubled>>
    BY DEF AttachEnds, EntityInv, EntityTypes, Finish, history
  <1>2. f \in Ids
    BY <1>1, Shapes DEF Documenting
  <1>3. docs' \in [Ids -> Nat] /\ \A id \in Ids : docs'[id] = IF id = f THEN docs[id] + 1 ELSE docs[id]
    BY <1>1, <1>2
  <1>4. \A q \in Reqs : req'[q] = IF q = r THEN Idle ELSE req[q]
    BY <1>1, OneRequest DEF RequestRecords
  <1>5. \A id : Attaching(id)' \subseteq Attaching(id) \ {r}
    BY <1>4 DEF Attaching, Idle
  <1>6. Documented'
    <2>1. r \in Attaching(f)
      BY <1>1 DEF Attaching
    <2>2. ASSUME "doc" \notin overlapped, NEW id \in Ids
          PROVE  docs'[id] <= 1 /\ (\A p, q \in Attaching(id)' : p = q) /\ (Attaching(id)' # {} => docs'[id] = 0)
      <3>1. CASE id = f
        <4>1. docs[id] = 0 /\ Attaching(id)' = {}
          BY <1>1, <1>2, <1>5, <2>1, <2>2, <3>1 DEF Documented
        <4> QED BY <1>2, <1>3, <3>1, <4>1
      <3>2. CASE id # f
        BY <1>1, <1>3, <1>5, <2>2, <3>2 DEF Documented
      <3> QED BY <3>1, <3>2
    <2> QED BY <1>1, <2>2 DEF Documented
  <1> QED BY <1>1, <1>3, <1>6, RequestEnds DEF EntityInv

\* A crash leaves what the request had committed; a close-off task it made stays unpaired.
LEMMA CrashStep ==
  ASSUME EntityInv, NEW r \in Reqs, Crash(r)
  PROVE  EntityInv'
  <1>1. /\ EntityTypes /\ References /\ NoInsert /\ req' = [req EXCEPT ![r] = Idle]
        /\ UNCHANGED <<worktrees, docs, answered, overlapped, overran>>
        /\ troubled' = IF \E w \in Worktrees : r \in Filing(w) THEN troubled \cup {req[r].w} ELSE troubled
    BY DEF Crash, EntityInv, Finish
  <1>2. ASSUME NEW row \in rows, req[r].op = "stamp", req[r].at = row.id PROVE row.for \in troubled'
    <2>1. row.for = req[r].w
      BY <1>1, <1>2 DEF References, Refers
    <2>2. req[r].w \in Worktrees
      BY <1>1, <1>2, Shapes DEF ClosingOff
    <2>3. r \in Filing(req[r].w)
      BY <1>2 DEF Filing
    <2> QED BY <1>1, <2>1, <2>2, <2>3
  <1>3. docs' \in [Ids -> Nat]
    BY <1>1 DEF EntityTypes
  <1> QED BY <1>1, <1>2, <1>3, RequestEnds DEF EntityInv

\* update_task pairs the task with its worktree, or is refused and the request fails.
LEMMA StampStep ==
  ASSUME EntityInv, NEW r \in Reqs, Stamp(r)
  PROVE  EntityInv'
  <1> DEFINE id == req[r].at
             w == req[r].w
  <1>1. /\ EntityTypes /\ Tree /\ References /\ OneHome /\ Paired /\ Documented /\ Numbering /\ req[r].op = "stamp"
        /\ UNCHANGED <<worktrees, docs, overlapped, overran, troubled>>
    BY DEF Stamp, EntityInv
  <1>2. w \in Worktrees /\ id \in Nat \cup {None} /\ Given(id)
    BY <1>1, Shapes DEF ClosingOff, References, Refers
  <1>3. CASE /\ Stampable(id, w)
             /\ rows' = (rows \ {Row(id)}) \cup {[Row(id) EXCEPT !.close = w]}
             /\ answered' = [answered EXCEPT ![w] = id]
             /\ Finish(r) /\ UNCHANGED <<counter, made, used>>
    <2>1. PICK old \in rows : old.id = id
      BY <1>3 DEF Stampable, Live
    <2>2. Row(id) = old
      BY <1>1, <2>1 DEF Row, Tree
    <2> DEFINE paired == [old EXCEPT !.close = w]
    <2>3. /\ paired \in RowRecords /\ paired.id = id /\ paired.kind = old.kind /\ paired.parent = old.parent
          /\ paired.title = old.title /\ paired.for = old.for /\ paired.close = w
      BY <1>1, <1>2, <2>1 DEF EntityTypes, RowRecords
    <2>4. PICK new : new = paired
      OBVIOUS
    <2>5. /\ rows' = (rows \ {old}) \cup {new} /\ made' = made
          /\ new \in RowRecords /\ new.id = old.id /\ new.kind = old.kind /\ new.parent = old.parent
          /\ new.title = old.title /\ new.for = old.for /\ new.close = w
      BY <1>3, <2>1, <2>2, <2>3, <2>4
    <2> HIDE DEF paired
    <2>6. /\ req' \in [Reqs -> RequestRecords]
          /\ \A q \in Reqs : req'[q] = IF q = r THEN Idle ELSE req[q]
      BY <1>1, <1>3, OneRequest DEF RequestRecords, Finish
    <2>7. Idle.op = "idle"
      BY DEF Idle
    <2>8. old.for = w /\ old.close = None /\ w \in worktrees /\ \A row \in rows : row.close # w
      BY <1>1, <1>3, <2>1 DEF References, Refers, Stampable
    <2>9. /\ answered \in [Worktrees -> Nat \cup {None}] /\ answered' \in [Worktrees -> Nat \cup {None}]
          /\ \A v \in Worktrees : answered'[v] = IF v = w THEN id ELSE answered[v]
      BY <1>1, <1>2, <1>3 DEF EntityTypes
    <2>10. EntityTypes'
      BY <1>1, <1>3, <2>5, <2>6, <2>9 DEF EntityTypes
    <2>11. Tree'
      <3>1. \A a, b \in rows' : a.id = b.id => a = b
        BY <1>1, <2>1, <2>5 DEF Tree
      <3>2. \A row \in rows : \E x \in rows' : x.id = row.id /\ x.kind = row.kind /\ x.title = row.title
        BY <2>5
      <3>3. \A x \in rows' : \E row \in rows : /\ x.id = row.id /\ x.kind = row.kind
                                               /\ x.parent = row.parent /\ x.title = row.title
        BY <2>1, <2>5
      <3> QED BY <1>1, <2>5, <3>1, <3>2, <3>3, PairedTree
    <2>12. References'
      <3>1. ASSUME NEW q \in Reqs, q # r PROVE Refers(q)'
        <4>1. req[q].op = "stamp" => req[q].at # id
          BY <1>1, <3>1 DEF References
        <4>2. \A x \in rows' : \E row \in rows : /\ row.id = x.id /\ row.kind = x.kind /\ row.for = x.for
                                                 /\ row.title = x.title
                                                 /\ row.close = None /\ x.id # id => x.close = None
          BY <2>1, <2>5
        <4>3. Refers(q) /\ req'[q] = req[q] /\ made' \in {made, made + 1}
          BY <1>1, <2>5, <2>6, <3>1 DEF References
        <4> HIDE DEF id
        <4> QED BY <1>1, <4>1, <4>2, <4>3, RefersKept
      <3>2. Refers(r)'
        BY <2>6, <2>7 DEF Refers
      <3> QED BY <1>1, <2>6, <2>7, <3>1, <3>2 DEF References
    <2>13. OneHome'
      <3>1. Housing' = Housing
        BY <1>1, <2>6, <2>7 DEF Housing
      <3>2. ASSUME "home" \notin overlapped, NEW a \in rows', NEW b \in rows',
                   a.title = "closeoff", b.title = "closeoff", a.kind = b.kind
            PROVE a = b
        BY <1>1, <2>1, <2>5, <3>2 DEF OneHome
      <3>3. \A x \in rows' : \E row \in rows : row.title = x.title /\ row.kind = x.kind /\ row.id = x.id
        BY <2>1, <2>5
      <3>4. \A q \in Reqs : req'[q].op \in {"newEpic", "feature", "newFeature"} => req'[q] = req[q]
        BY <2>6, <2>7
      <3> QED BY <1>1, <3>1, <3>2, <3>3, <3>4 DEF OneHome
    <2>14. Paired'
      <3>1. \A v : Filing(v)' \subseteq Filing(v) \ {r}
        BY <2>6, <2>7 DEF Filing
      <3>2. r \in Filing(w)
        BY <1>1 DEF Filing
      <3>3. None \notin Worktrees
        BY KindFacts
      <3>4. \A a, b \in rows' : a.close = b.close /\ a.close # None => a = b
        BY <1>1, <2>5, <2>8 DEF Paired
      <3>5. \A row \in rows' : row.close \in worktrees \cup {None}
        BY <1>1, <2>5, <2>8 DEF Paired
      <3>6. ASSUME NEW v \in Worktrees \ troubled
            PROVE (\A p, q \in Filing(v)' : p = q) /\ (Filing(v)' # {} => \A row \in rows' : row.close # v)
        <4>1. v = w => Filing(v)' = {}
          BY <1>1, <3>1, <3>2, <3>6 DEF Paired
        <4> QED BY <1>1, <2>5, <3>1, <3>6, <4>1 DEF Paired
      <3>7. ASSUME NEW x \in rows', x.for # None, x.for \in worktrees, x.close # x.for, x.for \notin troubled
            PROVE  \E q \in Reqs : req'[q].op = "stamp" /\ req'[q].at = x.id
        <4>1. x \in rows /\ x # old
          BY <2>5, <2>8, <3>7
        <4>2. PICK q \in Reqs : req[q].op = "stamp" /\ req[q].at = x.id
          BY <1>1, <3>7, <4>1 DEF Paired
        <4>3. q # r
          BY <1>1, <2>1, <4>1, <4>2 DEF Tree
        <4> QED BY <2>6, <4>2, <4>3
      <3>8. ASSUME NEW v \in Worktrees
            PROVE  /\ Given(answered'[v])
                   /\ v \in worktrees => \A x \in rows' : x.id = answered'[v] => x.close = v
        <4>1. CASE v = w
          <5>1. \A x \in rows' : x.id = id => x = new
            BY <1>1, <2>1, <2>5 DEF Tree
          <5> QED BY <1>2, <2>5, <2>9, <4>1, <5>1
        <4>2. CASE v # w
          <5>1. answered'[v] = answered[v]
            BY <2>9, <4>2
          <5>2. v \in worktrees => answered[v] # old.id
            BY <1>1, <2>1, <2>8, <3>3 DEF Paired
          <5> QED BY <1>1, <2>5, <5>1, <5>2 DEF Paired
        <4> QED BY <4>1, <4>2
      <3> QED BY <1>1, <2>5, <3>4, <3>5, <3>6, <3>7, <3>8 DEF Paired, Given
    <2>15. Documented'
      <3>1. \A f : Attaching(f)' = Attaching(f)
        BY <1>1, <2>6, <2>7 DEF Attaching
      <3> QED BY <1>1, <3>1 DEF Documented
    <2>16. Numbering'
      <3>1. \A q \in Reqs : Pending(q)' = Pending(q) /\ (\A kind : Owes(q, kind)' = Owes(q, kind))
        <4>1. Pending(r)' = Pending(r) /\ \A kind : Owes(r, kind)' = Owes(r, kind)
          BY <1>1, <2>6, <2>7 DEF Pending, Owes
        <4>2. ASSUME NEW q \in Reqs, q # r
              PROVE  req'[q] = req[q] /\ Pending(q)' = Pending(q) /\ \A kind : Owes(q, kind)' = Owes(q, kind)
          BY <2>6, <4>2, SamePending
        <4> QED BY <4>1, <4>2
      <3>2. ASSUME NEW kind \in Kinds, Counted(kind) PROVE Counted(kind)'
        <4>1. \A q \in Reqs : kind \in Pending(q) \/ Owes(q, kind) => req'[q] = req[q]
          <5>1. Pending(r) = {} /\ ~Owes(r, kind)
            BY <1>1 DEF Pending, Owes
          <5> QED BY <2>6, <5>1
        <4> QED BY <1>3, <3>1, <3>2, <4>1 DEF Counted
      <3>3. \A q \in Reqs : req'[q].op = "import" => req'[q].todo # << >>
        BY <1>1, <2>6, <2>7 DEF Numbering
      <3> QED BY <1>1, <1>3, <3>2, <3>3 DEF Numbering
    <2> QED BY <2>10, <2>11, <2>12, <2>13, <2>14, <2>15, <2>16 DEF EntityInv
  <1>4. CASE ~Stampable(id, w) /\ Fails(r) /\ UNCHANGED answered
    <2>1. \A row \in rows : id = row.id /\ row.for \in worktrees => row.for \in troubled
      <3> SUFFICES ASSUME NEW row \in rows, id = row.id, row.for \in worktrees, row.for \notin troubled PROVE FALSE
        OBVIOUS
      <3>1. row.for = w /\ id \in Live
        BY <1>1 DEF References, Refers, Live
      <3>2. PICK x \in rows : x.close = w
        BY <1>4, <3>1 DEF Stampable
      <3>3. r \in Filing(w)
        BY <1>1 DEF Filing
      <3> QED BY <1>1, <1>2, <3>1, <3>2, <3>3 DEF Paired
    <2>2. docs' \in [Ids -> Nat]
      BY <1>1 DEF EntityTypes
    <2> QED BY <1>1, <1>4, <2>1, <2>2, RequestEnds DEF EntityInv, Fails, Finish
  <1> QED BY <1>3, <1>4 DEF Stamp

\* POST agents/close-off-task answers with the task that is there, or begins to look for its epic.
LEMMA CloseOffStep ==
  ASSUME EntityInv, NEW r \in Reqs, NEW w \in Worktrees, CloseOff(r, w)
  PROVE  EntityInv'
  <1> DEFINE x == [op |-> "epic", w |-> w, read |-> counter, at |-> None]
  <1>1. /\ EntityTypes /\ Tree /\ References /\ OneHome /\ Paired /\ Documented /\ Numbering /\ NoInsert
        /\ UNCHANGED <<rows, counter, made, used, worktrees, docs, overran>>
        /\ req[r] = Idle /\ w \in worktrees
    BY DEF CloseOff, EntityInv, NoInsert
  <1>2. CASE Found(w) # {}
    <2>1. PICK row \in rows : row.close = w /\ answered' = [answered EXCEPT ![w] = row.id]
      <3>1. (CHOOSE row \in Found(w) : TRUE) \in Found(w)
        BY <1>2
      <3> QED BY <1>2, <3>1 DEF CloseOff, Found
    <2>2. UNCHANGED <<req, overlapped, troubled>>
      BY <1>2 DEF CloseOff
    <2>3. row.id \in Nat /\ row.id <= made
      BY <1>1 DEF Tree, EntityTypes
    <2>4. /\ answered' \in [Worktrees -> Nat \cup {None}]
          /\ \A v \in Worktrees : answered'[v] = IF v = w THEN row.id ELSE answered[v]
      BY <1>1, <2>1, <2>3 DEF EntityTypes
    <2>5. EntityTypes' /\ Tree'
      BY <1>1, <2>2, <2>4 DEF EntityTypes, Tree
    <2>6. References'
      <3>1. ASSUME NEW q \in Reqs PROVE Refers(q)'
        BY <1>1, <2>2 DEF References, Refers, Given, IsRow, IsHome
      <3> QED BY <1>1, <2>2, <3>1 DEF References
    <2>7. OneHome'
      <3>1. Housing' = Housing
        BY <2>2 DEF Housing
      <3> QED BY <1>1, <2>2, <3>1 DEF OneHome
    <2>8. Paired'
      <3>1. \A v : Filing(v)' = Filing(v)
        BY <2>2 DEF Filing
      <3>2. \A v \in Worktrees : /\ Given(answered'[v])
                                 /\ v \in worktrees => \A y \in rows : y.id = answered'[v] => y.close = v
        BY <1>1, <2>1, <2>3, <2>4 DEF Paired, Tree, Given
      <3> QED BY <1>1, <2>2, <3>1, <3>2 DEF Paired, Given
    <2>9. Documented'
      <3>1. \A f : Attaching(f)' = Attaching(f)
        BY <2>2 DEF Attaching
      <3> QED BY <1>1, <2>2, <3>1 DEF Documented
    <2>10. Numbering'
      <3>1. \A q : Pending(q)' = Pending(q) /\ \A kind : Owes(q, kind)' = Owes(q, kind)
        BY <2>2 DEF Pending, Owes
      <3>2. \A kind : Counted(kind) => Counted(kind)'
        BY <1>1, <2>2, <3>1 DEF Counted
      <3> QED BY <1>1, <2>2, <3>2 DEF Numbering
    <2> QED BY <2>5, <2>6, <2>7, <2>8, <2>9, <2>10 DEF EntityInv
  <1>3. CASE Found(w) = {}
    <2>1. /\ req' = [req EXCEPT ![r] = x] /\ answered' = answered
          /\ overlapped' = overlapped \cup Shares(Kinds) \cup (IF Housing = {} THEN {} ELSE {"home"})
          /\ troubled' = IF Filing(w) = {} THEN troubled ELSE troubled \cup {w}
      BY <1>3 DEF CloseOff
    <2>2. x \in RequestRecords /\ req[r].op = "idle" /\ x.op = "epic" /\ x.w = w /\ x.at = None /\ x.read = counter
      BY <1>1 DEF RequestRecords, ClosingOff, EntityTypes, Idle
    <2>3. /\ req' \in [Reqs -> RequestRecords]
          /\ \A q \in Reqs : req'[q] = IF q = r THEN x ELSE req[q]
      BY <1>1, <2>1, <2>2, OneRequest
    <2>4. EntityTypes' /\ Tree'
      BY <1>1, <2>1, <2>3 DEF EntityTypes, Tree
    <2>5. References'
      <3>1. ASSUME NEW q \in Reqs, q # r PROVE Refers(q)'
        BY <1>1, <2>3, <3>1 DEF References, Refers, Given, IsRow, IsHome
      <3>2. Refers(r)'
        BY <2>2, <2>3 DEF Refers
      <3> QED BY <1>1, <2>2, <2>3, <3>1, <3>2 DEF References
    <2>6. OneHome'
      <3>1. Housing' = Housing \cup {r}
        BY <2>2, <2>3 DEF Housing
      <3>2. "home" \notin overlapped' => Housing = {} /\ "home" \notin overlapped
        BY <2>1
      <3>3. \A q \in Reqs : req'[q].op \in {"newEpic", "feature", "newFeature"} => req'[q] = req[q]
        BY <2>2, <2>3
      <3> QED BY <1>1, <3>1, <3>2, <3>3 DEF OneHome
    <2>7. Paired'
      <3>1. \A v : Filing(v)' = IF v = w THEN Filing(v) \cup {r} ELSE Filing(v)
        BY <2>2, <2>3 DEF Filing
      <3>2. \A q \in Reqs : req[q].op = "stamp" => req'[q] = req[q]
        BY <2>2, <2>3
      <3>3. \A row \in rows : row.close # w
        BY <1>3 DEF Found
      <3>4. ASSUME NEW v \in Worktrees \ troubled'
            PROVE  (\A p, q \in Filing(v)' : p = q) /\ (Filing(v)' # {} => \A row \in rows : row.close # v)
        <4>1. v \notin troubled /\ (v = w => Filing(w) = {})
          BY <2>1, <3>4
        <4> QED BY <1>1, <3>1, <3>3, <3>4, <4>1 DEF Paired
      <3>5. troubled \subseteq troubled' /\ \A v : Given(answered[v])' = Given(answered[v])
        BY <1>1, <2>1 DEF Given
      <3> QED BY <1>1, <2>1, <3>2, <3>4, <3>5 DEF Paired
    <2>8. Documented'
      <3>1. \A f : Attaching(f)' = Attaching(f)
        BY <2>2, <2>3 DEF Attaching
      <3>2. "doc" \notin overlapped' => "doc" \notin overlapped
        BY <2>1
      <3> QED BY <1>1, <3>1, <3>2 DEF Documented
    <2>9. Numbering'
      <3>1. Pending(r)' = Kinds
        BY <2>2, <2>3 DEF Pending
      <3>2. Shares(Kinds) \subseteq overlapped' /\ overlapped \subseteq overlapped'
        BY <2>1
      <3> QED BY <1>1, <2>2, <2>3, <3>1, <3>2, CountersRead
    <2> QED BY <2>4, <2>5, <2>6, <2>7, <2>8, <2>9 DEF EntityInv
  <1> QED BY <1>2, <1>3

\* A lookup by title takes a match, or finds that the row has to be made.
LEMMA FindHomeStep ==
  ASSUME EntityInv, NEW r \in Reqs, FindEpic(r) \/ FindFeature(r)
  PROVE  EntityInv'
  <1>1. PICK op \in {"epic", "feature"}, found \in {"feature", "task"}, missing \in {"newEpic", "newFeature"} :
          /\ FindHome(r, op, op, found, missing)
          /\ \/ op = "epic" /\ found = "feature" /\ missing = "newEpic"
             \/ op = "feature" /\ found = "task" /\ missing = "newFeature"
    BY DEF FindEpic, FindFeature
  <1>2. /\ EntityTypes /\ Tree /\ References /\ OneHome /\ Paired /\ Documented /\ Numbering /\ NoInsert
        /\ UNCHANGED <<rows, counter, made, used, worktrees, docs, answered, overlapped, overran, troubled>>
        /\ req[r].op = op
    BY <1>1 DEF FindHome, EntityInv, NoInsert, history
  <1>3. req[r] \in ClosingOff /\ Refers(r)
    BY <1>2, Shapes DEF References
  <1>4. PICK x : /\ x \in ClosingOff /\ x.w = req[r].w /\ x.read = req[r].read /\ req' = [req EXCEPT ![r] = x]
                 /\ \/ /\ x.op = found
                       /\ \E home \in Titled(op, req[r].at) : x.at = home.id
                    \/ /\ x.op = missing /\ x.at = req[r].at /\ Titled(op, req[r].at) = {}
    <2>1. CASE \E home \in Titled(op, req[r].at) : req' = [req EXCEPT ![r].op = found, ![r].at = home.id]
      <3>1. PICK home \in Titled(op, req[r].at) : req' = [req EXCEPT ![r].op = found, ![r].at = home.id]
        BY <2>1
      <3>2. home.id \in Nat
        BY <1>2, RowFacts DEF Titled
      <3> DEFINE y == [req[r] EXCEPT !.op = found, !.at = home.id]
      <3>3. y \in ClosingOff /\ y.w = req[r].w /\ y.read = req[r].read /\ y.op = found /\ y.at = home.id
        BY <1>1, <1>3, <3>2 DEF ClosingOff
      <3>4. req' = [req EXCEPT ![r] = y]
        BY <1>2, <3>1 DEF EntityTypes
      <3> QED BY <3>3, <3>4
    <2>2. CASE Titled(op, req[r].at) = {} /\ req' = [req EXCEPT ![r].op = missing]
      <3> DEFINE y == [req[r] EXCEPT !.op = missing]
      <3>1. y \in ClosingOff /\ y.w = req[r].w /\ y.read = req[r].read /\ y.op = missing /\ y.at = req[r].at
        BY <1>1, <1>3 DEF ClosingOff
      <3>2. req' = [req EXCEPT ![r] = y]
        BY <1>2, <2>2 DEF EntityTypes
      <3> QED BY <2>2, <3>1, <3>2
    <2> QED BY <1>1, <2>1, <2>2 DEF FindHome
  <1>5. /\ req' \in [Reqs -> RequestRecords]
        /\ \A q \in Reqs : req'[q] = IF q = r THEN x ELSE req[q]
    BY <1>2, <1>4, OneRequest DEF RequestRecords
  <1>6. EntityTypes' /\ Tree'
    BY <1>2, <1>5 DEF EntityTypes, Tree
  <1>7. ASSUME NEW home \in Titled(op, req[r].at)
        PROVE  /\ home \in rows /\ home.kind = op /\ home.title = "closeoff" /\ Given(home.id)
               /\ \A row \in rows : row.id = home.id => row = home
    BY <1>2 DEF Titled, Tree, Given
  <1>8. References'
    <2>1. ASSUME NEW q \in Reqs, q # r PROVE Refers(q)'
      BY <1>2, <1>5, <2>1 DEF References, Refers, Given, IsRow, IsHome
    <2>2. Refers(r)'
      <3>1. CASE x.op = found
        <4>1. PICK home \in Titled(op, req[r].at) : x.at = home.id
          BY <1>1, <1>4, <3>1
        <4> QED BY <1>1, <1>2, <1>5, <1>7, <3>1, <4>1 DEF Refers, Given, IsRow, IsHome
      <3>2. CASE x.op = missing /\ x.at = req[r].at
        BY <1>1, <1>2, <1>3, <1>5, <3>2 DEF Refers, Given, IsHome
      <3> QED BY <1>4, <3>1, <3>2
    <2>3. x.op # "stamp" /\ req[r].op # "stamp"
      BY <1>1, <1>2, <1>4
    <2> QED BY <1>2, <1>5, <2>1, <2>2, <2>3 DEF References
  <1>9. OneHome'
    <2>1. Housing' \subseteq Housing /\ r \in Housing
      BY <1>1, <1>2, <1>5 DEF Housing
    <2> SUFFICES ASSUME "home" \notin overlapped PROVE OneHome'
      BY <1>2 DEF OneHome
    <2>2. /\ \A q \in Housing : q = r
          /\ \A a, b \in rows : a.title = "closeoff" /\ b.title = "closeoff" /\ a.kind = b.kind => a = b
          /\ op = "feature" => \A row \in rows : row.title = "closeoff" /\ row.kind = "epic" => row.id = req[r].at
      BY <1>2, <2>1 DEF OneHome
    <2>3. \A q \in Reqs : req'[q].op \in {"epic", "newEpic", "feature", "newFeature"} => q = r
      BY <2>1, <2>2 DEF Housing
    <2>4. x.op = "newEpic" => \A row \in rows : row.title # "closeoff"
      <3> SUFFICES ASSUME x.op = "newEpic", NEW row \in rows, row.title = "closeoff" PROVE FALSE
        OBVIOUS
      <3>1. op = "epic" /\ Titled("epic", None) = {}
        BY <1>1, <1>2, <1>3, <1>4 DEF Refers
      <3>2. \A epic \in rows : ~(epic.kind = "epic" /\ epic.title = "closeoff")
        BY <1>2, <3>1 DEF Titled, Tree
      <3>3. row.kind = "feature"
        BY <1>2, <3>2, RowFacts, KindFacts DEF Tree
      <3> QED BY <1>2, <3>2, <3>3, KindFacts DEF Tree
    <2>5. x.op \in {"feature", "newFeature"} =>
            \A row \in rows : row.title = "closeoff" /\ row.kind = "epic" => row.id = x.at
      <3>1. CASE x.op = "feature"
        <4>1. op = "epic" /\ \E home \in Titled(op, req[r].at) : x.at = home.id
          BY <1>1, <1>4, <3>1
        <4> QED BY <1>7, <2>2, <4>1
      <3>2. CASE x.op = "newFeature"
        <4>1. op = "feature" /\ x.at = req[r].at
          BY <1>1, <1>4, <3>2
        <4> QED BY <2>2, <4>1
      <3> QED BY <3>1, <3>2
    <2>6. x.op = "newFeature" => \A row \in rows : row.title = "closeoff" => row.kind = "epic"
      <3> SUFFICES ASSUME x.op = "newFeature", NEW row \in rows, row.title = "closeoff", row.kind # "epic" PROVE FALSE
        OBVIOUS
      <3>1. op = "feature" /\ Titled("feature", req[r].at) = {}
        BY <1>1, <1>4
      <3>2. row.kind = "feature"
        BY <1>2, RowFacts, KindFacts DEF Tree
      <3>3. PICK mid \in rows : mid.id = row.parent /\ mid.kind = "epic" /\ mid.title = "closeoff"
        BY <1>2, <3>2, KindFacts DEF Tree
      <3> QED BY <2>2, <3>1, <3>2, <3>3 DEF Titled
    <2> QED BY <1>2, <1>5, <2>1, <2>2, <2>3, <2>4, <2>5, <2>6 DEF OneHome, Housing
  <1>10. Paired'
    <2>1. \A v : Filing(v)' \subseteq Filing(v)
      BY <1>1, <1>2, <1>4, <1>5 DEF Filing
    <2>2. \A q \in Reqs : req[q].op = "stamp" => req'[q] = req[q]
      BY <1>1, <1>2, <1>5
    <2>3. \A v : Given(answered[v])' = Given(answered[v])
      BY <1>2 DEF Given
    <2> QED BY <1>2, <2>1, <2>2, <2>3 DEF Paired
  <1>11. Documented'
    <2>1. \A f : Attaching(f)' = Attaching(f)
      BY <1>1, <1>2, <1>4, <1>5 DEF Attaching
    <2> QED BY <1>2, <2>1 DEF Documented
  <1>12. Numbering'
    <2>1. Pending(r)' \subseteq Pending(r)
      BY <1>1, <1>2, <1>4, <1>5 DEF Pending, Kinds
    <2>2. x.op # "import"
      BY <1>1, <1>4
    <2> QED BY <1>2, <1>4, <1>5, <2>1, <2>2, NothingNumbered
  <1> QED BY <1>6, <1>8, <1>9, <1>10, <1>11, <1>12 DEF EntityInv

\* An empty board satisfies the invariant.
LEMMA EntityInit == Init => EntityInv
  <1> SUFFICES ASSUME Init PROVE EntityInv
    OBVIOUS
  <1>1. \A r \in Reqs : req[r] = Idle /\ req[r].op = "idle"
    BY DEF Init, Idle
  <1>2. EntityTypes
    <2>1. rows \subseteq RowRecords /\ made \in Nat /\ made <= MaxRows /\ worktrees \subseteq Worktrees
      BY EntityAssumption DEF Init
    <2>2. counter \in [Kinds -> Nat] /\ docs \in [Ids -> Nat] /\ answered \in [Worktrees -> Nat \cup {None}]
      BY DEF Init
    <2>3. req \in [Reqs -> RequestRecords]
      BY DEF Init, RequestRecords
    <2> QED BY <2>1, <2>2, <2>3 DEF EntityTypes
  <1>3. Tree
    BY DEF Init, Tree
  <1>4. References
    BY <1>1 DEF References, Refers
  <1>5. OneHome
    BY <1>1 DEF Init, OneHome, Housing
  <1>6. Paired
    <2>1. \A w \in Worktrees : Filing(w) = {}
      BY <1>1 DEF Filing
    <2> QED BY <2>1 DEF Init, Paired, Given
  <1>7. Documented
    <2>1. \A id : Attaching(id) = {}
      BY <1>1 DEF Attaching
    <2> QED BY <2>1 DEF Init, Documented
  <1>8. Numbering
    <2>1. \A r \in Reqs, kind \in Kinds : ~Owes(r, kind) /\ kind \notin Pending(r)
      BY <1>1, PendingFacts DEF Owes
    <2>2. \A kind \in Kinds : Counted(kind)
      BY <2>1 DEF Init, Counted
    <2> QED BY <1>1, <2>2 DEF Init, Numbering
  <1> QED BY <1>2, <1>3, <1>4, <1>5, <1>6, <1>7, <1>8 DEF EntityInv

\* Every request, deletion and crash keeps the invariant.
LEMMA EntityStep == EntityInv /\ [Next]_vars => EntityInv'
  <1> SUFFICES ASSUME EntityInv, [Next]_vars PROVE EntityInv'
    OBVIOUS
  <1>1. CASE \E r \in Reqs, kind \in Kinds, parent \in Live \cup {None} : Create(r, kind, parent)
    BY <1>1, CreateStep
  <1>2. CASE \E r \in Reqs, plan \in Plans : Import(r, plan)
    BY <1>2, ImportStep
  <1>3. CASE \E r \in Reqs, w \in Worktrees : CloseOff(r, w)
    BY <1>3, CloseOffStep
  <1>4. CASE \E r \in Reqs, id \in Live : Attach(r, id)
    BY <1>4, AttachStep
  <1>5. CASE \E r \in Reqs : CreateEnds(r)
    BY <1>5, CreateEndsStep
  <1>6. CASE \E r \in Reqs : ImportRow(r)
    BY <1>6, ImportRowStep
  <1>7. CASE \E r \in Reqs : FindEpic(r) \/ FindFeature(r)
    BY <1>7, FindHomeStep
  <1>8. CASE \E r \in Reqs : MakeEpic(r) \/ MakeFeature(r) \/ MakeTask(r)
    BY <1>8, MakeRowStep
  <1>9. CASE \E r \in Reqs : Stamp(r)
    BY <1>9, StampStep
  <1>10. CASE \E r \in Reqs : AttachEnds(r)
    BY <1>10, AttachEndsStep
  <1>11. CASE \E r \in Reqs : Crash(r)
    BY <1>11, CrashStep
  <1>12. CASE \E id \in Live : Delete(id)
    BY <1>12, DeleteStep
  <1>13. CASE \E w \in Worktrees : RemoveWorktree(w)
    BY <1>13, RemoveWorktreeStep
  <1>14. CASE UNCHANGED vars
    <2>1. UNCHANGED <<rows, counter, worktrees, docs, req, made, used, answered, overlapped, overran, troubled>>
      BY <1>14 DEF vars
    <2>2. /\ Housing' = Housing
          /\ \A x : /\ Attaching(x)' = Attaching(x) /\ Filing(x)' = Filing(x) /\ Given(x)' = Given(x)
                    /\ Pending(x)' = Pending(x) /\ \A kind : Owes(x, kind)' = Owes(x, kind)
      BY <2>1 DEF Housing, Attaching, Filing, Given, Pending, Owes
    <2>3. (\A r : Refers(r)' = Refers(r)) /\ \A kind : Counted(kind)' = Counted(kind)
      BY <2>1, <2>2 DEF Refers, IsRow, IsHome, Counted, Given
    <2>4. /\ EntityTypes' = EntityTypes /\ Tree' = Tree /\ References' = References /\ OneHome' = OneHome
          /\ Documented' = Documented /\ Numbering' = Numbering
      BY <2>1, <2>2, <2>3 DEF EntityTypes, Tree, References, OneHome, Documented, Numbering
    <2>5. Paired' = Paired
      BY <2>1, <2>2 DEF Paired, Given
    <2> QED BY <2>4, <2>5 DEF EntityInv
  <1> QED BY <1>1, <1>2, <1>3, <1>4, <1>5, <1>6, <1>7, <1>8, <1>9, <1>10, <1>11, <1>12, <1>13, <1>14 DEF Next

\* The entities keep to their inductive invariant.
THEOREM EntityInvariant == Spec => []EntityInv
  BY EntityInit, EntityStep, PTL DEF Spec

-----------------------------------------------------------------------------
(* What follows from the invariant *)

\* The rows of a kind that are close-offs are one at most, and every close-off task is accounted for.
THEOREM CloseOffsAlwaysPaired == Spec => []CloseOffsPaired
  <1>1. ASSUME EntityInv PROVE CloseOffsPaired
    <2>1. ASSUME "home" \notin overlapped, NEW kind \in {"epic", "feature"}
          PROVE  Cardinality({row \in rows : row.kind = kind /\ row.title = "closeoff"}) <= 1
      <3> DEFINE homes == {row \in rows : row.kind = kind /\ row.title = "closeoff"}
      <3>1. \A a, b \in homes : a = b
        BY <1>1, <2>1 DEF EntityInv, OneHome
      <3> SUFFICES Cardinality(homes) <= 1
        OBVIOUS
      <3> HIDE DEF homes
      <3>2. CASE homes = {}
        <4>1. Cardinality({}) = 0
          BY FS_EmptySet
        <4> QED BY <3>2, <4>1
      <3>3. CASE homes # {}
        <4>1. PICK home : home \in homes
          BY <3>3
        <4>2. homes = {home}
          BY <3>1, <4>1
        <4>3. Cardinality({home}) = 1
          BY FS_Singleton
        <4> QED BY <4>2, <4>3
      <3> QED BY <3>2, <3>3
    <2> QED BY <1>1, <2>1 DEF EntityInv, Paired, CloseOffsPaired
  <1> QED BY <1>1, EntityInvariant, PTL

\* A pull request has one document unless two requests attached it at once.
THEOREM DocumentAlwaysOnce == Spec => []DocumentOnce
  <1>1. ASSUME EntityInv PROVE DocumentOnce
    <2>1. \A id \in Ids : docs[id] \in Nat
      BY <1>1 DEF EntityInv, EntityTypes
    <2> QED BY <1>1, <2>1 DEF EntityInv, Documented, DocumentOnce
  <1> QED BY <1>1, EntityInvariant, PTL

\* A new row has a number that its kind was not given before, or the kind is excused.
LEMMA NumberStep ==
  ASSUME EntityInv, Next, made' = made + 1
  PROVE  LET row == CHOOSE new \in rows' : new.id = made' IN
         \/ Numbered(row.kind, row.num) \notin used
         \/ row.kind \in overlapped \cup overran
  <1>1. EntityTypes /\ Tree /\ Numbering /\ made \in Nat
    BY DEF EntityInv, EntityTypes
  <1>2. PICK r \in Reqs : CreateEnds(r) \/ ImportRow(r) \/ MakeEpic(r) \/ MakeFeature(r) \/ MakeTask(r)
    <2>1. made' # made
      BY <1>1
    <2> QED BY <2>1 DEF Next, Create, Import, CloseOff, Attach, FindEpic, FindFeature, FindHome, Stamp, Fails,
                        AttachEnds, Crash, Delete, RemoveWorktree, NoInsert
  <1>3. PICK kind \in Kinds, parent \in Nat \cup {None}, num \in Nat, title \in {"plain", "closeoff"},
             for \in Worktrees \cup {None}, read \in [Kinds -> Nat], advanced \in SUBSET Kinds :
          /\ Insert(kind, parent, num, title, for, read, advanced)
          /\ \/ kind \in Pending(r) /\ read = req[r].read /\ num = read[kind]
             \/ Owes(r, kind) /\ num = req[r].num[kind]
    <2>1. CASE CreateEnds(r)
      <3>1. req[r] \in Creating /\ req[r].op = "create"
        BY <1>1, <2>1, Shapes DEF CreateEnds
      <3>2. /\ req[r].kind \in Kinds /\ req[r].parent \in Nat \cup {None} /\ req[r].read \in [Kinds -> Nat]
            /\ req[r].read[req[r].kind] \in Nat
        BY <3>1 DEF Creating
      <3>3. Insert(req[r].kind, req[r].parent, req[r].read[req[r].kind], "plain", None, req[r].read, {req[r].kind})
        BY <1>1, <2>1 DEF CreateEnds, NoInsert
      <3>4. req[r].kind \in Pending(r)
        BY <3>1 DEF Pending
      <3>5. PICK advanced \in SUBSET Kinds : advanced = {req[r].kind}
        BY <3>2
      <3>6. Insert(req[r].kind, req[r].parent, req[r].read[req[r].kind], "plain", None, req[r].read, advanced)
        BY <3>3, <3>5
      <3> QED BY <3>2, <3>4, <3>6
    <2>2. CASE ImportRow(r)
      <3> DEFINE old == req[r]
                 kind == Head(old.todo)
                 parent == IF kind = "epic" THEN None ELSE old.at[Above(kind)]
      <3>1. /\ old.op = "import" /\ old.read \in [Kinds -> Nat] /\ old.num \in [Kinds -> Nat]
            /\ old.at \in [Kinds -> Nat \cup {None}] /\ old.todo \in Seq(Kinds) /\ old.todo # << >>
        BY <1>1, <2>2, Shapes DEF ImportRow, Importing, Numbering
      <3>2. kind \in Kinds /\ 1 \in DOMAIN old.todo /\ old.todo[1] = kind /\ old.num[kind] \in Nat
        BY <3>1
      <3>3. parent \in Nat \cup {None}
        BY <3>1, <3>2, KindFacts
      <3>4. Insert(kind, parent, old.num[kind], "plain", None, old.read, IF old.first THEN Kinds ELSE {})
        BY <1>1, <2>2 DEF ImportRow, NoInsert
      <3>5. Owes(r, kind)
        BY <3>1, <3>2 DEF Owes
      <3> HIDE DEF kind, parent
      <3>6. PICK advanced \in SUBSET Kinds : advanced = IF old.first THEN Kinds ELSE {}
        OBVIOUS
      <3>7. Insert(kind, parent, old.num[kind], "plain", None, old.read, advanced)
        BY <3>4, <3>6
      <3> QED BY <3>1, <3>2, <3>3, <3>5, <3>7
    <2>3. CASE MakeEpic(r) \/ MakeFeature(r) \/ MakeTask(r)
      <3>1. PICK op \in {"newEpic", "newFeature", "task"}, kind \in Kinds, title \in {"plain", "closeoff"},
                 next \in {"feature", "task", "stamp"} :
              /\ MakeRow(r, op, kind, title, next)
              /\ \/ op = "newEpic" /\ kind = "epic"
                 \/ op = "newFeature" /\ kind = "feature"
                 \/ op = "task" /\ kind = "task"
        BY <2>3 DEF MakeEpic, MakeFeature, MakeTask, Kinds
      <3>2. /\ req[r].op = op /\ req[r].read \in [Kinds -> Nat] /\ req[r].read[kind] \in Nat
            /\ req[r].at \in Nat \cup {None} /\ req[r].w \in Worktrees
        BY <1>1, <3>1, Shapes DEF MakeRow, ClosingOff
      <3>3. Insert(kind, req[r].at, req[r].read[kind], title,
                   IF kind = "task" THEN req[r].w ELSE None, req[r].read, {kind})
        BY <1>1, <3>1 DEF MakeRow, Fails, NoInsert
      <3>4. kind \in Pending(r)
        BY <3>1, <3>2 DEF Pending, Kinds
      <3>5. PICK for \in Worktrees \cup {None} : for = IF kind = "task" THEN req[r].w ELSE None
        BY <3>2
      <3>6. PICK advanced \in SUBSET Kinds : advanced = {kind}
        OBVIOUS
      <3>7. PICK parent \in Nat \cup {None} : parent = req[r].at
        BY <3>2
      <3>8. PICK read \in [Kinds -> Nat] : read = req[r].read
        BY <3>2
      <3>9. PICK num \in Nat : num = read[kind]
        OBVIOUS
      <3>10. Insert(kind, parent, num, title, for, read, advanced)
        BY ONLY <3>3, <3>5, <3>6, <3>7, <3>8, <3>9
      <3> QED BY ONLY <3>4, <3>8, <3>9, <3>10
    <2> QED BY <1>2, <2>1, <2>2, <2>3
  <1>4. Made(kind, parent, num, title, for)
    BY <1>1, <1>3, InsertAdds
  <1>5. PICK new : Adds(new) /\ new.kind = kind /\ new.num = num
    BY <1>4 DEF Made
  <1>6. (CHOOSE x \in rows' : x.id = made') = new
    <2>1. \A x \in rows' : x.id = made' <=> x = new
      BY <1>5 DEF Adds
    <2> QED BY <1>5, <2>1 DEF Adds
  <1>7. ASSUME kind \notin overlapped \cup overran PROVE Numbered(kind, num) \notin used
    <2>1. Counted(kind)
      BY <1>1, <1>7 DEF Numbering
    <2>2. \A given \in used : given[1] = kind => given[2] < counter[kind]
      BY <2>1 DEF Counted
    <2>3. num = counter[kind] \/ (Owes(r, kind) /\ ~req[r].first /\ num = req[r].num[kind])
      <3>1. ASSUME kind \in Pending(r) PROVE req[r].read[kind] = counter[kind]
        BY <2>1, <3>1 DEF Counted
      <3>2. ASSUME Owes(r, kind), req[r].first PROVE kind \in Pending(r) /\ req[r].num[kind] = req[r].read[kind]
        BY <2>1, <3>2, PendingFacts DEF Counted, Owes
      <3> QED BY <1>3, <3>1, <3>2
    <2>4. CASE num = counter[kind]
      <3>1. PICK given : given = <<kind, num>>
        OBVIOUS
      <3>2. given[1] = kind /\ given[2] = num
        BY <3>1
      <3>3. given \notin used
        BY <2>2, <2>4, <3>2, <1>1 DEF EntityTypes
      <3> QED BY <3>1, <3>3 DEF Numbered
    <2>5. CASE Owes(r, kind) /\ ~req[r].first /\ num = req[r].num[kind]
      BY <2>1, <2>5 DEF Counted
    <2> QED BY <2>3, <2>4, <2>5
  <1> QED BY <1>5, <1>6, <1>7

\* A number is given twice only after an overlap or a plan with several rows of the kind.
THEOREM NumbersNeverReused == Spec => NumberNeverReused
  <1>1. ASSUME EntityInv, [Next]_vars
        PROVE  [made' = made + 1 =>
                  LET row == CHOOSE new \in rows' : new.id = made' IN
                  \/ Numbered(row.kind, row.num) \notin used
                  \/ row.kind \in overlapped \cup overran]_vars
    <2>1. CASE Next
      BY <1>1, <2>1, NumberStep
    <2>2. CASE UNCHANGED vars
      BY <2>2
    <2> QED BY <1>1, <2>1, <2>2
  <1> QED BY <1>1, EntityInvariant, PTL DEF Spec, NumberNeverReused

\* A caller is never given another close-off task while the one it was given is there.
THEOREM TaskAnsweredStands == Spec => SameTaskAnswered
  <1>1. ASSUME EntityInv, [Next]_vars
        PROVE  [\A w \in Worktrees : answered[w] \in Live => answered'[w] = answered[w]]_vars
    <2> SUFFICES ASSUME NEW w \in Worktrees, answered[w] \in Live, answered'[w] # answered[w] PROVE FALSE
      BY DEF vars
    <2>1. EntityTypes /\ Tree /\ References /\ Paired /\ answered \in [Worktrees -> Nat \cup {None}]
      BY <1>1 DEF EntityInv, EntityTypes
    <2>2. PICK old \in rows : old.id = answered[w]
      BY DEF Live
    <2>3. \/ \E r \in Reqs, v \in Worktrees : CloseOff(r, v) /\ Found(v) # {}
          \/ \E r \in Reqs : Stampable(req[r].at, req[r].w) /\ answered' = [answered EXCEPT ![req[r].w] = req[r].at]
      <3>1. answered' # answered
        OBVIOUS
      <3>2. PICK r \in Reqs : \/ \E v \in Worktrees : CloseOff(r, v)
                             \/ Stamp(r)
        <4>1. ASSUME NEW r \in Reqs, FindEpic(r) \/ FindFeature(r) PROVE answered' = answered
          BY <4>1 DEF FindEpic, FindFeature, FindHome, history
        <4>2. ASSUME NEW r \in Reqs, MakeEpic(r) \/ MakeFeature(r) \/ MakeTask(r) PROVE answered' = answered
          BY <4>2 DEF MakeEpic, MakeFeature, MakeTask, MakeRow, history
        <4>3. ASSUME NEW r \in Reqs, CreateEnds(r) \/ ImportRow(r) \/ AttachEnds(r) \/ Crash(r)
              PROVE  answered' = answered
          <5>1. CASE ImportRow(r)
            BY ONLY <5>1 DEF ImportRow, history
          <5> QED BY <4>3, <5>1 DEF CreateEnds, AttachEnds, Crash, history
        <4>4. ASSUME NEW r \in Reqs,
                     \/ \E kind \in Kinds, parent \in Live \cup {None} : Create(r, kind, parent)
                     \/ \E plan \in Plans : Import(r, plan)
                     \/ \E id \in Live : Attach(r, id)
              PROVE  answered' = answered
          BY <4>4 DEF Create, Import, Attach, history
        <4>5. ASSUME \/ \E id \in Live : Delete(id)
                     \/ \E w1 \in Worktrees : RemoveWorktree(w1)
                     \/ UNCHANGED vars
              PROVE  answered' = answered
          BY <4>5 DEF Delete, RemoveWorktree, vars, history
        <4> QED BY <1>1, <3>1, <4>1, <4>2, <4>3, <4>4, <4>5 DEF Next
      <3> QED BY <3>1, <3>2 DEF CloseOff, Stamp, history
    <2>4. CASE \E r \in Reqs, v \in Worktrees : CloseOff(r, v) /\ Found(v) # {}
      <3>1. PICK r \in Reqs, v \in Worktrees : CloseOff(r, v) /\ Found(v) # {}
        BY <2>4
      <3>2. v \in worktrees /\ answered' = [answered EXCEPT ![v] = (CHOOSE row \in Found(v) : TRUE).id]
        BY <3>1 DEF CloseOff
      <3>3. v = w
        BY <2>1, <3>2
      <3>4. old.close = v
        BY <2>1, <2>2, <3>2, <3>3 DEF Paired
      <3>5. v # None
        BY KindFacts
      <3>6. Found(v) = {old}
        BY <2>1, <2>2, <3>4, <3>5 DEF Found, Paired
      <3>7. (CHOOSE row \in Found(v) : TRUE) = old
        BY <3>6
      <3> QED BY <2>1, <2>2, <3>2, <3>3, <3>7
    <2>5. CASE \E r \in Reqs : Stampable(req[r].at, req[r].w) /\ answered' = [answered EXCEPT ![req[r].w] = req[r].at]
      <3>1. PICK r \in Reqs : Stampable(req[r].at, req[r].w) /\ answered' = [answered EXCEPT ![req[r].w] = req[r].at]
        BY <2>5
      <3>2. req[r].w = w
        BY <2>1, <3>1
      <3>3. w \in worktrees /\ \A row \in rows : row.close # w
        BY <3>1, <3>2 DEF Stampable
      <3> QED BY <2>1, <2>2, <3>3 DEF Paired
    <2> QED BY <2>3, <2>4, <2>5
  <1> QED BY <1>1, EntityInvariant, PTL DEF Spec, SameTaskAnswered

\* The numbers of the rows that are there are among those that were given.
Recorded == \A row \in rows : Numbered(row.kind, row.num) \in used

\* Every step that adds a row adds its number, and no step takes a number back.
LEMMA RecordedStep == EntityInv /\ Recorded /\ [Next]_vars => Recorded'
  <1> SUFFICES ASSUME EntityInv, Recorded, [Next]_vars PROVE Recorded'
    OBVIOUS
  <1>1. ASSUME NEW kind, NEW parent, NEW num, NEW title, NEW for, NEW read, NEW advanced,
               Insert(kind, parent, num, title, for, read, advanced)
        PROVE  Recorded'
    <2> DEFINE x == [id |-> made + 1, kind |-> kind, num |-> num, parent |-> parent,
                     title |-> title, for |-> for, close |-> None]
    <2>1. x.kind = kind /\ x.num = num
      OBVIOUS
    <2>2. rows' = rows \cup {x} /\ used' = used \cup {Numbered(kind, num)}
      BY <1>1 DEF Insert
    <2>3. PICK new : new = x
      OBVIOUS
    <2> HIDE DEF x
    <2>4. \A row \in rows' : row \in rows \/ row = new
      BY <2>2, <2>3
    <2>5. new.kind = kind /\ new.num = num
      BY <2>1, <2>3
    <2> QED BY <2>2, <2>4, <2>5 DEF Recorded, Numbered
  <1>2. ASSUME NoInsert PROVE Recorded'
    BY <1>2 DEF NoInsert, Recorded, Numbered
  <1>3. CASE \E r \in Reqs : CreateEnds(r)
    BY <1>1, <1>2, <1>3 DEF CreateEnds
  <1>4. CASE \E r \in Reqs : ImportRow(r)
    BY <1>1, <1>2, <1>4 DEF ImportRow
  <1>5. CASE \E r \in Reqs : MakeEpic(r) \/ MakeFeature(r) \/ MakeTask(r)
    BY <1>1, <1>2, <1>5 DEF MakeEpic, MakeFeature, MakeTask, MakeRow, Fails
  <1>6. ASSUME NEW r \in Reqs, Stamp(r) PROVE Recorded'
    <2>1. CASE Fails(r)
      BY <1>2, <2>1 DEF Fails
    <2>2. CASE Stampable(req[r].at, req[r].w) /\ used' = used
               /\ rows' = (rows \ {Row(req[r].at)}) \cup {[Row(req[r].at) EXCEPT !.close = req[r].w]}
      <3>1. PICK old \in rows : old.id = req[r].at
        BY <2>2 DEF Stampable, Live
      <3>2. Row(req[r].at) = old /\ old \in RowRecords
        BY <3>1 DEF EntityInv, EntityTypes, Tree, Row
      <3>3. [old EXCEPT !.close = req[r].w].kind = old.kind /\ [old EXCEPT !.close = req[r].w].num = old.num
        BY <3>2 DEF RowRecords
      <3> QED BY <2>2, <3>1, <3>2, <3>3 DEF Recorded, Numbered
    <2> QED BY <1>6, <2>1, <2>2 DEF Stamp
  <1>7. CASE \E id \in Live : Delete(id)
    BY <1>7 DEF Delete, Recorded, Numbered
  <1>8. ASSUME NEW w \in Worktrees, RemoveWorktree(w) PROVE Recorded'
    <2>1. \A x \in rows' : \E row \in rows : x.kind = row.kind /\ x.num = row.num
      BY <1>8 DEF RemoveWorktree, EntityInv, EntityTypes, RowRecords
    <2> QED BY <1>8, <2>1 DEF RemoveWorktree, Recorded, Numbered
  <1>9. CASE UNCHANGED vars
    BY <1>2, <1>9 DEF vars, NoInsert
  <1>10. CASE \/ \E r \in Reqs, kind \in Kinds, parent \in Live \cup {None} : Create(r, kind, parent)
              \/ \E r \in Reqs, plan \in Plans : Import(r, plan)
              \/ \E r \in Reqs, w \in Worktrees : CloseOff(r, w)
              \/ \E r \in Reqs, id \in Live : Attach(r, id)
              \/ \E r \in Reqs : FindEpic(r) \/ FindFeature(r) \/ AttachEnds(r) \/ Crash(r)
    BY <1>2, <1>10 DEF Create, Import, CloseOff, Attach, FindEpic, FindFeature, FindHome, AttachEnds, Crash
  <1> QED BY <1>3, <1>4, <1>5, <1>6, <1>7, <1>8, <1>9, <1>10 DEF Next

\* As many ids as rows
LEMMA IdsCount ==
  ASSUME EntityTypes, Tree
  PROVE  Cardinality(Live) = Cardinality(rows)
  <1>1. Live \subseteq 1..made /\ made \in Nat
    BY DEF Live, EntityTypes, Tree
  <1>2. IsFiniteSet(Live)
    <2>1. IsFiniteSet(1..made)
      BY <1>1, FS_Interval
    <2> QED BY <1>1, <2>1, FS_Subset
  <1> DEFINE f == [id \in Live |-> Row(id)]
  <1>3. \A row \in rows : row.id \in Live /\ Row(row.id) = row
    BY DEF Live, Row, Tree
  <1>4. \A id \in Live : f[id] \in rows /\ f[id].id = id
    BY <1>3 DEF Live
  <1>5. f \in [Live -> rows]
    BY <1>4
  <1>6. f \in Injection(Live, rows)
    BY <1>4, <1>5 DEF Injection, IsInjective
  <1>7. f \in Surjection(Live, rows)
    BY <1>3, <1>5 DEF Surjection
  <1>8. ExistsBijection(Live, rows)
    BY <1>6, <1>7 DEF ExistsBijection, Bijection
  <1> QED BY <1>2, <1>8, FS_Bijection

\* The board keeps its types: every row has a parent of the kind above, a number that was given
\* and an id of its own, whatever is deleted while a request is half way.
THEOREM EntitiesTypeCorrect == Spec => []TypeOK
  <1>1. Init => Recorded
    BY DEF Init, Recorded
  <1>2. Spec => []Recorded
    BY <1>1, RecordedStep, EntityInvariant, PTL DEF Spec
  <1>3. ASSUME EntityInv, Recorded PROVE TypeOK
    <2>1. EntityTypes /\ Tree /\ Paired /\ Numbering
      BY <1>3 DEF EntityInv
    <2>2. \A row \in rows : HasParent(row.kind, row.parent)
      BY <2>1 DEF Tree, HasParent, Live
    <2>3. \A r \in Reqs : Sane(req[r])
      BY <2>1, Shapes DEF Sane, Numbering
    <2>4. made \in 0..MaxRows
      BY <2>1, EntityAssumption DEF EntityTypes
    <2>5. worktrees \subseteq Worktrees /\ \A row \in rows : row.id \in 1..made /\ row.close \in worktrees \cup {None}
      BY <2>1 DEF EntityTypes, Tree, Paired
    <2>6. Cardinality(Live) = Cardinality(rows)
      BY <2>1, IdsCount
    <2> QED BY <1>3, <2>2, <2>3, <2>4, <2>5, <2>6 DEF TypeOK, Recorded
  <1> QED BY <1>2, <1>3, EntityInvariant, PTL

-----------------------------------------------------------------------------
(* Dependencies: the graph of features and the graph of tasks *)

USE NoNodeAssumption

\* The graph starts empty and no request is under way.
LEMMA InitType == GraphInit => GraphTypeOK
  BY DEF GraphInit, GraphTypeOK

\* Every step keeps the declared types.
LEMMA StepType == GraphTypeOK /\ ProjectInv /\ [GraphNext]_graphVars => GraphTypeOK'
  <1> SUFFICES ASSUME GraphTypeOK, ProjectInv, [GraphNext]_graphVars PROVE GraphTypeOK'
    OBVIOUS
  <1> USE DEF GraphTypeOK
  <1>1. ASSUME NEW r \in Requests, NEW a \in Nodes, NEW b \in Nodes, AddDependency(r, a, b)
        PROVE  GraphTypeOK'
    BY <1>1 DEF AddDependency
  <1>2. ASSUME NEW r \in Requests, NEW n \in Nodes, Pop(r, n) PROVE GraphTypeOK'
    <2>1. stack[r] \in SUBSET Nodes /\ visited[r] \in SUBSET Nodes
      OBVIOUS
    <2>2. (stack[r] \ {n}) \cup (IF n \in visited[r] THEN {} ELSE Deps(n)) \in SUBSET Nodes
      BY <2>1 DEF Deps
    <2>3. stack' \in [Requests -> SUBSET Nodes] /\ visited' \in [Requests -> SUBSET Nodes]
      BY <1>2, <2>1, <2>2 DEF Pop
    <2> QED
      BY <1>2, <2>3 DEF Pop
  <1>3. ASSUME NEW r \in Requests, CycleFound(r) PROVE GraphTypeOK'
    BY <1>3 DEF CycleFound, Respond
  <1>4. ASSUME NEW r \in Requests, NotFound(r) PROVE GraphTypeOK'
    BY <1>4 DEF NotFound, search
  <1>5. ASSUME NEW r \in Requests, InsertEdge(r) PROVE GraphTypeOK'
    BY <1>5 DEF InsertEdge, Respond, ProjectInv
  <1>6. ASSUME NEW a \in Nodes, NEW b \in Nodes, RemoveDependency(a, b) PROVE GraphTypeOK'
    BY <1>6 DEF RemoveDependency, search
  <1>7. CASE UNCHANGED graphVars
    BY <1>7 DEF graphVars, search
  <1> QED
    BY <1>1, <1>2, <1>3, <1>4, <1>5, <1>6, <1>7 DEF GraphNext, Step

\* The project guard is passed once and holds at the insert.
LEMMA StepProject == GraphTypeOK /\ ProjectInv /\ [GraphNext]_graphVars => ProjectInv'
  <1> SUFFICES ASSUME GraphTypeOK, ProjectInv, [GraphNext]_graphVars PROVE ProjectInv'
    OBVIOUS
  <1> USE DEF GraphTypeOK, ProjectInv, SameProject
  <1>1. ASSUME NEW r \in Requests, NEW a \in Nodes, NEW b \in Nodes, AddDependency(r, a, b)
        PROVE  ProjectInv'
    BY <1>1 DEF AddDependency
  <1>2. ASSUME NEW r \in Requests, NEW n \in Nodes, Pop(r, n) PROVE ProjectInv'
    BY <1>2 DEF Pop
  <1>3. ASSUME NEW r \in Requests, CycleFound(r) PROVE ProjectInv'
    BY <1>3 DEF CycleFound, Respond
  <1>4. ASSUME NEW r \in Requests, NotFound(r) PROVE ProjectInv'
    BY <1>4 DEF NotFound, search
  <1>5. ASSUME NEW r \in Requests, InsertEdge(r) PROVE ProjectInv'
    BY <1>5 DEF InsertEdge, Respond
  <1>6. ASSUME NEW a \in Nodes, NEW b \in Nodes, RemoveDependency(a, b) PROVE ProjectInv'
    BY <1>6 DEF RemoveDependency, search
  <1>7. CASE UNCHANGED graphVars
    BY <1>7 DEF graphVars, search
  <1> QED
    BY <1>1, <1>2, <1>3, <1>4, <1>5, <1>6, <1>7 DEF GraphNext, Step

\* Types and projects hold together: an insert writes the edge that was checked.
LEMMA TypeAndProject == GraphSpec => [](GraphTypeOK /\ ProjectInv)
  <1>1. GraphInit => ProjectInv
    BY DEF GraphInit, ProjectInv, SameProject
  <1> QED
    BY <1>1, InitType, StepType, StepProject, PTL DEF GraphSpec

\* Requests and edges always hold nodes.
THEOREM GraphTypeCorrect == GraphSpec => []GraphTypeOK
  BY TypeAndProject, PTL

\* No dependency ever crosses projects, whatever requests overlap.
THEOREM ProjectsApart == GraphSpec => []SameProject
  <1>1. ProjectInv => SameProject
    BY DEF ProjectInv
  <1> QED
    BY <1>1, TypeAndProject, PTL

-----------------------------------------------------------------------------
(* The graph stays acyclic *)

\* An edge out of the nodes that a finished search did not meet closes no cycle:
\* a set of nodes either meets what was visited, where the old graph has a last
\* node, or does not hold the new edge's target.
LEMMA ClosedSearchSafe ==
    ASSUME NEW V \in SUBSET Nodes, NEW a \in Nodes, NEW b \in Nodes,
           Acyclic, b \in V, a \notin V,
           \A n \in V, m \in Nodes : <<n, m>> \in edges => m \in V,
           edges' = edges \cup {<<a, b>>}
    PROVE  Acyclic'
  <1> SUFFICES ASSUME NEW S \in SUBSET Nodes, S # {}
               PROVE  \E n \in S : \A m \in S : <<n, m>> \notin edges'
    BY DEF Acyclic
  <1>1. CASE S \cap V # {}
    <2>1. PICK n \in S \cap V : \A m \in S \cap V : <<n, m>> \notin edges
      BY <1>1 DEF Acyclic
    <2>2. \A m \in S : <<n, m>> \notin edges'
      BY <2>1
    <2> QED
      BY <2>1, <2>2
  <1>2. CASE S \cap V = {}
    <2>1. PICK n \in S : \A m \in S : <<n, m>> \notin edges
      BY DEF Acyclic
    <2> QED
      BY <1>2, <2>1
  <1> QED
    BY <1>1, <1>2

\* Removing edges closes no cycle.
LEMMA FewerEdgesSafe ==
    ASSUME Acyclic, edges' \subseteq edges PROVE Acyclic'
  BY DEF Acyclic

\* Adds that have overlapped are never forgotten.
LEMMA SerialBefore == GraphTypeOK /\ [GraphNext]_graphVars /\ serial' => serial
  <1>1. ASSUME NEW r \in Requests, NEW a \in Nodes, NEW b \in Nodes, AddDependency(r, a, b), serial'
        PROVE  serial
    BY <1>1 DEF AddDependency
  <1>2. ASSUME GraphNext, UNCHANGED serial, serial' PROVE serial
    BY <1>2
  <1> QED
    BY <1>1, <1>2 DEF GraphNext, Step, Pop, CycleFound, NotFound, InsertEdge, RemoveDependency, graphVars

\* The search of the one request under way keeps covering what its target reaches:
\* visiting a node stacks its dependencies, and edges only disappear meanwhile.
LEMMA StepSearch == GraphTypeOK /\ SearchInv /\ [GraphNext]_graphVars => SearchInv'
  <1> SUFFICES ASSUME GraphTypeOK, SearchInv, [GraphNext]_graphVars, serial', NEW q \in Requests, pc'[q] # "idle"
               PROVE  /\ \A s \in Requests : s # q => pc'[s] = "idle"
                      /\ from'[q] \in Nodes /\ to'[q] \in Nodes /\ from'[q] # to'[q]
                      /\ Covered(q)'
                      /\ pc'[q] = "insert" => stack'[q] = {}
    BY DEF SearchInv
  <1>0. serial
    BY SerialBefore
  <1> DEFINE Goal == /\ \A s \in Requests : s # q => pc'[s] = "idle"
                     /\ from'[q] \in Nodes /\ to'[q] \in Nodes /\ from'[q] # to'[q]
                     /\ Covered(q)'
                     /\ pc'[q] = "insert" => stack'[q] = {}
  <1> USE DEF GraphTypeOK
  <1>1. ASSUME NEW r \in Requests, NEW a \in Nodes, NEW b \in Nodes, AddDependency(r, a, b)
        PROVE  Goal
    <2>1. r = q /\ \A s \in Requests : pc[s] = "idle"
      BY <1>1 DEF AddDependency
    <2>2. from'[q] = a /\ to'[q] = b /\ stack'[q] = {b} /\ visited'[q] = {} /\ pc'[q] = "search"
      BY <1>1, <2>1 DEF AddDependency
    <2>3. a # b
      BY <1>1 DEF AddDependency
    <2>4. \A s \in Requests : s # q => pc'[s] = "idle"
      BY <1>1, <2>1 DEF AddDependency
    <2> QED
      BY <2>2, <2>3, <2>4 DEF Covered
  <1>2. ASSUME NEW r \in Requests, NEW n \in Nodes, Pop(r, n) PROVE Goal
    <2>1. UNCHANGED <<edges, pc, from, to>> /\ pc[r] = "search" /\ r = q
      BY <1>0, <1>2 DEF Pop, SearchInv
    <2>2. /\ n # from[q] /\ visited'[q] = visited[q] \cup {n}
          /\ stack'[q] = (stack[q] \ {n}) \cup (IF n \in visited[q] THEN {} ELSE Deps(n))
      BY <1>2, <2>1 DEF Pop
    <2>3. Covered(q) /\ from[q] \in Nodes /\ to[q] \in Nodes /\ from[q] # to[q]
            /\ \A s \in Requests : s # q => pc[s] = "idle"
      BY <1>0, <2>1 DEF SearchInv
    <2>4. stack[q] \cup visited[q] \subseteq stack'[q] \cup visited'[q]
      BY <2>2
    <2>5. \A m \in Nodes : <<n, m>> \in edges => m \in stack'[q] \cup visited'[q]
      BY <2>2, <2>3, <2>4 DEF Covered, Deps
    <2>6. Covered(q)'
      BY <2>1, <2>2, <2>3, <2>4, <2>5 DEF Covered
    <2> QED
      BY <2>1, <2>3, <2>6
  <1>3. ASSUME NEW r \in Requests, pc[r] # "idle", Respond(r) PROVE FALSE
    BY <1>0, <1>3 DEF Respond, SearchInv
  <1>4. ASSUME NEW r \in Requests, NotFound(r) PROVE Goal
    BY <1>0, <1>4 DEF NotFound, search, SearchInv, Covered
  <1>5. ASSUME NEW a \in Nodes, NEW b \in Nodes, RemoveDependency(a, b) PROVE Goal
    BY <1>0, <1>5 DEF RemoveDependency, search, SearchInv, Covered
  <1>6. CASE UNCHANGED graphVars
    BY <1>0, <1>6 DEF graphVars, search, SearchInv, Covered
  <1>7. Goal
    BY <1>1, <1>2, <1>3, <1>4, <1>5, <1>6 DEF GraphNext, Step, CycleFound, InsertEdge
  <1> QED
    BY <1>7

\* Every step keeps the graph acyclic.
LEMMA StepAcyclic == GraphTypeOK /\ SearchInv /\ SerialAcyclic /\ [GraphNext]_graphVars => SerialAcyclic'
  <1> SUFFICES ASSUME GraphTypeOK, SearchInv, SerialAcyclic, [GraphNext]_graphVars, serial' PROVE Acyclic'
    BY DEF SerialAcyclic
  <1>0. serial
    BY SerialBefore
  <1>1. ASSUME NEW r \in Requests, InsertEdge(r) PROVE Acyclic'
    <2>1. /\ from[r] \in Nodes /\ to[r] \in Nodes /\ Covered(r) /\ stack[r] = {}
          /\ edges' = edges \cup {<<from[r], to[r]>>}
      BY <1>0, <1>1 DEF InsertEdge, SearchInv
    <2>2. visited[r] \in SUBSET Nodes
      BY DEF GraphTypeOK
    <2>3. /\ to[r] \in visited[r] /\ from[r] \notin visited[r]
          /\ \A n \in visited[r], m \in Nodes : <<n, m>> \in edges => m \in visited[r]
      BY <2>1 DEF Covered
    <2>4. Acyclic
      BY <1>0 DEF SerialAcyclic
    <2> HIDE DEF Acyclic
    <2> QED
      BY <2>1, <2>2, <2>3, <2>4, ClosedSearchSafe
  <1>2. CASE edges' \subseteq edges
    BY <1>0, <1>2, FewerEdgesSafe DEF SerialAcyclic
  <1>3. CASE UNCHANGED graphVars
    BY <1>2, <1>3 DEF graphVars
  <1> QED
    BY <1>1, <1>2, <1>3
       DEF GraphNext, Step, AddDependency, Pop, CycleFound, NotFound, RemoveDependency

\* With one add at a time the graph is acyclic for ever, whatever is removed
\* during the searches: a finished search is a set closed under the edges.
THEOREM AcyclicForever == GraphSpec => []SerialAcyclic
  <1>1. GraphInit => SearchInv /\ SerialAcyclic
    BY DEF GraphInit, SearchInv, SerialAcyclic, Acyclic
  <1> QED
    BY <1>1, GraphTypeCorrect, StepSearch, StepAcyclic, PTL DEF GraphSpec

-----------------------------------------------------------------------------
(* The search refuses only cycles *)

\* If every closed set with b in it also has a in it, then b leads back to a: the
\* nodes outside the largest closed set without a form a cycle with the edge (a, b).
LEMMA ReachedMakesCycle ==
    ASSUME NEW a \in Nodes, NEW b \in Nodes,
           \A C \in SUBSET Nodes : b \in C /\ Closed(C) => a \in C
    PROVE  \E S \in SUBSET Nodes : HasCycle(S, edges \cup {<<a, b>>})
  <1> DEFINE Away == {n \in Nodes : \E C \in SUBSET Nodes : n \in C /\ Closed(C) /\ a \notin C}
             S == Nodes \ Away
  <1>1. Closed(Away) /\ a \notin Away
    BY DEF Closed, Deps
  <1>2. a \in S /\ b \in S
    OBVIOUS
  <1>3. ASSUME NEW n \in S, n # a PROVE \E m \in S : <<n, m>> \in edges
    <2> SUFFICES ASSUME \A m \in S : <<n, m>> \notin edges PROVE FALSE
      OBVIOUS
    <2>1. Deps(n) \subseteq Away
      BY DEF Deps
    <2>2. Closed(Away \cup {n})
      BY <1>1, <2>1 DEF Closed
    <2>3. a \notin Away \cup {n} /\ Away \cup {n} \in SUBSET Nodes
      BY <1>1, <1>3
    <2>4. n \in Away
      BY <1>3, <2>2, <2>3
    <2> QED
      BY <1>3, <2>4
  <1>4. HasCycle(S, edges \cup {<<a, b>>})
    <2>1. ASSUME NEW n \in S PROVE \E m \in S : <<n, m>> \in edges \cup {<<a, b>>}
      BY <1>2, <1>3
    <2> QED
      BY <1>2, <2>1 DEF HasCycle
  <1> QED
    BY <1>4

\* Whatever is pushed on the stack is reached from the target; with more edges it still is.
LEMMA StepReached ==
    GraphTypeOK /\ Reached /\ [GraphNext /\ edges \subseteq edges']_graphVars => Reached'
  <1> SUFFICES ASSUME GraphTypeOK, Reached, [GraphNext /\ edges \subseteq edges']_graphVars,
                      NEW q \in Requests, pc'[q] = "search",
                      NEW C \in SUBSET Nodes, to'[q] \in C, Closed(C)'
               PROVE  stack'[q] \subseteq C
    BY DEF Reached
  <1> USE DEF GraphTypeOK
  <1>1. Closed(C)
    <2>1. edges \subseteq edges'
      BY DEF graphVars
    <2> QED
      BY <2>1 DEF Closed, Deps
  <1>2. ASSUME pc[q] = "search", to'[q] = to[q] PROVE stack[q] \subseteq C
    BY <1>1, <1>2 DEF Reached
  <1>3. ASSUME NEW r \in Requests, NEW a \in Nodes, NEW b \in Nodes, AddDependency(r, a, b)
        PROVE  stack'[q] \subseteq C
    BY <1>2, <1>3 DEF AddDependency
  <1>4. ASSUME NEW r \in Requests, NEW n \in Nodes, Pop(r, n) PROVE stack'[q] \subseteq C
    <2>1. pc[q] = "search" /\ to'[q] = to[q]
      BY <1>4 DEF Pop
    <2>2. CASE q # r
      BY <1>2, <1>4, <2>1, <2>2 DEF Pop
    <2>3. CASE q = r
      <3>1. n \in C /\ Deps(n) \subseteq C
        BY <1>1, <1>2, <1>4, <2>1, <2>3 DEF Pop, Closed
      <3>2. stack'[q] \subseteq stack[q] \cup Deps(n)
        BY <1>4, <2>3 DEF Pop
      <3> QED
        BY <1>2, <2>1, <3>1, <3>2
    <2> QED
      BY <2>2, <2>3
  <1>5. ASSUME NEW r \in Requests, Respond(r) PROVE stack'[q] \subseteq C
    BY <1>2, <1>5 DEF Respond
  <1>6. ASSUME NEW r \in Requests, NotFound(r) PROVE stack'[q] \subseteq C
    BY <1>2, <1>6 DEF NotFound, search
  <1>7. CASE UNCHANGED <<pc, search>>
    BY <1>2, <1>7 DEF search
  <1> QED
    BY <1>3, <1>4, <1>5, <1>6, <1>7
       DEF GraphNext, Step, CycleFound, InsertEdge, RemoveDependency, graphVars

\* While dependencies are only added, only an edge that closes a cycle is refused,
\* also when other adds have put edges in the middle of the search.
THEOREM RefusalsRight == GrowSpec => OnlyCyclesRefused
  <1>1. GraphInit => Reached
    BY DEF GraphInit, Reached
  <1>2. [GraphNext /\ edges \subseteq edges']_graphVars => [GraphNext]_graphVars
    OBVIOUS
  <1>3. GrowSpec => GraphSpec
    BY <1>2, PTL DEF GrowSpec, GraphSpec
  <1>4. GraphTypeOK /\ ProjectInv /\ Reached =>
          [\A r \in Requests : CycleFound(r) =>
             \E S \in SUBSET Nodes : HasCycle(S, edges \cup {<<from[r], to[r]>>})]_graphVars
    <2> SUFFICES ASSUME ProjectInv, Reached, NEW r \in Requests, CycleFound(r)
                 PROVE  \E S \in SUBSET Nodes : HasCycle(S, edges \cup {<<from[r], to[r]>>})
      OBVIOUS
    <2>1. pc[r] = "search" /\ from[r] \in stack[r]
      BY DEF CycleFound
    <2>2. from[r] \in Nodes /\ to[r] \in Nodes
      BY <2>1 DEF ProjectInv
    <2>3. \A C \in SUBSET Nodes : to[r] \in C /\ Closed(C) => from[r] \in C
      BY <2>1 DEF Reached
    <2> QED
      BY <2>2, <2>3, ReachedMakesCycle
  <1> QED
    BY <1>1, <1>3, <1>4, TypeAndProject, StepReached, PTL DEF GrowSpec, OnlyCyclesRefused
==============================================================================
