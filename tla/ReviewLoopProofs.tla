-------------------------- MODULE ReviewLoopProofs --------------------------
(***************************************************************************)
(* Proofs about ReviewLoop, for any number of workers, head commits,       *)
(* turns and sessions.                                                     *)
(***************************************************************************)
EXTENDS ReviewLoop, FiniteSetTheorems, TLAPS

LEMMA TurnsType == Turns \subseteq Nat \ {0} /\ 1 \in Turns
  BY MaxTurnsAssumption DEF Turns

LEMMA RowsFinite == IsFiniteSet(Rows)
<1>1. IsFiniteSet(Turns)
  BY MaxTurnsAssumption, FS_Interval DEF Turns
<1> QED
  BY <1>1, HeadsAssumption, FS_Product DEF Rows

LEMMA PriorType == Prior \in Nat /\ IsFiniteSet(PostedSessions)
<1> DEFINE marked == {q \in Rows : posted[q]}
           number == [r \in marked |-> session[r]]
<1>1. IsFiniteSet(marked)
  BY RowsFinite, FS_Subset
<1>2. number \in Surjection(marked, PostedSessions)
  BY DEF Surjection, PostedSessions
<1>3. IsFiniteSet(PostedSessions)
  <2> HIDE DEF marked, number
  <2> QED
    BY <1>1, <1>2, FS_Surjection
<1> QED
  BY <1>3, FS_CardinalityType DEF Prior

RunType ==
    /\ pc \in [Workers -> {"idle", "cap", "turns", "claim", "reset", "review",
                           "unposted", "complete", "mark", "record", "end", "alert"}]
    /\ sess \in [Workers -> Nat \ {0}]
    /\ row \in [Workers -> Rows \cup {NoRow}]
    /\ \A w \in Workers : pc[w] # "idle" => row[w] \in Rows
    /\ used \in [Workers -> 0..MaxTurns]
    /\ agree \in [Workers -> BOOLEAN]
    /\ retryable \in [Workers -> BOOLEAN]
    /\ timedOut \in [Workers -> BOOLEAN]

LEMMA ReturnType == ASSUME TypeOK, NEW w \in Workers, Return(w) PROVE RunType'
  BY MaxTurnsAssumption DEF TypeOK, RunType, Return, Goto

LEMMA RowParts ==
  ASSUME TypeOK, NEW w \in Workers, pc[w] # "idle"
  PROVE  /\ Head(w) \in Heads /\ Turn(w) \in Turns
         /\ row[w] = <<Head(w), Turn(w)>> /\ row[w] \in Rows
  BY DEF TypeOK, Rows, Head, Turn

LEMMA NextTurnType ==
  ASSUME TypeOK, NEW w \in Workers, pc[w] # "idle", NextTurn(w)
  PROVE  /\ pc' = [pc EXCEPT ![w] = "claim"] \/ pc' = [pc EXCEPT ![w] = "end"]
         /\ row' \in [Workers -> Rows \cup {NoRow}]
         /\ row'[w] \in Rows /\ Head(w)' = Head(w)
         /\ \A v \in Workers : v # w => row'[v] = row[v]
<1>1. CASE Turn(w) < codexMaxTurns
  <2>1. <<Head(w), Turn(w) + 1>> \in Rows
    BY <1>1, RowParts, MaxTurnsAssumption DEF TypeOK, Rows, Turns
  <2> QED
    BY <1>1, <2>1 DEF TypeOK, NextTurn, Goto, Head
<1>2. CASE ~(Turn(w) < codexMaxTurns)
  BY <1>2, RowParts DEF TypeOK, NextTurn, Goto, Head
<1> QED
  BY <1>1, <1>2

LEMMA TypeInit == Init => TypeOK
  BY MaxTurnsAssumption DEF Init, TypeOK, Statuses, Turns

LEMMA TypeStep == TypeOK /\ [Next]_vars => TypeOK'
<1> SUFFICES ASSUME TypeOK, [Next]_vars PROVE TypeOK'
  OBVIOUS
<1> USE DEF settings, table, world
<1>1. ASSUME NEW w \in Workers, NEW h \in Heads, Deliver(w, h) PROVE TypeOK'
  <2>1. <<h, 1>> \in Rows
    BY TurnsType DEF Rows
  <2> QED
    BY <1>1, <2>1, PriorType DEF TypeOK, Deliver, Goto
<1>2. ASSUME NEW w \in Workers, CheckCap(w) PROVE TypeOK'
  <2>1. RunType'
    BY <1>2, ReturnType DEF TypeOK, RunType, CheckCap, Goto
  <2> QED
    BY <1>2, <2>1 DEF TypeOK, RunType, CheckCap
<1>3. ASSUME NEW w \in Workers, ReadTurns(w) PROVE TypeOK'
  <2>1. ASSUME NEW t \in 1..codexMaxTurns PROVE <<Head(w), t>> \in Rows
    <3>1. Head(w) \in Heads
      BY <1>3, RowParts DEF ReadTurns
    <3>2. t \in Turns
      BY MaxTurnsAssumption DEF TypeOK, Turns
    <3> QED
      BY <3>1, <3>2 DEF Rows
  <2>2. ASSUME Return(w) PROVE RunType'
    BY <2>2, ReturnType
  <2>3. ASSUME NEW t \in 1..codexMaxTurns,
               Goto(w, "claim"), row' = [row EXCEPT ![w] = <<Head(w), t>>],
               UNCHANGED <<sess, used, agree, retryable, timedOut>>
        PROVE  RunType'
    <3>1. PICK r \in Rows : row' = [row EXCEPT ![w] = r]
      BY <2>1, <2>3
    <3>2. pc' = [pc EXCEPT ![w] = "claim"] /\ UNCHANGED <<sess, used, agree, retryable, timedOut>>
      BY <2>3 DEF Goto
    <3> QED
      BY <3>1, <3>2 DEF TypeOK, RunType
  <2>4. RunType' /\ UNCHANGED <<settings, table, world>>
    BY <1>3, <2>2, <2>3 DEF ReadTurns
  <2> QED
    BY <2>4 DEF TypeOK, RunType
<1>4. ASSUME NEW w \in Workers, ClaimTurn(w) PROVE TypeOK'
  BY <1>4 DEF TypeOK, ClaimTurn, Goto, Statuses
<1>5. ASSUME NEW w \in Workers, ResetToRunning(w) PROVE TypeOK'
  <2>1. row[w] \in Rows /\ sess[w] \in Nat
    BY <1>5 DEF TypeOK, ResetToRunning
  <2>2. /\ status' \in [Rows -> Statuses] /\ consensus' \in [Rows -> BOOLEAN]
        /\ session' \in [Rows -> Nat] /\ outcome' \in [Rows -> {"none", "db_error"}]
    BY <1>5, <2>1 DEF TypeOK, ResetToRunning, Statuses
  <2>3. pc' \in [Workers -> {"idle", "cap", "turns", "claim", "reset", "review",
                            "unposted", "complete", "mark", "record", "end", "alert"}]
    BY <1>5 DEF TypeOK, ResetToRunning, Goto
  <2>4. \A v \in Workers : pc'[v] # "idle" => row[v] \in Rows
    BY <1>5, <2>1 DEF TypeOK, ResetToRunning, Goto
  <2>5. UNCHANGED <<settings, posted, world, sess, row, used, agree, retryable, timedOut>>
    BY <1>5 DEF ResetToRunning
  <2> QED
    BY <2>2, <2>3, <2>4, <2>5 DEF TypeOK
<1>6. ASSUME NEW w \in Workers, NEW late \in BOOLEAN, NoResult(w, late) PROVE TypeOK'
  <2>1. status' \in [Rows -> Statuses] /\ consensus' \in [Rows -> BOOLEAN]
    BY <1>6 DEF TypeOK, NoResult, Statuses
  <2>2. used' \in [Workers -> 0..MaxTurns]
    BY <1>6, RowParts DEF TypeOK, NoResult, Turns
  <2>3. retryable' \in [Workers -> BOOLEAN] /\ timedOut' \in [Workers -> BOOLEAN]
    BY <1>6 DEF TypeOK, NoResult
  <2>4. /\ pc' \in [Workers -> {"idle", "cap", "turns", "claim", "reset", "review",
                           "unposted", "complete", "mark", "record", "end", "alert"}]
        /\ row' \in [Workers -> Rows \cup {NoRow}]
        /\ \A v \in Workers : pc'[v] # "idle" => row'[v] \in Rows
    BY <1>6, NextTurnType DEF TypeOK, NoResult
  <2> QED
    BY <1>6, <2>1, <2>2, <2>3, <2>4 DEF TypeOK, NoResult
<1>7. ASSUME NEW w \in Workers, NEW agreed \in BOOLEAN, NEW pass \in BOOLEAN,
             PostReview(w, agreed, pass)
      PROVE  TypeOK'
  <2>1. github' \in [Heads -> {"none", "pass", "other"}]
    BY <1>7 DEF TypeOK, PostReview
  <2>2. acked' \in [Rows -> Nat]
    BY <1>7 DEF TypeOK, PostReview
  <2>3. agree' \in [Workers -> BOOLEAN] /\ timedOut' \in [Workers -> BOOLEAN]
    BY <1>7 DEF TypeOK, PostReview
  <2> QED
    BY <1>7, <2>1, <2>2, <2>3 DEF TypeOK, PostReview, Goto
<1>8. ASSUME NEW w \in Workers, NEW shown \in {"none", "pass", "other"}, PostFailed(w, shown)
      PROVE  TypeOK'
  BY <1>8 DEF TypeOK, PostFailed, Goto
<1>9. ASSUME NEW w \in Workers, FailTurn(w) PROVE TypeOK'
  <2>1. used' \in [Workers -> 0..MaxTurns]
    BY <1>9, RowParts DEF TypeOK, FailTurn, Turns
  <2> QED
    BY <1>9, <2>1 DEF TypeOK, FailTurn, Goto, Statuses
<1>10. ASSUME NEW w \in Workers, CompleteTurn(w) PROVE TypeOK'
  BY <1>10 DEF TypeOK, CompleteTurn, Goto, Statuses
<1>11. ASSUME NEW w \in Workers, MarkPosted(w) PROVE TypeOK'
  BY <1>11 DEF TypeOK, MarkPosted, Goto
<1>12. ASSUME NEW w \in Workers, NEW dbError \in BOOLEAN, RecordFindings(w, dbError)
       PROVE  TypeOK'
  <2>1. outcome' \in [Rows -> {"none", "db_error"}]
    BY <1>12 DEF TypeOK, RecordFindings
  <2>2. used' \in [Workers -> 0..MaxTurns]
    BY <1>12, RowParts DEF TypeOK, RecordFindings, Turns
  <2>3. /\ pc' \in [Workers -> {"idle", "cap", "turns", "claim", "reset", "review",
                           "unposted", "complete", "mark", "record", "end", "alert"}]
        /\ row' \in [Workers -> Rows \cup {NoRow}]
        /\ \A v \in Workers : pc'[v] # "idle" => row'[v] \in Rows
    BY <1>12, NextTurnType DEF TypeOK, RecordFindings, Goto
  <2> QED
    BY <1>12, <2>1, <2>2, <2>3 DEF TypeOK, RecordFindings
<1>13. ASSUME NEW w \in Workers, EndStage(w) PROVE TypeOK'
  <2>1. RunType'
    BY <1>13, ReturnType DEF TypeOK, RunType, EndStage, Goto
  <2>2. ci' \in [Heads -> Nat]
    BY <1>13 DEF TypeOK, EndStage
  <2> QED
    BY <1>13, <2>1, <2>2 DEF TypeOK, RunType, EndStage
<1>14. ASSUME NEW w \in Workers, Alert(w) PROVE TypeOK'
  <2>1. RunType'
    BY <1>14, ReturnType DEF Alert
  <2>2. alerted' \in SUBSET Heads
    BY <1>14, RowParts DEF TypeOK, Alert
  <2> QED
    BY <1>14, <2>1, <2>2 DEF TypeOK, RunType, Alert
<1>15. ASSUME NEW w \in Workers, Crash(w) PROVE TypeOK'
  <2>1. RunType'
    BY <1>15, ReturnType DEF Crash
  <2> QED
    BY <1>15, <2>1 DEF TypeOK, RunType, Crash
<1>16. CASE UNCHANGED vars
  BY <1>16 DEF TypeOK, vars, run
<1> QED
  BY <1>1, <1>2, <1>3, <1>4, <1>5, <1>6, <1>7, <1>8, <1>9, <1>10, <1>11, <1>12, <1>13,
     <1>14, <1>15, <1>16 DEF Next, Step

\* pr_review_turns and the runs of the workers keep their types.
THEOREM TypeCorrect == Spec => []TypeOK
  BY TypeInit, TypeStep, PTL DEF Spec

-----------------------------------------------------------------------------
(* One reviewer and one confirmed review per turn.                          *)

\* Whoever owns a turn has its row running, knows whether GitHub has confirmed its
\* review, and no confirmed turn is open to a claim or a retry.
TurnInv ==
    /\ OneReviewerPerTurn
    /\ \A r \in Rows : acked[r] <= 1 /\ (acked[r] = 1 => status[r] \in {"running", "completed"})
    /\ \A w \in Workers : pc[w] \in {"review", "unposted"} => acked[row[w]] = 0
    /\ \A w \in Workers : pc[w] = "complete" => acked[row[w]] = 1
    /\ \A r \in Rows : consensus[r] => status[r] = "completed" /\ acked[r] = 1

LEMMA TurnInit == Init => TurnInv
  BY DEF Init, TurnInv, OneReviewerPerTurn, Owns

\* A step that neither writes the columns nor takes a turn.
LEMMA TurnQuiet ==
  ASSUME TurnInv, status' = status, consensus' = consensus, acked' = acked,
         \A v \in Workers : Owns(v)' => pc'[v] = pc[v] /\ row'[v] = row[v]
  PROVE  TurnInv'
  BY DEF TurnInv, OneReviewerPerTurn, Owns

\* A worker takes the free turn it is at.
LEMMA TurnTaken ==
  ASSUME TypeOK, TurnInv, NEW w \in Workers, pc[w] \in {"claim", "reset"},
         status[row[w]] \in {"none", "failed"},
         status' = [status EXCEPT ![row[w]] = "running"],
         consensus' = [consensus EXCEPT ![row[w]] = FALSE],
         acked' = acked, pc' = [pc EXCEPT ![w] = "review"], row' = row
  PROVE  TurnInv'
<1>1. row[w] \in Rows /\ acked[row[w]] = 0
  <2>1. row[w] \in Rows /\ acked[row[w]] \in Nat
    BY DEF TypeOK
  <2>2. acked[row[w]] <= 1 /\ acked[row[w]] # 1
    BY <2>1 DEF TurnInv
  <2> QED
    BY <2>1, <2>2
<1>2. \A v \in Workers : Owns(v) => row[v] # row[w] /\ v # w
  BY DEF TurnInv, OneReviewerPerTurn, Owns
<1>3. \A v \in Workers : Owns(v)' => Owns(v) \/ v = w
  BY DEF TypeOK, Owns
<1>4. \A v \in Workers : v # w => pc'[v] = pc[v]
  BY DEF TypeOK
<1>5. pc'[w] = "review" /\ status'[row[w]] = "running"
  BY <1>1 DEF TypeOK
<1>6. OneReviewerPerTurn'
  BY <1>1, <1>2, <1>3, <1>5 DEF TypeOK, TurnInv, OneReviewerPerTurn
<1>7. \A r \in Rows : /\ status'[r] = IF r = row[w] THEN "running" ELSE status[r]
                      /\ consensus'[r] = IF r = row[w] THEN FALSE ELSE consensus[r]
  BY <1>1 DEF TypeOK
<1>8. \A v \in Workers : pc[v] # "idle" => row[v] \in Rows
  BY DEF TypeOK
<1> QED
  BY <1>1, <1>4, <1>5, <1>6, <1>7, <1>8 DEF TurnInv

\* The owner of a turn gives it up, with the row as it leaves it.
LEMMA TurnGiven ==
  ASSUME TypeOK, TurnInv, NEW w \in Workers, Owns(w), NEW st \in Statuses,
         status' = [status EXCEPT ![row[w]] = st],
         \A r \in Rows : r # row[w] => consensus'[r] = consensus[r],
         acked' = acked, ~Owns(w)',
         \A v \in Workers : v # w => pc'[v] = pc[v] /\ row'[v] = row[v],
         \/ st = "completed" /\ acked[row[w]] = 1
         \/ acked[row[w]] = 0 /\ ~consensus'[row[w]]
  PROVE  TurnInv'
<1>1. row[w] \in Rows
  BY DEF TypeOK, Owns
<1>2. \A v \in Workers : Owns(v)' => Owns(v) /\ row[v] # row[w] /\ v # w
  BY DEF TurnInv, OneReviewerPerTurn, Owns
<1>3. OneReviewerPerTurn'
  BY <1>1, <1>2 DEF TypeOK, TurnInv, OneReviewerPerTurn, Owns
<1>4. \A r \in Rows : acked'[r] <= 1 /\ (acked'[r] = 1 => status'[r] \in {"running", "completed"})
  BY <1>1 DEF TypeOK, TurnInv
<1>5. \A v \in Workers : pc'[v] \in {"review", "unposted"} => acked'[row'[v]] = 0
  BY DEF TurnInv, Owns
<1>6. \A v \in Workers : pc'[v] = "complete" => acked'[row'[v]] = 1
  BY DEF TurnInv, Owns
<1>7. \A r \in Rows : consensus'[r] => status'[r] = "completed" /\ acked'[r] = 1
  BY <1>1 DEF TypeOK, TurnInv
<1> QED
  BY <1>3, <1>4, <1>5, <1>6, <1>7 DEF TurnInv

LEMMA TurnStep == TypeOK /\ TurnInv /\ [Next]_vars => TurnInv'
<1> SUFFICES ASSUME TypeOK, TurnInv, [Next]_vars PROVE TurnInv'
  OBVIOUS
<1> USE DEF settings, table, world
<1>1. ASSUME NEW w \in Workers, NEW h \in Heads, Deliver(w, h) PROVE TurnInv'
  BY <1>1, TurnQuiet DEF TypeOK, Deliver, Goto, Owns
<1>2. ASSUME NEW w \in Workers, CheckCap(w) PROVE TurnInv'
  BY <1>2, TurnQuiet DEF TypeOK, CheckCap, Return, Goto, Owns
<1>3. ASSUME NEW w \in Workers, ReadTurns(w) PROVE TurnInv'
  BY <1>3, TurnQuiet DEF TypeOK, ReadTurns, Return, Goto, Owns
<1>4. ASSUME NEW w \in Workers, ClaimTurn(w) PROVE TurnInv'
  <2>1. CASE ~Exists(row[w])
    <3>1. consensus' = [consensus EXCEPT ![row[w]] = FALSE]
      BY <1>4, <2>1 DEF TypeOK, TurnInv, ClaimTurn, Exists
    <3> QED
      BY <1>4, <2>1, <3>1, TurnTaken DEF ClaimTurn, Goto, Exists
  <2>2. CASE Exists(row[w])
    BY <1>4, <2>2, TurnQuiet DEF TypeOK, ClaimTurn, Goto, Owns
  <2> QED
    BY <2>1, <2>2
<1>5. ASSUME NEW w \in Workers, ResetToRunning(w) PROVE TurnInv'
  <2>1. CASE status[row[w]] = "failed"
    BY <1>5, <2>1, TurnTaken DEF ResetToRunning, Goto
  <2>2. CASE status[row[w]] # "failed"
    BY <1>5, <2>2, TurnQuiet DEF TypeOK, ResetToRunning, Goto, Owns
  <2> QED
    BY <2>1, <2>2
<1>6. ASSUME NEW w \in Workers, NEW late \in BOOLEAN, NoResult(w, late) PROVE TurnInv'
  <2>1. /\ ~Owns(w)' /\ Owns(w) /\ acked[row[w]] = 0
        /\ \A v \in Workers : v # w => pc'[v] = pc[v] /\ row'[v] = row[v]
    BY <1>6, NextTurnType DEF TypeOK, TurnInv, NoResult, Owns
  <2>2. (IF late THEN "timed_out" ELSE "failed") \in Statuses
    BY DEF Statuses
  <2>3. ~consensus'[row[w]] /\ \A r \in Rows : r # row[w] => consensus'[r] = consensus[r]
    BY <1>6 DEF TypeOK, NoResult
  <2> QED
    BY <1>6, <2>1, <2>2, <2>3, TurnGiven DEF NoResult
<1>7. ASSUME NEW w \in Workers, NEW agreed \in BOOLEAN, NEW pass \in BOOLEAN,
             PostReview(w, agreed, pass)
      PROVE  TurnInv'
  <2>1. row[w] \in Rows /\ acked[row[w]] = 0 /\ status[row[w]] = "running" /\ Owns(w)
    BY <1>7 DEF TypeOK, TurnInv, OneReviewerPerTurn, PostReview, Owns
  <2>2. acked' = [acked EXCEPT ![row[w]] = 1]
    BY <1>7, <2>1 DEF TypeOK, PostReview
  <2>3. \A v \in Workers : Owns(v) /\ v # w => row[v] # row[w]
    BY <2>1 DEF TurnInv, OneReviewerPerTurn
  <2>4. status' = status /\ consensus' = consensus /\ row' = row /\ pc' = [pc EXCEPT ![w] = "complete"]
    BY <1>7 DEF PostReview, Goto
  <2>5. OneReviewerPerTurn'
    BY <2>1, <2>4 DEF TypeOK, TurnInv, OneReviewerPerTurn, Owns
  <2>6. \A r \in Rows : acked'[r] <= 1 /\ (acked'[r] = 1 => status'[r] \in {"running", "completed"})
    BY <2>1, <2>2, <2>4 DEF TypeOK, TurnInv
  <2>7. \A v \in Workers : pc'[v] \in {"review", "unposted"} => acked'[row'[v]] = 0
    BY <2>1, <2>2, <2>3, <2>4 DEF TypeOK, TurnInv, Owns
  <2>8. \A v \in Workers : pc'[v] = "complete" => acked'[row'[v]] = 1
    BY <2>1, <2>2, <2>3, <2>4 DEF TypeOK, TurnInv, Owns
  <2>9. \A r \in Rows : consensus'[r] => status'[r] = "completed" /\ acked'[r] = 1
    BY <2>1, <2>2, <2>4 DEF TypeOK, TurnInv
  <2> QED
    BY <2>5, <2>6, <2>7, <2>8, <2>9 DEF TurnInv
<1>8. ASSUME NEW w \in Workers, NEW shown \in {"none", "pass", "other"}, PostFailed(w, shown)
      PROVE  TurnInv'
  BY <1>8 DEF TypeOK, TurnInv, OneReviewerPerTurn, PostFailed, Goto, Owns
<1>9. ASSUME NEW w \in Workers, FailTurn(w) PROVE TurnInv'
  <2>1. /\ ~Owns(w)' /\ Owns(w) /\ acked[row[w]] = 0
        /\ \A v \in Workers : v # w => pc'[v] = pc[v] /\ row'[v] = row[v]
    BY <1>9 DEF TypeOK, TurnInv, FailTurn, Goto, Owns
  <2>2. ~consensus'[row[w]] /\ \A r \in Rows : r # row[w] => consensus'[r] = consensus[r]
    BY <1>9 DEF TypeOK, FailTurn
  <2> QED
    BY <1>9, <2>1, <2>2, TurnGiven DEF FailTurn, Statuses
<1>10. ASSUME NEW w \in Workers, CompleteTurn(w) PROVE TurnInv'
  <2>1. /\ ~Owns(w)' /\ Owns(w) /\ acked[row[w]] = 1
        /\ \A v \in Workers : v # w => pc'[v] = pc[v] /\ row'[v] = row[v]
    BY <1>10 DEF TypeOK, TurnInv, CompleteTurn, Goto, Owns
  <2>2. \A r \in Rows : r # row[w] => consensus'[r] = consensus[r]
    BY <1>10 DEF TypeOK, CompleteTurn
  <2> QED
    BY <1>10, <2>1, <2>2, TurnGiven DEF CompleteTurn, Statuses
<1>11. ASSUME NEW w \in Workers, MarkPosted(w) PROVE TurnInv'
  BY <1>11, TurnQuiet DEF TypeOK, MarkPosted, Goto, Owns
<1>12. ASSUME NEW w \in Workers, NEW dbError \in BOOLEAN, RecordFindings(w, dbError)
       PROVE  TurnInv'
  <2>1. \A v \in Workers : Owns(v)' => pc'[v] = pc[v] /\ row'[v] = row[v]
    BY <1>12, NextTurnType DEF TypeOK, RecordFindings, Goto, Owns
  <2> QED
    BY <1>12, <2>1, TurnQuiet DEF RecordFindings
<1>13. ASSUME NEW w \in Workers, EndStage(w) PROVE TurnInv'
  BY <1>13, TurnQuiet DEF TypeOK, EndStage, Return, Goto, Owns
<1>14. ASSUME NEW w \in Workers, Alert(w) PROVE TurnInv'
  BY <1>14, TurnQuiet DEF TypeOK, Alert, Return, Goto, Owns
<1>15. ASSUME NEW w \in Workers, Crash(w) PROVE TurnInv'
  BY <1>15, TurnQuiet DEF TypeOK, Crash, Return, Goto, Owns
<1>16. CASE UNCHANGED vars
  BY <1>16, TurnQuiet DEF vars, run, Owns
<1> QED
  BY <1>1, <1>2, <1>3, <1>4, <1>5, <1>6, <1>7, <1>8, <1>9, <1>10, <1>11, <1>12, <1>13,
     <1>14, <1>15, <1>16 DEF Next, Step

LEMMA TurnAlways == Spec => [](TypeOK /\ TurnInv)
  BY TypeInit, TypeStep, TurnInit, TurnStep, PTL DEF Spec

\* However deliveries, retries and crashes interleave, a turn has one reviewer at a time.
THEOREM OneReviewer == Spec => []OneReviewerPerTurn
<1>1. TurnInv => OneReviewerPerTurn
  BY DEF TurnInv
<1> QED
  BY <1>1, TurnAlways, PTL

\* No turn gets a second review that GitHub confirmed.
THEOREM PostedOnce == Spec => []ReviewPostedOnce
<1>1. TurnInv => ReviewPostedOnce
  BY DEF TurnInv, ReviewPostedOnce
<1> QED
  BY <1>1, TurnAlways, PTL

\* A "pass" badge rests on a confirmed review of that head that agreed.
THEOREM PassBacked == Spec => []PassIsBacked
<1>1. TypeOK /\ TurnInv => PassIsBacked
  <2> SUFFICES ASSUME TypeOK, TurnInv, NEW h \in Heads, Badge(h) = "pass"
               PROVE  \E t \in Turns : consensus[<<h, t>>] /\ acked[<<h, t>>] = 1
    BY DEF PassIsBacked
  <2>1. PICK r \in Current(h) : consensus[r]
    BY DEF Badge
  <2>2. r \in Rows /\ r = <<h, r[2]>> /\ r[2] \in Turns
    BY DEF Current, Rows
  <2> QED
    BY <2>1, <2>2 DEF TurnInv
<1> QED
  BY <1>1, TurnAlways, PTL

-----------------------------------------------------------------------------
(* The session numbers.                                                     *)

\* With n sessions posted, every row and every run holds a number up to n + 1, and
\* none beyond the cap has passed the check.
Numbered(n) ==
    /\ PostedSessions = 1..n
    /\ \A r \in Rows : Exists(r) => session[r] \in 1..(n + 1)
    /\ \A w \in Workers : pc[w] # "idle" => sess[w] <= n + 1

SessionInv ==
    /\ \E n \in 0..MaxSessions : Numbered(n)
    /\ \A r \in Rows : Exists(r) => session[r] <= MaxSessions
    /\ \A w \in Workers : pc[w] \notin {"idle", "cap"} => sess[w] <= MaxSessions
    /\ \A w \in Workers : pc[w] = "mark" => Exists(row[w])
    /\ \A r \in Rows : posted[r] => Exists(r)

LEMMA PriorIs == ASSUME NEW n \in Nat, PostedSessions = 1..n PROVE Prior = n
  BY FS_Interval, 1 \in Int, n \in Int DEF Prior

LEMMA SessionInit == Init => SessionInv
<1> SUFFICES ASSUME Init PROVE SessionInv
  OBVIOUS
<1>1. PostedSessions = 1..0
  BY DEF Init, PostedSessions
<1>2. \A r \in Rows : ~Exists(r)
  BY DEF Init, Exists
<1>3. Numbered(0)
  BY <1>1, <1>2 DEF Init, Numbered
<1> QED
  BY <1>2, <1>3, MaxSessionsAssumption DEF Init, SessionInv

\* A step that starts no run, makes no row and posts nothing.
LEMMA SessionQuiet ==
  ASSUME TypeOK, SessionInv, posted' = posted, session' = session,
         \A r \in Rows : Exists(r)' <=> Exists(r),
         \A v \in Workers : pc'[v] # "idle" => pc[v] # "idle" /\ sess'[v] = sess[v],
         \A v \in Workers : pc'[v] \notin {"idle", "cap"} => sess'[v] <= MaxSessions,
         \A v \in Workers : pc'[v] = "mark" => Exists(row[v])'
  PROVE  SessionInv'
<1>1. PICK n \in 0..MaxSessions : Numbered(n)
  BY DEF SessionInv
<1>2. PostedSessions' = PostedSessions
  BY DEF PostedSessions
<1>3. Numbered(n)'
  BY <1>1, <1>2 DEF Numbered
<1> QED
  BY <1>3 DEF SessionInv

\* The same for a worker that goes on within its run.
LEMMA SessionGoesOn ==
  ASSUME TypeOK, SessionInv, NEW w \in Workers, pc[w] \notin {"idle", "cap"},
         posted' = posted, session' = session, sess' = sess,
         \A r \in Rows : Exists(r)' <=> Exists(r),
         \A v \in Workers : v # w => pc'[v] = pc[v] /\ row'[v] = row[v],
         pc'[w] = "mark" => Exists(row[w])'
  PROVE  SessionInv'
<1>1. \A v \in Workers : pc'[v] = "mark" => Exists(row[v])'
  BY DEF TypeOK, SessionInv, Exists
<1>2. \A v \in Workers : pc'[v] # "idle" => pc[v] # "idle" /\ sess'[v] = sess[v]
  OBVIOUS
<1>3. \A v \in Workers : pc'[v] \notin {"idle", "cap"} => sess'[v] <= MaxSessions
  BY DEF SessionInv
<1> QED
  BY <1>1, <1>2, <1>3, SessionQuiet

\* The same for a worker that returns.
LEMMA SessionReturn ==
  ASSUME TypeOK, SessionInv, NEW w \in Workers, Return(w), UNCHANGED table
  PROVE  SessionInv'
<1>1. pc'[w] = "idle" /\ \A v \in Workers : v # w => pc'[v] = pc[v] /\ row'[v] = row[v] /\ sess'[v] = sess[v]
  BY DEF TypeOK, Return, Goto
<1>2. \A v \in Workers : pc'[v] = "mark" => Exists(row[v])'
  BY <1>1 DEF SessionInv, Exists, table
<1>3. \A v \in Workers : pc'[v] # "idle" => pc[v] # "idle" /\ sess'[v] = sess[v]
  BY <1>1
<1>4. \A v \in Workers : pc'[v] \notin {"idle", "cap"} => sess'[v] <= MaxSessions
  BY <1>1 DEF SessionInv
<1> QED
  BY <1>2, <1>3, <1>4, SessionQuiet DEF Exists, table

LEMMA SessionStep == TypeOK /\ TurnInv /\ SessionInv /\ [Next]_vars => SessionInv'
<1> SUFFICES ASSUME TypeOK, TurnInv, SessionInv, [Next]_vars PROVE SessionInv'
  OBVIOUS
<1> USE DEF settings, world
<1>1. ASSUME NEW w \in Workers, NEW h \in Heads, Deliver(w, h) PROVE SessionInv'
  <2>1. PICK n \in 0..MaxSessions : Numbered(n)
    BY DEF SessionInv
  <2>2. n \in Nat /\ Prior = n
    BY <2>1, PriorIs, MaxSessionsAssumption DEF Numbered
  <2>3. PostedSessions' = PostedSessions
    BY <1>1 DEF Deliver, PostedSessions, table
  <2>4. /\ sess'[w] = n + 1 /\ pc'[w] = "cap"
        /\ \A v \in Workers : v # w => sess'[v] = sess[v] /\ pc'[v] = pc[v] /\ row'[v] = row[v]
    BY <1>1, <2>2 DEF TypeOK, Deliver, Goto
  <2>5. Numbered(n)'
    BY <1>1, <2>1, <2>2, <2>3, <2>4 DEF Deliver, Numbered, Exists, table
  <2> QED
    BY <1>1, <2>4, <2>5 DEF Deliver, SessionInv, Exists, table
<1>2. ASSUME NEW w \in Workers, CheckCap(w) PROVE SessionInv'
  <2>1. CASE Return(w)
    BY <1>2, <2>1, SessionReturn DEF CheckCap
  <2>2. CASE ~SkipForCap(w) /\ Goto(w, "turns") /\ UNCHANGED <<sess, row, used, agree, retryable, timedOut>>
    <3>1. sess[w] <= MaxSessions
      BY <2>2, MaxSessionsAssumption DEF TypeOK, SkipForCap
    <3>2. /\ pc[w] = "cap" /\ pc'[w] = "turns" /\ row' = row
          /\ \A v \in Workers : v # w => pc'[v] = pc[v]
      BY <1>2, <2>2 DEF TypeOK, CheckCap, Goto
    <3>3. \A v \in Workers : pc'[v] \notin {"idle", "cap"} => sess'[v] <= MaxSessions
      BY <2>2, <3>1, <3>2 DEF SessionInv
    <3>4. \A v \in Workers : pc'[v] = "mark" => Exists(row[v])'
      BY <1>2, <3>2 DEF CheckCap, SessionInv, Exists, table
    <3>5. \A v \in Workers : pc'[v] # "idle" => pc[v] # "idle" /\ sess'[v] = sess[v]
      BY <2>2, <3>2
    <3> QED
      BY <1>2, <3>3, <3>4, <3>5, SessionQuiet DEF CheckCap, Exists, table
  <2> QED
    BY <1>2, <2>1, <2>2 DEF CheckCap
<1>3. ASSUME NEW w \in Workers, ReadTurns(w) PROVE SessionInv'
  <2>1. CASE Return(w)
    BY <1>3, <2>1, SessionReturn DEF ReadTurns
  <2>2. CASE ~Return(w)
    <3>1. /\ pc'[w] = "claim" /\ pc[w] = "turns" /\ sess' = sess
          /\ \A v \in Workers : v # w => pc'[v] = pc[v] /\ row'[v] = row[v]
      BY <1>3, <2>2 DEF TypeOK, ReadTurns, Goto
    <3> QED
      BY <1>3, <3>1, SessionGoesOn DEF ReadTurns, Exists, table
  <2> QED
    BY <2>1, <2>2
<1>4. ASSUME NEW w \in Workers, ClaimTurn(w) PROVE SessionInv'
  <2>1. CASE Exists(row[w])
    BY <1>4, <2>1, SessionGoesOn DEF TypeOK, ClaimTurn, Goto, Exists
  <2>2. CASE ~Exists(row[w])
    <3>1. PICK n \in 0..MaxSessions : Numbered(n)
      BY DEF SessionInv
    <3>2. n \in Nat /\ row[w] \in Rows /\ sess[w] \in 1..(n + 1) /\ sess[w] <= MaxSessions
      BY <1>4, <3>1, MaxSessionsAssumption DEF TypeOK, SessionInv, ClaimTurn, Numbered
    <3>3. /\ session' = [session EXCEPT ![row[w]] = sess[w]]
          /\ status' = [status EXCEPT ![row[w]] = "running"]
          /\ pc' = [pc EXCEPT ![w] = "review"] /\ pc[w] = "claim"
          /\ posted' = posted /\ row' = row /\ sess' = sess
      BY <1>4, <2>2 DEF ClaimTurn, Goto
    <3>4. \A r \in Rows : Exists(r)' <=> Exists(r) \/ r = row[w]
      BY <3>2, <3>3 DEF TypeOK, Exists
    <3>5. ~posted[row[w]]
      BY <2>2, <3>2 DEF SessionInv
    <3>6. PostedSessions' = PostedSessions
      BY <3>2, <3>3, <3>5 DEF TypeOK, PostedSessions
    <3>7. Numbered(n)'
      BY <3>1, <3>2, <3>3, <3>4, <3>6 DEF TypeOK, Numbered
    <3> QED
      BY <3>2, <3>3, <3>4, <3>7 DEF TypeOK, SessionInv
  <2> QED
    BY <2>1, <2>2
<1>5. ASSUME NEW w \in Workers, ResetToRunning(w) PROVE SessionInv'
  BY <1>5, SessionGoesOn DEF TypeOK, ResetToRunning, Goto, Exists
<1>6. ASSUME NEW w \in Workers, NEW late \in BOOLEAN, NoResult(w, late) PROVE SessionInv'
  <2>1. status[row[w]] = "running" /\ row[w] \in Rows
    BY <1>6 DEF TypeOK, TurnInv, OneReviewerPerTurn, NoResult, Owns
  <2>2. \A r \in Rows : Exists(r)' <=> Exists(r)
    BY <1>6, <2>1 DEF TypeOK, NoResult, Exists
  <2>3. /\ pc'[w] # "mark" /\ pc[w] = "review"
        /\ \A v \in Workers : v # w => pc'[v] = pc[v] /\ row'[v] = row[v]
    BY <1>6, NextTurnType DEF TypeOK, NoResult
  <2> QED
    BY <1>6, <2>2, <2>3, SessionGoesOn DEF NoResult
<1>7. ASSUME NEW w \in Workers, NEW agreed \in BOOLEAN, NEW pass \in BOOLEAN,
             PostReview(w, agreed, pass)
      PROVE  SessionInv'
  BY <1>7, SessionGoesOn DEF TypeOK, PostReview, Goto, Exists, table
<1>8. ASSUME NEW w \in Workers, NEW shown \in {"none", "pass", "other"}, PostFailed(w, shown)
      PROVE  SessionInv'
  BY <1>8, SessionGoesOn DEF TypeOK, PostFailed, Goto, Exists, table
<1>9. ASSUME NEW w \in Workers, FailTurn(w) PROVE SessionInv'
  <2>1. status[row[w]] = "running" /\ row[w] \in Rows
    BY <1>9 DEF TypeOK, TurnInv, OneReviewerPerTurn, FailTurn, Owns
  <2>2. \A r \in Rows : Exists(r)' <=> Exists(r)
    BY <1>9, <2>1 DEF TypeOK, FailTurn, Exists
  <2> QED
    BY <1>9, <2>2, SessionGoesOn DEF TypeOK, FailTurn, Goto
<1>10. ASSUME NEW w \in Workers, CompleteTurn(w) PROVE SessionInv'
  <2>1. status[row[w]] = "running" /\ row[w] \in Rows
    BY <1>10 DEF TypeOK, TurnInv, OneReviewerPerTurn, CompleteTurn, Owns
  <2>2. \A r \in Rows : Exists(r)' <=> Exists(r)
    BY <1>10, <2>1 DEF TypeOK, CompleteTurn, Exists
  <2>3. Exists(row[w])'
    BY <1>10, <2>1 DEF TypeOK, CompleteTurn, Exists
  <2> QED
    BY <1>10, <2>2, <2>3, SessionGoesOn DEF TypeOK, CompleteTurn, Goto
<1>11. ASSUME NEW w \in Workers, MarkPosted(w) PROVE SessionInv'
  <2>1. PICK n \in 0..MaxSessions : Numbered(n)
    BY DEF SessionInv
  <2>2. row[w] \in Rows /\ Exists(row[w])
    BY <1>11 DEF TypeOK, SessionInv, MarkPosted
  <2>3. n \in Nat /\ session[row[w]] \in 1..(n + 1) /\ session[row[w]] <= MaxSessions
    BY <2>1, <2>2, MaxSessionsAssumption DEF SessionInv, Numbered
  <2>4. /\ posted' = [posted EXCEPT ![row[w]] = TRUE] /\ session' = session /\ status' = status
        /\ sess' = sess /\ row' = row /\ pc' = [pc EXCEPT ![w] = "record"] /\ pc[w] = "mark"
    BY <1>11 DEF MarkPosted, Goto
  <2>5. PostedSessions' = PostedSessions \cup {session[row[w]]}
    BY <2>2, <2>4 DEF TypeOK, PostedSessions
  <2>6. \A r \in Rows : Exists(r)' <=> Exists(r)
    BY <2>4 DEF Exists
  <2>7. \E m \in 0..MaxSessions : Numbered(m)'
    <3>1. CASE session[row[w]] <= n
      <4>1. PostedSessions' = 1..n
        BY <2>1, <2>3, <2>5, <3>1 DEF Numbered
      <4>2. Numbered(n)'
        BY <2>1, <2>4, <2>6, <4>1 DEF TypeOK, Numbered
      <4> QED
        BY <4>2
    <3>2. CASE session[row[w]] = n + 1
      <4>1. PostedSessions' = 1..(n + 1)
        BY <2>1, <2>3, <2>5, <3>2 DEF Numbered
      <4>2. \A r \in Rows : Exists(r)' => session'[r] \in 1..((n + 1) + 1)
        BY <2>1, <2>3, <2>4, <2>6 DEF TypeOK, Numbered
      <4>3. \A v \in Workers : pc'[v] # "idle" => sess'[v] <= (n + 1) + 1
        BY <2>1, <2>3, <2>4 DEF TypeOK, Numbered
      <4>4. Numbered(n + 1)'
        BY <4>1, <4>2, <4>3 DEF Numbered
      <4>5. n + 1 \in 0..MaxSessions
        BY <2>3, <3>2, MaxSessionsAssumption
      <4> QED
        BY <4>4, <4>5
    <3> QED
      BY <2>3, <3>1, <3>2
  <2> QED
    BY <2>2, <2>4, <2>6, <2>7 DEF TypeOK, SessionInv
<1>12. ASSUME NEW w \in Workers, NEW dbError \in BOOLEAN, RecordFindings(w, dbError)
       PROVE  SessionInv'
  <2>1. /\ pc'[w] # "mark" /\ pc[w] = "record"
        /\ \A v \in Workers : v # w => pc'[v] = pc[v] /\ row'[v] = row[v]
    BY <1>12, NextTurnType DEF TypeOK, RecordFindings, Goto
  <2> QED
    BY <1>12, <2>1, SessionGoesOn DEF RecordFindings, Exists
<1>13. ASSUME NEW w \in Workers, EndStage(w) PROVE SessionInv'
  <2>1. CASE timedOut[w]
    BY <1>13, <2>1, SessionGoesOn DEF TypeOK, EndStage, Goto, Exists, table
  <2>2. CASE ~timedOut[w]
    BY <1>13, <2>2, SessionReturn DEF EndStage
  <2> QED
    BY <2>1, <2>2
<1>14. ASSUME NEW w \in Workers, Alert(w) PROVE SessionInv'
  BY <1>14, SessionReturn DEF Alert
<1>15. ASSUME NEW w \in Workers, Crash(w) PROVE SessionInv'
  BY <1>15, SessionReturn DEF Crash
<1>16. CASE UNCHANGED vars
  BY <1>16 DEF vars, run, table, SessionInv, Numbered, PostedSessions, Exists
<1> QED
  BY <1>1, <1>2, <1>3, <1>4, <1>5, <1>6, <1>7, <1>8, <1>9, <1>10, <1>11, <1>12, <1>13,
     <1>14, <1>15, <1>16 DEF Next, Step

\* The sessions that count are numbered 1, 2, ... without a gap, up to the cap.
THEOREM SessionsNumbered == Spec => []SessionNumbers
<1>1. SessionInv => SessionNumbers
  <2> SUFFICES ASSUME SessionInv PROVE SessionNumbers
    OBVIOUS
  <2>1. PICK n \in 0..MaxSessions : Numbered(n)
    BY DEF SessionInv
  <2>2. n \in Nat /\ n <= MaxSessions /\ PostedSessions = 1..n
    BY <2>1, MaxSessionsAssumption DEF Numbered
  <2> QED
    BY <2>2, PriorIs DEF SessionNumbers
<1> QED
  BY <1>1, TypeInit, TypeStep, TurnInit, TurnStep, SessionInit, SessionStep, PTL DEF Spec

-----------------------------------------------------------------------------
(* CI and the timeout report, with one turn per stage.                      *)

Final == {"completed", "timed_out"}

\* A row that is completed or timed out stays so.
FinalStays == \A r \in Rows : status[r] \in Final => status'[r] = status[r]

LEMMA FinalStep == TypeOK /\ TurnInv /\ [Next]_vars => FinalStays
<1> SUFFICES ASSUME TypeOK, TurnInv, [Next]_vars PROVE FinalStays
  OBVIOUS
<1> USE DEF FinalStays, Final
<1>1. ASSUME NEW w \in Workers, Owns(w), NEW st, status' = [status EXCEPT ![row[w]] = st]
      PROVE  FinalStays
  BY <1>1 DEF TypeOK, TurnInv, OneReviewerPerTurn, Owns
<1>2. ASSUME NEW w \in Workers, ClaimTurn(w) PROVE FinalStays
  BY <1>2 DEF TypeOK, ClaimTurn, Exists
<1>3. ASSUME NEW w \in Workers, ResetToRunning(w) PROVE FinalStays
  BY <1>3 DEF TypeOK, ResetToRunning
<1>4. ASSUME NEW w \in Workers, NEW late \in BOOLEAN, NoResult(w, late) PROVE FinalStays
  BY <1>4, <1>1 DEF NoResult, Owns
<1>5. ASSUME NEW w \in Workers, FailTurn(w) PROVE FinalStays
  BY <1>5, <1>1 DEF FailTurn, Owns
<1>6. ASSUME NEW w \in Workers, CompleteTurn(w) PROVE FinalStays
  BY <1>6, <1>1 DEF CompleteTurn, Owns
<1> QED
  BY <1>2, <1>3, <1>4, <1>5, <1>6
  DEF Next, Step, Deliver, CheckCap, ReadTurns, PostReview, PostFailed, MarkPosted,
      RecordFindings, EndStage, Alert, Crash, vars, table

Early == {"idle", "cap", "turns", "claim", "reset", "review", "unposted"}

\* A worker whose run will end by dispatching CI.
Owes(w) == pc[w] \in {"mark", "record"} \/ (pc[w] = "end" /\ CiDue(w))

\* What a worker holds in each part of its run.
Local(w) ==
    /\ pc[w] # "idle" => Turn(w) = 1
    /\ pc[w] \in Early => used[w] = 0 /\ ~agree[w] /\ ~timedOut[w]
    /\ pc[w] \in {"complete", "mark", "record"} => ~timedOut[w]
    /\ pc[w] = "alert" => timedOut[w]
    /\ timedOut[w] => status[row[w]] = "timed_out"
    /\ Owes(w) => status[row[w]] \in Final /\ ci[Head(w)] = 0

\* A row has at most one worker that owes CI; CI and reports follow final rows.
OneTurnInv ==
    /\ \A w \in Workers : Local(w)
    /\ \A w, v \in Workers : Owes(w) /\ Owes(v) /\ row[w] = row[v] => w = v
    /\ \A h \in Heads : ci[h] > 0 => status[<<h, 1>>] \in Final
    /\ \A h \in alerted : status[<<h, 1>>] = "timed_out"

LEMMA OneTurnInit == Init => OneTurnInv
  BY DEF Init, OneTurnInv, Local, Owes, Early

\* The run of v is where it was.
Same(v) ==
    /\ pc'[v] = pc[v] /\ row'[v] = row[v] /\ used'[v] = used[v]
    /\ agree'[v] = agree[v] /\ retryable'[v] = retryable[v] /\ timedOut'[v] = timedOut[v]

LEMMA SameLocal ==
  ASSUME TypeOK, codexMaxTurns' = codexMaxTurns, FinalStays, NEW v \in Workers, Local(v), Same(v),
         Owes(v) => ci'[Head(v)] = ci[Head(v)]
  PROVE  Local(v)' /\ (Owes(v)' <=> Owes(v))
<1>1. Owes(v)' <=> Owes(v)
  BY DEF Same, Owes, CiDue
<1>2. Head(v)' = Head(v) /\ Turn(v)' = Turn(v)
  BY DEF Same, Head, Turn
<1>3. pc[v] # "idle" => row[v] \in Rows
  BY DEF TypeOK
<1>4. timedOut[v] => status'[row'[v]] = "timed_out"
  BY <1>3 DEF FinalStays, Final, Same, Local, Early
<1>5. Owes(v) => status'[row'[v]] \in Final
  BY <1>3 DEF FinalStays, Same, Local, Owes
<1>6. Local(v)' = (/\ pc'[v] # "idle" => Turn(v)' = 1
                   /\ pc'[v] \in Early => used'[v] = 0 /\ ~agree'[v] /\ ~timedOut'[v]
                   /\ pc'[v] \in {"complete", "mark", "record"} => ~timedOut'[v]
                   /\ pc'[v] = "alert" => timedOut'[v]
                   /\ timedOut'[v] => status'[row'[v]] = "timed_out"
                   /\ Owes(v)' => status'[row'[v]] \in Final /\ ci'[Head(v)'] = 0)
  BY DEF Local, Early, Final
<1> QED
  BY <1>1, <1>2, <1>4, <1>5, <1>6 DEF Same, Local

\* Worker w moves, CI is dispatched for nobody else, and w owes no CI that another owes.
LEMMA OneTurnMove ==
  ASSUME TypeOK, codexMaxTurns' = codexMaxTurns, FinalStays, OneTurnInv, NEW w \in Workers,
         \A v \in Workers : v # w => Same(v), ci' = ci, alerted' = alerted,
         Local(w)',
         Owes(w)' => (Owes(w) /\ row'[w] = row[w]) \/ status[row'[w]] \notin Final
  PROVE  OneTurnInv'
<1>1. \A v \in Workers : v # w => Local(v)' /\ (Owes(v)' <=> Owes(v))
  BY SameLocal DEF OneTurnInv
<1>2. \A v \in Workers : Local(v)'
  BY <1>1
<1>3. \A v \in Workers : Owes(v) => status[row[v]] \in Final
  BY DEF OneTurnInv, Local
<1>4. \A u, v \in Workers : Owes(u)' /\ Owes(v)' /\ row'[u] = row'[v] => u = v
  BY <1>1, <1>3 DEF OneTurnInv, Same
<1>5. \A h \in Heads : <<h, 1>> \in Rows
  BY TurnsType DEF Rows
<1>6. \A h \in Heads : ci'[h] > 0 => status'[<<h, 1>>] \in Final
  BY <1>5 DEF OneTurnInv, FinalStays
<1>7. \A h \in alerted' : status'[<<h, 1>>] = "timed_out"
  BY <1>5 DEF TypeOK, OneTurnInv, FinalStays, Final
<1> QED
  BY <1>2, <1>4, <1>6, <1>7 DEF OneTurnInv, Final

LEMMA ReturnMove ==
  ASSUME TypeOK, NEW w \in Workers, Return(w)
  PROVE  Local(w)' /\ ~Owes(w)' /\ \A v \in Workers : v # w => Same(v)
  BY DEF TypeOK, Return, Goto, Local, Owes, Early, Same

\* With one turn, the loop ends after it.
LEMMA NextTurnEnds ==
  ASSUME TypeOK, codexMaxTurns = 1, NEW w \in Workers, Local(w), pc[w] # "idle", NextTurn(w)
  PROVE  pc' = [pc EXCEPT ![w] = "end"] /\ row' = row
  BY DEF Local, NextTurn, Goto

LEMMA OneTurnStep == TypeOK /\ TurnInv /\ codexMaxTurns = 1 /\ OneTurnInv /\ [Next]_vars => OneTurnInv'
<1> SUFFICES ASSUME TypeOK, TurnInv, codexMaxTurns = 1, OneTurnInv, [Next]_vars PROVE OneTurnInv'
  OBVIOUS
<1> USE DEF settings, table, world
<1>a. FinalStays
  BY FinalStep
<1>b. codexMaxTurns' = codexMaxTurns
  BY DEF Next, Step, Deliver, CheckCap, ReadTurns, ClaimTurn, ResetToRunning, NoResult, PostReview,
         PostFailed, FailTurn, CompleteTurn, MarkPosted, RecordFindings, EndStage, Alert, Crash, vars
<1>c. \A w \in Workers : Local(w)
  BY DEF OneTurnInv
<1>1. ASSUME NEW w \in Workers, NEW h \in Heads, Deliver(w, h) PROVE OneTurnInv'
  <2>1. Local(w)' /\ ~Owes(w)'
    BY <1>1, <1>c DEF TypeOK, Deliver, Goto, Local, Owes, Early, Turn
  <2>2. \A v \in Workers : v # w => Same(v)
    BY <1>1 DEF TypeOK, Deliver, Goto, Same
  <2> QED
    BY <1>1, <1>a, <1>b, <2>1, <2>2, OneTurnMove DEF Deliver
<1>2. ASSUME NEW w \in Workers, CheckCap(w) PROVE OneTurnInv'
  <2>1. CASE Return(w)
    BY <1>2, <1>a, <1>b, <2>1, ReturnMove, OneTurnMove DEF CheckCap
  <2>2. CASE Goto(w, "turns") /\ UNCHANGED <<sess, row, used, agree, retryable, timedOut>>
    <3>1. Local(w)' /\ ~Owes(w)'
      BY <1>2, <1>c, <2>2 DEF TypeOK, CheckCap, Goto, Local, Owes, Early, Turn
    <3>2. \A v \in Workers : v # w => Same(v)
      BY <2>2 DEF TypeOK, Goto, Same
    <3> QED
      BY <1>2, <1>a, <1>b, <3>1, <3>2, OneTurnMove DEF CheckCap
  <2> QED
    BY <1>2, <2>1, <2>2 DEF CheckCap
<1>3. ASSUME NEW w \in Workers, ReadTurns(w) PROVE OneTurnInv'
  <2>1. CASE Return(w)
    BY <1>3, <1>a, <1>b, <2>1, ReturnMove, OneTurnMove DEF ReadTurns
  <2>2. ASSUME NEW t \in 1..codexMaxTurns, Goto(w, "claim"), row' = [row EXCEPT ![w] = <<Head(w), t>>],
               UNCHANGED <<sess, used, agree, retryable, timedOut>>
        PROVE  OneTurnInv'
    <3>1. t = 1
      OBVIOUS
    <3>2. Local(w)' /\ ~Owes(w)'
      BY <1>3, <1>c, <2>2, <3>1 DEF TypeOK, ReadTurns, Goto, Local, Owes, Early, Turn
    <3>3. \A v \in Workers : v # w => Same(v)
      BY <2>2 DEF TypeOK, Goto, Same
    <3> QED
      BY <1>3, <1>a, <1>b, <3>2, <3>3, OneTurnMove DEF ReadTurns
  <2> QED
    BY <1>3, <2>1, <2>2 DEF ReadTurns
<1>4. ASSUME NEW w \in Workers, ClaimTurn(w) PROVE OneTurnInv'
  <2>1. Local(w)' /\ ~Owes(w)'
    BY <1>4, <1>c DEF TypeOK, ClaimTurn, Goto, Local, Owes, Early, Turn
  <2>2. \A v \in Workers : v # w => Same(v)
    BY <1>4 DEF TypeOK, ClaimTurn, Goto, Same
  <2> QED
    BY <1>4, <1>a, <1>b, <2>1, <2>2, OneTurnMove DEF ClaimTurn
<1>5. ASSUME NEW w \in Workers, ResetToRunning(w) PROVE OneTurnInv'
  <2>1. Local(w)' /\ ~Owes(w)'
    BY <1>5, <1>b, <1>c DEF TypeOK, ResetToRunning, Goto, Local, Owes, CiDue, Early, Turn
  <2>2. \A v \in Workers : v # w => Same(v)
    BY <1>5 DEF TypeOK, ResetToRunning, Goto, Same
  <2> QED
    BY <1>5, <1>a, <1>b, <2>1, <2>2, OneTurnMove DEF ResetToRunning
<1>6. ASSUME NEW w \in Workers, NEW late \in BOOLEAN, NoResult(w, late) PROVE OneTurnInv'
  <2>1. pc' = [pc EXCEPT ![w] = "end"] /\ row' = row
    BY <1>6, <1>c, NextTurnEnds DEF NoResult
  <2>2. status[row[w]] = "running" /\ row[w] \in Rows
    BY <1>6 DEF TypeOK, TurnInv, OneReviewerPerTurn, NoResult, Owns
  <2>3. ci[Head(w)] = 0
    <3>1. row[w] = <<Head(w), 1>> /\ Head(w) \in Heads
      BY <1>6, <1>c, RowParts DEF NoResult, Local
    <3> QED
      BY <2>2, <3>1 DEF TypeOK, OneTurnInv, Final
  <2>4. ~late => ~Owes(w)'
    BY <1>6, <1>b, <1>c, <2>1 DEF TypeOK, NoResult, Local, Early, Owes, CiDue
  <2>5. Local(w)'
    <3>1. Turn(w)' = 1 /\ Head(w)' = Head(w) /\ ci' = ci /\ pc'[w] = "end"
      BY <1>6, <1>c, <2>1 DEF TypeOK, NoResult, Local, Turn, Head
    <3>2. status'[row'[w]] = IF late THEN "timed_out" ELSE "failed"
      BY <1>6, <2>1, <2>2 DEF TypeOK, NoResult
    <3>3. timedOut'[w] = late
      BY <1>6 DEF TypeOK, NoResult
    <3> QED
      BY <2>3, <2>4, <3>1, <3>2, <3>3 DEF Local, Early, Final
  <2>6. \A v \in Workers : v # w => Same(v)
    BY <1>6, <2>1 DEF TypeOK, NoResult, Same
  <2>7. status[row'[w]] \notin Final
    BY <2>1, <2>2 DEF Final
  <2> QED
    BY <1>6, <1>a, <1>b, <2>5, <2>6, <2>7, OneTurnMove DEF NoResult
<1>7. ASSUME NEW w \in Workers, NEW agreed \in BOOLEAN, NEW pass \in BOOLEAN,
             PostReview(w, agreed, pass)
      PROVE  OneTurnInv'
  <2>1. Local(w)' /\ ~Owes(w)'
    BY <1>7, <1>c DEF TypeOK, PostReview, Goto, Local, Owes, Early, Turn
  <2>2. \A v \in Workers : v # w => Same(v)
    BY <1>7 DEF TypeOK, PostReview, Goto, Same
  <2> QED
    BY <1>7, <1>a, <1>b, <2>1, <2>2, OneTurnMove DEF PostReview
<1>8. ASSUME NEW w \in Workers, NEW shown \in {"none", "pass", "other"}, PostFailed(w, shown)
      PROVE  OneTurnInv'
  <2>1. Local(w)' /\ ~Owes(w)'
    BY <1>8, <1>c DEF TypeOK, PostFailed, Goto, Local, Owes, Early, Turn
  <2>2. \A v \in Workers : v # w => Same(v)
    BY <1>8 DEF TypeOK, PostFailed, Goto, Same
  <2> QED
    BY <1>8, <1>a, <1>b, <2>1, <2>2, OneTurnMove DEF PostFailed
<1>9. ASSUME NEW w \in Workers, FailTurn(w) PROVE OneTurnInv'
  <2>1. Local(w)' /\ ~Owes(w)'
    BY <1>9, <1>b, <1>c DEF TypeOK, FailTurn, Goto, Local, Owes, CiDue, Early, Turn
  <2>2. \A v \in Workers : v # w => Same(v)
    BY <1>9 DEF TypeOK, FailTurn, Goto, Same
  <2> QED
    BY <1>9, <1>a, <1>b, <2>1, <2>2, OneTurnMove DEF FailTurn
<1>10. ASSUME NEW w \in Workers, CompleteTurn(w) PROVE OneTurnInv'
  <2>1. status[row[w]] = "running" /\ row[w] \in Rows
    BY <1>10 DEF TypeOK, TurnInv, OneReviewerPerTurn, CompleteTurn, Owns
  <2>2. ci[Head(w)] = 0
    <3>1. row[w] = <<Head(w), 1>> /\ Head(w) \in Heads
      BY <1>10, <1>c, RowParts DEF CompleteTurn, Local
    <3> QED
      BY <2>1, <3>1 DEF TypeOK, OneTurnInv, Final
  <2>3. Local(w)'
    BY <1>10, <1>c, <2>1, <2>2 DEF TypeOK, CompleteTurn, Goto, Local, Early, Turn, Head, Final
  <2>4. \A v \in Workers : v # w => Same(v)
    BY <1>10 DEF TypeOK, CompleteTurn, Goto, Same
  <2>5. status[row'[w]] \notin Final
    BY <1>10, <2>1 DEF CompleteTurn, Final
  <2> QED
    BY <1>10, <1>a, <1>b, <2>3, <2>4, <2>5, OneTurnMove DEF CompleteTurn
<1>11. ASSUME NEW w \in Workers, MarkPosted(w) PROVE OneTurnInv'
  <2>1. Local(w)' /\ Owes(w) /\ row'[w] = row[w]
    BY <1>11, <1>c DEF TypeOK, MarkPosted, Goto, Local, Owes, Early, Turn, Head, Final
  <2>2. \A v \in Workers : v # w => Same(v)
    BY <1>11 DEF TypeOK, MarkPosted, Goto, Same
  <2> QED
    BY <1>11, <1>a, <1>b, <2>1, <2>2, OneTurnMove DEF MarkPosted
<1>12. ASSUME NEW w \in Workers, NEW dbError \in BOOLEAN, RecordFindings(w, dbError)
       PROVE  OneTurnInv'
  <2>1. pc' = [pc EXCEPT ![w] = "end"] /\ row' = row
    BY <1>12, <1>c, NextTurnEnds DEF RecordFindings, Goto
  <2>2. Local(w)' /\ Owes(w)
    BY <1>12, <1>c, <2>1 DEF TypeOK, RecordFindings, Local, Owes, Early, Turn, Head, Final
  <2>3. \A v \in Workers : v # w => Same(v)
    BY <1>12, <2>1 DEF TypeOK, RecordFindings, Same
  <2> QED
    BY <1>12, <1>a, <1>b, <2>1, <2>2, <2>3, OneTurnMove DEF RecordFindings
<1>13. ASSUME NEW w \in Workers, EndStage(w) PROVE OneTurnInv'
  <2>1. Local(w)' /\ ~Owes(w)' /\ \A v \in Workers : v # w => Same(v)
    <3>1. CASE timedOut[w]
      BY <1>13, <1>c, <3>1 DEF TypeOK, EndStage, Goto, Local, Owes, Early, Turn, Same
    <3>2. CASE ~timedOut[w]
      BY <1>13, <3>2, ReturnMove DEF EndStage
    <3> QED
      BY <3>1, <3>2
  <2>2. CASE ci' = ci
    BY <1>13, <1>a, <1>b, <2>1, <2>2, OneTurnMove DEF EndStage
  <2>3. CASE CiDue(w) /\ ci' = [ci EXCEPT ![Head(w)] = @ + 1]
    <3>1. Owes(w) /\ row[w] = <<Head(w), 1>> /\ Head(w) \in Heads /\ status[row[w]] \in Final /\ row[w] \in Rows
      BY <1>13, <1>c, <2>3, RowParts DEF EndStage, Owes, Local
    <3>2. \A v \in Workers : Owes(v) /\ v # w => row[v] = <<Head(v), 1>> /\ Head(v) # Head(w)
      <4> SUFFICES ASSUME NEW v \in Workers, Owes(v), v # w
                   PROVE  row[v] = <<Head(v), 1>> /\ Head(v) # Head(w)
        OBVIOUS
      <4>1. row[v] = <<Head(v), 1>>
        BY <1>c, RowParts DEF Owes, Local
      <4> QED
        BY <3>1, <4>1 DEF OneTurnInv
    <3>3. \A v \in Workers : Owes(v) /\ v # w => ci'[Head(v)] = ci[Head(v)]
      BY <2>3, <3>2 DEF TypeOK
    <3>4. \A v \in Workers : v # w => Local(v)' /\ (Owes(v)' <=> Owes(v))
      BY <1>a, <1>b, <1>c, <2>1, <3>3, SameLocal
    <3>5. \A u, v \in Workers : Owes(u)' /\ Owes(v)' /\ row'[u] = row'[v] => u = v
      BY <2>1, <3>4 DEF OneTurnInv, Same
    <3>6. \A h \in Heads : <<h, 1>> \in Rows
      BY TurnsType DEF Rows
    <3>7. \A h \in Heads : ci'[h] > 0 => status'[<<h, 1>>] \in Final
      BY <1>13, <2>3, <3>1 DEF TypeOK, OneTurnInv, EndStage
    <3>8. \A h \in alerted' : status'[<<h, 1>>] = "timed_out"
      BY <1>13 DEF OneTurnInv, EndStage
    <3> QED
      BY <2>1, <3>4, <3>5, <3>7, <3>8 DEF OneTurnInv, Final
  <2> QED
    BY <1>13, <2>2, <2>3 DEF EndStage
<1>14. ASSUME NEW w \in Workers, Alert(w) PROVE OneTurnInv'
  <2>1. Local(w)' /\ ~Owes(w)' /\ \A v \in Workers : v # w => Same(v)
    BY <1>14, ReturnMove DEF Alert
  <2>2. status[<<Head(w), 1>>] = "timed_out"
    BY <1>14, <1>c, RowParts DEF Alert, Local
  <2>3. \A v \in Workers : v # w => Local(v)' /\ (Owes(v)' <=> Owes(v))
    BY <1>14, <1>a, <1>b, <1>c, <2>1, SameLocal DEF Alert
  <2>4. \A u, v \in Workers : Owes(u)' /\ Owes(v)' /\ row'[u] = row'[v] => u = v
    BY <2>1, <2>3 DEF OneTurnInv, Same
  <2>5. \A h \in Heads : ci'[h] > 0 => status'[<<h, 1>>] \in Final
    BY <1>14 DEF OneTurnInv, Alert
  <2>6. \A h \in alerted' : status'[<<h, 1>>] = "timed_out"
    BY <1>14, <2>2 DEF OneTurnInv, Alert
  <2> QED
    BY <2>1, <2>3, <2>4, <2>5, <2>6 DEF OneTurnInv, Final
<1>15. ASSUME NEW w \in Workers, Crash(w) PROVE OneTurnInv'
  BY <1>15, <1>a, <1>b, ReturnMove, OneTurnMove DEF Crash
<1>16. CASE UNCHANGED vars
  BY <1>16 DEF vars, run, OneTurnInv, Local, Owes, CiDue, Head, Turn, Early, Final
<1> QED
  BY <1>1, <1>2, <1>3, <1>4, <1>5, <1>6, <1>7, <1>8, <1>9, <1>10, <1>11, <1>12, <1>13,
     <1>14, <1>15, <1>16 DEF Next, Step

OneTurn == codexMaxTurns = 1 => OneTurnInv

LEMMA OneTurnAlways == Spec => [](TypeOK /\ TurnInv /\ OneTurn)
<1>1. Init => OneTurn
  BY OneTurnInit DEF OneTurn
<1>2. TypeOK /\ TurnInv /\ OneTurn /\ [Next]_vars => OneTurn'
  <2>1. [Next]_vars => codexMaxTurns' = codexMaxTurns
    BY DEF Next, Step, Deliver, CheckCap, ReadTurns, ClaimTurn, ResetToRunning, NoResult, PostReview,
           PostFailed, FailTurn, CompleteTurn, MarkPosted, RecordFindings, EndStage, Alert, Crash,
           vars, settings
  <2> QED
    BY <2>1, OneTurnStep DEF OneTurn
<1> QED
  BY <1>1, <1>2, TypeInit, TypeStep, TurnInit, TurnStep, PTL DEF Spec

\* With one turn per stage a timeout is reported only for a head whose review timed out.
THEOREM AlertTrue == Spec => []AlertIsTrue
<1>1. OneTurn => AlertIsTrue
  BY DEF OneTurn, OneTurnInv, AlertIsTrue
<1> QED
  BY <1>1, OneTurnAlways, PTL

\* With one turn per stage CI is dispatched at most once for a head, and no confirmed
\* review of that head comes after it.
THEOREM CiLast == Spec => CiIsLast
<1>1. TypeOK /\ TurnInv /\ OneTurn /\ [Next]_vars =>
        \A h \in Heads : codexMaxTurns = 1 /\ ci[h] > 0 =>
            ci'[h] = ci[h] /\ acked'[<<h, 1>>] = acked[<<h, 1>>]
  <2> SUFFICES ASSUME TypeOK, TurnInv, OneTurn, [Next]_vars, NEW h \in Heads,
                      codexMaxTurns = 1, ci[h] > 0
               PROVE  ci'[h] = ci[h] /\ acked'[<<h, 1>>] = acked[<<h, 1>>]
    OBVIOUS
  <2>1. OneTurnInv /\ status[<<h, 1>>] \in Final
    BY DEF OneTurn, OneTurnInv
  <2>2. ASSUME NEW w \in Workers, EndStage(w)
        PROVE  ci'[h] = ci[h] /\ acked'[<<h, 1>>] = acked[<<h, 1>>]
    BY <2>1, <2>2 DEF TypeOK, OneTurnInv, Local, Owes, EndStage
  <2>3. ASSUME NEW w \in Workers, NEW agreed \in BOOLEAN, NEW pass \in BOOLEAN,
               PostReview(w, agreed, pass)
        PROVE  ci'[h] = ci[h] /\ acked'[<<h, 1>>] = acked[<<h, 1>>]
    <3>1. status[row[w]] = "running"
      BY <2>3 DEF TurnInv, OneReviewerPerTurn, PostReview, Owns
    <3> QED
      BY <2>1, <2>3, <3>1 DEF TypeOK, PostReview, Final
  <2> QED
    BY <2>2, <2>3 DEF Next, Step, Deliver, CheckCap, ReadTurns, ClaimTurn, ResetToRunning, NoResult,
           PostFailed, FailTurn, CompleteTurn, MarkPosted, RecordFindings, Alert, Crash, vars, world
<1> QED
  BY <1>1, OneTurnAlways, PTL DEF Spec, CiIsLast
=============================================================================
