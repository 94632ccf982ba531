----------------------------- MODULE ReviewLoop -----------------------------
(***************************************************************************)
(* The codex stage of the pull-request review: _review_pr of               *)
(* src/src/gateway/review_engine.py, ReviewLoop.run of                      *)
(* src/src/gateway/review_loop.py, the turn table pr_review_turns of        *)
(* src/src/review/repository.py and the board's badge, for one PR.          *)
(*                                                                         *)
(* A worker is a server process. It runs one review at a time (the         *)
(* consumer's asyncio lock), for the head commit of any webhook delivery,  *)
(* new or repeated. Each step is one commit to the table or one call to    *)
(* GitHub. Crash is a restart, a cancelled task or an exception that       *)
(* leaves the handler: the worker drops what it holds, the table keeps it. *)
(* Stage A (opencode_enabled, off by default) is left out; it runs the     *)
(* same loop on rows of its own and dispatches nothing.                    *)
(***************************************************************************)
EXTENDS Naturals, FiniteSets

CONSTANTS
    Workers, Heads,   \* server processes; head commits pushed to the PR
    MaxTurns,         \* largest codex_max_turns considered
    MaxSessions       \* MAX_REVIEWS_PER_PR

ASSUME HeadsAssumption == IsFiniteSet(Heads)
ASSUME MaxTurnsAssumption == MaxTurns \in Nat \ {0}
ASSUME MaxSessionsAssumption == MaxSessions \in Nat \ {0}

VARIABLES
    codexMaxTurns,                                  \* settings.codex_max_turns
    status, consensus, session, posted, outcome,    \* columns of pr_review_turns
    github,     \* the latest codex review GitHub shows for each head
    acked,      \* how often GitHub confirmed the review of a turn
    ci,         \* codex-finalized dispatches of each head
    alerted,    \* heads whose timeout was reported to the supervisor
    pc, sess, row, used, agree, retryable, timedOut  \* one run of each worker

settings == <<codexMaxTurns>>
table == <<status, consensus, session, posted, outcome>>
world == <<github, acked, ci, alerted>>
run == <<pc, sess, row, used, agree, retryable, timedOut>>
vars == <<settings, table, world, run>>

Turns == 1..MaxTurns
Rows == Heads \X Turns
NoRow == <<>>
Statuses == {"none", "running", "completed", "timed_out", "failed"}
Head(w) == row[w][1]
Turn(w) == row[w][2]

TypeOK ==
    /\ codexMaxTurns \in Turns
    /\ status \in [Rows -> Statuses]
    /\ consensus \in [Rows -> BOOLEAN]
    /\ session \in [Rows -> Nat]
    /\ posted \in [Rows -> BOOLEAN]
    /\ outcome \in [Rows -> {"none", "db_error"}]
    /\ github \in [Heads -> {"none", "pass", "other"}]
    /\ acked \in [Rows -> Nat]
    /\ ci \in [Heads -> Nat]
    /\ alerted \in SUBSET Heads
    /\ pc \in [Workers -> {"idle", "cap", "turns", "claim", "reset", "review",
                           "unposted", "complete", "mark", "record", "end", "alert"}]
    /\ sess \in [Workers -> Nat \ {0}]
    /\ row \in [Workers -> Rows \cup {NoRow}]
    /\ \A w \in Workers : pc[w] # "idle" => row[w] \in Rows
    /\ used \in [Workers -> 0..MaxTurns]
    /\ agree \in [Workers -> BOOLEAN]
    /\ retryable \in [Workers -> BOOLEAN]
    /\ timedOut \in [Workers -> BOOLEAN]

Init ==
    /\ codexMaxTurns \in Turns
    /\ status = [r \in Rows |-> "none"]
    /\ consensus = [r \in Rows |-> FALSE]
    /\ session = [r \in Rows |-> 0]
    /\ posted = [r \in Rows |-> FALSE]
    /\ outcome = [r \in Rows |-> "none"]
    /\ github = [h \in Heads |-> "none"]
    /\ acked = [r \in Rows |-> 0]
    /\ ci = [h \in Heads |-> 0]
    /\ alerted = {}
    /\ pc = [w \in Workers |-> "idle"]
    /\ sess = [w \in Workers |-> 1]
    /\ row = [w \in Workers |-> NoRow]
    /\ used = [w \in Workers |-> 0]
    /\ agree = [w \in Workers |-> FALSE]
    /\ retryable = [w \in Workers |-> FALSE]
    /\ timedOut = [w \in Workers |-> FALSE]

-----------------------------------------------------------------------------
(* What the handler reads.                                                  *)

Exists(r) == status[r] # "none"

\* count_posted_codex_sessions counts the distinct session_index of posted rows.
PostedSessions == {session[r] : r \in {q \in Rows : posted[q]}}
Prior == Cardinality(PostedSessions)

\* _compute_next_turn: the lowest failed turn, else the turn after the last one.
IsNextTurn(h, t) ==
    IF \E u \in Turns : status[<<h, u>>] = "failed"
    THEN /\ status[<<h, t>>] = "failed"
         /\ \A u \in 1..(t - 1) : status[<<h, u>>] # "failed"
    ELSE /\ \A u \in t..MaxTurns : ~Exists(<<h, u>>)
         /\ t > 1 => Exists(<<h, t - 1>>)

\* The early returns of ReviewLoop.run that need no turn number.
StageClosed(w) ==
    \E t \in Turns :
        LET r == <<Head(w), t>>
        IN  Exists(r) /\ (consensus[r] \/ (posted[r] /\ session[r] = sess[w]))

-----------------------------------------------------------------------------
(* How a run moves on.                                                      *)

Goto(w, place) == pc' = [pc EXCEPT ![w] = place]

\* The handler returns or dies: its local variables are gone.
Return(w) ==
    /\ Goto(w, "idle")
    /\ sess' = [sess EXCEPT ![w] = 1]
    /\ row' = [row EXCEPT ![w] = NoRow]
    /\ used' = [used EXCEPT ![w] = 0]
    /\ agree' = [agree EXCEPT ![w] = FALSE]
    /\ retryable' = [retryable EXCEPT ![w] = FALSE]
    /\ timedOut' = [timedOut EXCEPT ![w] = FALSE]

\* The for loop goes to the next turn, or past codex_max_turns.
NextTurn(w) ==
    IF Turn(w) < codexMaxTurns
    THEN Goto(w, "claim") /\ row' = [row EXCEPT ![w] = <<Head(w), Turn(w) + 1>>]
    ELSE Goto(w, "end") /\ UNCHANGED row

-----------------------------------------------------------------------------
(* _review_pr up to the loop.                                               *)

\* A webhook delivery for head h is taken by an idle worker, which counts the
\* sessions posted so far.
Deliver(w, h) ==
    /\ pc[w] = "idle"
    /\ Goto(w, "cap")
    /\ sess' = [sess EXCEPT ![w] = Prior + 1]
    /\ row' = [row EXCEPT ![w] = <<h, 1>>]
    /\ UNCHANGED <<settings, table, world, used, agree, retryable, timedOut>>

SkipForCap(w) ==
    \/ sess[w] > 1 /\ github[Head(w)] = "pass"
    \/ sess[w] > MaxSessions

\* Skip on approval or at the session cap; the other skips (nothing to review,
\* diff too large, no project, repository not configured) may always apply.
CheckCap(w) ==
    /\ pc[w] = "cap"
    /\ \/ Return(w)
       \/ /\ ~SkipForCap(w)
          /\ Goto(w, "turns")
          /\ UNCHANGED <<sess, row, used, agree, retryable, timedOut>>
    /\ UNCHANGED <<settings, table, world>>

-----------------------------------------------------------------------------
(* ReviewLoop.run.                                                          *)

\* turns_for_stage, and the turn to start at.
ReadTurns(w) ==
    /\ pc[w] = "turns"
    /\ \/ \E t \in 1..codexMaxTurns :
            /\ ~StageClosed(w)
            /\ IsNextTurn(Head(w), t)
            /\ Goto(w, "claim")
            /\ row' = [row EXCEPT ![w] = <<Head(w), t>>]
            /\ UNCHANGED <<sess, used, agree, retryable, timedOut>>
       \/ /\ \/ StageClosed(w)
             \/ \A t \in 1..codexMaxTurns : ~IsNextTurn(Head(w), t)
          /\ Return(w)
    /\ UNCHANGED <<settings, table, world>>

\* Mutant: claim_turn takes the row whoever has it.
ClaimTurnUpsert(w) ==
    /\ pc[w] = "claim"
    /\ status' = [status EXCEPT ![row[w]] = "running"]
    /\ session' = [session EXCEPT ![row[w]] = sess[w]]
    /\ Goto(w, "review")
    /\ UNCHANGED <<settings, consensus, posted, outcome, world,
                   sess, row, used, agree, retryable, timedOut>>

\* claim_turn: INSERT ... ON CONFLICT DO NOTHING.
ClaimTurn(w) ==
    /\ pc[w] = "claim"
    /\ \/ /\ ~Exists(row[w])
          /\ status' = [status EXCEPT ![row[w]] = "running"]
          /\ session' = [session EXCEPT ![row[w]] = sess[w]]
          /\ Goto(w, "review")
       \/ /\ Exists(row[w])
          /\ Goto(w, "reset")
          /\ UNCHANGED <<status, session>>
    /\ UNCHANGED <<settings, consensus, posted, outcome, world,
                   sess, row, used, agree, retryable, timedOut>>

\* Mutant: reset_to_running does not look at the status.
ResetAny(w) ==
    /\ pc[w] = "reset"
    /\ status' = [status EXCEPT ![row[w]] = "running"]
    /\ consensus' = [consensus EXCEPT ![row[w]] = FALSE]
    /\ Goto(w, "review")
    /\ UNCHANGED <<settings, session, posted, outcome, world,
                   sess, row, used, agree, retryable, timedOut>>

\* Mutant: a turn that another handler has is tried again at once.
ResetOrWait(w) ==
    /\ pc[w] = "reset"
    /\ \/ /\ status[row[w]] = "failed"
          /\ status' = [status EXCEPT ![row[w]] = "running"]
          /\ consensus' = [consensus EXCEPT ![row[w]] = FALSE]
          /\ Goto(w, "review")
       \/ /\ status[row[w]] # "failed"
          /\ Goto(w, "claim")
          /\ UNCHANGED <<status, consensus>>
    /\ UNCHANGED <<settings, session, posted, outcome, world,
                   sess, row, used, agree, retryable, timedOut>>

\* reset_to_running: only a failed row; it keeps its session_index. Otherwise
\* another handler has the turn, and the loop breaks.
ResetToRunning(w) ==
    /\ pc[w] = "reset"
    /\ \/ /\ status[row[w]] = "failed"
          /\ status' = [status EXCEPT ![row[w]] = "running"]
          /\ consensus' = [consensus EXCEPT ![row[w]] = FALSE]
          /\ Goto(w, "review")
       \/ /\ status[row[w]] # "failed"
          /\ Goto(w, "end")
          /\ UNCHANGED <<status, consensus>>
    /\ UNCHANGED <<settings, session, posted, outcome, world,
                   sess, row, used, agree, retryable, timedOut>>

\* Mutant: a crash of the reviewer counts as a timeout.
NoResultIsTimeout(w, late) ==
    /\ pc[w] = "review"
    /\ status' = [status EXCEPT ![row[w]] = IF late THEN "timed_out" ELSE "failed"]
    /\ consensus' = [consensus EXCEPT ![row[w]] = FALSE]
    /\ used' = [used EXCEPT ![w] = Turn(w)]
    /\ retryable' = [retryable EXCEPT ![w] = @ \/ ~late]
    /\ timedOut' = [timedOut EXCEPT ![w] = TRUE]
    /\ NextTurn(w)
    /\ UNCHANGED <<settings, session, posted, outcome, world, sess, agree>>

\* The reviewer timed out (late) or crashed; complete_turn, and on to the next turn.
NoResult(w, late) ==
    /\ pc[w] = "review"
    /\ status' = [status EXCEPT ![row[w]] = IF late THEN "timed_out" ELSE "failed"]
    /\ consensus' = [consensus EXCEPT ![row[w]] = FALSE]
    /\ used' = [used EXCEPT ![w] = Turn(w)]
    /\ retryable' = [retryable EXCEPT ![w] = @ \/ ~late]
    /\ timedOut' = [timedOut EXCEPT ![w] = late]
    /\ NextTurn(w)
    /\ UNCHANGED <<settings, session, posted, outcome, world, sess, agree>>

\* The reviewer answered and GitHub confirmed the post. A review that approves
\* is always a consensus (both demote an approval with a severe finding).
PostReview(w, agreed, pass) ==
    /\ pc[w] = "review"
    /\ pass => agreed
    /\ github' = [github EXCEPT ![Head(w)] = IF pass THEN "pass" ELSE "other"]
    /\ acked' = [acked EXCEPT ![row[w]] = @ + 1]
    /\ agree' = [agree EXCEPT ![w] = agreed]
    /\ timedOut' = [timedOut EXCEPT ![w] = FALSE]
    /\ Goto(w, "complete")
    /\ UNCHANGED <<settings, table, ci, alerted, sess, row, used, retryable>>

\* Mutant: the result of post_review is not looked at.
PostFailedIgnored(w, shown) ==
    /\ pc[w] = "review"
    /\ github' = [github EXCEPT ![Head(w)] = IF shown = "none" THEN @ ELSE shown]
    /\ agree' = [agree EXCEPT ![w] = TRUE]
    /\ Goto(w, "complete")
    /\ UNCHANGED <<settings, table, acked, ci, alerted, sess, row, used, retryable, timedOut>>

\* Neither attempt was confirmed; GitHub may have taken one all the same.
PostFailed(w, shown) ==
    /\ pc[w] = "review"
    /\ github' = [github EXCEPT ![Head(w)] = IF shown = "none" THEN @ ELSE shown]
    /\ timedOut' = [timedOut EXCEPT ![w] = FALSE]
    /\ Goto(w, "unposted")
    /\ UNCHANGED <<settings, table, acked, ci, alerted, sess, row, used, agree, retryable>>

\* complete_turn(failed) after a failed post; the loop breaks.
FailTurn(w) ==
    /\ pc[w] = "unposted"
    /\ status' = [status EXCEPT ![row[w]] = "failed"]
    /\ consensus' = [consensus EXCEPT ![row[w]] = FALSE]
    /\ used' = [used EXCEPT ![w] = Turn(w)]
    /\ retryable' = [retryable EXCEPT ![w] = TRUE]
    /\ Goto(w, "end")
    /\ UNCHANGED <<settings, session, posted, outcome, world, sess, row, agree, timedOut>>

CompleteTurn(w) ==
    /\ pc[w] = "complete"
    /\ status' = [status EXCEPT ![row[w]] = "completed"]
    /\ consensus' = [consensus EXCEPT ![row[w]] = agree[w]]
    /\ Goto(w, "mark")
    /\ UNCHANGED <<settings, session, posted, outcome, world,
                   sess, row, used, agree, retryable, timedOut>>

MarkPosted(w) ==
    /\ pc[w] = "mark"
    /\ posted' = [posted EXCEPT ![row[w]] = TRUE]
    /\ Goto(w, "record")
    /\ UNCHANGED <<settings, status, consensus, session, outcome, world,
                   sess, row, used, agree, retryable, timedOut>>

\* record_findings_and_learnings; a database error (dbError) is stamped on the row.
RecordFindings(w, dbError) ==
    /\ pc[w] = "record"
    /\ outcome' = [outcome EXCEPT ![row[w]] = IF dbError THEN "db_error" ELSE @]
    /\ used' = [used EXCEPT ![w] = Turn(w)]
    /\ IF agree[w] THEN Goto(w, "end") /\ UNCHANGED row ELSE NextTurn(w)
    /\ UNCHANGED <<settings, status, consensus, session, posted, world,
                   sess, agree, retryable, timedOut>>

\* Mutant: CI is dispatched although a turn may be retried.
CiDueAfterFailure(w) == agree[w] \/ used[w] = codexMaxTurns

CiDue(w) == agree[w] \/ (used[w] = codexMaxTurns /\ ~retryable[w])

\* The stage is over: dispatch CI if it is due; a failed dispatch is only logged.
EndStage(w) ==
    /\ pc[w] = "end"
    /\ \/ CiDue(w) /\ ci' = [ci EXCEPT ![Head(w)] = @ + 1]
       \/ UNCHANGED ci
    /\ IF timedOut[w]
       THEN Goto(w, "alert") /\ UNCHANGED <<sess, row, used, agree, retryable, timedOut>>
       ELSE Return(w)
    /\ UNCHANGED <<settings, table, github, acked, alerted>>

\* The skip comment and emit_codex_review_timed_out after a stage that timed out.
Alert(w) ==
    /\ pc[w] = "alert"
    /\ alerted' = alerted \cup {Head(w)}
    /\ Return(w)
    /\ UNCHANGED <<settings, table, github, acked, ci>>

Crash(w) ==
    /\ pc[w] # "idle"
    /\ Return(w)
    /\ UNCHANGED <<settings, table, world>>

-----------------------------------------------------------------------------

Step(w) ==
    \/ CheckCap(w) \/ ReadTurns(w) \/ ClaimTurn(w) \/ ResetToRunning(w)
    \/ \E late \in BOOLEAN : NoResult(w, late)
    \/ \E agreed, pass \in BOOLEAN : PostReview(w, agreed, pass)
    \/ \E shown \in {"none", "pass", "other"} : PostFailed(w, shown)
    \/ FailTurn(w) \/ CompleteTurn(w) \/ MarkPosted(w)
    \/ \E dbError \in BOOLEAN : RecordFindings(w, dbError)
    \/ EndStage(w) \/ Alert(w)

Next ==
    \E w \in Workers :
        \/ \E h \in Heads : Deliver(w, h)
        \/ Step(w)
        \/ Crash(w)

Spec == Init /\ [][Next]_vars

\* A run that was started goes on; no webhook has to come, no worker has to crash.
FairSpec == Spec /\ \A w \in Workers : WF_vars(Step(w))

-----------------------------------------------------------------------------
(* The badge of the board: _derive_codex_status.                            *)

Current(h) == {r \in Rows : r[1] = h /\ Exists(r)}

LatestTurn(h, r) == r \in Current(h) /\ \A q \in Current(h) : q[2] <= r[2]

Badge(h) ==
    IF Current(h) = {}
    THEN IF \A r \in Rows : ~Exists(r) THEN "not_started"
         ELSE IF Prior >= MaxSessions THEN "exhausted" ELSE "stale"
    ELSE IF \E r \in Current(h) : status[r] = "running" THEN "working"
    ELSE IF \E r \in Current(h) : /\ status[r] = "completed"
                                  /\ consensus[r]
                                  /\ outcome[r] # "db_error" THEN "pass"
    ELSE IF \E r \in Current(h) : /\ LatestTurn(h, r)
                                  /\ \/ status[r] \in {"timed_out", "failed"}
                                     \/ outcome[r] = "db_error" THEN "failed"
    ELSE IF Prior >= MaxSessions THEN "exhausted"
    ELSE "progress"

-----------------------------------------------------------------------------
(* Properties.                                                              *)

\* A worker between winning a turn and completing it.
Owns(w) == pc[w] \in {"review", "unposted", "complete"}

\* claim_turn and reset_to_running give a turn to one handler at a time, and
\* its row says so for as long as the reviewer runs.
OneReviewerPerTurn ==
    \A w \in Workers : Owns(w) =>
        /\ status[row[w]] = "running"
        /\ \A v \in Workers : Owns(v) /\ row[v] = row[w] => v = w

\* GitHub confirms the review of a turn at most once, whatever is delivered
\* again and wherever a handler dies: a confirmed turn is never retried.
ReviewPostedOnce == \A r \in Rows : acked[r] <= 1

\* The session numbers that count against MAX_REVIEWS_PER_PR have no gap and
\* never pass it, also when two workers computed theirs from the same count.
SessionNumbers == PostedSessions = 1..Prior /\ Prior <= MaxSessions

\* With the default codex_max_turns = 1, CI is the last thing to happen to a
\* head: it is dispatched once, after the last confirmed review of that head.
CiIsLast ==
    [][\A h \in Heads : codexMaxTurns = 1 /\ ci[h] > 0 =>
          ci'[h] = ci[h] /\ acked'[<<h, 1>>] = acked[<<h, 1>>]]_vars

\* With codex_max_turns = 1 the supervisor hears of a timeout only if the review
\* of that head really ended in one.
AlertIsTrue ==
    codexMaxTurns = 1 => \A h \in alerted : status[<<h, 1>>] = "timed_out"

\* The board shows "pass" only for a head with a confirmed review that agreed.
PassIsBacked ==
    \A h \in Heads : Badge(h) = "pass" =>
        \E t \in Turns : consensus[<<h, t>>] /\ acked[<<h, t>>] = 1

\* The loop ends: a worker never keeps its lock for ever.
RunEnds == \A w \in Workers : pc[w] # "idle" ~> pc[w] = "idle"

\* At most MAX_REVIEWS_PER_PR commits of a PR get a review.
CapRespected ==
    Cardinality({h \in Heads : \E t \in Turns : posted[<<h, t>>]}) <= MaxSessions
=============================================================================
