---------------------------- MODULE AgentSession ----------------------------
(***************************************************************************)
(* The worktree and session tables of the Agent context, and every handler *)
(* that writes them: register, heartbeat, request_shutdown, unregister,    *)
(* unregister_by_path, force_unregister, remove_offline_agents and the     *)
(* heartbeat sweep (src/src/agent/services.py, repository.py).             *)
(*                                                                         *)
(* Each repository call commits its own transaction, and production runs   *)
(* two gunicorn workers, so the handlers interleave between repository     *)
(* calls: an action is one repository call, and what a handler read        *)
(* earlier (kept in its record) may be stale by the time it writes.        *)
(* Rows are addressed by id: <<path, generation>> stands for the UUID of   *)
(* the worktree row, which changes when a row is deleted and re-created.   *)
(***************************************************************************)
EXTENDS Naturals, FiniteSets

CONSTANTS
    Paths,       \* worktree paths; (project_id, worktree_path) is unique
    Regs,        \* register calls; each also names the token and the session it makes
    NoReg,       \* null token / null session
    Teardowns,   \* concurrent unregister-like requests
    Sweepers,    \* processes that run run_heartbeat_checker
    Exclusive,   \* TRUE: a path never has two register calls in flight
    MaxShutdowns,\* bound on the worktree rows request_shutdown is called for
    MaxCrashes   \* bound on worker crashes in the middle of a handler

ASSUME PathsAssumption == Paths # {}
ASSUME NoRegAssumption == NoReg \notin Regs
ASSUME ExclusiveAssumption == Exclusive \in BOOLEAN
ASSUME BoundsAssumption == MaxShutdowns \in Nat /\ MaxCrashes \in Nat

VARIABLES
    \* worktrees table, by path
    gen, status, token, shutdown,
    \* sessions table, by the register call that inserted the row
    sessWorktree, sessStatus, sessFresh,
    \* register handlers, and afterwards the agent process that registered
    regPc, regId, regOld,
    \* heartbeat handler of each registered agent
    beatPc, beatSeen,
    \* unregister / force_unregister / remove_offline_agents handlers
    tdPc, tdKind, tdTodo, tdId, tdSeen,
    \* check_heartbeat_timeouts handlers
    swPc, swTodo, swCur,
    shutting,   \* request_shutdown handlers between inbox write and DB flag
    signalled,  \* ids whose worktree inbox holds a shutdown line
    announced,  \* ids for which WORKTREE_OFFLINE was published
    crashes

wtVars == <<gen, status, token, shutdown>>
sessVars == <<sessWorktree, sessStatus, sessFresh>>
regVars == <<regPc, regId, regOld>>
beatVars == <<beatPc, beatSeen>>
tdVars == <<tdPc, tdKind, tdTodo, tdId, tdSeen>>
swVars == <<swPc, swTodo, swCur>>
signalVars == <<shutting, signalled>>
vars == <<wtVars, sessVars, regVars, beatVars, tdVars, swVars, signalVars, announced, crashes>>

-----------------------------------------------------------------------------
(* Types *)

Ids == Paths \X Nat

RegOrNone == Regs \cup {NoReg}

Terminal == {"ended", "timed_out", "force_unregistered"}

Registering == {"token", "find", "endOld", "insert"}

TypeOK ==
    /\ gen \in [Paths -> Nat]
    /\ status \in [Paths -> {"absent", "online", "offline"}]
    /\ token \in [Paths -> RegOrNone]
    /\ shutdown \in [Paths -> BOOLEAN]
    /\ sessWorktree \in [Regs -> Ids]
    /\ sessStatus \in [Regs -> {"none", "active"} \cup Terminal]
    /\ sessFresh \in [Regs -> BOOLEAN]
    /\ regPc \in [Regs -> {"unused", "registered", "exited", "failed"} \cup Registering]
    /\ regId \in [Regs -> Ids]
    /\ regOld \in [Regs -> RegOrNone]
    /\ beatPc \in [Regs -> {"idle", "find", "write"}]
    /\ beatSeen \in [Regs -> RegOrNone]
    /\ tdPc \in [Teardowns -> {"idle", "find", "end", "publish", "delete"}]
    /\ tdKind \in [Teardowns -> {"unregister", "force", "remove_offline"}]
    /\ tdTodo \in [Teardowns -> SUBSET Ids]
    /\ tdId \in [Teardowns -> Ids]
    /\ tdSeen \in [Teardowns -> RegOrNone]
    /\ swPc \in [Sweepers -> {"idle", "end", "offline", "publish"}]
    /\ swTodo \in [Sweepers -> SUBSET Regs]
    /\ swCur \in [Sweepers -> RegOrNone]
    /\ shutting \in SUBSET Ids
    /\ signalled \in SUBSET Ids
    /\ announced \in SUBSET Ids
    /\ crashes \in Nat

-----------------------------------------------------------------------------
(* Queries *)

\* get_worktree: the row with this id exists.
Present(id) == status[id[1]] # "absent" /\ gen[id[1]] = id[2]

\* The id of the row currently stored for a path.
IdOf(p) == <<p, gen[p]>>

\* The rows get_active_session selects.
ActiveSessions(id) == {r \in Regs : sessStatus[r] = "active" /\ sessWorktree[r] = id}

\* scalar_one_or_none returns None or the row; with two rows it raises MultipleResultsFound.
FoundNone(id) == ActiveSessions(id) = {}
Found(id, s) == ActiveSessions(id) = {s}
FoundMany(id) == \E s, t \in ActiveSessions(id) : s # t

-----------------------------------------------------------------------------
\* Generation 0 is never a row: it fills the id of a slot that has none.
NoId == <<CHOOSE p \in Paths : TRUE, 0>>

Init ==
    /\ gen = [p \in Paths |-> 0]
    /\ status = [p \in Paths |-> "absent"]
    /\ token = [p \in Paths |-> NoReg]
    /\ shutdown = [p \in Paths |-> FALSE]
    /\ sessWorktree = [r \in Regs |-> NoId]
    /\ sessStatus = [r \in Regs |-> "none"]
    /\ sessFresh = [r \in Regs |-> FALSE]
    /\ regPc = [r \in Regs |-> "unused"]
    /\ regId = [r \in Regs |-> NoId]
    /\ regOld = [r \in Regs |-> NoReg]
    /\ beatPc = [r \in Regs |-> "idle"]
    /\ beatSeen = [r \in Regs |-> NoReg]
    /\ tdPc = [t \in Teardowns |-> "idle"]
    /\ tdKind = [t \in Teardowns |-> "force"]
    /\ tdTodo = [t \in Teardowns |-> {}]
    /\ tdId = [t \in Teardowns |-> NoId]
    /\ tdSeen = [t \in Teardowns |-> NoReg]
    /\ swPc = [w \in Sweepers |-> "idle"]
    /\ swTodo = [w \in Sweepers |-> {}]
    /\ swCur = [w \in Sweepers |-> NoReg]
    /\ shutting = {}
    /\ signalled = {}
    /\ announced = {}
    /\ crashes = 0

-----------------------------------------------------------------------------
(* register: upsert, rotate the token, end the old session, insert the new one *)

\* upsert_worktree: insert a row or set the existing one online; its other columns stay.
RegisterUpsert(r, p) ==
    /\ regPc[r] = "unused"
    /\ Exclusive => \A q \in Regs : regPc[q] \in Registering => regId[q][1] # p
    /\ \/ /\ status[p] = "absent"
          /\ gen' = [gen EXCEPT ![p] = @ + 1]
          /\ token' = [token EXCEPT ![p] = NoReg]
          /\ shutdown' = [shutdown EXCEPT ![p] = FALSE]
       \/ status[p] # "absent" /\ UNCHANGED <<gen, token, shutdown>>
    /\ status' = [status EXCEPT ![p] = "online"]
    /\ regPc' = [regPc EXCEPT ![r] = "token"]
    /\ regId' = [regId EXCEPT ![r] = <<p, gen'[p]>>]
    /\ UNCHANGED <<regOld, sessVars, beatVars, tdVars, swVars, signalVars, announced, crashes>>

\* set_agent_token_hash: UPDATE ... WHERE id, no effect on a deleted row.
RegisterToken(r) ==
    /\ regPc[r] = "token"
    /\ token' = IF Present(regId[r]) THEN [token EXCEPT ![regId[r][1]] = r] ELSE token
    /\ regPc' = [regPc EXCEPT ![r] = "find"]
    /\ UNCHANGED <<gen, status, shutdown, regId, regOld, sessVars, beatVars, tdVars, swVars,
                   signalVars, announced, crashes>>

\* Mutant: register does not look for a session to end.
RegisterFindSkipped(r) ==
    /\ regPc[r] = "find"
    /\ regPc' = [regPc EXCEPT ![r] = "insert"]
    /\ UNCHANGED <<regId, regOld, wtVars, sessVars, beatVars, tdVars, swVars, signalVars, announced, crashes>>

\* get_active_session: none, the session to end, or MultipleResultsFound (500).
RegisterFind(r) ==
    /\ regPc[r] = "find"
    /\ \/ /\ FoundNone(regId[r])
          /\ regPc' = [regPc EXCEPT ![r] = "insert"]
          /\ UNCHANGED regOld
       \/ \E s \in Regs : /\ Found(regId[r], s)
                          /\ regPc' = [regPc EXCEPT ![r] = "endOld"]
                          /\ regOld' = [regOld EXCEPT ![r] = s]
       \/ /\ FoundMany(regId[r])
          /\ regPc' = [regPc EXCEPT ![r] = "failed"]
          /\ UNCHANGED regOld
    /\ UNCHANGED <<regId, wtVars, sessVars, beatVars, tdVars, swVars, signalVars, announced, crashes>>

\* end_session writes through the object read earlier: it overwrites whatever
\* status the row has by now, and raises StaleDataError if the row is gone.
EndSession(s, how) ==
    /\ sessStatus' = [sessStatus EXCEPT ![s] = how]
    /\ UNCHANGED <<sessWorktree, sessFresh>>

SessionGone(s) == sessStatus[s] = "none"

RegisterEndOld(r) ==
    /\ regPc[r] = "endOld"
    /\ \/ /\ ~SessionGone(regOld[r])
          /\ EndSession(regOld[r], "ended")
          /\ regPc' = [regPc EXCEPT ![r] = "insert"]
       \/ /\ SessionGone(regOld[r])
          /\ UNCHANGED sessVars
          /\ regPc' = [regPc EXCEPT ![r] = "failed"]
    /\ regOld' = [regOld EXCEPT ![r] = NoReg]
    /\ UNCHANGED <<regId, wtVars, beatVars, tdVars, swVars, signalVars, announced, crashes>>

\* create_session: the foreign key refuses a session of a deleted worktree.
RegisterInsert(r) ==
    /\ regPc[r] = "insert"
    /\ \/ /\ Present(regId[r])
          /\ sessWorktree' = [sessWorktree EXCEPT ![r] = regId[r]]
          /\ sessStatus' = [sessStatus EXCEPT ![r] = "active"]
          /\ sessFresh' = [sessFresh EXCEPT ![r] = TRUE]
          /\ regPc' = [regPc EXCEPT ![r] = "registered"]
       \/ /\ ~Present(regId[r])
          /\ regPc' = [regPc EXCEPT ![r] = "failed"]
          /\ UNCHANGED sessVars
    /\ UNCHANGED <<regId, regOld, wtVars, beatVars, tdVars, swVars, signalVars, announced, crashes>>

-----------------------------------------------------------------------------
(* heartbeat *)

\* get_current_agent: only the token of the latest registration authenticates.
Authenticated(r) ==
    regPc[r] = "registered" /\ Present(regId[r]) /\ token[regId[r][1]] = r

HeartbeatAuth(r) ==
    /\ beatPc[r] = "idle" /\ Authenticated(r)
    /\ beatPc' = [beatPc EXCEPT ![r] = "find"]
    /\ UNCHANGED <<beatSeen, wtVars, sessVars, regVars, tdVars, swVars, signalVars, announced, crashes>>

\* No active session is a 404, two are a 500: the timer tries again later.
HeartbeatFind(r) ==
    /\ beatPc[r] = "find"
    /\ \/ \E s \in Regs : /\ Found(regId[r], s)
                          /\ beatPc' = [beatPc EXCEPT ![r] = "write"]
                          /\ beatSeen' = [beatSeen EXCEPT ![r] = s]
       \/ /\ FoundNone(regId[r]) \/ FoundMany(regId[r])
          /\ beatPc' = [beatPc EXCEPT ![r] = "idle"]
          /\ UNCHANGED beatSeen
    /\ UNCHANGED <<wtVars, sessVars, regVars, tdVars, swVars, signalVars, announced, crashes>>

\* Mutant: the whole row, as it was read, is written back.
HeartbeatWriteWholeRow(r) ==
    /\ beatPc[r] = "write"
    /\ ~SessionGone(beatSeen[r])
    /\ sessFresh' = [sessFresh EXCEPT ![beatSeen[r]] = TRUE]
    /\ sessStatus' = [sessStatus EXCEPT ![beatSeen[r]] = "active"]
    /\ beatPc' = [beatPc EXCEPT ![r] = "idle"]
    /\ beatSeen' = [beatSeen EXCEPT ![r] = NoReg]
    /\ UNCHANGED <<sessWorktree, wtVars, regVars, tdVars, swVars, signalVars, announced, crashes>>

\* update_heartbeat: only last_heartbeat is dirty, so only that column is
\* written; a row deleted meanwhile raises StaleDataError.
HeartbeatWrite(r) ==
    /\ beatPc[r] = "write"
    /\ sessFresh' = IF SessionGone(beatSeen[r]) THEN sessFresh
                    ELSE [sessFresh EXCEPT ![beatSeen[r]] = TRUE]
    /\ beatPc' = [beatPc EXCEPT ![r] = "idle"]
    /\ beatSeen' = [beatSeen EXCEPT ![r] = NoReg]
    /\ UNCHANGED <<sessWorktree, sessStatus, wtVars, regVars, tdVars, swVars, signalVars, announced, crashes>>

\* Environment: heartbeat_timeout_seconds pass without a heartbeat reaching the row.
Expire(r) ==
    /\ sessStatus[r] = "active" /\ sessFresh[r]
    /\ sessFresh' = [sessFresh EXCEPT ![r] = FALSE]
    /\ UNCHANGED <<sessWorktree, sessStatus, wtVars, regVars, beatVars, tdVars, swVars, signalVars,
                   announced, crashes>>

\* Environment: the agent process ends without unregistering.
AgentExit(r) ==
    /\ regPc[r] = "registered"
    /\ regPc' = [regPc EXCEPT ![r] = "exited"]
    /\ UNCHANGED <<regId, regOld, wtVars, sessVars, beatVars, tdVars, swVars, signalVars, announced, crashes>>

-----------------------------------------------------------------------------
(* request_shutdown: inbox line first, then the DB flag *)

ShutdownWrite(p) ==
    /\ status[p] # "absent" /\ IdOf(p) \notin shutting
    /\ Cardinality(signalled \cup {IdOf(p)}) <= MaxShutdowns
    /\ signalled' = signalled \cup {IdOf(p)}
    /\ shutting' = shutting \cup {IdOf(p)}
    /\ UNCHANGED <<wtVars, sessVars, regVars, beatVars, tdVars, swVars, announced, crashes>>

\* Mutant: the flag is set by path, on whatever row the path has by now.
ShutdownFlagByPath(id) ==
    /\ id \in shutting
    /\ shutdown' = [shutdown EXCEPT ![id[1]] = TRUE]
    /\ shutting' = shutting \ {id}
    /\ UNCHANGED <<gen, status, token, signalled, sessVars, regVars, beatVars, tdVars, swVars,
                   announced, crashes>>

ShutdownFlag(id) ==
    /\ id \in shutting
    /\ shutdown' = IF Present(id) THEN [shutdown EXCEPT ![id[1]] = TRUE] ELSE shutdown
    /\ shutting' = shutting \ {id}
    /\ UNCHANGED <<gen, status, token, signalled, sessVars, regVars, beatVars, tdVars, swVars,
                   announced, crashes>>

-----------------------------------------------------------------------------
(* unregister, unregister_by_path, force_unregister, remove_offline_agents *)

Begin(t, kind, ids) ==
    /\ tdPc[t] = "idle"
    /\ tdPc' = [tdPc EXCEPT ![t] = "find"]
    /\ tdKind' = [tdKind EXCEPT ![t] = kind]
    /\ tdTodo' = [tdTodo EXCEPT ![t] = ids]
    /\ UNCHANGED <<tdId, tdSeen, wtVars, sessVars, beatVars, swVars, signalVars, announced, crashes>>

\* The MCP server stops its heartbeat timer before it calls unregister.
Unregister(t, r) ==
    /\ Authenticated(r)
    /\ regPc' = [regPc EXCEPT ![r] = "exited"]
    /\ UNCHANGED <<regId, regOld>>
    /\ Begin(t, "unregister", {regId[r]})

\* unregister_by_path and force_unregister of a row that is gone change nothing.
UnregisterByPath(t, p) ==
    status[p] # "absent" /\ Begin(t, "unregister", {IdOf(p)}) /\ UNCHANGED regVars

ForceUnregister(t, p) ==
    status[p] # "absent" /\ Begin(t, "force", {IdOf(p)}) /\ UNCHANGED regVars

\* get_offline_worktrees is read once; the loop then works through the list.
OfflineIds == {IdOf(p) : p \in {q \in Paths : status[q] = "offline"}}

RemoveOffline(t) ==
    OfflineIds # {} /\ Begin(t, "remove_offline", OfflineIds) /\ UNCHANGED regVars

\* The request ends, with a response or an exception.
Finish(t) ==
    /\ tdPc' = [tdPc EXCEPT ![t] = "idle"]
    /\ tdKind' = [tdKind EXCEPT ![t] = "force"]
    /\ tdTodo' = [tdTodo EXCEPT ![t] = {}]
    /\ tdId' = [tdId EXCEPT ![t] = NoId]
    /\ tdSeen' = [tdSeen EXCEPT ![t] = NoReg]

\* Mutant: force_unregister publishes nothing either.
AfterEndForceSilent(t) == IF tdKind[t] \in {"force", "remove_offline"} THEN "delete" ELSE "publish"

\* remove_offline_agents publishes nothing.
AfterEnd(t) == IF tdKind[t] = "remove_offline" THEN "delete" ELSE "publish"

TeardownFind(t) ==
    /\ tdPc[t] = "find"
    /\ \E id \in tdTodo[t] :
         \/ /\ FoundNone(id)
            /\ tdPc' = [tdPc EXCEPT ![t] = AfterEnd(t)]
            /\ tdId' = [tdId EXCEPT ![t] = id]
            /\ UNCHANGED <<tdKind, tdTodo, tdSeen>>
         \/ \E s \in Regs : /\ Found(id, s)
                            /\ tdPc' = [tdPc EXCEPT ![t] = "end"]
                            /\ tdId' = [tdId EXCEPT ![t] = id]
                            /\ tdSeen' = [tdSeen EXCEPT ![t] = s]
                            /\ UNCHANGED <<tdKind, tdTodo>>
         \/ FoundMany(id) /\ Finish(t)
    /\ UNCHANGED <<wtVars, sessVars, regVars, beatVars, swVars, signalVars, announced, crashes>>

TeardownEnd(t) ==
    /\ tdPc[t] = "end"
    /\ \/ /\ ~SessionGone(tdSeen[t])
          /\ EndSession(tdSeen[t], IF tdKind[t] = "force" THEN "force_unregistered" ELSE "ended")
          /\ tdPc' = [tdPc EXCEPT ![t] = AfterEnd(t)]
          /\ tdSeen' = [tdSeen EXCEPT ![t] = NoReg]
          /\ UNCHANGED <<tdKind, tdTodo, tdId>>
       \/ SessionGone(tdSeen[t]) /\ Finish(t) /\ UNCHANGED sessVars
    /\ UNCHANGED <<wtVars, regVars, beatVars, swVars, signalVars, announced, crashes>>

\* WORKTREE_OFFLINE and AGENT_UNREGISTERED go out before the row is deleted.
TeardownPublish(t) ==
    /\ tdPc[t] = "publish"
    /\ announced' = announced \cup {tdId[t]}
    /\ tdPc' = [tdPc EXCEPT ![t] = "delete"]
    /\ UNCHANGED <<tdKind, tdTodo, tdId, tdSeen, wtVars, sessVars, regVars, beatVars, swVars,
                   signalVars, crashes>>

\* delete_worktree: the row and all its sessions, in one transaction.
TeardownDelete(t) ==
    /\ tdPc[t] = "delete"
    /\ status' = IF Present(tdId[t]) THEN [status EXCEPT ![tdId[t][1]] = "absent"] ELSE status
    /\ sessStatus' = [r \in Regs |-> IF sessWorktree[r] = tdId[t] THEN "none" ELSE sessStatus[r]]
    /\ \/ tdTodo[t] \subseteq {tdId[t]} /\ Finish(t)
       \/ /\ ~(tdTodo[t] \subseteq {tdId[t]})
          /\ tdPc' = [tdPc EXCEPT ![t] = "find"]
          /\ tdTodo' = [tdTodo EXCEPT ![t] = @ \ {tdId[t]}]
          /\ UNCHANGED <<tdKind, tdId, tdSeen>>
    /\ UNCHANGED <<gen, token, shutdown, sessWorktree, sessFresh, regVars, beatVars, swVars,
                   signalVars, announced, crashes>>

\* A session that register inserts after delete_worktree selected the sessions
\* makes the foreign key refuse the deletion: IntegrityError, nothing is deleted.
TeardownRefused(t) ==
    /\ tdPc[t] = "delete"
    /\ ActiveSessions(tdId[t]) # {}
    /\ Finish(t)
    /\ UNCHANGED <<wtVars, sessVars, regVars, beatVars, swVars, signalVars, announced, crashes>>

-----------------------------------------------------------------------------
(* check_heartbeat_timeouts *)

\* Mutant: only sessions of online worktrees time out.
StaleSessionsOnline ==
    {r \in Regs : sessStatus[r] = "active" /\ ~sessFresh[r] /\ status[sessWorktree[r][1]] = "online"}

\* get_timed_out_sessions
StaleSessions == {r \in Regs : sessStatus[r] = "active" /\ ~sessFresh[r]}

SweepRead(w) ==
    /\ swPc[w] = "idle" /\ StaleSessions # {}
    /\ swPc' = [swPc EXCEPT ![w] = "end"]
    /\ swTodo' = [swTodo EXCEPT ![w] = StaleSessions]
    /\ UNCHANGED <<swCur, wtVars, sessVars, regVars, beatVars, tdVars, signalVars, announced, crashes>>

\* A session deleted since the read raises StaleDataError; the loop logs it and ends this pass.
SweepEnd(w) ==
    /\ swPc[w] = "end"
    /\ \E r \in swTodo[w] :
         \/ /\ ~SessionGone(r)
            /\ EndSession(r, "timed_out")
            /\ swPc' = [swPc EXCEPT ![w] = "offline"]
            /\ swCur' = [swCur EXCEPT ![w] = r]
            /\ UNCHANGED swTodo
         \/ /\ SessionGone(r)
            /\ swPc' = [swPc EXCEPT ![w] = "idle"]
            /\ swTodo' = [swTodo EXCEPT ![w] = {}]
            /\ UNCHANGED <<swCur, sessVars>>
    /\ UNCHANGED <<wtVars, regVars, beatVars, tdVars, signalVars, announced, crashes>>

\* Mutant: the worktree is not marked offline.
SweepOfflineSkipped(w) ==
    /\ swPc[w] = "offline"
    /\ swPc' = [swPc EXCEPT ![w] = "publish"]
    /\ UNCHANGED <<swTodo, swCur, wtVars, sessVars, regVars, beatVars, tdVars, signalVars, announced, crashes>>

\* set_worktree_offline, whatever sessions the worktree has by now.
SweepOffline(w) ==
    LET id == regId[swCur[w]] IN
    /\ swPc[w] = "offline"
    /\ status' = IF Present(id) THEN [status EXCEPT ![id[1]] = "offline"] ELSE status
    /\ swPc' = [swPc EXCEPT ![w] = "publish"]
    /\ UNCHANGED <<swTodo, swCur, gen, token, shutdown, sessVars, regVars, beatVars, tdVars,
                   signalVars, announced, crashes>>

SweepPublish(w) ==
    LET id == regId[swCur[w]] IN
    /\ swPc[w] = "publish"
    /\ announced' = IF Present(id) THEN announced \cup {id} ELSE announced
    /\ swPc' = [swPc EXCEPT ![w] = IF swTodo[w] \subseteq {swCur[w]} THEN "idle" ELSE "end"]
    /\ swTodo' = [swTodo EXCEPT ![w] = @ \ {swCur[w]}]
    /\ swCur' = [swCur EXCEPT ![w] = NoReg]
    /\ UNCHANGED <<wtVars, sessVars, regVars, beatVars, tdVars, signalVars, crashes>>

-----------------------------------------------------------------------------
(* A worker killed (or rotated) between two commits of a handler *)

RegisterCrash(r) ==
    /\ regPc[r] \in Registering
    /\ regPc' = [regPc EXCEPT ![r] = "failed"]
    /\ regOld' = [regOld EXCEPT ![r] = NoReg]
    /\ UNCHANGED <<regId, tdVars, swVars, shutting>>

TeardownCrash(t) == tdPc[t] # "idle" /\ Finish(t) /\ UNCHANGED <<regVars, swVars, shutting>>

SweepCrash(w) ==
    /\ swPc[w] # "idle"
    /\ swPc' = [swPc EXCEPT ![w] = "idle"]
    /\ swTodo' = [swTodo EXCEPT ![w] = {}]
    /\ swCur' = [swCur EXCEPT ![w] = NoReg]
    /\ UNCHANGED <<regVars, tdVars, shutting>>

ShutdownCrash(id) == shutting' = shutting \ {id} /\ UNCHANGED <<regVars, tdVars, swVars>>

Crash ==
    /\ crashes < MaxCrashes
    /\ crashes' = crashes + 1
    /\ \/ \E r \in Regs : RegisterCrash(r)
       \/ \E t \in Teardowns : TeardownCrash(t)
       \/ \E w \in Sweepers : SweepCrash(w)
       \/ \E id \in shutting : ShutdownCrash(id)
    /\ UNCHANGED <<wtVars, sessVars, beatVars, signalled, announced>>

RegisterStep(r) == RegisterToken(r) \/ RegisterFind(r) \/ RegisterEndOld(r) \/ RegisterInsert(r)
HeartbeatStep(r) == HeartbeatFind(r) \/ HeartbeatWrite(r)
TeardownStep(t) == TeardownFind(t) \/ TeardownEnd(t) \/ TeardownPublish(t) \/ TeardownDelete(t)
                   \/ TeardownRefused(t)
SweepStep(w) == SweepRead(w) \/ SweepEnd(w) \/ SweepOffline(w) \/ SweepPublish(w)

Next ==
    \/ \E r \in Regs : \/ \E p \in Paths : RegisterUpsert(r, p)
                       \/ RegisterStep(r)
                       \/ HeartbeatAuth(r)
                       \/ HeartbeatStep(r)
                       \/ Expire(r)
                       \/ AgentExit(r)
    \/ \E p \in Paths : ShutdownWrite(p)
    \/ \E id \in shutting : ShutdownFlag(id)
    \/ \E t \in Teardowns : \/ \E r \in Regs : Unregister(t, r)
                            \/ \E p \in Paths : UnregisterByPath(t, p) \/ ForceUnregister(t, p)
                            \/ RemoveOffline(t)
                            \/ TeardownStep(t)
    \/ \E w \in Sweepers : SweepStep(w)
    \/ Crash

Spec == Init /\ [][Next]_vars

(***************************************************************************)
(* A request that was accepted runs to completion, and the sweep loop runs *)
(* for as long as its worker does; requests, agents and time are free.     *)
(***************************************************************************)
Fairness ==
    /\ \A r \in Regs : WF_vars(RegisterStep(r)) /\ WF_vars(HeartbeatStep(r))
    /\ \A t \in Teardowns : WF_vars(TeardownStep(t))
    /\ \A w \in Sweepers : WF_vars(SweepStep(w))

FairSpec == Spec /\ Fairness

-----------------------------------------------------------------------------
(* Properties *)

\* No worktree has two active sessions. The code guarantees it only where
\* registrations do not overlap.
OneActive ==
    \A r, q \in Regs : /\ sessStatus[r] = "active" /\ sessStatus[q] = "active"
                       /\ sessWorktree[r] = sessWorktree[q]
                       => r = q

\* If register calls of one path do not overlap, a worktree never has two active
\* sessions, whatever sweeps, teardowns, heartbeats and crashes do in between.
\* Every caller of get_active_session relies on it: two rows raise
\* MultipleResultsFound.
AtMostOneActive == Exclusive => OneActive

\* A heartbeat, sweep or teardown that works from a stale read may overwrite how
\* a session ended, but never makes an ended session active again.
SessionNeverRevives ==
    [][\A r \in Regs : sessStatus[r] \in Terminal => sessStatus'[r] # "active"]_vars

\* The shutdown_requested flag of a row is only ever set after the shutdown line
\* for that very row was written to the worktree inbox, also across re-creation.
ShutdownFlagSignalled ==
    \A p \in Paths : status[p] # "absent" /\ shutdown[p] => IdOf(p) \in signalled

\* A worktree row never disappears silently: WORKTREE_OFFLINE for that id was
\* published before, or the operator's remove_offline_agents is deleting it.
DeletedAnnounced ==
    [][\A p \in Paths :
         LET id == IdOf(p) IN
         status[p] # "absent" /\ status'[p] = "absent" =>
            \/ id \in announced
            \/ \E t \in Teardowns : tdKind[t] = "remove_offline" /\ id \in tdTodo[t]]_vars

\* "If an agent's heartbeat goes silent ... the backend marks the session as
\* timed_out": a session never stays active and stale forever.
StaleSessionEnds ==
    \A r \in Regs : (sessStatus[r] = "active" /\ ~sessFresh[r])
                    ~> (sessStatus[r] # "active" \/ sessFresh[r])

\* An online worktree that has no session and no registration on its way to
\* create one does not stay online forever.
Orphaned(p) ==
    /\ status[p] = "online"
    /\ FoundNone(IdOf(p))
    /\ \A r \in Regs : regPc[r] \in Registering => regId[r] # IdOf(p)

OrphanGoesOffline == \A p \in Paths : Orphaned(p) ~> ~Orphaned(p)

-----------------------------------------------------------------------------
(* What the proofs of AgentSessionProofs add to make the invariants inductive *)

\* A register call makes its own session row, once.
InsertsOnce ==
    \A r \in Regs : regPc[r] \in Registering \cup {"unused"} => SessionGone(r)

\* Register calls in flight work on different paths.
RegistersApart ==
    \A r, q \in Regs : /\ regPc[r] \in Registering /\ regPc[q] \in Registering
                       /\ regId[r][1] = regId[q][1]
                       => r = q

\* Between get_active_session and end_session the session that was read stays
\* the only active one of the worktree; from then to create_session there is none.
EndOldCoversAll ==
    \A r \in Regs : regPc[r] = "endOld" => ActiveSessions(regId[r]) \subseteq {regOld[r]}

NoneBeforeInsert ==
    \A r \in Regs : regPc[r] = "insert" => ActiveSessions(regId[r]) = {}

ExclusiveInv ==
    Exclusive => /\ RegistersApart
                 /\ EndOldCoversAll
                 /\ NoneBeforeInsert
                 /\ OneActive

\* A shutdown request reaches its second step only after its inbox line.
ShuttingSignalled == shutting \subseteq signalled

\* A teardown about to delete a row has published its event, unless it never does.
DeleteReady ==
    \A t \in Teardowns :
        /\ tdPc[t] \in {"end", "publish", "delete"} => tdId[t] \in tdTodo[t]
        /\ tdPc[t] = "delete" => tdId[t] \in announced \/ tdKind[t] = "remove_offline"

=============================================================================
