------------------------- MODULE AgentSessionProofs -------------------------
(***************************************************************************)
(* Proofs about AgentSession, for any set of paths, registrations,         *)
(* teardowns and sweepers and any number of shutdowns and crashes.         *)
(***************************************************************************)
EXTENDS AgentSession, TLAPS

LEMMA NoIdType == NoId \in Ids
  BY PathsAssumption DEF NoId, Ids

LEMMA IdOfType == ASSUME TypeOK, NEW p \in Paths PROVE IdOf(p) \in Ids
  BY DEF TypeOK, IdOf, Ids

LEMMA IdIsIdOf == ASSUME NEW id \in Ids, Present(id) PROVE id[1] \in Paths /\ id = IdOf(id[1])
  BY DEF Ids, Present, IdOf

\* TypeOK is inductive once a sweep is known to hold a session while it works on one.
TypeInv ==
    /\ TypeOK
    /\ \A w \in Sweepers : swPc[w] \in {"offline", "publish"} => swCur[w] \in Regs

TdTypeOK ==
    /\ tdPc \in [Teardowns -> {"idle", "find", "end", "publish", "delete"}]
    /\ tdKind \in [Teardowns -> {"unregister", "force", "remove_offline"}]
    /\ tdTodo \in [Teardowns -> SUBSET Ids]
    /\ tdId \in [Teardowns -> Ids]
    /\ tdSeen \in [Teardowns -> RegOrNone]

LEMMA FinishType == ASSUME TypeOK, NEW t \in Teardowns, Finish(t) PROVE TdTypeOK'
  BY NoIdType DEF TypeOK, TdTypeOK, Finish, RegOrNone

LEMMA TypeInit == Init => TypeInv
  BY NoIdType DEF Init, TypeInv, TypeOK, RegOrNone

LEMMA TypeStep == TypeInv /\ [Next]_vars => TypeInv'
<1> SUFFICES ASSUME TypeInv, [Next]_vars PROVE TypeInv'
  OBVIOUS
<1> USE DEF TypeInv
<1>1. ASSUME NEW r \in Regs, NEW p \in Paths, RegisterUpsert(r, p) PROVE TypeInv'
  <2>1. gen' \in [Paths -> Nat] /\ token' \in [Paths -> RegOrNone]
    BY <1>1 DEF TypeOK, RegisterUpsert, RegOrNone
  <2>2. regId' \in [Regs -> Ids]
    BY <1>1, <2>1 DEF TypeOK, RegisterUpsert, Ids
  <2>3. regPc' \in [Regs -> {"unused", "registered", "exited", "failed"} \cup Registering]
    BY <1>1 DEF TypeOK, RegisterUpsert, Registering
  <2>4. shutdown' \in [Paths -> BOOLEAN]
    BY <1>1 DEF TypeOK, RegisterUpsert
  <2> QED
    BY <1>1, <2>1, <2>2, <2>3, <2>4 DEF TypeOK, RegisterUpsert, sessVars, beatVars, tdVars, swVars, signalVars
<1>2. ASSUME NEW r \in Regs, RegisterToken(r) PROVE TypeInv'
  BY <1>2 DEF TypeOK, RegisterToken, RegOrNone, Registering, sessVars, beatVars, tdVars, swVars, signalVars
<1>3. ASSUME NEW r \in Regs, RegisterFind(r) PROVE TypeInv'
  <2>1. /\ regPc' \in [Regs -> {"unused", "registered", "exited", "failed"} \cup Registering]
        /\ regOld' \in [Regs -> RegOrNone]
    BY <1>3 DEF TypeOK, RegisterFind, RegOrNone, Registering
  <2>2. UNCHANGED <<regId, wtVars, sessVars, beatVars, tdVars, swVars, signalVars, announced, crashes>>
    BY <1>3 DEF RegisterFind
  <2> QED
    BY <2>1, <2>2 DEF TypeOK, wtVars, sessVars, beatVars, tdVars, swVars, signalVars
<1>4. ASSUME NEW r \in Regs, RegisterEndOld(r) PROVE TypeInv'
  <2>1. sessStatus' \in [Regs -> {"none", "active"} \cup Terminal] /\ UNCHANGED <<sessWorktree, sessFresh>>
    BY <1>4 DEF TypeOK, RegisterEndOld, EndSession, Terminal, sessVars
  <2>2. regPc' \in [Regs -> {"unused", "registered", "exited", "failed"} \cup Registering]
    BY <1>4 DEF TypeOK, RegisterEndOld, Registering
  <2>3. regOld' \in [Regs -> RegOrNone]
    BY <1>4 DEF TypeOK, RegisterEndOld, RegOrNone
  <2>4. UNCHANGED <<regId, wtVars, beatVars, tdVars, swVars, signalVars, announced, crashes>>
    BY <1>4 DEF RegisterEndOld
  <2> QED
    BY <2>1, <2>2, <2>3, <2>4 DEF TypeOK, wtVars, beatVars, tdVars, swVars, signalVars
<1>5. ASSUME NEW r \in Regs, RegisterInsert(r) PROVE TypeInv'
  <2>1. \/ UNCHANGED sessVars
        \/ /\ sessWorktree' = [sessWorktree EXCEPT ![r] = regId[r]]
           /\ sessStatus' = [sessStatus EXCEPT ![r] = "active"]
           /\ sessFresh' = [sessFresh EXCEPT ![r] = TRUE]
    BY <1>5 DEF RegisterInsert
  <2>2. sessFresh' \in [Regs -> BOOLEAN]
    BY <2>1 DEF TypeOK, sessVars
  <2>3. sessWorktree' \in [Regs -> Ids]
    BY <2>1 DEF TypeOK, sessVars
  <2>4. sessStatus' \in [Regs -> {"none", "active"} \cup Terminal]
    BY <2>1 DEF TypeOK, sessVars
  <2>5. regPc' \in [Regs -> {"unused", "registered", "exited", "failed"} \cup Registering]
    BY <1>5 DEF TypeOK, RegisterInsert, Registering
  <2>6. UNCHANGED <<regId, regOld, wtVars, beatVars, tdVars, swVars, signalVars, announced, crashes>>
    BY <1>5 DEF RegisterInsert
  <2> QED
    BY <2>2, <2>3, <2>4, <2>5, <2>6 DEF TypeOK, wtVars, beatVars, tdVars, swVars, signalVars
<1>6. ASSUME NEW r \in Regs, HeartbeatAuth(r) PROVE TypeInv'
  BY <1>6 DEF TypeOK, HeartbeatAuth, wtVars, sessVars, regVars, tdVars, swVars, signalVars
<1>7. ASSUME NEW r \in Regs, HeartbeatStep(r) PROVE TypeInv'
  <2>1. CASE HeartbeatFind(r)
    <3>1. beatPc' \in [Regs -> {"idle", "find", "write"}] /\ beatSeen' \in [Regs -> RegOrNone]
      BY <2>1 DEF TypeOK, HeartbeatFind, RegOrNone
    <3>2. UNCHANGED <<wtVars, sessVars, regVars, tdVars, swVars, signalVars, announced, crashes>>
      BY <2>1 DEF HeartbeatFind
    <3> QED
      BY <3>1, <3>2 DEF TypeOK, wtVars, sessVars, regVars, tdVars, swVars, signalVars
  <2>2. CASE HeartbeatWrite(r)
    <3>1. sessFresh' \in [Regs -> BOOLEAN]
      BY <2>2 DEF TypeOK, HeartbeatWrite
    <3> QED
      BY <2>2, <3>1 DEF TypeOK, HeartbeatWrite, RegOrNone, wtVars, regVars, tdVars, swVars, signalVars
  <2> QED
    BY <1>7, <2>1, <2>2 DEF HeartbeatStep
<1>8. ASSUME NEW r \in Regs, Expire(r) \/ AgentExit(r) PROVE TypeInv'
  <2>1. CASE Expire(r)
    <3>1. sessFresh' \in [Regs -> BOOLEAN]
      BY <2>1 DEF TypeOK, Expire
    <3> QED
      BY <2>1, <3>1 DEF TypeOK, Expire, wtVars, regVars, beatVars, tdVars, swVars, signalVars
  <2>2. CASE AgentExit(r)
    BY <2>2 DEF TypeOK, AgentExit, wtVars, sessVars, beatVars, tdVars, swVars, signalVars
  <2> QED
    BY <1>8, <2>1, <2>2
<1>9. ASSUME NEW p \in Paths, ShutdownWrite(p) PROVE TypeInv'
  BY <1>9, IdOfType DEF TypeOK, ShutdownWrite, wtVars, sessVars, regVars, beatVars, tdVars, swVars
<1>10. ASSUME NEW id \in shutting, ShutdownFlag(id) PROVE TypeInv'
  <2>1. shutdown' \in [Paths -> BOOLEAN]
    BY <1>10 DEF TypeOK, ShutdownFlag
  <2> QED
    BY <1>10, <2>1 DEF TypeOK, ShutdownFlag, sessVars, regVars, beatVars, tdVars, swVars
<1>11. ASSUME NEW t \in Teardowns, NEW r \in Regs, Unregister(t, r) PROVE TypeInv'
  BY <1>11 DEF TypeOK, Unregister, Begin, wtVars, sessVars, beatVars, swVars, signalVars
<1>12. ASSUME NEW t \in Teardowns, NEW p \in Paths, UnregisterByPath(t, p) \/ ForceUnregister(t, p)
       PROVE TypeInv'
  BY <1>12, IdOfType DEF TypeOK, UnregisterByPath, ForceUnregister, Begin, wtVars, sessVars, regVars, beatVars, swVars, signalVars
<1>13. ASSUME NEW t \in Teardowns, RemoveOffline(t) PROVE TypeInv'
  <2>1. OfflineIds \in SUBSET Ids
    BY IdOfType DEF OfflineIds
  <2> QED
    BY <1>13, <2>1 DEF TypeOK, RemoveOffline, Begin, wtVars, sessVars, regVars, beatVars, swVars, signalVars
<1>14. ASSUME NEW t \in Teardowns, TeardownFind(t) PROVE TypeInv'
  <2>1. TdTypeOK'
    <3> PICK id \in tdTodo[t] :
          \/ /\ tdPc' = [tdPc EXCEPT ![t] = AfterEnd(t)]
             /\ tdId' = [tdId EXCEPT ![t] = id]
             /\ UNCHANGED <<tdKind, tdTodo, tdSeen>>
          \/ \E s \in Regs : /\ tdPc' = [tdPc EXCEPT ![t] = "end"]
                             /\ tdId' = [tdId EXCEPT ![t] = id]
                             /\ tdSeen' = [tdSeen EXCEPT ![t] = s]
                             /\ UNCHANGED <<tdKind, tdTodo>>
          \/ Finish(t)
      BY <1>14 DEF TeardownFind
    <3>1. id \in Ids /\ TdTypeOK /\ AfterEnd(t) \in {"publish", "delete"}
      BY DEF TypeOK, TdTypeOK, AfterEnd
    <3>2. \A s \in Regs : s \in RegOrNone
      BY DEF RegOrNone
    <3>3. CASE Finish(t)
      BY <3>3, FinishType
    <3> QED
      BY <3>1, <3>2, <3>3 DEF TdTypeOK
  <2>2. UNCHANGED <<wtVars, sessVars, regVars, beatVars, swVars, signalVars, announced, crashes>>
    BY <1>14 DEF TeardownFind
  <2> QED
    BY <2>1, <2>2 DEF TypeOK, TdTypeOK, wtVars, sessVars, regVars, beatVars, swVars, signalVars
<1>15. ASSUME NEW t \in Teardowns, TeardownEnd(t) PROVE TypeInv'
  <2>1. TdTypeOK'
    BY <1>15, FinishType DEF TypeOK, TdTypeOK, TeardownEnd, AfterEnd, RegOrNone
  <2>2. sessStatus' \in [Regs -> {"none", "active"} \cup Terminal] /\ UNCHANGED <<sessWorktree, sessFresh>>
    BY <1>15 DEF TypeOK, TeardownEnd, EndSession, Terminal, sessVars
  <2> QED
    BY <1>15, <2>1, <2>2 DEF TypeOK, TdTypeOK, TeardownEnd, wtVars, regVars, beatVars, swVars, signalVars
<1>16. ASSUME NEW t \in Teardowns, TeardownPublish(t) PROVE TypeInv'
  BY <1>16 DEF TypeOK, TeardownPublish, wtVars, sessVars, regVars, beatVars, swVars, signalVars
<1>17. ASSUME NEW t \in Teardowns, TeardownDelete(t) \/ TeardownRefused(t) PROVE TypeInv'
  <2>1. TdTypeOK'
    <3>1. CASE Finish(t)
      BY <3>1, FinishType
    <3>2. CASE /\ tdPc' = [tdPc EXCEPT ![t] = "find"] /\ tdTodo' = [tdTodo EXCEPT ![t] = @ \ {tdId[t]}]
               /\ UNCHANGED <<tdKind, tdId, tdSeen>>
      <4>1. TdTypeOK
        BY DEF TypeOK, TdTypeOK
      <4> QED
        BY <3>2, <4>1 DEF TdTypeOK
    <3> QED
      BY <1>17, <3>1, <3>2 DEF TeardownDelete, TeardownRefused
  <2>2. /\ status' \in [Paths -> {"absent", "online", "offline"}]
        /\ sessStatus' \in [Regs -> {"none", "active"} \cup Terminal]
    BY <1>17 DEF TypeOK, TeardownDelete, TeardownRefused, wtVars, sessVars
  <2>3. /\ UNCHANGED <<gen, token, shutdown, sessWorktree, sessFresh>>
        /\ UNCHANGED <<regVars, beatVars, swVars, signalVars, announced, crashes>>
    BY <1>17 DEF TeardownDelete, TeardownRefused, wtVars, sessVars
  <2> QED
    BY <2>1, <2>2, <2>3 DEF TypeOK, TdTypeOK, regVars, beatVars, swVars, signalVars
<1>18. ASSUME NEW w \in Sweepers, SweepRead(w) PROVE TypeInv'
  BY <1>18 DEF TypeOK, SweepRead, StaleSessions, wtVars, sessVars, regVars, beatVars, tdVars, signalVars
<1>19. ASSUME NEW w \in Sweepers, SweepEnd(w) PROVE TypeInv'
  <2>1. sessStatus' \in [Regs -> {"none", "active"} \cup Terminal] /\ UNCHANGED <<sessWorktree, sessFresh>>
    BY <1>19 DEF TypeOK, SweepEnd, EndSession, Terminal, sessVars
  <2>2. /\ swPc' \in [Sweepers -> {"idle", "end", "offline", "publish"}]
        /\ swTodo' \in [Sweepers -> SUBSET Regs] /\ swCur' \in [Sweepers -> RegOrNone]
        /\ \A v \in Sweepers : swPc'[v] \in {"offline", "publish"} => swCur'[v] \in Regs
    BY <1>19 DEF TypeOK, SweepEnd, RegOrNone
  <2>3. UNCHANGED <<wtVars, regVars, beatVars, tdVars, signalVars, announced, crashes>>
    BY <1>19 DEF SweepEnd
  <2> QED
    BY <2>1, <2>2, <2>3 DEF TypeOK, wtVars, regVars, beatVars, tdVars, signalVars
<1>20. ASSUME NEW w \in Sweepers, SweepOffline(w) PROVE TypeInv'
  BY <1>20 DEF TypeOK, SweepOffline, sessVars, regVars, beatVars, tdVars, signalVars
<1>21. ASSUME NEW w \in Sweepers, SweepPublish(w) PROVE TypeInv'
  BY <1>21 DEF TypeOK, SweepPublish, RegOrNone, wtVars, sessVars, regVars, beatVars, tdVars, signalVars
<1>22. CASE Crash
  <2> USE <1>22 DEF Crash, TypeOK, wtVars, sessVars, beatVars
  <2>1. ASSUME NEW r \in Regs, RegisterCrash(r) PROVE TypeInv'
    BY <2>1 DEF RegisterCrash, RegOrNone, tdVars, swVars
  <2>2. ASSUME NEW t \in Teardowns, TeardownCrash(t) PROVE TypeInv'
    BY <2>2, FinishType DEF TeardownCrash, TdTypeOK, regVars, swVars
  <2>3. ASSUME NEW w \in Sweepers, SweepCrash(w) PROVE TypeInv'
    BY <2>3 DEF SweepCrash, RegOrNone, regVars, tdVars
  <2>4. ASSUME NEW id \in shutting, ShutdownCrash(id) PROVE TypeInv'
    BY <2>4 DEF ShutdownCrash, regVars, tdVars, swVars
  <2> QED
    BY <2>1, <2>2, <2>3, <2>4
<1>23. CASE UNCHANGED vars
  BY <1>23 DEF TypeOK, vars, wtVars, sessVars, regVars, beatVars, tdVars, swVars, signalVars
<1> QED
  BY <1>1, <1>2, <1>3, <1>4, <1>5, <1>6, <1>7, <1>8, <1>9, <1>10, <1>11, <1>12, <1>13,
     <1>14, <1>15, <1>16, <1>17, <1>18, <1>19, <1>20, <1>21, <1>22, <1>23
     DEF Next, RegisterStep, TeardownStep, SweepStep

\* Every reachable state is well typed: rows, sessions and the state each handler carries.
THEOREM TypeCorrect == Spec => []TypeOK
<1>1. TypeInv => TypeOK
  BY DEF TypeInv
<1> QED
  BY <1>1, TypeInit, TypeStep, PTL DEF Spec

-----------------------------------------------------------------------------
(* A register call inserts once *)

\* end_session through a stale read: only a row that still exists changes, and
\* it stays a row.
LEMMA EndSessionInsertsNone ==
    ASSUME TypeInv, InsertsOnce, NEW s, NEW how \in Terminal, ~SessionGone(s), EndSession(s, how),
           UNCHANGED <<wtVars, regId>>,
           \A r \in Regs : regPc'[r] \in Registering \cup {"unused"}
                          => regPc[r] \in Registering \cup {"unused"}
    PROVE  InsertsOnce'
  BY DEF TypeInv, TypeOK, InsertsOnce, EndSession, SessionGone, Present, Terminal, wtVars

LEMMA InsertsOnceStep == TypeInv /\ InsertsOnce /\ [Next]_vars => InsertsOnce'
<1> SUFFICES ASSUME TypeInv, InsertsOnce, [Next]_vars PROVE InsertsOnce'
  OBVIOUS
<1> USE DEF TypeInv
<1>1. ASSUME NEW r \in Regs, NEW p \in Paths, RegisterUpsert(r, p) PROVE InsertsOnce'
  BY <1>1 DEF TypeOK, RegisterUpsert, InsertsOnce, SessionGone, Registering, sessVars
<1>2. ASSUME NEW r \in Regs, RegisterToken(r) \/ RegisterFind(r) PROVE InsertsOnce'
  BY <1>2 DEF TypeOK, RegisterToken, RegisterFind, InsertsOnce, SessionGone, Present, Registering, wtVars, sessVars
<1>3. ASSUME NEW r \in Regs, RegisterEndOld(r) PROVE InsertsOnce'
  <2>1. CASE SessionGone(regOld[r])
    BY <1>3, <2>1 DEF TypeOK, RegisterEndOld, InsertsOnce, SessionGone, Present, Registering, wtVars, sessVars
  <2>2. CASE ~SessionGone(regOld[r])
    <3>1. \A q \in Regs : regPc'[q] \in Registering \cup {"unused"} => regPc[q] \in Registering \cup {"unused"}
      BY <1>3 DEF TypeOK, RegisterEndOld, Registering
    <3> QED
      BY <1>3, <2>2, <3>1, EndSessionInsertsNone DEF RegisterEndOld, Terminal
  <2> QED
    BY <2>1, <2>2
<1>4. ASSUME NEW r \in Regs, RegisterInsert(r) PROVE InsertsOnce'
  BY <1>4 DEF TypeOK, RegisterInsert, InsertsOnce, SessionGone, Registering, sessVars
<1>5. ASSUME NEW t \in Teardowns, TeardownEnd(t) PROVE InsertsOnce'
  <2>1. CASE SessionGone(tdSeen[t])
    BY <1>5, <2>1 DEF TeardownEnd, InsertsOnce, SessionGone, Present, wtVars, sessVars, regVars
  <2>2. CASE ~SessionGone(tdSeen[t])
    BY <1>5, <2>2, EndSessionInsertsNone DEF TeardownEnd, Terminal, regVars
  <2> QED
    BY <2>1, <2>2
<1>6. ASSUME NEW t \in Teardowns, TeardownDelete(t) PROVE InsertsOnce'
  BY <1>6 DEF TypeOK, TeardownDelete, InsertsOnce, SessionGone, regVars
<1>7. ASSUME NEW w \in Sweepers, SweepEnd(w) PROVE InsertsOnce'
  <2> PICK r \in swTodo[w] :
         \/ ~SessionGone(r) /\ EndSession(r, "timed_out")
         \/ SessionGone(r) /\ UNCHANGED sessVars
    BY <1>7 DEF SweepEnd
  <2>1. CASE SessionGone(r)
    BY <1>7, <2>1 DEF SweepEnd, InsertsOnce, SessionGone, Present, wtVars, sessVars, regVars
  <2>2. CASE ~SessionGone(r)
    BY <1>7, <2>2, EndSessionInsertsNone DEF SweepEnd, Terminal, regVars
  <2> QED
    BY <2>1, <2>2
<1>8. ASSUME NEW w \in Sweepers, SweepOffline(w) PROVE InsertsOnce'
  BY <1>8 DEF TypeOK, SweepOffline, InsertsOnce, SessionGone, Present, Ids, sessVars, regVars
<1>9. CASE UNCHANGED <<gen, status, sessWorktree, sessStatus>>
           /\ \A r \in Regs : regPc'[r] \in Registering \cup {"unused"} => regPc[r] \in Registering \cup {"unused"}
  BY <1>9 DEF InsertsOnce, SessionGone, Present
<1>10. ASSUME NEW r \in Regs, HeartbeatAuth(r) \/ HeartbeatStep(r) \/ Expire(r) PROVE InsertsOnce'
  BY <1>10, <1>9 DEF HeartbeatAuth, HeartbeatStep, HeartbeatFind, HeartbeatWrite, Expire, wtVars, sessVars, regVars
<1>11. ASSUME NEW r \in Regs, AgentExit(r) PROVE InsertsOnce'
  BY <1>11, <1>9 DEF TypeOK, AgentExit, Registering, wtVars, sessVars
<1>12. ASSUME NEW p \in Paths, ShutdownWrite(p) PROVE InsertsOnce'
  BY <1>12, <1>9 DEF ShutdownWrite, wtVars, sessVars, regVars
<1>13. ASSUME NEW id \in shutting, ShutdownFlag(id) PROVE InsertsOnce'
  BY <1>13, <1>9 DEF ShutdownFlag, sessVars, regVars
<1>14. ASSUME NEW t \in Teardowns, NEW r \in Regs, Unregister(t, r) PROVE InsertsOnce'
  BY <1>14, <1>9 DEF TypeOK, Unregister, Begin, Registering, wtVars, sessVars
<1>15. ASSUME NEW t \in Teardowns, NEW p \in Paths,
              UnregisterByPath(t, p) \/ ForceUnregister(t, p) \/ RemoveOffline(t)
       PROVE InsertsOnce'
  BY <1>15, <1>9 DEF UnregisterByPath, ForceUnregister, RemoveOffline, Begin, wtVars, sessVars, regVars
<1>16. ASSUME NEW t \in Teardowns, TeardownFind(t) \/ TeardownPublish(t) \/ TeardownRefused(t) PROVE InsertsOnce'
  BY <1>16, <1>9 DEF TeardownFind, TeardownPublish, TeardownRefused, wtVars, sessVars, regVars
<1>17. ASSUME NEW w \in Sweepers, SweepRead(w) \/ SweepPublish(w) PROVE InsertsOnce'
  BY <1>17, <1>9 DEF SweepRead, SweepPublish, wtVars, sessVars, regVars
<1>18. CASE Crash
  BY <1>18, <1>9 DEF TypeOK, Crash, RegisterCrash, TeardownCrash, SweepCrash, ShutdownCrash, Registering, wtVars, sessVars, regVars
<1>19. CASE UNCHANGED vars
  BY <1>19, <1>9 DEF vars, wtVars, sessVars, regVars
<1> QED
  BY <1>1, <1>2, <1>3, <1>4, <1>5, <1>6, <1>7, <1>8, <1>10, <1>11, <1>12, <1>13,
     <1>14, <1>15, <1>16, <1>17, <1>18, <1>19, PathsAssumption
     DEF Next, RegisterStep, TeardownStep, SweepStep

-----------------------------------------------------------------------------
(* Ended sessions stay ended *)

LEMMA SessionStatusStep ==
    ASSUME TypeInv, InsertsOnce, [Next]_vars, NEW r \in Regs
    PROVE  \/ sessStatus'[r] \in {sessStatus[r], "none"} \cup Terminal
           \/ /\ sessStatus[r] = "none"
              /\ RegisterInsert(r)
<1> USE DEF TypeInv
<1>1. CASE UNCHANGED sessStatus
  BY <1>1
<1>2. ASSUME NEW q \in Regs, RegisterEndOld(q) PROVE sessStatus'[r] \in {sessStatus[r]} \cup Terminal
  BY <1>2 DEF TypeOK, RegisterEndOld, EndSession, Terminal, sessVars
<1>3. ASSUME NEW q \in Regs, RegisterInsert(q), q # r PROVE sessStatus'[r] = sessStatus[r]
  BY <1>3 DEF TypeOK, RegisterInsert, sessVars
<1>4. ASSUME RegisterInsert(r) PROVE sessStatus[r] = "none"
  BY <1>4 DEF RegisterInsert, InsertsOnce, SessionGone, Registering
<1>5. ASSUME NEW t \in Teardowns, TeardownEnd(t) PROVE sessStatus'[r] \in {sessStatus[r]} \cup Terminal
  BY <1>5 DEF TypeOK, TeardownEnd, EndSession, Terminal, sessVars
<1>6. ASSUME NEW t \in Teardowns, TeardownDelete(t) PROVE sessStatus'[r] \in {sessStatus[r], "none"}
  BY <1>6 DEF TypeOK, TeardownDelete
<1>7. ASSUME NEW w \in Sweepers, SweepEnd(w) PROVE sessStatus'[r] \in {sessStatus[r]} \cup Terminal
  BY <1>7 DEF TypeOK, SweepEnd, EndSession, Terminal, sessVars
<1>8. ASSUME NEW q \in Regs,
             \/ \E p \in Paths : RegisterUpsert(q, p)
             \/ RegisterToken(q) \/ RegisterFind(q)
             \/ HeartbeatAuth(q) \/ HeartbeatStep(q) \/ Expire(q) \/ AgentExit(q)
      PROVE UNCHANGED sessStatus
  BY <1>8 DEF RegisterUpsert, RegisterToken, RegisterFind, HeartbeatAuth, HeartbeatStep, HeartbeatFind, HeartbeatWrite, Expire, AgentExit, sessVars
<1>9. ASSUME NEW t \in Teardowns,
             \/ \E q \in Regs : Unregister(t, q)
             \/ \E p \in Paths : UnregisterByPath(t, p) \/ ForceUnregister(t, p)
             \/ RemoveOffline(t)
             \/ TeardownFind(t) \/ TeardownPublish(t) \/ TeardownRefused(t)
      PROVE UNCHANGED sessStatus
  BY <1>9 DEF Unregister, UnregisterByPath, ForceUnregister, RemoveOffline, Begin, TeardownFind, TeardownPublish, TeardownRefused, sessVars
<1>10. ASSUME NEW w \in Sweepers, SweepRead(w) \/ SweepOffline(w) \/ SweepPublish(w)
       PROVE UNCHANGED sessStatus
  BY <1>10 DEF SweepRead, SweepOffline, SweepPublish, sessVars
<1>11. ASSUME \/ \E p \in Paths : ShutdownWrite(p)
              \/ \E id \in shutting : ShutdownFlag(id)
              \/ Crash
              \/ UNCHANGED vars
       PROVE UNCHANGED sessStatus
  BY <1>11 DEF ShutdownWrite, ShutdownFlag, Crash, vars, sessVars
<1> QED
  BY <1>1, <1>2, <1>3, <1>4, <1>5, <1>6, <1>7, <1>8, <1>9, <1>10, <1>11
     DEF Next, RegisterStep, TeardownStep, SweepStep

\* No handler working from a stale read makes an ended session active again:
\* update_heartbeat writes one column, end_session only ends, create_session
\* inserts a row of its own.
THEOREM NeverRevives == Spec => SessionNeverRevives
<1>1. Init => InsertsOnce
  BY DEF Init, InsertsOnce, SessionGone
<1>2. TypeInv /\ InsertsOnce /\ [Next]_vars
      => [\A r \in Regs : sessStatus[r] \in Terminal => sessStatus'[r] # "active"]_vars
  <2> SUFFICES ASSUME TypeInv, InsertsOnce, [Next]_vars, NEW r \in Regs, sessStatus[r] \in Terminal
               PROVE sessStatus'[r] # "active"
    OBVIOUS
  <2> QED
    BY SessionStatusStep DEF Terminal
<1> QED
  BY <1>1, <1>2, TypeInit, TypeStep, InsertsOnceStep, PTL DEF Spec, SessionNeverRevives

-----------------------------------------------------------------------------
(* One active session per worktree, when the registrations of a path do not overlap *)

\* Steps that activate no session and start no registration.
LEMMA NothingActivated ==
    ASSUME ExclusiveInv, UNCHANGED <<sessWorktree, regId>>,
           \A s \in Regs : sessStatus'[s] = "active" => sessStatus[s] = "active",
           \A r \in Regs : regPc'[r] \in Registering => regPc[r] \in Registering,
           \A r \in Regs : regPc'[r] \in {"endOld", "insert"} => regPc'[r] = regPc[r] /\ regOld'[r] = regOld[r]
    PROVE  ExclusiveInv'
  BY DEF ExclusiveInv, RegistersApart, EndOldCoversAll, NoneBeforeInsert, OneActive, ActiveSessions

LEMMA ExclusiveStep == TypeInv /\ InsertsOnce /\ ExclusiveInv /\ [Next]_vars => ExclusiveInv'
<1> SUFFICES ASSUME TypeInv, InsertsOnce, ExclusiveInv, [Next]_vars PROVE ExclusiveInv'
  OBVIOUS
<1> USE DEF TypeInv
<1>1. ASSUME NEW r \in Regs, NEW p \in Paths, RegisterUpsert(r, p) PROVE ExclusiveInv'
  <2> SUFFICES ASSUME Exclusive
               PROVE RegistersApart' /\ EndOldCoversAll' /\ NoneBeforeInsert' /\ OneActive'
    BY DEF ExclusiveInv
  <2>1. /\ regPc' = [regPc EXCEPT ![r] = "token"]
        /\ regId' = [regId EXCEPT ![r] = <<p, gen'[p]>>]
        /\ UNCHANGED <<regOld, sessWorktree, sessStatus>>
    BY <1>1 DEF RegisterUpsert, sessVars
  <2>2. \A q \in Regs : regPc[q] \in Registering => regId[q][1] # p
    BY <1>1 DEF RegisterUpsert
  <2>3. RegistersApart'
    BY <2>1, <2>2 DEF TypeOK, ExclusiveInv, RegistersApart, Registering
  <2>4. EndOldCoversAll' /\ NoneBeforeInsert' /\ OneActive'
    BY <2>1 DEF TypeOK, ExclusiveInv, EndOldCoversAll, NoneBeforeInsert, OneActive, ActiveSessions
  <2> QED
    BY <2>3, <2>4
<1>2. ASSUME NEW r \in Regs, RegisterToken(r) PROVE ExclusiveInv'
  BY <1>2, NothingActivated DEF TypeOK, RegisterToken, Registering, sessVars
<1>3. ASSUME NEW r \in Regs, RegisterFind(r) PROVE ExclusiveInv'
  <2>1. UNCHANGED <<regId, sessWorktree, sessStatus>>
    BY <1>3 DEF RegisterFind, sessVars
  <2>2. \A q \in Regs : q # r => regPc'[q] = regPc[q] /\ regOld'[q] = regOld[q]
    BY <1>3 DEF TypeOK, RegisterFind
  <2>3. regPc[r] = "find" /\ regPc'[r] \in {"insert", "endOld", "failed"}
    BY <1>3 DEF TypeOK, RegisterFind
  <2>4. /\ regPc'[r] = "insert" => ActiveSessions(regId[r]) = {}
        /\ regPc'[r] = "endOld" => ActiveSessions(regId[r]) \subseteq {regOld'[r]}
    BY <1>3 DEF TypeOK, RegisterFind, FoundNone, Found
  <2> QED
    BY <2>1, <2>2, <2>3, <2>4 DEF ExclusiveInv, RegistersApart, EndOldCoversAll, NoneBeforeInsert, OneActive, ActiveSessions, Registering
<1>4. ASSUME NEW r \in Regs, RegisterEndOld(r) PROVE ExclusiveInv'
  <2>1. CASE SessionGone(regOld[r])
    BY <1>4, <2>1, NothingActivated DEF TypeOK, RegisterEndOld, Registering, sessVars
  <2>2. CASE ~SessionGone(regOld[r])
    <3>1. /\ UNCHANGED <<regId, sessWorktree>>
          /\ sessStatus' = [sessStatus EXCEPT ![regOld[r]] = "ended"]
          /\ regPc[r] = "endOld" /\ regPc'[r] = "insert"
          /\ \A q \in Regs : q # r => regPc'[q] = regPc[q] /\ regOld'[q] = regOld[q]
      BY <1>4, <2>2 DEF TypeOK, RegisterEndOld, EndSession
    <3>2. \A s \in Regs : sessStatus'[s] = "active" => sessStatus[s] = "active" /\ s # regOld[r]
      BY <3>1 DEF TypeOK
    <3> QED
      BY <3>1, <3>2 DEF ExclusiveInv, RegistersApart, EndOldCoversAll, NoneBeforeInsert, OneActive, ActiveSessions, Registering
  <2> QED
    BY <2>1, <2>2
<1>5. ASSUME NEW r \in Regs, RegisterInsert(r) PROVE ExclusiveInv'
  <2>1. CASE ~Present(regId[r])
    BY <1>5, <2>1, NothingActivated DEF TypeOK, RegisterInsert, Registering, sessVars
  <2>2. CASE Present(regId[r])
    <3>1. /\ UNCHANGED <<regId, regOld>>
          /\ regPc[r] = "insert" /\ regPc'[r] = "registered"
          /\ sessWorktree'[r] = regId[r]
          /\ \A q \in Regs : q # r => /\ regPc'[q] = regPc[q]
                                       /\ sessWorktree'[q] = sessWorktree[q]
                                       /\ sessStatus'[q] = sessStatus[q]
      BY <1>5, <2>2 DEF TypeOK, RegisterInsert
    <3>2. Exclusive => \A q \in Regs : regPc'[q] \in {"endOld", "insert"} => regId[q] # regId[r]
      BY <3>1 DEF ExclusiveInv, RegistersApart, Registering
    <3> QED
      BY <3>1, <3>2 DEF ExclusiveInv, RegistersApart, EndOldCoversAll, NoneBeforeInsert, OneActive, ActiveSessions, Registering
  <2> QED
    BY <2>1, <2>2
<1>6. ASSUME NEW r \in Regs, HeartbeatAuth(r) \/ HeartbeatStep(r) \/ Expire(r) PROVE ExclusiveInv'
  BY <1>6, NothingActivated DEF HeartbeatAuth, HeartbeatStep, HeartbeatFind, HeartbeatWrite, Expire, sessVars, regVars
<1>7. ASSUME NEW r \in Regs, AgentExit(r) PROVE ExclusiveInv'
  BY <1>7, NothingActivated DEF TypeOK, AgentExit, Registering, sessVars
<1>8. ASSUME NEW t \in Teardowns, NEW r \in Regs, Unregister(t, r) PROVE ExclusiveInv'
  BY <1>8, NothingActivated DEF TypeOK, Unregister, Begin, Registering, sessVars
<1>9. ASSUME NEW t \in Teardowns, NEW p \in Paths,
             UnregisterByPath(t, p) \/ ForceUnregister(t, p) \/ RemoveOffline(t)
      PROVE ExclusiveInv'
  BY <1>9, NothingActivated DEF UnregisterByPath, ForceUnregister, RemoveOffline, Begin, sessVars, regVars
<1>10. ASSUME NEW t \in Teardowns, TeardownFind(t) \/ TeardownPublish(t) \/ TeardownRefused(t) PROVE ExclusiveInv'
  BY <1>10, NothingActivated DEF TeardownFind, TeardownPublish, TeardownRefused, sessVars, regVars
<1>11. ASSUME NEW t \in Teardowns, TeardownEnd(t) PROVE ExclusiveInv'
  BY <1>11, NothingActivated DEF TypeOK, TeardownEnd, EndSession, sessVars, regVars
<1>12. ASSUME NEW t \in Teardowns, TeardownDelete(t) PROVE ExclusiveInv'
  BY <1>12, NothingActivated DEF TypeOK, TeardownDelete, regVars
<1>13. ASSUME NEW w \in Sweepers, SweepRead(w) \/ SweepOffline(w) \/ SweepPublish(w) PROVE ExclusiveInv'
  BY <1>13, NothingActivated DEF SweepRead, SweepOffline, SweepPublish, sessVars, regVars
<1>14. ASSUME NEW w \in Sweepers, SweepEnd(w) PROVE ExclusiveInv'
  BY <1>14, NothingActivated DEF TypeOK, SweepEnd, EndSession, sessVars, regVars
<1>15. ASSUME \/ \E p \in Paths : ShutdownWrite(p)
              \/ \E id \in shutting : ShutdownFlag(id)
              \/ UNCHANGED vars
       PROVE ExclusiveInv'
  BY <1>15, NothingActivated DEF ShutdownWrite, ShutdownFlag, vars, sessVars, regVars
<1>16. CASE Crash
  BY <1>16, NothingActivated DEF TypeOK, Crash, RegisterCrash, TeardownCrash, SweepCrash, ShutdownCrash, Registering, sessVars, regVars
<1> QED
  BY <1>1, <1>2, <1>3, <1>4, <1>5, <1>6, <1>7, <1>8, <1>9, <1>10, <1>11, <1>12, <1>13,
     <1>14, <1>15, <1>16, PathsAssumption
     DEF Next, RegisterStep, TeardownStep, SweepStep

\* If the register calls of one path do not overlap, get_active_session never
\* finds two rows, whatever sweeps, teardowns, heartbeats and crashes come between
\* the commits of register.
THEOREM OneActiveSession == Spec => []AtMostOneActive
<1>1. Init => InsertsOnce /\ ExclusiveInv
  BY DEF Init, InsertsOnce, SessionGone, ExclusiveInv, RegistersApart,
         EndOldCoversAll, NoneBeforeInsert, OneActive, Registering
<1>2. ExclusiveInv => AtMostOneActive
  BY DEF ExclusiveInv, AtMostOneActive
<1> QED
  BY <1>1, <1>2, TypeInit, TypeStep, InsertsOnceStep, ExclusiveStep, PTL DEF Spec

-----------------------------------------------------------------------------
(* Announcements and signals *)

ShutdownInv == ShutdownFlagSignalled /\ ShuttingSignalled

\* Steps that set no flag, create no row and forget no signal.
LEMMA FlagsKept ==
    ASSUME ShutdownInv, UNCHANGED <<gen, shutdown, signalled>>, shutting' \subseteq shutting,
           \A p \in Paths : status'[p] # "absent" => status[p] # "absent"
    PROVE  ShutdownInv'
  BY DEF ShutdownInv, ShutdownFlagSignalled, ShuttingSignalled, IdOf

LEMMA ShutdownStep == TypeInv /\ ShutdownInv /\ [Next]_vars => ShutdownInv'
<1> SUFFICES ASSUME TypeInv, ShutdownInv, [Next]_vars PROVE ShutdownInv'
  OBVIOUS
<1> USE DEF TypeInv
<1>1. ASSUME NEW r \in Regs, NEW p \in Paths, RegisterUpsert(r, p) PROVE ShutdownInv'
  BY <1>1 DEF TypeOK, RegisterUpsert, ShutdownInv, ShutdownFlagSignalled, ShuttingSignalled, IdOf, signalVars
<1>2. ASSUME NEW r \in Regs,
             RegisterStep(r) \/ HeartbeatAuth(r) \/ HeartbeatStep(r) \/ Expire(r) \/ AgentExit(r)
      PROVE ShutdownInv'
  BY <1>2, FlagsKept DEF RegisterStep, RegisterToken, RegisterFind, RegisterEndOld, RegisterInsert, HeartbeatAuth, HeartbeatStep, HeartbeatFind, HeartbeatWrite, Expire, AgentExit, wtVars, signalVars
<1>3. ASSUME NEW p \in Paths, ShutdownWrite(p) PROVE ShutdownInv'
  BY <1>3 DEF ShutdownWrite, ShutdownInv, ShutdownFlagSignalled, ShuttingSignalled, IdOf, wtVars
<1>4. ASSUME NEW id \in shutting, ShutdownFlag(id) PROVE ShutdownInv'
  <2>1. CASE ~Present(id)
    BY <1>4, <2>1, FlagsKept DEF ShutdownFlag
  <2>2. CASE Present(id)
    <3>1. id \in Ids /\ id \in signalled
      BY DEF TypeOK, ShutdownInv, ShuttingSignalled
    <3>2. id[1] \in Paths /\ id = IdOf(id[1])
      BY <2>2, <3>1, IdIsIdOf
    <3> QED
      BY <1>4, <2>2, <3>1, <3>2 DEF TypeOK, ShutdownFlag, ShutdownInv, ShutdownFlagSignalled, ShuttingSignalled, IdOf
  <2> QED
    BY <2>1, <2>2
<1>5. ASSUME NEW t \in Teardowns,
             \/ \E r \in Regs : Unregister(t, r)
             \/ \E p \in Paths : UnregisterByPath(t, p) \/ ForceUnregister(t, p)
             \/ RemoveOffline(t)
      PROVE ShutdownInv'
  BY <1>5, FlagsKept DEF Unregister, UnregisterByPath, ForceUnregister, RemoveOffline, Begin, wtVars, signalVars
<1>6. ASSUME NEW t \in Teardowns, TeardownFind(t) \/ TeardownEnd(t) \/ TeardownPublish(t) \/ TeardownRefused(t)
      PROVE ShutdownInv'
  BY <1>6, FlagsKept DEF TeardownFind, TeardownEnd, TeardownPublish, TeardownRefused, wtVars, signalVars
<1>7. ASSUME NEW t \in Teardowns, TeardownDelete(t) PROVE ShutdownInv'
  BY <1>7, FlagsKept DEF TypeOK, TeardownDelete, signalVars
<1>8. ASSUME NEW w \in Sweepers, SweepRead(w) \/ SweepEnd(w) \/ SweepPublish(w) PROVE ShutdownInv'
  BY <1>8, FlagsKept DEF SweepRead, SweepEnd, SweepPublish, wtVars, signalVars
<1>9. ASSUME NEW w \in Sweepers, SweepOffline(w) PROVE ShutdownInv'
  BY <1>9, FlagsKept DEF TypeOK, SweepOffline, Present, Ids, signalVars
<1>10. CASE Crash
  BY <1>10, FlagsKept DEF Crash, RegisterCrash, TeardownCrash, SweepCrash, ShutdownCrash, wtVars
<1>11. CASE UNCHANGED vars
  BY <1>11, FlagsKept DEF vars, wtVars, signalVars
<1> QED
  BY <1>1, <1>2, <1>3, <1>4, <1>5, <1>6, <1>7, <1>8, <1>9, <1>10, <1>11
     DEF Next, TeardownStep, SweepStep

\* request_shutdown: the flag of a row implies the inbox line for that row, also
\* when the row is deleted and re-created while the request is in flight.
THEOREM ShutdownSignalled == Spec => []ShutdownFlagSignalled
<1>1. Init => ShutdownInv
  BY DEF Init, ShutdownInv, ShutdownFlagSignalled, ShuttingSignalled
<1>2. ShutdownInv => ShutdownFlagSignalled
  BY DEF ShutdownInv
<1> QED
  BY <1>1, <1>2, TypeInit, TypeStep, ShutdownStep, PTL DEF Spec

LEMMA DeleteReadyStep == TypeInv /\ DeleteReady /\ [Next]_vars => DeleteReady'
<1> SUFFICES ASSUME TypeInv, DeleteReady, [Next]_vars PROVE DeleteReady'
  OBVIOUS
<1> USE DEF TypeInv
<1>1. ASSUME NEW t \in Teardowns,
             \/ \E r \in Regs : Unregister(t, r)
             \/ \E p \in Paths : UnregisterByPath(t, p) \/ ForceUnregister(t, p)
             \/ RemoveOffline(t)
      PROVE DeleteReady'
  BY <1>1 DEF TypeOK, DeleteReady, Unregister, UnregisterByPath, ForceUnregister, RemoveOffline, Begin
<1>2. ASSUME NEW t \in Teardowns, TeardownFind(t) PROVE DeleteReady'
  BY <1>2 DEF TypeOK, DeleteReady, TeardownFind, Finish, AfterEnd
<1>3. ASSUME NEW t \in Teardowns, TeardownEnd(t) PROVE DeleteReady'
  BY <1>3 DEF TypeOK, DeleteReady, TeardownEnd, Finish, AfterEnd
<1>4. ASSUME NEW t \in Teardowns, TeardownPublish(t) PROVE DeleteReady'
  BY <1>4 DEF TypeOK, DeleteReady, TeardownPublish
<1>5. ASSUME NEW t \in Teardowns, TeardownDelete(t) \/ TeardownRefused(t) PROVE DeleteReady'
  BY <1>5 DEF TypeOK, DeleteReady, TeardownDelete, TeardownRefused, Finish
<1>6. CASE UNCHANGED tdVars /\ announced \subseteq announced'
  BY <1>6 DEF DeleteReady, tdVars
<1>7. ASSUME NEW r \in Regs,
             \/ \E p \in Paths : RegisterUpsert(r, p)
             \/ RegisterStep(r) \/ HeartbeatAuth(r) \/ HeartbeatStep(r) \/ Expire(r) \/ AgentExit(r)
      PROVE DeleteReady'
  BY <1>6, <1>7 DEF RegisterUpsert, RegisterStep, RegisterToken, RegisterFind, RegisterEndOld, RegisterInsert, HeartbeatAuth, HeartbeatStep, HeartbeatFind, HeartbeatWrite, Expire, AgentExit
<1>8. ASSUME \/ \E p \in Paths : ShutdownWrite(p)
             \/ \E id \in shutting : ShutdownFlag(id)
             \/ \E w \in Sweepers : SweepStep(w)
             \/ UNCHANGED vars
      PROVE DeleteReady'
  BY <1>6, <1>8 DEF ShutdownWrite, ShutdownFlag, SweepStep, SweepRead, SweepEnd, SweepOffline, SweepPublish, vars
<1>9. ASSUME NEW t \in Teardowns, Crash, TeardownCrash(t) PROVE DeleteReady'
  BY <1>9 DEF TypeOK, DeleteReady, Crash, TeardownCrash, Finish
<1>10. ASSUME Crash PROVE DeleteReady'
  BY <1>6, <1>9, <1>10 DEF Crash, RegisterCrash, SweepCrash, ShutdownCrash
<1> QED
  BY <1>1, <1>2, <1>3, <1>4, <1>5, <1>7, <1>8, <1>10 DEF Next, TeardownStep

\* A worktree row is deleted only by a teardown that published WORKTREE_OFFLINE for
\* it, or by remove_offline_agents; no crash or race deletes one silently.
THEOREM DeletionsAnnounced == Spec => DeletedAnnounced
<1>1. Init => DeleteReady
  BY DEF Init, DeleteReady
<1>2. ASSUME TypeInv, DeleteReady, [Next]_vars, NEW p \in Paths, status[p] # "absent", status'[p] = "absent"
      PROVE  \E t \in Teardowns : tdPc[t] = "delete" /\ tdId[t] = IdOf(p)
  <2> USE DEF TypeInv
  <2>1. ASSUME NEW t \in Teardowns, TeardownDelete(t) PROVE tdPc[t] = "delete" /\ tdId[t] = IdOf(p)
    <3>1. Present(tdId[t]) /\ tdId[t][1] = p
      BY <1>2, <2>1 DEF TypeOK, TeardownDelete
    <3>2. tdId[t] \in Ids
      BY <1>2 DEF TypeOK
    <3> QED
      BY <2>1, <3>1, <3>2, IdIsIdOf DEF TeardownDelete
  <2>2. ASSUME NEW r \in Regs,
               \/ \E q \in Paths : RegisterUpsert(r, q)
               \/ RegisterStep(r) \/ HeartbeatAuth(r) \/ HeartbeatStep(r) \/ Expire(r) \/ AgentExit(r)
        PROVE FALSE
    BY <1>2, <2>2 DEF TypeOK, RegisterUpsert, RegisterStep, RegisterToken, RegisterFind, RegisterEndOld, RegisterInsert, HeartbeatAuth, HeartbeatStep, HeartbeatFind, HeartbeatWrite, Expire, AgentExit, wtVars
  <2>3. ASSUME NEW t \in Teardowns,
               \/ \E r \in Regs : Unregister(t, r)
               \/ \E q \in Paths : UnregisterByPath(t, q) \/ ForceUnregister(t, q)
               \/ RemoveOffline(t) \/ TeardownFind(t) \/ TeardownEnd(t) \/ TeardownPublish(t) \/ TeardownRefused(t)
        PROVE FALSE
    BY <1>2, <2>3 DEF Unregister, UnregisterByPath, ForceUnregister, RemoveOffline, Begin, TeardownFind, TeardownEnd, TeardownPublish, TeardownRefused, wtVars
  <2>4. ASSUME \/ \E q \in Paths : ShutdownWrite(q)
               \/ \E id \in shutting : ShutdownFlag(id)
               \/ \E w \in Sweepers : SweepStep(w)
               \/ Crash
               \/ UNCHANGED vars
        PROVE FALSE
    <3>1. status'[p] = status[p] \/ status'[p] = "offline"
      <4>1. ASSUME NEW w \in Sweepers, SweepStep(w) PROVE status'[p] = status[p] \/ status'[p] = "offline"
        BY <1>2, <4>1 DEF TypeOK, SweepStep, SweepRead, SweepEnd, SweepOffline, SweepPublish, wtVars
      <4> QED
        BY <2>4, <4>1 DEF ShutdownWrite, ShutdownFlag, Crash, vars, wtVars
    <3> QED
      BY <1>2, <3>1
  <2>5. CASE \E t \in Teardowns : TeardownDelete(t)
    BY <2>1, <2>5
  <2>6. CASE Next /\ ~(\E t \in Teardowns : TeardownDelete(t))
    <3>1. \/ \E r \in Regs : \/ \E q \in Paths : RegisterUpsert(r, q)
                            \/ RegisterStep(r) \/ HeartbeatAuth(r) \/ HeartbeatStep(r) \/ Expire(r) \/ AgentExit(r)
          \/ \E t \in Teardowns :
               \/ \E r \in Regs : Unregister(t, r)
               \/ \E q \in Paths : UnregisterByPath(t, q) \/ ForceUnregister(t, q)
               \/ RemoveOffline(t) \/ TeardownFind(t) \/ TeardownEnd(t) \/ TeardownPublish(t) \/ TeardownRefused(t)
          \/ \E q \in Paths : ShutdownWrite(q)
          \/ \E id \in shutting : ShutdownFlag(id)
          \/ \E w \in Sweepers : SweepStep(w)
          \/ Crash
      BY <2>6 DEF Next, TeardownStep
    <3>2. FALSE
      BY ONLY <2>2, <2>3, <2>4, <3>1
    <3> QED
      BY <3>2
  <2> QED
    BY <1>2, <2>4, <2>5, <2>6
<1>3. TypeInv /\ DeleteReady /\ [Next]_vars =>
        [\A p \in Paths :
           LET id == IdOf(p) IN
           status[p] # "absent" /\ status'[p] = "absent" =>
              \/ id \in announced
              \/ \E t \in Teardowns : tdKind[t] = "remove_offline" /\ id \in tdTodo[t]]_vars
  BY <1>2 DEF DeleteReady
<1> QED
  BY <1>1, <1>3, TypeInit, TypeStep, DeleteReadyStep, PTL DEF Spec, DeletedAnnounced
=============================================================================
