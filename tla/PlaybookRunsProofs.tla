------------------------- MODULE PlaybookRunsProofs -------------------------
(***************************************************************************)
(* Proofs about PlaybookRuns, for any number of runs, requests, agents,    *)
(* playbooks and hosts, and any cap.                                       *)
(***************************************************************************)
EXTENDS PlaybookRuns, FiniteSetTheorems, TLAPS

-----------------------------------------------------------------------------
(* Type correctness. *)

(* What the rows, threads and handles of a fresh database and server are. *)
LEMMA TypeInit == Init => TypeOK
<1>1. Idle \in IdleRequest /\ Idle \in CancelStates /\ NoThread \in Executors
  BY DEF Idle, IdleRequest, CancelStates, NoThread, Executors
<1>2. 0 \in 0 .. MaxAgentId
  BY BoundsAreNumbers
<1>3. QED
  BY <1>1, <1>2 DEF Init, TypeOK

(* An agent's request keeps the types, whatever step of launch_run it takes. *)
LEMMA TypeLaunch ==
  ASSUME TypeOK, NEW q \in Requests, LaunchStep(q)
  PROVE  TypeOK'
<1>1. CASE TakeStartLock(q)
  BY <1>1 DEF TypeOK, TakeStartLock, database, IdleRequest, BusyRequest, StartedRequest, InLock
<1>2. CASE NoConflict(q)
  BY <1>2 DEF TypeOK, NoConflict, GoOn, database, IdleRequest, BusyRequest, StartedRequest, InLock
<1>3. CASE RefuseConflict(q) \/ RefuseCap(q) \/ RefuseUnknown(q)
  BY <1>3 DEF TypeOK, RefuseConflict, RefuseCap, RefuseUnknown, Refuse, database, Idle, IdleRequest
<1>4. CASE BelowCap(q)
  BY <1>4 DEF TypeOK, BelowCap, GoOn, database, IdleRequest, BusyRequest, StartedRequest, InLock
<1>5. ASSUME NEW r \in RunIds, InsertRun(q, r)
      PROVE  TypeOK'
  <2>1. request[q] \in BusyRequest
    BY <1>5 DEF TypeOK, InsertRun, IdleRequest, BusyRequest, StartedRequest
  <2>2. request' \in [Requests -> IdleRequest \cup BusyRequest \cup StartedRequest]
    BY <1>5, <2>1 DEF TypeOK, InsertRun, BusyRequest, StartedRequest
  <2>3. history' \in [RunIds -> Rows \cup {NoRun}]
    BY <1>5, <2>1 DEF TypeOK, InsertRun, NewRow, BusyRequest, Rows
  <2>4. exec' \in [RunIds -> Executors]
    BY <1>5 DEF TypeOK, InsertRun, NewRow, Executors
  <2>5. QED
    BY <1>5, <2>2, <2>3, <2>4 DEF TypeOK, InsertRun, NewRow
<1>6. CASE SpawnRun(q)
  <2>1. request' \in [Requests -> IdleRequest \cup BusyRequest \cup StartedRequest]
    BY <1>6 DEF TypeOK, SpawnRun, IdleRequest, BusyRequest, StartedRequest, InLock
  <2>2. exec' \in [RunIds -> Executors]
    BY <1>6 DEF TypeOK, SpawnRun, Executors
  <2>3. QED
    BY <1>6, <2>1, <2>2 DEF TypeOK, SpawnRun, database
<1>7. CASE RecordAgentRun(q)
  <2>1. request[q] \in StartedRequest
    BY <1>7 DEF TypeOK, RecordAgentRun, IdleRequest, BusyRequest, StartedRequest, InLock
  <2>2. agentRun' \in [RunIds -> 0 .. MaxAgentId]
    BY <1>7, <2>1, BoundsAreNumbers DEF TypeOK, RecordAgentRun, StartedRequest, AgentIds
  <2>3. QED
    BY <1>7, <2>2 DEF TypeOK, RecordAgentRun, Idle, IdleRequest
<1>8. CASE RequestRaises(q)
  <2>1. exec' \in [RunIds -> Executors]
    BY <1>8 DEF TypeOK, RequestRaises, NoThread, Executors
  <2>2. QED
    BY <1>8, <2>1 DEF TypeOK, RequestRaises, database, Idle, IdleRequest
<1>9. QED
  BY <1>1, <1>2, <1>3, <1>4, <1>5, <1>6, <1>7, <1>8 DEF LaunchStep

(* So does the executor thread of a run, as it settles a row that is there. *)
LEMMA TypeExecutor ==
  ASSUME TypeOK, LiveRunHasRow, NEW r \in RunIds, ExecutorStep(r)
  PROVE  TypeOK'
<1>1. ASSUME NEW next \in Executors, Advance(r, next)
      PROVE  TypeOK'
  BY <1>1 DEF TypeOK, Advance, database
<1>2. CASE StaffSpawn(r)
  BY <1>1, <1>2 DEF StaffSpawn, NoThread, Executors
<1>3. CASE Register(r)
  BY <1>3 DEF TypeOK, Register, database, Executors
<1>4. ASSUME NEW o \in Outcomes, PlayEnds(r, o)
      PROVE  TypeOK'
  BY <1>1, <1>4 DEF PlayEnds, Executors
<1>5. CASE PlayRaises(r)
  BY <1>1, <1>5 DEF PlayRaises, Executors, Settled
<1>6. CASE Decide(r)
  BY <1>1, <1>6 DEF Decide, FinalStatus, Executors, Settled
<1>7. CASE Unregister(r)
  BY <1>7 DEF TypeOK, Unregister, NoThread, database, Executors
<1>8. CASE FinishRun(r)
  <2>1. exec[r].result \in Settled
    BY <1>8 DEF TypeOK, FinishRun, Executors
  <2>2. history' \in [RunIds -> Rows \cup {NoRun}]
    <3>1. r \in Running
      BY <1>8 DEF LiveRunHasRow, Live, FinishRun
    <3>2. history[r] \in Rows
      BY <3>1 DEF Running, TypeOK
    <3>3. [history[r] EXCEPT !.status = exec[r].result] \in Rows
      BY <2>1, <3>2 DEF Rows
    <3>4. QED
      BY <1>8, <3>3 DEF FinishRun, TypeOK
  <2>3. QED
    BY <1>8, <2>2 DEF TypeOK, FinishRun, NoThread, Executors
<1>9. CASE FinishRaises(r)
  BY <1>1, <1>9 DEF FinishRaises, NoThread, Executors
<1>10. QED
  BY <1>2, <1>3, <1>4, <1>5, <1>6, <1>7, <1>8, <1>9 DEF ExecutorStep

(* And every other step. *)
LEMMA TypeStep ==
  ASSUME TypeOK, LiveRunHasRow, [Next]_vars
  PROVE  TypeOK'
<1>1. ASSUME NEW q \in Requests, NEW a \in Agents, NEW p \in Playbooks,
             NEW l \in (SUBSET Hosts) \ {{}}, Precheck(q, a, p, l)
      PROVE  TypeOK'
  <2>1. agentId[a] \in AgentIds
    BY <1>1, BoundsAreNumbers DEF TypeOK, Precheck, AgentIds
  <2>2. QED
    BY <1>1, <2>1 DEF TypeOK, Precheck, GoOn, database, BusyRequest
<1>2. ASSUME NEW q \in Requests, LaunchStep(q)
      PROVE  TypeOK'
  BY <1>2, TypeLaunch
<1>3. ASSUME NEW r \in RunIds, NEW p \in Playbooks, NEW l \in SUBSET Hosts, StaffInsert(r, p, l)
      PROVE  TypeOK'
  BY <1>3 DEF TypeOK, StaffInsert, NewRow, Rows, Executors
<1>4. ASSUME NEW r \in RunIds, ExecutorStep(r)
      PROVE  TypeOK'
  BY <1>4, TypeExecutor
<1>5. ASSUME NEW c \in Cancellers, NEW next \in CancelStates, Wait(c, next)
      PROVE  TypeOK'
  BY <1>5 DEF TypeOK, Wait, database
<1>6. ASSUME NEW c \in Cancellers, NEW r \in RunIds, CancelFromUI(c, r)
      PROVE  TypeOK'
  BY <1>5, <1>6 DEF CancelFromUI, CancelStates
<1>7. ASSUME NEW c \in Cancellers, NEW a \in Agents, NEW r \in RunIds, CancelFromAgent(c, a, r)
      PROVE  TypeOK'
  BY <1>5, <1>7, BoundsAreNumbers DEF CancelFromAgent, CancelStates
<1>8. ASSUME NEW c \in Cancellers, CancelStep(c)
      PROVE  TypeOK'
  <2>1. CASE FindHandle(c)
    BY <1>5, <2>1 DEF TypeOK, FindHandle, CancelStates
  <2>2. CASE AskAgain(c)
    BY <1>5, <2>2, BoundsAreNumbers DEF TypeOK, AskAgain, CancelStates
  <2>3. CASE GiveUp(c)
    BY <1>5, <2>3 DEF GiveUp, CancelStates, Idle
  <2>4. CASE SetCancel(c)
    BY <2>4 DEF TypeOK, SetCancel, database, CancelStates, Idle
  <2>5. QED
    BY <1>8, <2>1, <2>2, <2>3, <2>4 DEF CancelStep
<1>9. ASSUME NEW a \in Agents, NEW i \in AgentIds, CreateAgent(a, i)
      PROVE  TypeOK'
  BY <1>9, BoundsAreNumbers DEF TypeOK, CreateAgent, Unaffected, AgentIds
<1>10. ASSUME NEW a \in Agents, DeleteAgent(a)
       PROVE  TypeOK'
  BY <1>10, BoundsAreNumbers DEF TypeOK, DeleteAgent, Unaffected
<1>11. CASE SetKillSwitch \/ (\E S \in SUBSET Playbooks : Sync(S))
  BY <1>11 DEF TypeOK, SetKillSwitch, Sync, Unaffected
<1>12. CASE Crash
  BY <1>12 DEF TypeOK, Crash, database, Idle, IdleRequest, CancelStates, NoThread, Executors
<1>13. CASE Restart
  <2>1. \A r \in Running : [history[r] EXCEPT !.status = "failed"] \in Rows
    BY DEF TypeOK, Running, Rows, Settled
  <2>2. QED
    BY <1>13, <2>1 DEF TypeOK, Restart, Reconcile
<1>14. CASE UNCHANGED vars
  BY <1>14 DEF TypeOK, vars
<1>15. QED
  BY <1>1, <1>2, <1>3, <1>4, <1>6, <1>7, <1>8, <1>9, <1>10, <1>11, <1>12, <1>13, <1>14
     DEF Next

-----------------------------------------------------------------------------
(* The inductive invariant, step by step. *)

(* The part of IInv that speaks of rows, threads and the lock. *)
Safe == LiveRunHasRow /\ LockInv /\ DownInv /\ InsertedInv /\ ClearInv /\ AgentRunsDisjoint

(* Steps that change no row, no executor, no request and no lock. *)
LEMMA SafeQuiet ==
  ASSUME Safe, UNCHANGED <<history, exec, request, startLock, up>>
  PROVE  Safe'
BY DEF Safe, LiveRunHasRow, Live, Running, LockInv, DownInv, InsertedInv, ClearInv,
       AgentRunsDisjoint

(* A request that goes on, or is refused, and changes nothing but itself and *)
(* the lock.                                                                 *)
LEMMA SafeRefuse ==
  ASSUME TypeOK, Safe, NEW q \in Requests, request[q].pc \in InLock, Refuse(q)
  PROVE  Safe'
<1>1. startLock = q
  BY DEF Safe, LockInv
<1>2. LockInv'
  BY <1>1, NobodyIsNoRequest DEF Safe, LockInv, Refuse, Idle, InLock, TypeOK
<1>3. (LiveRunHasRow /\ AgentRunsDisjoint)'
  BY DEF Safe, LiveRunHasRow, Live, Running, AgentRunsDisjoint, Refuse, database
<1>4. (DownInv /\ InsertedInv /\ ClearInv)'
  BY DEF Safe, DownInv, InsertedInv, ClearInv, Running, Refuse, database, Idle, TypeOK
<1>5. QED
  BY <1>2, <1>3, <1>4 DEF Safe

(* Each step of launch_run. *)
LEMMA SafeLaunch ==
  ASSUME TypeOK, Safe, NEW q \in Requests, LaunchStep(q)
  PROVE  Safe'
<1> USE DEF Safe
<1>1. CASE TakeStartLock(q)
  <2>1. (LiveRunHasRow /\ AgentRunsDisjoint)'
    BY <1>1 DEF LiveRunHasRow, Live, Running, AgentRunsDisjoint, TakeStartLock, database
  <2>2. LockInv'
    BY <1>1, NobodyIsNoRequest DEF LockInv, TakeStartLock, InLock, TypeOK
  <2>3. (DownInv /\ InsertedInv /\ ClearInv)'
    BY <1>1 DEF DownInv, InsertedInv, ClearInv, Running, TakeStartLock, database, Idle, TypeOK
  <2>4. QED
    BY <2>1, <2>2, <2>3
<1>2. CASE NoConflict(q)
  <2>1. (LiveRunHasRow /\ AgentRunsDisjoint)'
    BY <1>2 DEF LiveRunHasRow, Live, Running, AgentRunsDisjoint, NoConflict, GoOn, database
  <2>2. LockInv'
    BY <1>2 DEF LockInv, NoConflict, GoOn, InLock, TypeOK
  <2>3. (DownInv /\ InsertedInv)'
    BY <1>2 DEF DownInv, InsertedInv, NoConflict, GoOn, database, Idle, TypeOK
  <2>4. ClearInv'
    BY <1>2 DEF ClearInv, Conflicts, Running, NoConflict, GoOn, database, TypeOK
  <2>5. QED
    BY <2>1, <2>2, <2>3, <2>4
<1>3. CASE RefuseConflict(q) \/ RefuseCap(q) \/ RefuseUnknown(q)
  BY <1>3, SafeRefuse DEF RefuseConflict, RefuseCap, RefuseUnknown, InLock
<1>4. CASE BelowCap(q)
  <2>1. (LiveRunHasRow /\ AgentRunsDisjoint)'
    BY <1>4 DEF LiveRunHasRow, Live, Running, AgentRunsDisjoint, BelowCap, GoOn, database
  <2>2. LockInv'
    BY <1>4 DEF LockInv, BelowCap, GoOn, InLock, TypeOK
  <2>3. (DownInv /\ InsertedInv)'
    BY <1>4 DEF DownInv, InsertedInv, BelowCap, GoOn, database, Idle, TypeOK
  <2>4. ClearInv'
    BY <1>4 DEF ClearInv, Running, BelowCap, GoOn, database, TypeOK
  <2>5. QED
    BY <2>1, <2>2, <2>3, <2>4
<1>5. ASSUME NEW r \in RunIds, InsertRun(q, r)
      PROVE  Safe'
  <2> DEFINE row == [playbook |-> request[q].playbook, limit |-> request[q].limit,
                     by |-> request[q].agent, status |-> "running"]
  <2>1. /\ request[q] \in BusyRequest /\ request[q].pc = "counted"
        /\ startLock = q /\ up
    BY <1>5 DEF InsertRun, TypeOK, IdleRequest, BusyRequest, StartedRequest, LockInv, InLock,
                DownInv, Idle
  <2>2. /\ history' = [history EXCEPT ![r] = row] /\ history[r] = NoRun
        /\ exec' = [exec EXCEPT ![r] = [pc |-> "unborn"]]
        /\ request'[q].pc = "inserted" /\ request'[q].run = r
        /\ \A p \in Requests \ {q} : request'[p] = request[p]
        /\ up' = up /\ startLock' = startLock
    BY <1>5 DEF InsertRun, NewRow, TypeOK
  <2>3. row # NoRun
    BY <2>1, NoRunIsNoRow DEF BusyRequest
  <2>4. Running' = Running \cup {r} /\ r \notin Running
    BY <2>2, <2>3 DEF Running, TypeOK
  <2>5. \A s \in Running : s # r /\ history'[s] = history[s]
    BY <2>2, <2>4 DEF Running, TypeOK
  <2>6. history'[r] = row
    BY <2>2 DEF TypeOK
  <2>7. LiveRunHasRow'
    BY <2>2, <2>4 DEF LiveRunHasRow, Live, TypeOK
  <2>8. LockInv'
    BY <2>1, <2>2 DEF LockInv, InLock
  <2>9. DownInv'
    BY <2>1, <2>2 DEF DownInv
  <2>10. \A p \in Requests \ {q} : request'[p].pc \notin InLock
    BY <2>1, <2>2 DEF LockInv
  <2>11. InsertedInv'
    <3>1. exec'[r].pc = "unborn" /\ history'[r].by \in Agents
      BY <2>1, <2>2, <2>6 DEF TypeOK, BusyRequest
    <3>2. QED
      BY <3>1, <2>2, <2>10 DEF InsertedInv, InLock
  <2>12. ClearInv'
    BY <2>2, <2>10 DEF ClearInv, InLock
  <2>13. AgentRunsDisjoint'
    <3>1. \A s \in Running : (/\ history[s].by \in Agents
                              /\ history[s].playbook = row.playbook)
                             => history[s].limit \cap row.limit = {}
      BY <2>1 DEF ClearInv
    <3>2. QED
      BY <3>1, <2>4, <2>5, <2>6 DEF AgentRunsDisjoint
  <2>14. QED
    BY <2>7, <2>8, <2>9, <2>11, <2>12, <2>13
<1>6. CASE SpawnRun(q)
  <2> DEFINE r == request[q].run
  <2>1. /\ r \in RunIds /\ exec[r].pc = "unborn" /\ startLock = q /\ up
    BY <1>6 DEF SpawnRun, TypeOK, IdleRequest, BusyRequest, StartedRequest, InLock, InsertedInv,
                LockInv, DownInv, Idle
  <2>2. \A p \in Requests \ {q} : request[p].pc \notin InLock
    BY <2>1 DEF LockInv
  <2>3. r \in Running
    BY <2>1 DEF LiveRunHasRow, Live
  <2>4. (LiveRunHasRow /\ AgentRunsDisjoint)'
    BY <1>6, <2>3 DEF LiveRunHasRow, Live, Running, AgentRunsDisjoint, SpawnRun, database, TypeOK
  <2>5. LockInv'
    BY <1>6 DEF LockInv, SpawnRun, InLock, TypeOK
  <2>6. (DownInv /\ InsertedInv /\ ClearInv)'
    BY <1>6, <2>1, <2>2 DEF DownInv, InsertedInv, ClearInv, Running, SpawnRun, database, InLock, TypeOK
  <2>7. QED
    BY <2>4, <2>5, <2>6
<1>7. CASE RecordAgentRun(q)
  <2>1. (LiveRunHasRow /\ AgentRunsDisjoint)'
    BY <1>7 DEF LiveRunHasRow, Live, Running, AgentRunsDisjoint, RecordAgentRun
  <2>2. LockInv'
    BY <1>7, NobodyIsNoRequest DEF LockInv, RecordAgentRun, InLock, Idle, TypeOK
  <2>3. (DownInv /\ InsertedInv /\ ClearInv)'
    BY <1>7 DEF DownInv, InsertedInv, ClearInv, Running, RecordAgentRun, Idle, TypeOK
  <2>4. QED
    BY <2>1, <2>2, <2>3
<1>8. CASE RequestRaises(q)
  <2>1. startLock = q /\ \A p \in Requests \ {q} : request[p].pc \notin InLock
    BY <1>8 DEF RequestRaises, LockInv
  <2>2. LockInv'
    BY <1>8, NobodyIsNoRequest DEF LockInv, RequestRaises, InLock, Idle, TypeOK
  <2>3. (LiveRunHasRow /\ AgentRunsDisjoint)'
    BY <1>8 DEF LiveRunHasRow, Live, Running, AgentRunsDisjoint, RequestRaises, database,
                NoThread, TypeOK
  <2>4. (DownInv /\ InsertedInv /\ ClearInv)'
    BY <1>8, <2>1 DEF DownInv, InsertedInv, ClearInv, Running, RequestRaises, database, InLock,
                      Idle, NoThread, TypeOK
  <2>5. QED
    BY <2>2, <2>3, <2>4
<1>9. QED
  BY <1>1, <1>2, <1>3, <1>4, <1>5, <1>6, <1>7, <1>8 DEF LaunchStep

(* A row that is settled frees its hosts and takes nothing. *)
LEMMA SafeSettle ==
  ASSUME TypeOK, Safe, NEW S \in SUBSET Running,
         \A r \in RunIds \ S : history'[r] = history[r],
         \A r \in S : history'[r] # NoRun /\ history'[r].status # "running",
         \A r \in S : history'[r].by = history[r].by,
         \A q \in Requests : request'[q] = request[q] \/ request'[q] = Idle,
         \A r \in RunIds : exec'[r] = exec[r] \/ exec'[r] = NoThread,
         \A r \in S : exec'[r] = NoThread,
         \A q \in Requests : request[q].pc = "inserted" =>
             exec'[request[q].run] = exec[request[q].run] \/ request'[q] = Idle
  PROVE  (LiveRunHasRow /\ InsertedInv /\ ClearInv /\ AgentRunsDisjoint)'
<1>1. Running' = Running \ S
  BY DEF Running
<1>2. \A r \in Running' : history'[r] = history[r]
  BY <1>1 DEF Running
<1>3. LiveRunHasRow'
  BY <1>1 DEF Safe, LiveRunHasRow, Live, NoThread
<1>4. InsertedInv'
  <2> SUFFICES ASSUME NEW q \in Requests, request'[q].pc = "inserted"
               PROVE  /\ exec'[request'[q].run].pc = "unborn"
                      /\ history'[request'[q].run].by \in Agents
    BY DEF InsertedInv
  <2>1. request'[q] = request[q] /\ request[q].run \in RunIds
    BY DEF Idle, TypeOK, IdleRequest, BusyRequest, StartedRequest
  <2>2. /\ exec[request[q].run].pc = "unborn" /\ history[request[q].run].by \in Agents
        /\ exec'[request[q].run] = exec[request[q].run]
    BY <2>1 DEF Safe, InsertedInv, Idle
  <2>3. QED
    BY <2>1, <2>2
<1>5. ClearInv'
  BY <1>1, <1>2 DEF Safe, ClearInv, Idle
<1>6. AgentRunsDisjoint'
  BY <1>1, <1>2 DEF Safe, AgentRunsDisjoint
<1>7. QED
  BY <1>3, <1>4, <1>5, <1>6

(* Each step of the thread of a run. *)
LEMMA SafeExecutor ==
  ASSUME TypeOK, Safe, NEW r \in RunIds, ExecutorStep(r)
  PROVE  Safe'
<1> USE DEF Safe
<1>1. exec[r].pc # "none"
  BY DEF ExecutorStep, StaffSpawn, Register, PlayEnds, PlayRaises, Decide, Unregister,
         FinishRun, FinishRaises
<1>2. up /\ (Live(r) \/ exec[r].pc = "doomed")
  BY <1>1 DEF Live, DownInv, NoThread
<1>3. \A q \in Requests : request[q].pc = "inserted" /\ request[q].run = r
                          => exec[r].pc = "unborn" /\ history[r].by \in Agents
  BY DEF InsertedInv
<1>4. ASSUME UNCHANGED <<history, request, startLock, up>>,
             exec' = [exec EXCEPT ![r] = exec'[r]],
             Live(r) \/ ~Live(r)',
             ~(exec[r].pc = "unborn" /\ history[r].by \in Agents)
      PROVE  Safe'
  <2>1. \A s \in RunIds \ {r} : exec'[s] = exec[s]
    BY <1>4 DEF TypeOK
  <2>2. LiveRunHasRow'
    BY <1>4, <2>1 DEF LiveRunHasRow, Live, Running
  <2>3. (LockInv /\ DownInv /\ ClearInv /\ AgentRunsDisjoint)'
    BY <1>2, <1>4 DEF LockInv, DownInv, ClearInv, AgentRunsDisjoint, Running
  <2>4. InsertedInv'
    <3> SUFFICES ASSUME NEW q \in Requests, request[q].pc = "inserted"
                 PROVE  /\ exec'[request[q].run].pc = "unborn"
                        /\ history[request[q].run].by \in Agents
      BY <1>4 DEF InsertedInv
    <3>1. request[q].run \in RunIds \ {r}
      BY <1>3, <1>4 DEF TypeOK, IdleRequest, BusyRequest, StartedRequest
    <3>2. QED
      BY <2>1, <3>1 DEF InsertedInv
  <2>5. QED
    BY <2>2, <2>3, <2>4
<1>5. CASE StaffSpawn(r)
  BY <1>4, <1>5, StaffIsNoAgent DEF StaffSpawn, Advance, database, Live, NoThread, TypeOK
<1>6. CASE Register(r)
  BY <1>4, <1>6 DEF Register, database, Live, TypeOK
<1>7. ASSUME NEW o \in Outcomes, PlayEnds(r, o)
      PROVE  Safe'
  BY <1>4, <1>7 DEF PlayEnds, Advance, database, Live, TypeOK
<1>8. CASE PlayRaises(r)
  BY <1>4, <1>8 DEF PlayRaises, Advance, database, Live, TypeOK
<1>9. CASE Decide(r)
  BY <1>4, <1>9 DEF Decide, Advance, database, Live, TypeOK
<1>10. CASE Unregister(r)
  BY <1>4, <1>10 DEF Unregister, database, Live, NoThread, TypeOK
<1>11. CASE FinishRaises(r)
  BY <1>4, <1>11 DEF FinishRaises, Advance, database, Live, NoThread, TypeOK
<1>12. CASE FinishRun(r)
  <2>1. r \in Running /\ exec[r].result \in Settled /\ history[r] \in Rows
    BY <1>2, <1>12 DEF FinishRun, LiveRunHasRow, TypeOK, Executors, Running
  <2>2. history'[r] = [history[r] EXCEPT !.status = exec[r].result]
    BY <1>12 DEF FinishRun, TypeOK
  <2>3. /\ history'[r] \in Rows /\ history'[r].status # "running"
        /\ history'[r].by = history[r].by
    BY <2>1, <2>2 DEF Rows, Settled
  <2>4. history'[r] # NoRun
    BY <2>3, NoRunIsNoRow DEF Rows, Settled
  <2>5. (LiveRunHasRow /\ InsertedInv /\ ClearInv /\ AgentRunsDisjoint)'
    <3>1. \A q \in Requests : request[q].pc = "inserted" =>
             exec'[request[q].run] = exec[request[q].run]
      BY <1>3, <1>12 DEF FinishRun, TypeOK, IdleRequest, BusyRequest, StartedRequest
    <3>2. {r} \in SUBSET Running /\ Safe
      BY <2>1
    <3>3. \A s \in RunIds \ {r} : history'[s] = history[s]
      BY <1>12 DEF FinishRun, TypeOK
    <3>4. exec'[r] = NoThread /\ \A s \in RunIds : exec'[s] = exec[s] \/ exec'[s] = NoThread
      BY <1>12 DEF FinishRun, TypeOK
    <3>5. request' = request
      BY <1>12 DEF FinishRun
    <3>6. QED
      BY <2>3, <2>4, <3>1, <3>2, <3>3, <3>4, <3>5, SafeSettle
  <2>6. (LockInv /\ DownInv)'
    BY <1>2, <1>12 DEF LockInv, DownInv, FinishRun
  <2>7. QED
    BY <2>5, <2>6
<1>13. QED
  BY <1>5, <1>6, <1>7, <1>8, <1>9, <1>10, <1>11, <1>12 DEF ExecutorStep

(* A fresh database and server satisfy the invariant: no rows, no threads, a *)
(* free start lock.                                                          *)
THEOREM InvariantInit == Init => IInv
<1>1. ASSUME Init PROVE Safe
  <2>1. Running = {}
    BY <1>1 DEF Init, Running
  <2>2. LockInv
    BY <1>1, NobodyIsNoRequest DEF Init, LockInv, InLock, Idle
  <2>3. QED
    BY <1>1, <2>1, <2>2 DEF Init, Safe, LiveRunHasRow, Live, DownInv, InsertedInv, ClearInv,
                            AgentRunsDisjoint, Idle, NoThread
<1>2. QED
  BY <1>1, TypeInit DEF IInv, Safe

(* Every step of a request, an executor, a canceller, an admin, a crash or a *)
(* restart keeps it: the heart of the safety proofs.                         *)
THEOREM InvariantStep == IInv /\ [Next]_vars => IInv'
<1> SUFFICES ASSUME TypeOK, Safe, [Next]_vars PROVE TypeOK' /\ Safe'
  BY DEF IInv, Safe
<1>0. TypeOK'
  BY TypeStep DEF Safe
<1>1. ASSUME NEW q \in Requests, NEW a \in Agents, NEW p \in Playbooks,
             NEW l \in (SUBSET Hosts) \ {{}}, Precheck(q, a, p, l)
      PROVE  Safe'
  <2>1. (LiveRunHasRow /\ AgentRunsDisjoint)'
    BY <1>1 DEF Safe, LiveRunHasRow, Live, Running, AgentRunsDisjoint, Precheck, GoOn, database
  <2>2. LockInv'
    BY <1>1 DEF Safe, LockInv, Precheck, GoOn, InLock, Idle, TypeOK
  <2>3. (DownInv /\ InsertedInv /\ ClearInv)'
    BY <1>1 DEF Safe, DownInv, InsertedInv, ClearInv, Running, Precheck, GoOn, database, TypeOK
  <2>4. QED
    BY <2>1, <2>2, <2>3 DEF Safe
<1>2. ASSUME NEW q \in Requests, LaunchStep(q)
      PROVE  Safe'
  BY <1>2, SafeLaunch
<1>3. ASSUME NEW r \in RunIds, NEW p \in Playbooks, NEW l \in SUBSET Hosts, StaffInsert(r, p, l)
      PROVE  Safe'
  <2> DEFINE row == [playbook |-> p, limit |-> l, by |-> Staff, status |-> "running"]
  <2>1. /\ history' = [history EXCEPT ![r] = row] /\ history[r] = NoRun /\ up /\ up' = up
        /\ exec' = [exec EXCEPT ![r] = [pc |-> "unborn"]]
        /\ request' = request /\ startLock' = startLock
    BY <1>3 DEF StaffInsert, NewRow
  <2>2. row # NoRun
    BY NoRunIsNoRow
  <2>3. Running' = Running \cup {r} /\ r \notin Running
    BY <2>1, <2>2 DEF Running, TypeOK
  <2>4. \A s \in Running : s # r /\ history'[s] = history[s]
    BY <2>1, <2>3 DEF Running, TypeOK
  <2>5. history'[r].by \notin Agents
    BY <2>1, StaffIsNoAgent DEF TypeOK
  <2>6. LiveRunHasRow'
    BY <2>1, <2>3 DEF Safe, LiveRunHasRow, Live, TypeOK
  <2>7. (LockInv /\ DownInv)'
    BY <2>1 DEF Safe, LockInv, DownInv
  <2>8. InsertedInv'
    <3> SUFFICES ASSUME NEW q \in Requests, request[q].pc = "inserted"
                 PROVE  /\ exec'[request[q].run].pc = "unborn"
                        /\ history'[request[q].run].by \in Agents
      BY <2>1 DEF InsertedInv
    <3>1. request[q].run \in RunIds
      BY DEF TypeOK, IdleRequest, BusyRequest, StartedRequest
    <3>2. exec[request[q].run].pc = "unborn" /\ history[request[q].run].by \in Agents
      BY DEF Safe, InsertedInv
    <3>3. request[q].run \in Running
      BY <3>1, <3>2 DEF Safe, LiveRunHasRow, Live
    <3>4. QED
      BY <2>1, <2>3, <2>4, <3>1, <3>2, <3>3 DEF TypeOK
  <2>9. ClearInv'
    BY <2>1, <2>3, <2>4, <2>5 DEF Safe, ClearInv
  <2>10. AgentRunsDisjoint'
    BY <2>3, <2>4, <2>5 DEF Safe, AgentRunsDisjoint
  <2>11. QED
    BY <2>6, <2>7, <2>8, <2>9, <2>10 DEF Safe
<1>4. ASSUME NEW r \in RunIds, ExecutorStep(r)
      PROVE  Safe'
  BY <1>4, SafeExecutor
<1>5. ASSUME UNCHANGED <<history, exec, request, startLock, up>>
      PROVE  Safe'
  BY <1>5, SafeQuiet
<1>6. ASSUME NEW c \in Cancellers, \/ \E r \in RunIds : CancelFromUI(c, r)
                                   \/ \E a \in Agents, r \in RunIds : CancelFromAgent(c, a, r)
                                   \/ CancelStep(c)
      PROVE  Safe'
  BY <1>5, <1>6 DEF CancelFromUI, CancelFromAgent, CancelStep, FindHandle, AskAgain, GiveUp,
                    SetCancel, Wait, database
<1>7. ASSUME \/ \E a \in Agents, i \in AgentIds : CreateAgent(a, i)
             \/ \E a \in Agents : DeleteAgent(a)
             \/ SetKillSwitch
             \/ \E S \in SUBSET Playbooks : Sync(S)
             \/ UNCHANGED vars
      PROVE  Safe'
  BY <1>5, <1>7 DEF CreateAgent, DeleteAgent, SetKillSwitch, Sync, Unaffected, vars
<1>8. CASE Crash
  <2>1. LockInv'
    BY <1>8, NobodyIsNoRequest DEF Crash, LockInv, InLock, Idle
  <2>2. (LiveRunHasRow /\ DownInv /\ InsertedInv /\ ClearInv)'
    BY <1>8 DEF Crash, LiveRunHasRow, Live, DownInv, InsertedInv, ClearInv, Idle, NoThread
  <2>3. AgentRunsDisjoint'
    BY <1>8 DEF Crash, Safe, AgentRunsDisjoint, Running, database
  <2>4. QED
    BY <1>0, <2>1, <2>2, <2>3 DEF Safe
<1>9. CASE Restart
  <2>1. \A r \in Running : [history[r] EXCEPT !.status = "failed"] \in Rows
                           /\ [history[r] EXCEPT !.status = "failed"].status = "failed"
    BY DEF TypeOK, Running, Rows, Settled
  <2>2. Running' = {}
    <3>1. \A r \in Running : history'[r].status = "failed"
      BY <1>9, <2>1 DEF Restart, Reconcile, Running
    <3>2. \A r \in RunIds \ Running : history'[r] = history[r]
      BY <1>9 DEF Restart, Reconcile
    <3>3. QED
      BY <3>1, <3>2 DEF Running
  <2>3. /\ \A r \in RunIds : exec'[r] = NoThread
        /\ \A q \in Requests : request'[q] = Idle
    BY <1>9 DEF Restart, Reconcile, Safe, DownInv
  <2>4. LockInv'
    BY <1>9 DEF Restart, Reconcile, Safe, LockInv
  <2>5. (LiveRunHasRow /\ DownInv /\ InsertedInv)'
    BY <2>3 DEF LiveRunHasRow, Live, DownInv, InsertedInv, Idle, NoThread
  <2>6. (ClearInv /\ AgentRunsDisjoint)'
    BY <2>2 DEF ClearInv, AgentRunsDisjoint
  <2>7. QED
    BY <1>0, <2>4, <2>5, <2>6 DEF Safe
<1>10. QED
  BY <1>0, <1>1, <1>2, <1>3, <1>4, <1>6, <1>7, <1>8, <1>9 DEF Next

(* The invariant holds of every behaviour; with it the properties it names.  *)
THEOREM Invariance == Spec => []IInv
BY InvariantInit, InvariantStep, PTL DEF Spec

(* Every variable has its type: rows, threads and handles are what the code  *)
(* can make of them.                                                         *)
THEOREM TypeCorrect == Spec => []TypeOK
<1>1. IInv => TypeOK
  BY DEF IInv
<1>2. QED
  BY <1>1, Invariance, PTL

(* What conflict check and cap read is never behind the executor threads: a  *)
(* run some thread drives has a row that says "running" (runner._execute).   *)
THEOREM RowsCoverThreads == Spec => []LiveRunHasRow
<1>1. IInv => LiveRunHasRow
  BY DEF IInv
<1>2. QED
  BY <1>1, Invariance, PTL

(* Two agents' runs of one playbook never share a host (launch_run), for any *)
(* number of agents, runs and hosts.                                         *)
THEOREM AgentRunsNeverOverlap == Spec => []AgentRunsDisjoint
<1>1. IInv => AgentRunsDisjoint
  BY DEF IInv
<1>2. QED
  BY <1>1, Invariance, PTL

-----------------------------------------------------------------------------
(* The history implements the ledger. *)

(* A row enters as the ledger says: an agent's only beside agents' runs that *)
(* share no host with it.                                                    *)
LEMMA EnterStep ==
  ASSUME NEW r \in RunIds, NEW row \in Rows, history[r] = NoRun, row.status = "running",
         history' = [history EXCEPT ![r] = row],
         row.by \in Agents =>
             /\ row.limit # {}
             /\ \A s \in Running :
                   (history[s].by \in Agents /\ history[s].playbook = row.playbook)
                   => history[s].limit # {} /\ history[s].limit \cap row.limit = {}
  PROVE  Ledger!Next
<1>1. row \in Ledger!Rows
  BY DEF Rows, Ledger!Rows, Settled, Ledger!Settled
<1>2. row.by \in Agents => Ledger!AgentConflicts(row.playbook, row.limit) = {}
  BY DEF Ledger!AgentConflicts, Ledger!Overlap, Ledger!Running, Running
<1>3. Ledger!Enter(r, row)
  BY <1>2 DEF Ledger!Enter
<1>4. QED
  BY <1>1, <1>3 DEF Ledger!Next

(* Every step of the system is a step of the ledger, or leaves the history   *)
(* alone.                                                                    *)
THEOREM LedgerStep == IInv /\ [Next]_vars => [Ledger!Next]_history
<1> SUFFICES ASSUME IInv, Next, history' # history
             PROVE  Ledger!Next
  BY DEF vars
<1>1. ASSUME NEW q \in Requests, NEW r \in RunIds, InsertRun(q, r)
      PROVE  Ledger!Next
  <2> DEFINE row == [playbook |-> request[q].playbook, limit |-> request[q].limit,
                     by |-> request[q].agent, status |-> "running"]
  <2>1. request[q] \in BusyRequest /\ request[q].pc = "counted"
    BY <1>1 DEF InsertRun, IInv, TypeOK, IdleRequest, BusyRequest, StartedRequest
  <2>2. row \in Rows /\ row.limit # {}
    BY <2>1 DEF BusyRequest, Rows
  <2>3. \A s \in Running :
           (history[s].by \in Agents /\ history[s].playbook = row.playbook)
           => history[s].limit # {} /\ history[s].limit \cap row.limit = {}
    BY <2>1 DEF IInv, ClearInv
  <2>4. history[r] = NoRun /\ history' = [history EXCEPT ![r] = row]
    BY <1>1 DEF InsertRun, NewRow
  <2>5. QED
    BY <2>2, <2>3, <2>4, EnterStep
<1>2. ASSUME NEW r \in RunIds, NEW p \in Playbooks, NEW l \in SUBSET Hosts, StaffInsert(r, p, l)
      PROVE  Ledger!Next
  <2> DEFINE row == [playbook |-> p, limit |-> l, by |-> Staff, status |-> "running"]
  <2>1. row \in Rows /\ row.status = "running" /\ row.by \notin Agents
    BY StaffIsNoAgent DEF Rows
  <2>2. history[r] = NoRun /\ history' = [history EXCEPT ![r] = row]
    BY <1>2 DEF StaffInsert, NewRow
  <2>3. QED
    BY <2>1, <2>2, EnterStep
<1>3. ASSUME NEW r \in RunIds, FinishRun(r)
      PROVE  Ledger!Next
  <2>1. r \in Running /\ exec[r].result \in Settled
    BY <1>3 DEF FinishRun, IInv, LiveRunHasRow, Live, TypeOK, Executors
  <2> DEFINE S == {r}
             final == [s \in S |-> exec[r].result]
  <2>2. S \in SUBSET RunIds /\ S \subseteq Ledger!Running
    BY <2>1 DEF Running, Ledger!Running
  <2>3. final \in [S -> Ledger!Settled]
    BY <2>1 DEF Settled, Ledger!Settled
  <2>4. history' = [s \in RunIds |-> IF s \in S THEN [history[s] EXCEPT !.status = final[s]]
                                     ELSE history[s]]
    BY <1>3 DEF FinishRun, IInv, TypeOK
  <2>5. Ledger!Settle(S)
    BY <2>2, <2>3, <2>4 DEF Ledger!Settle
  <2>6. QED
    BY <2>2, <2>5 DEF Ledger!Next
<1>4. CASE Restart
  <2> DEFINE final == [s \in Running |-> "failed"]
  <2>1. Running \in SUBSET RunIds /\ Running \subseteq Ledger!Running
    BY DEF Running, Ledger!Running
  <2>2. final \in [Running -> Ledger!Settled]
    BY DEF Ledger!Settled
  <2>3. history' = [s \in RunIds |-> IF s \in Running
                                     THEN [history[s] EXCEPT !.status = final[s]]
                                     ELSE history[s]]
    BY <1>4 DEF Restart, Reconcile
  <2>4. Ledger!Settle(Running)
    BY <2>1, <2>2, <2>3 DEF Ledger!Settle
  <2>5. QED
    BY <2>1, <2>4 DEF Ledger!Next
<1>5. ASSUME NEW q \in Requests, LaunchStep(q), ~ \E r \in RunIds : InsertRun(q, r)
      PROVE  FALSE
  BY <1>5 DEF LaunchStep, TakeStartLock, NoConflict, RefuseConflict, BelowCap, RefuseCap,
              RefuseUnknown, SpawnRun, RecordAgentRun, RequestRaises, GoOn, Refuse, database
<1>6. ASSUME NEW r \in RunIds, ExecutorStep(r), ~FinishRun(r)
      PROVE  FALSE
  BY <1>6 DEF ExecutorStep, StaffSpawn, Register, PlayEnds, PlayRaises, Decide, Unregister,
              FinishRaises, Advance, database
<1>7. ASSUME NEW c \in Cancellers, \/ \E r \in RunIds : CancelFromUI(c, r)
                                   \/ \E a \in Agents, r \in RunIds : CancelFromAgent(c, a, r)
                                   \/ CancelStep(c)
      PROVE  FALSE
  BY <1>7 DEF CancelFromUI, CancelFromAgent, CancelStep, FindHandle, AskAgain, GiveUp,
              SetCancel, Wait, database
<1>8. ASSUME \/ \E q \in Requests, a \in Agents, p \in Playbooks, l \in (SUBSET Hosts) \ {{}} :
                  Precheck(q, a, p, l)
             \/ \E a \in Agents, i \in AgentIds : CreateAgent(a, i)
             \/ \E a \in Agents : DeleteAgent(a)
             \/ SetKillSwitch
             \/ \E S \in SUBSET Playbooks : Sync(S)
             \/ Crash
      PROVE  FALSE
  BY <1>8 DEF Precheck, GoOn, CreateAgent, DeleteAgent, SetKillSwitch, Sync, Crash, database
<1>9. QED
  BY <1>1, <1>2, <1>3, <1>4, <1>5, <1>6, <1>7, <1>8 DEF Next

(* PlaybookRuns implements RunLedger: what the database shows of runs is the *)
(* ledger, through every interleaving, failed write, crash and restart.      *)
THEOREM LedgerImplemented == Spec => ImplementsLedger
<1>1. Init => Ledger!Init
  BY DEF Init, Ledger!Init
<1>2. Spec => Ledger!Init /\ [][Ledger!Next]_history
  BY <1>1, LedgerStep, Invariance, PTL DEF Spec
<1>3. QED
  BY <1>2 DEF ImplementsLedger, Ledger!Spec

(* A settled run is settled for good: it follows from the ledger alone.      *)
THEOREM SettledStays == Spec => SettledForGood
<1> DEFINE Kept == \A r \in RunIds : (history[r] # NoRun /\ r \notin Running)
                                     => history'[r] = history[r]
<1>1. ASSUME [Ledger!Next]_history
      PROVE  Kept
  <2>1. ASSUME NEW r \in RunIds, NEW row \in Ledger!Rows, Ledger!Enter(r, row)
        PROVE  Kept
    BY <2>1 DEF Ledger!Enter
  <2>2. ASSUME NEW S \in SUBSET RunIds, Ledger!Settle(S)
        PROVE  Kept
    BY <2>2 DEF Ledger!Settle, Ledger!Running, Running
  <2>3. QED
    BY <1>1, <2>1, <2>2 DEF Ledger!Next
<1>2. IInv /\ [Next]_vars => [Kept]_vars
  BY <1>1, LedgerStep
<1>3. QED
  BY <1>2, Invariance, PTL DEF Spec, SettledForGood

-----------------------------------------------------------------------------
(* The cap. *)

(* A row is never taken out again, and only an id without a row gets one.    *)
LEMMA RowsStay ==
  ASSUME IInv, [Next]_vars, NEW r \in RunIds
  PROVE  /\ history[r] # NoRun => history'[r] # NoRun
         /\ r \in Running' => r \in Running \/ history[r] = NoRun
<1>1. [Ledger!Next]_history
  BY LedgerStep
<1>2. CASE UNCHANGED history
  BY <1>2 DEF Running
<1>3. ASSUME NEW s \in RunIds, NEW row \in Ledger!Rows, Ledger!Enter(s, row)
      PROVE  /\ history[r] # NoRun => history'[r] # NoRun
             /\ r \in Running' => r \in Running \/ history[r] = NoRun
  BY <1>3 DEF Ledger!Enter, Running
<1>4. ASSUME NEW S \in SUBSET RunIds, Ledger!Settle(S)
      PROVE  /\ history[r] # NoRun => history'[r] # NoRun
             /\ r \in Running' => r \in Running \/ history[r] = NoRun
  <2>1. PICK f \in [S -> Ledger!Settled] :
          history' = [s \in RunIds |-> IF s \in S THEN [history[s] EXCEPT !.status = f[s]]
                                       ELSE history[s]]
    BY <1>4 DEF Ledger!Settle
  <2>2. CASE r \in S
    <3>1. r \in Running /\ history[r] \in Rows
      BY <1>4, <2>2 DEF Ledger!Settle, Ledger!Running, Running, IInv, TypeOK
    <3>2. [history[r] EXCEPT !.status = f[r]] \in Rows
      BY <2>2, <3>1 DEF Rows, Ledger!Settled, Settled
    <3>3. QED
      BY <2>1, <2>2, <3>1, <3>2, NoRunIsNoRow DEF Rows, Settled
  <2>3. CASE r \notin S
    BY <2>1, <2>3 DEF Running
  <2>4. QED
    BY <2>2, <2>3
<1>5. QED
  BY <1>1, <1>2, <1>3, <1>4 DEF Ledger!Next

(* Where a step of launch_run can take a request. *)
LEMMA RequestMoves ==
  ASSUME TypeOK, NEW q \in Requests, LaunchStep(q)
  PROVE  /\ \A p \in Requests \ {q} : request'[p] = request[p]
         /\ SpawnRun(q) \/ request'[q].pc # "spawned"
         /\ request'[q].pc \in {"counted", "inserted", "spawned"} =>
              \/ request[q].pc \in {"counted", "inserted", "spawned"}
              \/ Cardinality(RunningAgentRuns) < MaxAgentRuns
<1> DEFINE Goal == /\ \A p \in Requests \ {q} : request'[p] = request[p]
                   /\ SpawnRun(q) \/ request'[q].pc # "spawned"
                   /\ request'[q].pc \in {"counted", "inserted", "spawned"} =>
                        \/ request[q].pc \in {"counted", "inserted", "spawned"}
                        \/ Cardinality(RunningAgentRuns) < MaxAgentRuns
<1>1. CASE RefuseConflict(q) \/ RefuseCap(q) \/ RefuseUnknown(q) \/ RecordAgentRun(q)
           \/ RequestRaises(q)
  BY <1>1 DEF RefuseConflict, RefuseCap, RefuseUnknown, RecordAgentRun, RequestRaises, Refuse,
              Idle, TypeOK
<1>2. CASE TakeStartLock(q) \/ NoConflict(q)
  <2>1. request[q] \in BusyRequest
    BY <1>2 DEF TakeStartLock, NoConflict, TypeOK, IdleRequest, BusyRequest, StartedRequest
  <2>2. QED
    BY <1>2, <2>1 DEF TakeStartLock, NoConflict, GoOn, TypeOK, BusyRequest
<1>3. CASE BelowCap(q)
  BY <1>3 DEF BelowCap, GoOn, TypeOK, IdleRequest, BusyRequest, StartedRequest
<1>4. ASSUME NEW r \in RunIds, InsertRun(q, r)
      PROVE  Goal
  BY <1>4 DEF InsertRun, TypeOK
<1>5. CASE SpawnRun(q)
  BY <1>5 DEF SpawnRun, TypeOK
<1>6. QED
  BY <1>1, <1>2, <1>3, <1>4, <1>5 DEF LaunchStep

(* Every other step leaves the requests as they are, lets one in or, in a    *)
(* crash, ends them; and records no run.                                     *)
LEMMA RequestsElsewhere ==
  ASSUME TypeOK, [Next]_vars, ~ \E q \in Requests : LaunchStep(q)
  PROVE  /\ \A r \in RunIds : agentRun'[r] # 0 => agentRun[r] # 0
         /\ \A q \in Requests : request'[q].pc \notin {"idle", "checked"}
                                => request'[q] = request[q]
<1>1. \A r \in RunIds : agentRun'[r] # 0 => agentRun[r] # 0
  BY DEF Next, vars, Precheck, GoOn, StaffInsert, NewRow, ExecutorStep, StaffSpawn,
         Register, PlayEnds, PlayRaises, Decide, Unregister, FinishRun, FinishRaises,
         Advance, CancelFromUI, CancelFromAgent, CancelStep, FindHandle, AskAgain,
         GiveUp, SetCancel, Wait, CreateAgent, DeleteAgent, SetKillSwitch, Sync,
         Crash, Restart, Reconcile, database, TypeOK
<1>2. \A q \in Requests : request'[q].pc \notin {"idle", "checked"} => request'[q] = request[q]
  BY DEF Next, vars, Precheck, GoOn, StaffInsert, ExecutorStep, StaffSpawn,
         Register, PlayEnds, PlayRaises, Decide, Unregister, FinishRun, FinishRaises,
         Advance, CancelFromUI, CancelFromAgent, CancelStep, FindHandle, AskAgain,
         GiveUp, SetCancel, Wait, CreateAgent, DeleteAgent, SetKillSwitch, Sync,
         Unaffected, Crash, Restart, Reconcile, Idle, TypeOK
<1>3. QED
  BY <1>1, <1>2

(* record_agent_run only ever records a run whose row is there.              *)
LEMMA RecordStep ==
  ASSUME IInv, RecordInv, [Next]_vars
  PROVE  RecordInv'
<1>1. \A r \in RunIds : history[r] # NoRun => history'[r] # NoRun
  BY RowsStay
<1>2. ASSUME NEW q \in Requests, LaunchStep(q)
      PROVE  RecordInv'
  <2>1. CASE RecordAgentRun(q)
    <3>1. request[q].run \in RunIds /\ history[request[q].run] # NoRun
      BY <2>1 DEF RecordAgentRun, RecordInv, IInv, TypeOK, IdleRequest, BusyRequest, StartedRequest
    <3>2. QED
      BY <2>1, <3>1 DEF RecordAgentRun, RecordInv, Idle, IInv, TypeOK
  <2>2. CASE SpawnRun(q)
    <3>1. request[q].run \in RunIds /\ history[request[q].run] # NoRun
      BY <2>2 DEF SpawnRun, IInv, TypeOK, IdleRequest, BusyRequest, StartedRequest,
                  InsertedInv, LiveRunHasRow, Live, Running
    <3>2. QED
      BY <2>2, <3>1 DEF SpawnRun, RecordInv, database, IInv, TypeOK
  <2>3. CASE ~RecordAgentRun(q) /\ ~SpawnRun(q)
    <3>1. agentRun' = agentRun
      BY <1>2, <2>3 DEF LaunchStep, TakeStartLock, NoConflict, RefuseConflict, BelowCap,
                        RefuseCap, RefuseUnknown, InsertRun, NewRow, RequestRaises, GoOn,
                        Refuse, database
    <3>2. \A p \in Requests : request'[p].pc = "spawned" => request'[p] = request[p]
      BY <1>2, <2>3, RequestMoves DEF IInv
    <3>3. \A p \in Requests : request[p].pc = "spawned" => request[p].run \in RunIds
      BY DEF IInv, TypeOK, IdleRequest, BusyRequest, StartedRequest
    <3>4. QED
      BY <1>1, <3>1, <3>2, <3>3 DEF RecordInv
  <2>4. QED
    BY <2>1, <2>2, <2>3
<1>3. ASSUME ~ \E q \in Requests : LaunchStep(q)
      PROVE  RecordInv'
  <2>1. \A r \in RunIds : agentRun'[r] # 0 => agentRun[r] # 0
    BY <1>3, RequestsElsewhere DEF IInv
  <2>2. \A q \in Requests : request'[q].pc = "spawned" => request'[q] = request[q]
    BY <1>3, RequestsElsewhere DEF IInv
  <2>3. \A q \in Requests : request[q].pc = "spawned" => request[q].run \in RunIds
    BY DEF IInv, TypeOK, IdleRequest, BusyRequest, StartedRequest
  <2>4. QED
    BY <1>1, <2>1, <2>2, <2>3 DEF RecordInv
<1>4. QED
  BY <1>2, <1>3

(* Fewer recorded runs keep the cap, and so does a request that has counted. *)
LEMMA CapShrinks ==
  ASSUME CapInv, RunningAgentRuns' \subseteq RunningAgentRuns,
         \A q \in Requests : request'[q].pc \in {"counted", "inserted", "spawned"} =>
            \/ request[q].pc \in {"counted", "inserted", "spawned"}
            \/ Cardinality(RunningAgentRuns) < MaxAgentRuns
  PROVE  CapInv'
<1>1. /\ IsFiniteSet(RunningAgentRuns')
      /\ Cardinality(RunningAgentRuns') <= Cardinality(RunningAgentRuns)
  BY FS_Subset DEF CapInv
<1>2. Cardinality(RunningAgentRuns) \in Nat /\ Cardinality(RunningAgentRuns') \in Nat
  BY <1>1, FS_CardinalityType DEF CapInv
<1>3. QED
  BY <1>1, <1>2, BoundsAreNumbers DEF CapInv

(* No step makes one recorded run too many: who records has counted, and     *)
(* holds the start lock since.                                               *)
LEMMA CapStep ==
  ASSUME IInv, RecordInv, CapInv, [Next]_vars
  PROVE  CapInv'
<1>1. ASSUME NEW q \in Requests, RecordAgentRun(q)
      PROVE  CapInv'
  <2> DEFINE S == RunningAgentRuns
             T == S \cup {request[q].run}
  <2>1. RunningAgentRuns' \in SUBSET T
    BY <1>1 DEF RecordAgentRun, RunningAgentRuns, Running, IInv, TypeOK
  <2>2. /\ IsFiniteSet(T) /\ Cardinality(T) <= Cardinality(S) + 1
        /\ Cardinality(S) \in Nat /\ Cardinality(T) \in Nat
    <3>1. IsFiniteSet(S) /\ Cardinality(S) \in Nat
      BY FS_CardinalityType DEF CapInv
    <3> HIDE DEF S
    <3>2. /\ IsFiniteSet(T)
          /\ Cardinality(T) = IF request[q].run \in S THEN Cardinality(S)
                              ELSE Cardinality(S) + 1
      BY <3>1, FS_AddElement
    <3>3. QED
      BY <3>1, <3>2
  <2>3. /\ IsFiniteSet(RunningAgentRuns') /\ Cardinality(RunningAgentRuns') \in Nat
        /\ Cardinality(RunningAgentRuns') <= Cardinality(T)
    BY <2>1, <2>2, FS_Subset, FS_CardinalityType
  <2>4. Cardinality(RunningAgentRuns) < MaxAgentRuns
    BY <1>1 DEF RecordAgentRun, CapInv
  <2>5. \A p \in Requests : request'[p].pc \notin {"counted", "inserted", "spawned"}
    <3>1. startLock = q
      BY <1>1 DEF RecordAgentRun, IInv, LockInv, InLock
    <3>2. \A p \in Requests \ {q} : request[p].pc \notin InLock
      BY <3>1 DEF IInv, LockInv
    <3>3. QED
      BY <1>1, <3>2 DEF RecordAgentRun, Idle, InLock, IInv, TypeOK
  <2>6. QED
    BY <2>2, <2>3, <2>4, <2>5, BoundsAreNumbers DEF CapInv
<1>2. ASSUME ~ \E q \in Requests : RecordAgentRun(q)
      PROVE  CapInv'
  <2>1. \A r \in RunIds : agentRun'[r] # 0 => agentRun[r] # 0
    <3>1. ASSUME NEW q \in Requests, LaunchStep(q)
          PROVE  agentRun' = agentRun
      BY <1>2, <3>1 DEF LaunchStep, TakeStartLock, NoConflict, RefuseConflict, BelowCap,
                        RefuseCap, RefuseUnknown, InsertRun, NewRow, SpawnRun, RequestRaises,
                        GoOn, Refuse, database
    <3>2. QED
      BY <3>1, RequestsElsewhere DEF IInv
  <2>2. RunningAgentRuns' \subseteq RunningAgentRuns
    BY <2>1, RowsStay DEF RunningAgentRuns, RecordInv, Running
  <2>3. \A q \in Requests : request'[q].pc \in {"counted", "inserted", "spawned"} =>
            \/ request[q].pc \in {"counted", "inserted", "spawned"}
            \/ Cardinality(RunningAgentRuns) < MaxAgentRuns
    BY RequestMoves, RequestsElsewhere DEF IInv
  <2>4. QED
    BY <2>2, <2>3, CapShrinks
<1>3. QED
  BY <1>1, <1>2

(* At most MaxAgentRuns recorded agent runs go at once (launch_run), for any *)
(* cap and any number of runs, requests and agents.                          *)
THEOREM CapKept == Spec => []WithinCap
<1>1. Init => RecordInv /\ CapInv
  <2>1. ASSUME Init PROVE RunningAgentRuns = {}
    BY <2>1 DEF Init, RunningAgentRuns, Running
  <2>2. ASSUME Init PROVE RecordInv
    BY <2>2 DEF Init, RecordInv, Idle
  <2>3. ASSUME Init PROVE CapInv
    <3>1. IsFiniteSet(RunningAgentRuns) /\ Cardinality(RunningAgentRuns) = 0
      BY <2>1, <2>3, FS_EmptySet
    <3>2. QED
      BY <2>3, <3>1, BoundsAreNumbers DEF Init, CapInv, Idle
  <2>4. QED
    BY <2>2, <2>3
<1>2. IInv /\ RecordInv /\ CapInv /\ [Next]_vars => (RecordInv /\ CapInv)'
  BY RecordStep, CapStep
<1>3. CapInv => WithinCap
  BY DEF CapInv, WithinCap
<1>4. QED
  BY <1>1, <1>2, <1>3, Invariance, PTL DEF Spec
=============================================================================
