---------------------------- MODULE PlaybookRuns ----------------------------
(***************************************************************************)
(* Playbook runs: app/services/runner.py, the start path of                *)
(* app/services/agent_runs.py, the AgentRun table and the agent rows of    *)
(* app/services/agents.py, and the handlers that call them.                *)
(*                                                                         *)
(* Threads of the one server process share the database and the runner's   *)
(* table of cancel handles: request threads that start a run for an agent  *)
(* (a direct call, or an approval an admin just gave) under _start_lock,   *)
(* the UI and the scheduler, which start runs without that lock, one       *)
(* executor thread per run, and threads that cancel.  Each committed       *)
(* transaction, each use of _lock and each call of ansible-runner is one   *)
(* step.  The process may die between any two steps; the database is what  *)
(* a restart finds.  Retention, which takes settled rows beyond the newest *)
(* 500, is left out here.                                                  *)
(***************************************************************************)
EXTENDS Naturals, FiniteSets

CONSTANTS
    RunIds,         \* ids the RunHistory table can hand out (the bound on runs)
    Requests,       \* request threads that start runs for agents
    Cancellers,     \* threads that serve a cancel
    Agents,         \* who holds, or held, an agent token
    MaxAgentId,     \* bound on the ids of Agent rows
    Staff,          \* a run started by a signed-in user or by the scheduler
    Playbooks,
    Hosts,
    MaxAgentRuns,   \* MAX_AGENT_RUNS (5)
    CancelTries,    \* how often the API looks for a cancel handle (20)
    MayFail,        \* TRUE: a database write, a log write or a thread start may raise
    NoRun,          \* no row
    Nobody          \* the start lock is free

ASSUME StaffIsNoAgent == Staff \notin Agents
ASSUME NoRunIsNoRow == \A p \in Playbooks, l \in SUBSET Hosts, b \in Agents \cup {Staff},
                          s \in {"running", "success", "failed", "timeout", "cancelled"} :
                          NoRun # [playbook |-> p, limit |-> l, by |-> b, status |-> s]
ASSUME NobodyIsNoRequest == Nobody \notin Requests
ASSUME BoundsAreNumbers == /\ MaxAgentId \in Nat
                           /\ MaxAgentRuns \in Nat
                           /\ CancelTries \in Nat
ASSUME MayFailIsBoolean == MayFail \in BOOLEAN

VARIABLES
    (* the database and the checkout *)
    history,        \* RunHistory: a row or NoRun for each id
    agentRun,       \* AgentRun: the agent id a run is recorded for, 0 if none
    agentId,        \* Agent: the id of an agent's row, 0 while it has none
    disabled,       \* Settings: agent_runs_disabled, the kill switch
    checkout,       \* the playbooks the checked-out repository has
    (* the process *)
    up,             \* whether the server is running
    startLock,      \* agent_runs._start_lock: the request that holds it
    request,        \* the request threads
    registered,     \* runs with an entry in runner._cancel_events and _progress
    cancelSet,      \* runs whose cancel event is set
    exec,           \* the executor thread of each run
    canceller       \* the threads that serve a cancel

database == <<history, agentRun, agentId, disabled, checkout>>
vars == <<history, agentRun, agentId, disabled, checkout,
          up, startLock, request, registered, cancelSet, exec, canceller>>

-----------------------------------------------------------------------------
AgentIds == 1 .. MaxAgentId
Settled == {"success", "failed", "timeout", "cancelled"}
Rows == [playbook : Playbooks, limit : SUBSET Hosts,
         by : Agents \cup {Staff}, status : {"running"} \cup Settled]

Running == {r \in RunIds : history[r] # NoRun /\ history[r].status = "running"}

(* Mutant of Conflicts: looks in AgentRun for the runs that are going. *)
Conflicts_RecordedOnly(p, l) ==
    {r \in Running : /\ agentRun[r] # 0
                     /\ history[r].playbook = p
                     /\ history[r].limit = {} \/ history[r].limit \cap l # {}}

(* running_conflict: the runs of playbook p still going that overlap the     *)
(* hosts l.  A run with no limit covers every host.                          *)
Conflicts(p, l) ==
    {r \in Running : /\ history[r].playbook = p
                     /\ history[r].limit = {} \/ history[r].limit \cap l # {}}

(* running_agent_runs: the AgentRun rows whose run is still going. *)
RunningAgentRuns == {r \in Running : agentRun[r] # 0}

(* Where a request thread is.  Between "locked" and "spawned" it is inside   *)
(* `with _start_lock`.                                                       *)
InLock == {"locked", "clear", "counted", "inserted", "spawned"}
IdleRequest == [pc : {"idle"}]
BusyRequest == [pc : {"checked"} \cup (InLock \ {"inserted", "spawned"}),
                agent : Agents, id : AgentIds, playbook : Playbooks,
                limit : (SUBSET Hosts) \ {{}}]
StartedRequest == [pc : {"inserted", "spawned"},
                   agent : Agents, id : AgentIds, playbook : Playbooks,
                   limit : (SUBSET Hosts) \ {{}}, run : RunIds]
Idle == [pc |-> "idle"]

(* Where the executor thread of a run is, and the status it has come to:     *)
(* unborn (row in, thread not started), born, playing (ansible runs), ended  *)
(* (joined, with ansible-runner's status), settled (ulmo's status chosen),   *)
(* popped (handles dropped); doomed when writing the failure log raised.     *)
Outcomes == {"successful", "failed", "timeout", "canceled"}
NoThread == [pc |-> "none"]
Executors == [pc : {"none", "unborn", "born", "playing", "doomed"}]
             \cup [pc : {"ended"}, result : Outcomes]
             \cup [pc : {"settled", "popped"}, result : Settled]

CancelStates == [pc : {"idle"}] \cup [pc : {"holding"}, run : RunIds]
                \cup [pc : {"asking"}, run : RunIds, tries : 0 .. CancelTries]

-----------------------------------------------------------------------------
Init ==
    /\ history = [r \in RunIds |-> NoRun]
    /\ agentRun = [r \in RunIds |-> 0]
    /\ agentId = [a \in Agents |-> 0]
    /\ disabled = FALSE
    /\ checkout = {}
    /\ up = TRUE
    /\ startLock = Nobody
    /\ request = [q \in Requests |-> Idle]
    /\ registered = {}
    /\ cancelSet = {}
    /\ exec = [r \in RunIds |-> NoThread]
    /\ canceller = [c \in Cancellers |-> Idle]

-----------------------------------------------------------------------------
(* Most steps are of one thread that looks at the rest and goes on. *)

GoOn(q, next) == /\ request' = [request EXCEPT ![q] = next]
                 /\ UNCHANGED <<database, up, startLock, registered, cancelSet, exec, canceller>>
Refuse(q) == /\ request' = [request EXCEPT ![q] = Idle] /\ startLock' = Nobody
             /\ UNCHANGED <<database, up, registered, cancelSet, exec, canceller>>
Advance(r, next) == /\ exec' = [exec EXCEPT ![r] = next]
                    /\ UNCHANGED <<database, up, startLock, request, registered, cancelSet, canceller>>
Wait(c, next) == /\ canceller' = [canceller EXCEPT ![c] = next]
                 /\ UNCHANGED <<database, up, startLock, request, registered, cancelSet, exec>>

-----------------------------------------------------------------------------
(* An agent's run: precheck_run, then launch_run under the start lock.       *)

(* The request is let in: the kill switch is on "enabled", and check_run     *)
(* found the playbook and the hosts granted (what it decides does not depend *)
(* on the runs, so any playbook and any non-empty set of hosts may pass).    *)
(* From here on the thread works with the Agent row it has read.             *)
Precheck(q, a, p, l) ==
    /\ up /\ request[q] = Idle
    /\ agentId[a] # 0
    /\ ~disabled
    /\ GoOn(q, [pc |-> "checked", agent |-> a, id |-> agentId[a], playbook |-> p, limit |-> l])

(* Mutant of TakeStartLock: a check and a start that are not one step. *)
TakeStartLock_NotExclusive(q) ==
    /\ request[q].pc = "checked"
    /\ startLock' = q
    /\ request' = [request EXCEPT ![q].pc = "locked"]
    /\ UNCHANGED <<database, up, registered, cancelSet, exec, canceller>>

TakeStartLock(q) ==
    /\ request[q].pc = "checked"
    /\ startLock = Nobody /\ startLock' = q
    /\ request' = [request EXCEPT ![q].pc = "locked"]
    /\ UNCHANGED <<database, up, registered, cancelSet, exec, canceller>>

NoConflict(q) ==
    /\ request[q].pc = "locked"
    /\ Conflicts(request[q].playbook, request[q].limit) = {}
    /\ GoOn(q, [request[q] EXCEPT !.pc = "clear"])

(* Mutant of RefuseConflict: the refusal leaves the lock taken. *)
RefuseConflict_KeepsLock(q) ==
    /\ request[q].pc = "locked"
    /\ Conflicts(request[q].playbook, request[q].limit) # {}
    /\ GoOn(q, Idle)

RefuseConflict(q) ==        \* 409
    /\ request[q].pc = "locked"
    /\ Conflicts(request[q].playbook, request[q].limit) # {}
    /\ Refuse(q)

(* Mutant of BelowCap: off by one. *)
BelowCap_OneMore(q) ==
    /\ request[q].pc = "clear"
    /\ Cardinality(RunningAgentRuns) <= MaxAgentRuns
    /\ GoOn(q, [request[q] EXCEPT !.pc = "counted"])

BelowCap(q) ==
    /\ request[q].pc = "clear"
    /\ Cardinality(RunningAgentRuns) < MaxAgentRuns
    /\ GoOn(q, [request[q] EXCEPT !.pc = "counted"])

RefuseCap(q) ==             \* 429
    /\ request[q].pc = "clear"
    /\ Cardinality(RunningAgentRuns) >= MaxAgentRuns
    /\ Refuse(q)

(* runner.start_run up to its commit: the row is in, its thread is not yet   *)
(* started.                                                                  *)
NewRow(r, p, l, b) ==
    /\ history[r] = NoRun
    /\ p \in checkout
    /\ history' = [history EXCEPT ![r] =
                     [playbook |-> p, limit |-> l, by |-> b, status |-> "running"]]
    /\ exec' = [exec EXCEPT ![r] = [pc |-> "unborn"]]
    /\ UNCHANGED <<agentRun, agentId, disabled, checkout,
                   up, startLock, registered, cancelSet, canceller>>

InsertRun(q, r) ==
    /\ request[q].pc = "counted"
    /\ NewRow(r, request[q].playbook, request[q].limit, request[q].agent)
    /\ request' = [request EXCEPT ![q] =
                     [pc |-> "inserted", agent |-> @.agent, id |-> @.id,
                      playbook |-> @.playbook, limit |-> @.limit, run |-> r]]

RefuseUnknown(q) ==         \* 404: granted, but it has left the repository
    /\ request[q].pc = "counted"
    /\ request[q].playbook \notin checkout
    /\ Refuse(q)

SpawnRun(q) ==
    /\ request[q].pc = "inserted"
    /\ exec' = [exec EXCEPT ![request[q].run] = [pc |-> "born"]]
    /\ request' = [request EXCEPT ![q].pc = "spawned"]
    /\ UNCHANGED <<database, up, startLock, registered, cancelSet, canceller>>

(* record_agent_run, and the answer 202. *)
RecordAgentRun(q) ==
    /\ request[q].pc = "spawned"
    /\ agentRun' = [agentRun EXCEPT ![request[q].run] = request[q].id]
    /\ request' = [request EXCEPT ![q] = Idle] /\ startLock' = Nobody
    /\ UNCHANGED <<history, agentId, disabled, checkout,
                   up, registered, cancelSet, exec, canceller>>

(* Any call inside `with _start_lock` may raise: the lock is released, what  *)
(* was committed stays, a thread that was not started never will be.         *)
RequestRaises(q) ==
    /\ MayFail
    /\ request[q].pc \in InLock
    /\ exec' = IF request[q].pc = "inserted"
               THEN [exec EXCEPT ![request[q].run] = NoThread] ELSE exec
    /\ request' = [request EXCEPT ![q] = Idle] /\ startLock' = Nobody
    /\ UNCHANGED <<database, up, registered, cancelSet, canceller>>

-----------------------------------------------------------------------------
(* A run from the UI or the scheduler: start_run, without the start lock. *)

StaffInsert(r, p, l) == up /\ NewRow(r, p, l, Staff) /\ UNCHANGED request

StaffSpawn(r) ==
    /\ exec[r].pc = "unborn" /\ history[r].by = Staff
    /\ \/ Advance(r, [pc |-> "born"])
       \/ MayFail /\ Advance(r, NoThread)       \* Thread.start raised

-----------------------------------------------------------------------------
(* The executor thread of a run: _execute. *)

Register(r) ==
    /\ exec[r].pc = "born"
    /\ registered' = registered \cup {r}
    /\ exec' = [exec EXCEPT ![r] = [pc |-> "playing"]]
    /\ UNCHANGED <<database, up, startLock, request, cancelSet, canceller>>

(* ansible-runner is done and joined.  It polls the cancel event, so it ends *)
(* "canceled" only when that is set; but it may also finish first.           *)
PlayEnds(r, o) ==
    /\ exec[r].pc = "playing"
    /\ o = "canceled" => r \in cancelSet
    /\ Advance(r, [pc |-> "ended", result |-> o])

(* Mutant of PlayRaises: what raised was outside the try (runner.py:166-170). *)
PlayRaises_Uncaught(r) == exec[r].pc = "playing" /\ Advance(r, NoThread)

(* Something in the try raised; writing the reason to the log may raise too. *)
PlayRaises(r) ==
    /\ exec[r].pc = "playing"
    /\ \/ Advance(r, [pc |-> "settled", result |-> "failed"])
       \/ MayFail /\ Advance(r, [pc |-> "doomed"])

(* Mutant of FinalStatus: success is looked at before the cancel. *)
FinalStatus_SuccessFirst(r, o) ==
    IF o = "successful" THEN "success"
    ELSE IF r \in cancelSet THEN "cancelled"
    ELSE IF o = "timeout" THEN "timeout" ELSE "failed"

(* The status ulmo gives a run: a cancel that was asked for comes first. *)
FinalStatus(r, o) ==
    IF r \in cancelSet THEN "cancelled"
    ELSE IF o = "timeout" THEN "timeout"
    ELSE IF o = "successful" THEN "success" ELSE "failed"

Decide(r) ==
    /\ exec[r].pc = "ended"
    /\ Advance(r, [pc |-> "settled", result |-> FinalStatus(r, exec[r].result)])

(* The finally: the run's handles go, and a thread that raised is gone too. *)
Unregister(r) ==
    /\ exec[r].pc \in {"settled", "doomed"}
    /\ registered' = registered \ {r}
    /\ exec' = [exec EXCEPT ![r] = IF @.pc = "doomed" THEN NoThread
                                   ELSE [pc |-> "popped", result |-> @.result]]
    /\ UNCHANGED <<database, up, startLock, request, cancelSet, canceller>>

FinishRun(r) ==
    /\ exec[r].pc = "popped"
    /\ history' = [history EXCEPT ![r].status = exec[r].result]
    /\ exec' = [exec EXCEPT ![r] = NoThread]
    /\ UNCHANGED <<agentRun, agentId, disabled, checkout,
                   up, startLock, request, registered, cancelSet, canceller>>

(* The write of the result raises: it is not tried again. *)
FinishRaises(r) == MayFail /\ exec[r].pc = "popped" /\ Advance(r, NoThread)

-----------------------------------------------------------------------------
(* Cancelling: runner.cancel_run takes the handle under _lock and sets it    *)
(* after; the UI asks once and the API asks again while the run is going.    *)

CancelFromUI(c, r) ==
    /\ up /\ canceller[c] = Idle
    /\ r \in registered
    /\ Wait(c, [pc |-> "holding", run |-> r])

(* owns_run: an agent may cancel a run that is recorded for its id. *)
CancelFromAgent(c, a, r) ==
    /\ up /\ canceller[c] = Idle
    /\ agentId[a] # 0 /\ agentRun[r] = agentId[a]
    /\ Wait(c, [pc |-> "asking", run |-> r, tries |-> 0])

FindHandle(c) ==
    /\ canceller[c].pc = "asking" /\ canceller[c].tries < CancelTries
    /\ canceller[c].run \in registered
    /\ Wait(c, [pc |-> "holding", run |-> canceller[c].run])

AskAgain(c) ==
    /\ canceller[c].pc = "asking" /\ canceller[c].tries < CancelTries
    /\ canceller[c].run \notin registered
    /\ history[canceller[c].run].status = "running"
    /\ Wait(c, [canceller[c] EXCEPT !.tries = @ + 1])

GiveUp(c) ==                \* 409
    /\ canceller[c].pc = "asking"
    /\ \/ canceller[c].tries = CancelTries
       \/ /\ canceller[c].run \notin registered
          /\ history[canceller[c].run].status # "running"
    /\ Wait(c, Idle)

SetCancel(c) ==
    /\ canceller[c].pc = "holding"
    /\ cancelSet' = cancelSet \cup {canceller[c].run}
    /\ canceller' = [canceller EXCEPT ![c] = Idle]
    /\ UNCHANGED <<database, up, startLock, request, registered, exec>>

-----------------------------------------------------------------------------
(* What admins and the world change, and the life of the process. *)

Unaffected == UNCHANGED <<up, startLock, request, registered, cancelSet, exec, canceller>>

(* SQLite gives a new row the id after the largest one there is. *)
CreateAgent(a, i) ==
    /\ up /\ agentId[a] = 0
    /\ \A b \in Agents : agentId[b] < i
    /\ i = 1 \/ \E b \in Agents : agentId[b] = i - 1
    /\ agentId' = [agentId EXCEPT ![a] = i]
    /\ Unaffected /\ UNCHANGED <<history, agentRun, disabled, checkout>>

DeleteAgent(a) ==
    /\ up /\ agentId[a] # 0
    /\ agentRun' = [r \in RunIds |-> IF agentRun[r] = agentId[a] THEN 0 ELSE agentRun[r]]
    /\ agentId' = [agentId EXCEPT ![a] = 0]
    /\ Unaffected /\ UNCHANGED <<history, disabled, checkout>>

SetKillSwitch ==
    /\ up /\ disabled' = ~disabled
    /\ Unaffected /\ UNCHANGED <<history, agentRun, agentId, checkout>>

(* A git sync brings other playbooks. *)
Sync(S) ==
    /\ up /\ checkout' = S /\ S # checkout
    /\ Unaffected /\ UNCHANGED <<history, agentRun, agentId, disabled>>

(* The process dies: its threads and memory are gone, the database stays. *)
Crash ==
    /\ up /\ up' = FALSE
    /\ startLock' = Nobody
    /\ request' = [q \in Requests |-> Idle]
    /\ registered' = {} /\ cancelSet' = {}
    /\ exec' = [r \in RunIds |-> NoThread]
    /\ canceller' = [c \in Cancellers |-> Idle]
    /\ UNCHANGED database

(* Rows left "running" are marked failed. *)
Reconcile(orphaned) ==
    /\ up' = TRUE
    /\ history' = [r \in RunIds |-> IF r \in orphaned
                                    THEN [history[r] EXCEPT !.status = "failed"]
                                    ELSE history[r]]
    /\ UNCHANGED <<agentRun, agentId, disabled, checkout,
                   startLock, request, registered, cancelSet, exec, canceller>>

(* lifespan: reconcile_orphaned_runs, then requests are served again. *)
Restart == ~up /\ Reconcile(Running)

-----------------------------------------------------------------------------
LaunchStep(q) ==
    \/ TakeStartLock(q) \/ NoConflict(q) \/ RefuseConflict(q)
    \/ BelowCap(q) \/ RefuseCap(q)
    \/ (\E r \in RunIds : InsertRun(q, r)) \/ RefuseUnknown(q)
    \/ SpawnRun(q) \/ RecordAgentRun(q) \/ RequestRaises(q)

ExecutorStep(r) ==
    \/ StaffSpawn(r) \/ Register(r)
    \/ (\E o \in Outcomes : PlayEnds(r, o)) \/ PlayRaises(r)
    \/ Decide(r) \/ Unregister(r) \/ FinishRun(r) \/ FinishRaises(r)

CancelStep(c) == FindHandle(c) \/ AskAgain(c) \/ GiveUp(c) \/ SetCancel(c)

Next ==
    \/ \E q \in Requests, a \in Agents, p \in Playbooks, l \in (SUBSET Hosts) \ {{}} :
         Precheck(q, a, p, l)
    \/ \E q \in Requests : LaunchStep(q)
    \/ \E r \in RunIds, p \in Playbooks, l \in SUBSET Hosts : StaffInsert(r, p, l)
    \/ \E r \in RunIds : ExecutorStep(r)
    \/ \E c \in Cancellers, r \in RunIds : CancelFromUI(c, r)
    \/ \E c \in Cancellers, a \in Agents, r \in RunIds : CancelFromAgent(c, a, r)
    \/ \E c \in Cancellers : CancelStep(c)
    \/ \E a \in Agents, i \in AgentIds : CreateAgent(a, i)
    \/ \E a \in Agents : DeleteAgent(a)
    \/ SetKillSwitch
    \/ \E S \in SUBSET Playbooks : Sync(S)
    \/ Crash
    \/ Restart

Spec == Init /\ [][Next]_vars

(* A thread that can take a step takes one in the end; so does a canceller,  *)
(* and a dead server is started again (the container restarts).  A play ends *)
(* because ansible-runner enforces the run timeout (60 minutes by default).  *)
(* Nothing obliges a user, an admin or a sync to act, or the server to die.  *)
Fairness ==
    /\ \A q \in Requests : WF_vars(LaunchStep(q))
    /\ \A r \in RunIds : WF_vars(ExecutorStep(r))
    /\ \A c \in Cancellers : WF_vars(CancelStep(c))
    /\ WF_vars(Restart)

FairSpec == Spec /\ Fairness

-----------------------------------------------------------------------------
(* Properties. *)

TypeOK ==
    /\ history \in [RunIds -> Rows \cup {NoRun}]
    /\ agentRun \in [RunIds -> 0 .. MaxAgentId]
    /\ agentId \in [Agents -> 0 .. MaxAgentId]
    /\ disabled \in BOOLEAN
    /\ checkout \in SUBSET Playbooks
    /\ up \in BOOLEAN
    /\ startLock \in Requests \cup {Nobody}
    /\ request \in [Requests -> IdleRequest \cup BusyRequest \cup StartedRequest]
    /\ registered \in SUBSET RunIds
    /\ cancelSet \in SUBSET RunIds
    /\ exec \in [RunIds -> Executors]
    /\ canceller \in [Cancellers -> CancelStates]

(* Whether the thread of run r may still start, drive or settle it. *)
Live(r) == exec[r].pc \notin {"none", "doomed"}

(* A run some thread still drives has a row that says "running": what the    *)
(* conflict check, the cap and retention read is never behind the threads.   *)
LiveRunHasRow == \A r \in RunIds : Live(r) => r \in Running

(* Two runs started for agents (agent_runs.launch_run) never go on the same  *)
(* playbook and a common host at once, whatever the UI, the scheduler,       *)
(* cancels, deleted agents and restarts do meanwhile.                        *)
AgentRunsDisjoint ==
    \A r, s \in Running :
        (/\ r # s
         /\ history[r].by \in Agents /\ history[s].by \in Agents
         /\ history[r].playbook = history[s].playbook)
        => history[r].limit \cap history[s].limit = {}

(* The runs recorded for agents never exceed the cap: counting, starting and *)
(* recording are one step for other agents (_start_lock), and a run that is  *)
(* not recorded yet keeps the lock.                                          *)
WithinCap == Cardinality(RunningAgentRuns) <= MaxAgentRuns

(* Once a run has a final status it keeps it: no late executor, restart or   *)
(* reconciliation rewrites history.                                          *)
SettledForGood ==
    [][\A r \in RunIds : (history[r] # NoRun /\ r \notin Running)
                         => history'[r] = history[r]]_vars

(* The history is the ledger RunLedger promises: rows are entered running,   *)
(* agents' rows only beside no conflicting agents' row, and settled once.    *)
Ledger == INSTANCE RunLedger WITH ledger <- history
ImplementsLedger == Ledger!Spec

(* Every run ends: a row does not stay "running" for ever, which would hold  *)
(* its hosts and a place under the cap.                                      *)
RunSettles == \A r \in RunIds : (r \in Running) ~> (r \notin Running)

(* A cancel that reaches a run while ansible plays ends it as cancelled, or  *)
(* failed when starting it raised or the server died: never as a success.    *)
CancelHonoured ==
    \A r \in RunIds :
        (exec[r].pc = "playing" /\ r \in cancelSet)
        ~> (history[r] # NoRun /\ history[r].status \in {"cancelled", "failed"})

(* With the kill switch left on "off", the agents' requests that had passed  *)
(* it drain and none follows: the lock is handed on whatever refused one.    *)
(* (RunIds is a bound of the model: with no id left an insert must wait.)    *)
OutOfIds == /\ \A r \in RunIds : history[r] # NoRun
            /\ \E q \in Requests : request[q].pc = "counted"
KillSwitchDrains ==
    <>[]disabled => <>[](OutOfIds \/ \A q \in Requests : request[q] = Idle)

-----------------------------------------------------------------------------
(* The invariant the proofs of PlaybookRunsProofs carry from step to step. *)

(* A request is between taking and releasing the lock iff it holds it. *)
LockInv == \A q \in Requests : request[q].pc \in InLock <=> startLock = q

(* A dead server has no threads. *)
DownInv == ~up => /\ \A r \in RunIds : exec[r] = NoThread
                  /\ \A q \in Requests : request[q] = Idle

(* A row a request has inserted waits for that request to start its thread. *)
InsertedInv ==
    \A q \in Requests : request[q].pc = "inserted" =>
        /\ exec[request[q].run].pc = "unborn"
        /\ history[request[q].run].by \in Agents

(* What the conflict check found stays true of the agents' runs until the    *)
(* row is in: those that end free hosts, and none can start.                 *)
ClearInv ==
    \A q \in Requests : request[q].pc \in {"clear", "counted"} =>
        \A r \in Running :
            (history[r].by \in Agents /\ history[r].playbook = request[q].playbook)
            => history[r].limit # {} /\ history[r].limit \cap request[q].limit = {}

IInv == /\ TypeOK /\ LiveRunHasRow /\ LockInv /\ DownInv
        /\ InsertedInv /\ ClearInv /\ AgentRunsDisjoint

(* The row of a run is there before the run is recorded for an agent, and a  *)
(* request that passed the count knows of a free place until it records.     *)
RecordInv ==
    /\ \A r \in RunIds : agentRun[r] # 0 => history[r] # NoRun
    /\ \A q \in Requests : request[q].pc = "spawned" => history[request[q].run] # NoRun
CapInv ==
    /\ IsFiniteSet(RunningAgentRuns)
    /\ Cardinality(RunningAgentRuns) <= MaxAgentRuns
    /\ \A q \in Requests : request[q].pc \in {"counted", "inserted", "spawned"}
                           => Cardinality(RunningAgentRuns) < MaxAgentRuns

-----------------------------------------------------------------------------
(* What the documentation says and the code does not keep. *)

(* README.md:82: a run over the API is refused while another run of the same *)
(* playbook is going on any of the same hosts, UI runs included.             *)
StartsBesideNoConflict ==
    [][\A r \in RunIds :
         (history[r] = NoRun /\ history'[r] # NoRun /\ history'[r].by \in Agents)
         => Conflicts(history'[r].playbook, history'[r].limit) = {}]_vars
=============================================================================
