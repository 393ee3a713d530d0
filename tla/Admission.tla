------------------------------- MODULE Admission -------------------------------
(***************************************************************************)
(* Admission: an agent's hourly allowance (admit and its neighbours in     *)
(* app/services/agents.py) where it is used: for a call that starts at     *)
(* once, and inside approvals.create for one that must wait                *)
(* (app/routers/api.py, app/services/approvals.py).                        *)
(*                                                                         *)
(* A call reads the agent's row, and with it the limit, when it comes in;  *)
(* it notes the time before it waits for _admit_lock; it then forgets what *)
(* is older, counts and records in one transaction.  Calls of one agent,   *)
(* and of others whose rows are forgotten along, cross at each of these    *)
(* points, while limits change and agents come and go with their ids.      *)
(*                                                                         *)
(* Time is a number of ticks.  What a call must pass first, and what       *)
(* starts after it, are in CommandCalls, PlaybookCalls and PlaybookRuns.   *)
(***************************************************************************)
EXTENDS Integers, FiniteSets

CONSTANTS
    AgentIds,       \* ids of Agent rows
    Limits,         \* values of max_per_hour that admins set; 0 is no limit
    Unset,          \* max_per_hour is NULL
    Default,        \* DEFAULT_MAX_PER_HOUR (60)
    Hour,           \* HOUR, in ticks
    Asks,           \* the different requests that must be approved
    Run,            \* a call that starts at once
    MaxPending,     \* MAX_PENDING_PER_AGENT (10)
    Callers,        \* request threads of agents
    MaxTime,        \* bound on the clock
    MaxAdmitted,    \* bound on the requests admitted
    NoAgent,        \* no such row
    Nobody          \* the lock is free

ASSUME LimitsAreNumbers == Limits \subseteq Nat /\ Default \in Nat /\ Unset \notin Nat
ASSUME BoundsAreNumbers == Hour \in Nat /\ MaxPending \in Nat /\ MaxTime \in Nat /\ MaxAdmitted \in Nat
ASSUME NoAgentStandsApart == NoAgent \notin Nat \cup {Unset}
ASSUME NobodyIsNoCaller == Nobody \notin Callers
ASSUME RunIsNoAsk == Run \notin Asks

VARIABLES
    now,            \* the clock
    agent,          \* Agent: max_per_hour of each row
    request,        \* AgentRequest: which agent was let through, and when
    waiting,        \* Approval: the pending rows
    createLock,     \* approvals._create_lock
    caller,         \* the request threads
    admitted,       \* auxiliary: how many were admitted, which numbers them
    log,            \* auxiliary: all that the present holders of the ids were let through
    limitOf         \* auxiliary: the limit each of them carried

vars == <<now, agent, request, waiting, createLock, caller, admitted, log, limitOf>>

-----------------------------------------------------------------------------
Times == 0 .. MaxTime
Numbers == 1 .. MaxAdmitted
Settings == Limits \cup {Unset}
Carried == Limits \cup {Default}
Entries == [number : Numbers, agent : AgentIds, at : Times]
Pending == [agent : AgentIds, ask : Asks]

(* hourly_limit *)
HourlyLimit(setting) == IF setting = Unset THEN Default ELSE setting

Idle == [pc |-> "idle"]

(* Called: the agent is known and the checks are passed; cleared: approvals. *)
(* create found nothing that stands in the way and holds its lock; noted:    *)
(* admit has taken the time; admitted: the row of the request is to come.    *)
CallerStates ==
    [pc : {"idle"}]
    \cup [pc : {"called", "cleared"}, agent : AgentIds, limit : Carried, want : Asks \cup {Run}]
    \cup [pc : {"noted"}, agent : AgentIds, limit : Carried, want : Asks \cup {Run}, at : Times]
    \cup [pc : {"admitted"}, agent : AgentIds, want : Asks]
    \cup [pc : {"refused"}, agent : AgentIds]

Init ==
    /\ now = 0
    /\ agent = [i \in AgentIds |-> NoAgent]
    /\ request = {} /\ waiting = {}
    /\ createLock = Nobody
    /\ caller = [c \in Callers |-> Idle]
    /\ admitted = 0 /\ log = {}
    /\ limitOf = [n \in Numbers |-> 0]

CallerStep(c, next) == /\ caller' = [caller EXCEPT ![c] = next]
                       /\ UNCHANGED <<now, agent>>
Unlogged == UNCHANGED <<admitted, log, limitOf>>
Uncounted == UNCHANGED request /\ Unlogged

-----------------------------------------------------------------------------
(* require_agent has read the row; the call is allowed, and what it wants    *)
(* starts at once or is to be approved.                                      *)
Call(c, i, want) ==
    /\ caller[c] = Idle /\ agent[i] # NoAgent
    /\ CallerStep(c, [pc |-> "called", agent |-> i, limit |-> HourlyLimit(agent[i]), want |-> want])
    /\ Uncounted /\ UNCHANGED <<waiting, createLock>>

(* approvals.create, under its lock: the same request that waits is the      *)
(* answer, and too many waiting refuse ...                                   *)
Same(c) == [agent |-> caller[c].agent, ask |-> caller[c].want] \in waiting
Full(c) == Cardinality({w \in waiting : w.agent = caller[c].agent}) >= MaxPending

AnswerUncounted(c) ==
    /\ caller[c].pc = "called" /\ caller[c].want # Run
    /\ createLock = Nobody /\ (Same(c) \/ Full(c))
    /\ CallerStep(c, Idle)
    /\ Uncounted /\ UNCHANGED <<waiting, createLock>>

(* Mutant of LookFirst: before_new is called before the look. *)
LookFirst_Later(c) ==
    /\ caller[c].pc = "called" /\ caller[c].want # Run
    /\ createLock = Nobody
    /\ createLock' = c
    /\ CallerStep(c, [caller[c] EXCEPT !.pc = "cleared"])
    /\ Uncounted /\ UNCHANGED waiting

(* ... and a new one goes on to before_new, keeping the lock. *)
LookFirst(c) ==
    /\ caller[c].pc = "called" /\ caller[c].want # Run
    /\ createLock = Nobody /\ ~Same(c) /\ ~Full(c)
    /\ createLock' = c
    /\ CallerStep(c, [caller[c] EXCEPT !.pc = "cleared"])
    /\ Uncounted /\ UNCHANGED waiting

(* admit takes the time; then it may wait for _admit_lock, for as long as    *)
(* others are in there.                                                      *)
Note(c) ==
    /\ \/ caller[c].pc = "called" /\ caller[c].want = Run
       \/ caller[c].pc = "cleared"
    /\ CallerStep(c, [pc |-> "noted", agent |-> caller[c].agent, limit |-> caller[c].limit,
                      want |-> caller[c].want, at |-> now])
    /\ Uncounted /\ UNCHANGED <<waiting, createLock>>

Since(c) == caller[c].at - Hour

(* Mutant of Used: a request of exactly an hour ago is no longer counted. *)
Used_Strict(c) == Cardinality({r \in request : r.agent = caller[c].agent /\ r.at > Since(c)})
Used(c) == Cardinality({r \in request : r.agent = caller[c].agent /\ r.at >= Since(c)})

Spent(c) == caller[c].limit # 0 /\ Used(c) >= caller[c].limit

(* Everyone's old rows go, by this call's idea of the time. *)
Kept(c) == {r \in request : r.at >= Since(c)}

Release(c) == createLock' = IF createLock = c THEN Nobody ELSE createLock

(* Within the allowance: the row is stamped with the time it is made at.     *)
Admit(c) ==
    /\ caller[c].pc = "noted" /\ ~Spent(c)
    /\ admitted < MaxAdmitted
    /\ LET row == [number |-> admitted + 1, agent |-> caller[c].agent, at |-> now]
       IN  request' = Kept(c) \cup {row} /\ log' = log \cup {row}
    /\ limitOf' = [limitOf EXCEPT ![admitted + 1] = caller[c].limit]
    /\ admitted' = admitted + 1
    /\ IF caller[c].want = Run
       THEN CallerStep(c, Idle)
       ELSE CallerStep(c, [pc |-> "admitted", agent |-> caller[c].agent, want |-> caller[c].want])
    /\ UNCHANGED <<waiting, createLock>>

(* 429, the old rows gone all the same; create lets go of its lock.          *)
RefuseSpent(c) ==
    /\ caller[c].pc = "noted" /\ Spent(c)
    /\ request' = Kept(c)
    /\ Release(c)
    /\ CallerStep(c, [pc |-> "refused", agent |-> caller[c].agent])
    /\ Unlogged /\ UNCHANGED waiting

Answer(c) ==
    /\ caller[c].pc = "refused"
    /\ CallerStep(c, Idle)
    /\ Uncounted /\ UNCHANGED <<waiting, createLock>>

(* approvals.create records the request it has paid for. *)
Record(c) ==
    /\ caller[c].pc = "admitted"
    /\ waiting' = waiting \cup {[agent |-> caller[c].agent, ask |-> caller[c].want]}
    /\ Release(c)
    /\ CallerStep(c, Idle)
    /\ Uncounted

(* A write raises: nothing of it is kept, and the locks are free. *)
Raises(c) ==
    /\ caller[c].pc \in {"noted", "admitted"}
    /\ Release(c)
    /\ CallerStep(c, Idle)
    /\ Uncounted /\ UNCHANGED waiting

Serving(c) == \/ AnswerUncounted(c) \/ LookFirst(c) \/ Note(c) \/ Admit(c)
              \/ RefuseSpent(c) \/ Answer(c) \/ Record(c) \/ Raises(c)

-----------------------------------------------------------------------------
Unaffected == UNCHANGED <<createLock, caller, admitted, limitOf>>

Tick ==
    /\ now < MaxTime /\ now' = now + 1
    /\ UNCHANGED <<agent, request, waiting, log>> /\ Unaffected

(* Approved, denied or expired. *)
Decide(w) ==
    /\ w \in waiting /\ waiting' = waiting \ {w}
    /\ UNCHANGED <<now, agent, request, log>> /\ Unaffected

(* create_agent: the id after the largest there is. *)
CreateAgent(i, setting) ==
    /\ agent[i] = NoAgent
    /\ \A j \in AgentIds : agent[j] # NoAgent => j < i
    /\ i - 1 \in AgentIds => agent[i - 1] # NoAgent
    /\ agent' = [agent EXCEPT ![i] = setting]
    /\ UNCHANGED <<now, request, waiting, log>> /\ Unaffected

SetHourlyLimit(i, setting) ==
    /\ agent[i] # NoAgent
    /\ agent' = [agent EXCEPT ![i] = setting]
    /\ UNCHANGED <<now, request, waiting, log>> /\ Unaffected

OfOthers(rows, i) == {r \in rows : r.agent # i}

(* Mutant of DeleteAgent: the requests of an agent outlive it. *)
DeleteAgent_KeepsRequests(i) ==
    /\ agent[i] # NoAgent
    /\ agent' = [agent EXCEPT ![i] = NoAgent]
    /\ waiting' = OfOthers(waiting, i) /\ log' = OfOthers(log, i)
    /\ UNCHANGED <<now, request>> /\ Unaffected

(* delete_agent: the agent's rows go with it, because its id comes again.    *)
DeleteAgent(i) ==
    /\ agent[i] # NoAgent
    /\ agent' = [agent EXCEPT ![i] = NoAgent]
    /\ request' = OfOthers(request, i) /\ waiting' = OfOthers(waiting, i)
    /\ log' = OfOthers(log, i)
    /\ UNCHANGED now /\ Unaffected

(* The process dies and is started again: the rows stay. *)
Crash ==
    /\ createLock' = Nobody
    /\ caller' = [c \in Callers |-> Idle]
    /\ UNCHANGED <<now, agent, request, waiting>> /\ Unlogged

Next ==
    \/ \E c \in Callers, i \in AgentIds, want \in Asks \cup {Run} : Call(c, i, want)
    \/ \E c \in Callers : Serving(c)
    \/ Tick
    \/ \E w \in Pending : Decide(w)
    \/ \E i \in AgentIds, setting \in Settings : CreateAgent(i, setting) \/ SetHourlyLimit(i, setting)
    \/ \E i \in AgentIds : DeleteAgent(i)
    \/ Crash

Spec == Init /\ [][Next]_vars

-----------------------------------------------------------------------------
TypeOK ==
    /\ now \in Times
    /\ agent \in [AgentIds -> Settings \cup {NoAgent}]
    /\ request \in SUBSET Entries
    /\ waiting \in SUBSET Pending
    /\ createLock \in Callers \cup {Nobody}
    /\ caller \in [Callers -> CallerStates]
    /\ admitted \in 0 .. MaxAdmitted
    /\ log \in SUBSET Entries
    /\ limitOf \in [Numbers -> Carried \cup {0}]

(* README.md:182-187: an agent makes no more requests in any hour than the   *)
(* limit its call carried, be they runs, commands or requests for approval:  *)
(* counted over all it was ever let through, of which the table forgets what *)
(* any call takes to be older than an hour.  Calls that race, wait for the   *)
(* lock with an old idea of the time, or come exactly an hour after another  *)
(* do not get past it, nor does a crash.                                     *)
InHourBefore(e) == {f \in log : f.agent = e.agent /\ f.number <= e.number /\ f.at >= e.at - Hour}
WithinAllowance ==
    \A e \in log : limitOf[e.number] # 0 => Cardinality(InHourBefore(e)) <= limitOf[e.number]

(* Nobody is refused who has not used up the hour: only with a limit, and    *)
(* only when the agent, and not an earlier one with its id, was let through  *)
(* that often in the hour before the call took the time.                     *)
RefusesOnlyTheSpent ==
    [][\A c \in Callers : (caller'[c] # caller[c] /\ caller'[c].pc = "refused") =>
          /\ caller[c].limit # 0
          /\ Cardinality({e \in log : e.agent = caller[c].agent /\ e.at >= Since(c)})
             >= caller[c].limit]_vars

(* README.md:184-185: a retry of a request that is already waiting is not    *)
(* counted, however the first and the second call race.                      *)
RetriesAreFree ==
    [][\A c \in Callers : (admitted' # admitted /\ caller'[c] # caller[c] /\ caller[c].want # Run)
          => ~Same(c)]_vars

-----------------------------------------------------------------------------
(* The invariant the proofs of AdmissionProofs carry from step to step. *)

(* The table is part of the log, and what it lacks is older than an hour, by *)
(* any call's idea of the time.                                              *)
TableInv ==
    /\ IsFiniteSet(log)
    /\ request \subseteq log
    /\ \A e \in log \ request : e.at < now - Hour
LogInv == \A e \in log : e.number <= admitted /\ e.at <= now
NotedInv == \A c \in Callers : caller[c].pc = "noted" => caller[c].at <= now

IInv == TypeOK /\ TableInv /\ LogInv /\ NotedInv /\ WithinAllowance

(* A call that is to be approved keeps the lock from its look to its record, *)
(* and until it records nobody else does.                                    *)
Holding(c) == \/ caller[c].pc \in {"cleared", "admitted"}
              \/ caller[c].pc = "noted" /\ caller[c].want # Run
LockInv == \A c \in Callers : Holding(c) => createLock = c
NewInv == \A c \in Callers : (caller[c].pc = "noted" /\ caller[c].want # Run)
                              \/ caller[c].pc = "cleared" => ~Same(c)
=============================================================================
