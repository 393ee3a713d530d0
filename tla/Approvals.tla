------------------------------- MODULE Approvals -------------------------------
(***************************************************************************)
(* Approvals: app/services/approvals.py, the pages that call it            *)
(* (app/routers/approvals.py), the request path of app/routers/api.py and  *)
(* the start of an approved request in app/services/agent_runs.py.         *)
(*                                                                         *)
(* Request threads record what an agent asks for; threads that serve       *)
(* admins show a request, claim the decision with one conditional UPDATE,  *)
(* start the run and then record how that went.  Every committed           *)
(* transaction is one step, so rows may come, change and go between two    *)
(* steps of a thread, and the process may die there.                       *)
(*                                                                         *)
(* What is asked for is one member of Asks: kind, target, host and         *)
(* parameters, which approvals.py compares as a whole (_key).  Whether a   *)
(* run may start is decided by agent_runs; here it starts or is refused.   *)
(***************************************************************************)
EXTENDS Naturals, FiniteSets

CONSTANTS
    Agents,         \* who holds, or held, an agent token
    MaxAgentId,     \* bound on the ids of Agent rows
    Asks,           \* the different things an agent may ask for
    MaxMade,        \* bound on the requests recorded
    MaxPending,     \* MAX_PENDING_PER_AGENT (10)
    Keep,           \* KEEP (500)
    Callers,        \* request threads of agents
    Admins,         \* threads that serve signed-in users
    MayFail,        \* TRUE: a database write, or a call after a start, may raise
    NoRow,          \* no such row
    Nobody          \* the lock is free

ASSUME BoundsAreNumbers == /\ MaxAgentId \in Nat /\ MaxMade \in Nat
                           /\ MaxPending \in Nat \ {0} /\ Keep \in Nat \ {0}
ASSUME SwitchIsBoolean == MayFail \in BOOLEAN
ASSUME NobodyIsNoCaller == Nobody \notin Callers

VARIABLES
    approval,       \* the Approval table: a row or NoRow for each id
    agentId,        \* Agent: the id of an agent's row, 0 while it has none
    createLock,     \* approvals._create_lock
    caller,         \* the request threads
    admin,          \* the admins' threads, and the page each looks at
    made,           \* auxiliary: requests recorded so far, which numbers them
    started,        \* auxiliary: runs started for each request
    cut,            \* auxiliary: requests whose decision was cut short
    outdated,       \* auxiliary: admins with a page whose id was freed with its request
    mixed           \* auxiliary: requests that took the id of one gone while its
                    \* approval was in hand

vars == <<approval, agentId, createLock, caller, admin, made, started, cut, outdated, mixed>>

-----------------------------------------------------------------------------
AgentIds == 1 .. MaxAgentId
Ids == 1 .. MaxMade         \* an id is the largest in use plus one
Numbers == 1 .. MaxMade     \* the requests, in the order they were recorded
Statuses == {"pending", "approved", "denied", "expired", "failed"}
Rows == [agent : AgentIds, ask : Asks, status : Statuses, late : BOOLEAN,
         run : BOOLEAN, number : Numbers]
ASSUME NoRowIsNoRow == NoRow \notin Rows
Present == {i \in Ids : approval[i] # NoRow}
Pending == {i \in Present : approval[i].status = "pending"}
Waiting(agent) == {i \in Pending : approval[i].agent = agent}

Idle == [pc |-> "idle"]

(* An agent's thread in create(): it has expired stale requests, it has      *)
(* looked at the waiting ones and may record, it has recorded.  The last two *)
(* are inside `with _create_lock`.                                           *)
CallerStates == [pc : {"idle"}]
                \cup [pc : {"asking", "cleared"}, agent : AgentIds, ask : Asks]
                \cup [pc : {"recorded"}, id : Ids]

(* An admin's thread: looking at the page of a request (the number says      *)
(* which), deciding, reading the row it has claimed, starting what that row  *)
(* asks for, and recording how it went.  It knows the row by its id alone:   *)
(* "claim", the number of the request it has claimed, is auxiliary.          *)
AdminStates ==
    [pc : {"idle"}]
    \cup [pc : {"looking"}, id : Ids, shown : Numbers]
    \cup [pc : {"deciding"}, id : Ids, shown : Numbers, approve : BOOLEAN]
    \cup [pc : {"reading"}, id : Ids, shown : Numbers, approve : BOOLEAN, claim : Numbers]
    \cup [pc : {"starting"}, id : Ids, shown : Numbers, row : Rows, claim : Numbers]
    \cup [pc : {"recording"}, id : Ids, shown : Numbers, row : Rows, ok : BOOLEAN, claim : Numbers]

Init ==
    /\ approval = [i \in Ids |-> NoRow]
    /\ agentId = [a \in Agents |-> 0]
    /\ createLock = Nobody
    /\ caller = [c \in Callers |-> Idle]
    /\ admin = [d \in Admins |-> Idle]
    /\ made = 0
    /\ started = [n \in Numbers |-> 0]
    /\ cut = {} /\ outdated = {} /\ mixed = {}

-----------------------------------------------------------------------------
(* Admins with a page that is open, or was when they pressed its button, and *)
(* those of them who have read its row, as claimed.                          *)
Opened == {d \in Admins : admin[d] # Idle}
Working == {d \in Admins : admin[d].pc \in {"starting", "recording"}}

(* Rows go: an id above all that are left is given again.                    *)
IdsFreed ==
    outdated' = outdated \cup {d \in Opened \ Working : \A j \in Present' : j < admin[d].id}

(* expire_stale: the table after its UPDATE. *)
Expired ==
    [i \in Ids |-> IF i \in Pending /\ approval[i].late
                   THEN [approval[i] EXCEPT !.status = "expired"] ELSE approval[i]]

CallerStep(c, next) == /\ caller' = [caller EXCEPT ![c] = next]
                       /\ UNCHANGED <<agentId, admin, started, cut>>
AdminStep(d, next) == /\ admin' = [admin EXCEPT ![d] = next]
                      /\ outdated' = IF next.pc \in {"idle", "looking"} THEN outdated \ {d} ELSE outdated
                      /\ UNCHANGED <<agentId, createLock, caller, made, mixed>>

(* Between the commit of an approval and the record of its outcome. *)
InHand == {d \in Admins : \/ admin[d].pc \in {"starting", "recording"}
                          \/ admin[d].pc = "reading" /\ admin[d].approve}
InDecision == {admin[d].claim : d \in InHand}

-----------------------------------------------------------------------------
(* An agent asks: approvals.create. *)

(* A call that needs approval passed its checks; create expires stale rows. *)
Ask(c, a, k) ==
    /\ caller[c] = Idle
    /\ agentId[a] # 0
    /\ approval' = Expired
    /\ CallerStep(c, [pc |-> "asking", agent |-> agentId[a], ask |-> k])
    /\ UNCHANGED <<createLock, made, outdated, mixed>>

(* Under the lock the thread looks at what this agent has waiting.  The same *)
(* request is returned; a full list, and the hourly allowance (before_new),  *)
(* refuse.  None of these changes a row, and the lock is free again.         *)
Same(c) == \E i \in Waiting(caller[c].agent) : approval[i].ask = caller[c].ask
Full(c) == Cardinality(Waiting(caller[c].agent)) >= MaxPending

AnswerWithoutRow(c) ==      \* 202 with the one waiting, 429 when full or past the allowance
    /\ caller[c].pc = "asking" /\ createLock = Nobody
    /\ CallerStep(c, Idle)
    /\ UNCHANGED <<approval, createLock, made, outdated, mixed>>

LookFirst(c) ==
    /\ caller[c].pc = "asking" /\ createLock = Nobody
    /\ ~Same(c) /\ ~Full(c) /\ made < MaxMade
    /\ createLock' = c
    /\ CallerStep(c, [caller[c] EXCEPT !.pc = "cleared"])
    /\ UNCHANGED <<approval, made, outdated, mixed>>

(* The INSERT: SQLite gives the row the id after the largest there is. *)
Insert(c, i) ==
    /\ caller[c].pc = "cleared"
    /\ made < MaxMade
    /\ \A j \in Present : j < i
    /\ i = 1 \/ i - 1 \in Present
    /\ approval' = [approval EXCEPT ![i] =
                      [agent |-> caller[c].agent, ask |-> caller[c].ask, status |-> "pending",
                       late |-> FALSE, run |-> FALSE, number |-> made + 1]]
    /\ made' = made + 1
    /\ mixed' = IF \E d \in InHand : admin[d].id = i THEN mixed \cup {made + 1} ELSE mixed
    /\ CallerStep(c, [pc |-> "recorded", id |-> i])
    /\ UNCHANGED <<createLock, outdated>>

(* All but the newest Keep ids go, and the lock is free.  When the new row   *)
(* has gone with its agent meanwhile, ids are freed here, too.               *)
Prune(c) ==
    /\ caller[c].pc = "recorded"
    /\ approval' = [i \in Ids |-> IF i + Keep <= caller[c].id THEN NoRow ELSE approval[i]]
    /\ createLock' = Nobody
    /\ CallerStep(c, Idle)
    /\ IdsFreed
    /\ UNCHANGED <<made, mixed>>

(* The INSERT or the DELETE raises: the lock is free, what was committed stays. *)
CreateRaises(c) ==
    /\ MayFail /\ caller[c].pc \in {"cleared", "recorded"}
    /\ createLock' = Nobody
    /\ CallerStep(c, Idle)
    /\ UNCHANGED <<approval, made, outdated, mixed>>

-----------------------------------------------------------------------------
(* An admin looks and decides: approvals.decide. *)

(* approval_page: get() expires stale requests and shows one. *)
ShowPage(d, i) ==
    /\ admin[d].pc \in {"idle", "looking"}
    /\ i \in Present
    /\ approval' = Expired
    /\ AdminStep(d, [pc |-> "looking", id |-> i, shown |-> approval[i].number])
    /\ UNCHANGED <<started, cut>>

(* Mutant of PressButton: it is the newest request that is decided. *)
PressButton_Newest(d, yes) ==
    /\ admin[d].pc = "looking"
    /\ approval' = Expired
    /\ \E i \in Present :
          /\ \A j \in Present : j <= i
          /\ AdminStep(d, [pc |-> "deciding", id |-> i, shown |-> admin[d].shown, approve |-> yes])
    /\ UNCHANGED <<started, cut>>

(* The button: the page may be long out of date. *)
PressButton(d, yes) ==
    /\ admin[d].pc = "looking"
    /\ approval' = Expired
    /\ AdminStep(d, [pc |-> "deciding", id |-> admin[d].id, shown |-> admin[d].shown, approve |-> yes])
    /\ UNCHANGED <<started, cut>>

(* Mutant of Decided: the word of the URL is stored. *)
Decided_Verb(d) == IF admin[d].approve THEN "approve" ELSE "deny"

(* The conditional UPDATE on a row that is pending, or not. *)
Decided(d) == IF admin[d].approve THEN "approved" ELSE "denied"

(* Mutant of Claimable: the UPDATE does not ask for "pending". *)
Claimable_AnyStatus(i) == i \in Present
Claimable(i) == i \in Pending

Claim(d) ==
    /\ admin[d].pc = "deciding"
    /\ Claimable(admin[d].id)
    /\ approval' = [approval EXCEPT ![admin[d].id].status = Decided(d)]
    /\ AdminStep(d, [pc |-> "reading", id |-> admin[d].id, shown |-> admin[d].shown,
                     approve |-> admin[d].approve, claim |-> approval[admin[d].id].number])
    /\ UNCHANGED <<started, cut>>

TooLate(d) ==               \* "This request is already ...", "No such request."
    /\ admin[d].pc = "deciding"
    /\ ~Claimable(admin[d].id)
    /\ AdminStep(d, Idle)
    /\ UNCHANGED <<approval, started, cut>>

(* After its commit the thread reads the row by id; a denial ends there. *)
ReadRow(d) ==
    /\ admin[d].pc = "reading"
    /\ approval[admin[d].id] # NoRow
    /\ AdminStep(d, IF admin[d].approve
                    THEN [pc |-> "starting", id |-> admin[d].id, shown |-> admin[d].shown,
                          row |-> approval[admin[d].id], claim |-> admin[d].claim]
                    ELSE Idle)
    /\ UNCHANGED <<approval, started, cut>>

RowGone(d) ==               \* session.expunge(None) raises
    /\ admin[d].pc = "reading"
    /\ approval[admin[d].id] = NoRow
    /\ AdminStep(d, Idle)
    /\ UNCHANGED <<approval, started, cut>>

(* start_approved looks the agent up by the id in the row.  It starts the    *)
(* run, is refused, or raises once the run is on its way (record_agent_run). *)
ToRecord(d, ok) ==
    AdminStep(d, [pc |-> "recording", id |-> admin[d].id, shown |-> admin[d].shown,
                  row |-> admin[d].row, ok |-> ok, claim |-> admin[d].claim])

StartRun(d) ==
    /\ admin[d].pc = "starting"
    /\ \E a \in Agents : agentId[a] = admin[d].row.agent
    /\ started' = [started EXCEPT ![admin[d].row.number] = @ + 1]
    /\ \/ ToRecord(d, TRUE)
       \/ MayFail /\ ToRecord(d, FALSE)
    /\ UNCHANGED <<approval, cut>>

(* Mutant of StartRefused: only agent_runs.Refused is caught, not the rest. *)
StartRefused_Uncaught(d) ==
    /\ admin[d].pc = "starting"
    /\ AdminStep(d, Idle)
    /\ UNCHANGED <<approval, started, cut>>

StartRefused(d) ==
    /\ admin[d].pc = "starting"
    /\ ToRecord(d, FALSE)
    /\ UNCHANGED <<approval, started, cut>>

(* The last UPDATE: the run's id, or "failed". *)
WithOutcome(row, ok) ==
    IF ok THEN [row EXCEPT !.run = TRUE] ELSE [row EXCEPT !.status = "failed"]

(* It names the row by id alone, and changes nothing when that is gone. *)
RecordOutcome(d) ==
    /\ admin[d].pc = "recording"
    /\ approval' = IF admin[d].id \in Present
                   THEN [approval EXCEPT ![admin[d].id] = WithOutcome(@, admin[d].ok)]
                   ELSE approval
    /\ AdminStep(d, Idle)
    /\ UNCHANGED <<started, cut>>

RecordRaises(d) ==
    /\ MayFail /\ admin[d].pc = "recording"
    /\ cut' = cut \cup {admin[d].claim}
    /\ AdminStep(d, Idle)
    /\ UNCHANGED <<approval, started>>

-----------------------------------------------------------------------------
Unaffected == UNCHANGED <<createLock, caller, admin, made, started, cut, mixed>>

(* Fifteen minutes pass for the request with id i. *)
Lapse(i) ==
    /\ i \in Pending /\ ~approval[i].late
    /\ approval' = [approval EXCEPT ![i].late = TRUE]
    /\ Unaffected /\ UNCHANGED <<agentId, outdated>>

(* An agent polls, or a page lists the requests. *)
ExpireStale ==
    /\ approval' = Expired /\ approval' # approval
    /\ Unaffected /\ UNCHANGED <<agentId, outdated>>

CreateAgent(a, i) ==
    /\ agentId[a] = 0
    /\ \A b \in Agents : agentId[b] < i
    /\ i = 1 \/ \E b \in Agents : agentId[b] = i - 1
    /\ agentId' = [agentId EXCEPT ![a] = i]
    /\ Unaffected /\ UNCHANGED <<approval, outdated>>

(* Its requests go with it, those that are being decided, too. *)
DeleteAgent(a) ==
    /\ agentId[a] # 0
    /\ approval' = [i \in Ids |-> IF i \in Present /\ approval[i].agent = agentId[a]
                                  THEN NoRow ELSE approval[i]]
    /\ agentId' = [agentId EXCEPT ![a] = 0]
    /\ IdsFreed
    /\ Unaffected

(* The process dies and is started again: the threads and the lock are new,  *)
(* the database stays, as do the pages in browsers, and nothing in lifespan  *)
(* looks at the approvals.                                                   *)
Crash ==
    /\ createLock' = Nobody
    /\ caller' = [c \in Callers |-> Idle]
    /\ admin' = [d \in Admins |-> IF admin[d].pc = "looking" THEN admin[d] ELSE Idle]
    /\ cut' = cut \cup InDecision
    /\ outdated' = outdated \ {d \in Admins : admin'[d] = Idle}
    /\ UNCHANGED <<approval, agentId, made, started, mixed>>

-----------------------------------------------------------------------------
Creating(c) == \/ AnswerWithoutRow(c) \/ LookFirst(c)
               \/ (\E i \in Ids : Insert(c, i)) \/ Prune(c) \/ CreateRaises(c)
Deciding(d) == \/ Claim(d) \/ TooLate(d) \/ ReadRow(d) \/ RowGone(d)
               \/ StartRun(d) \/ StartRefused(d) \/ RecordOutcome(d) \/ RecordRaises(d)

Next ==
    \/ \E c \in Callers, a \in Agents, k \in Asks : Ask(c, a, k)
    \/ \E c \in Callers : Creating(c)
    \/ \E d \in Admins, i \in Ids : ShowPage(d, i)
    \/ \E d \in Admins, yes \in BOOLEAN : PressButton(d, yes)
    \/ \E d \in Admins : Deciding(d)
    \/ \E i \in Ids : Lapse(i)
    \/ ExpireStale
    \/ \E a \in Agents, i \in AgentIds : CreateAgent(a, i)
    \/ \E a \in Agents : DeleteAgent(a)
    \/ Crash

Spec == Init /\ [][Next]_vars

(* A thread that serves an admin's decision takes its steps in the end.  No  *)
(* user is obliged to look, decide or ask.                                   *)
FairSpec == Spec /\ \A d \in Admins : WF_vars(Deciding(d))

-----------------------------------------------------------------------------
(* Properties. *)

TypeOK ==
    /\ approval \in [Ids -> Rows \cup {NoRow}]
    /\ agentId \in [Agents -> 0 .. MaxAgentId]
    /\ createLock \in Callers \cup {Nobody}
    /\ caller \in [Callers -> CallerStates]
    /\ admin \in [Admins -> AdminStates]
    /\ made \in 0 .. MaxMade
    /\ started \in [Numbers -> Nat]
    /\ cut \in SUBSET Numbers
    /\ outdated \in SUBSET Admins
    /\ mixed \in SUBSET Numbers

(* The table and the threads keep what ApprovalDesk promises, whatever       *)
(* request threads and admins do across each other, a request's expiry,      *)
(* pruning, failing writes, a deleted agent and a server that dies: no       *)
(* copies and no more than the cap wait, a decision is made once and starts  *)
(* one run at most, nothing waiting, denied or expired is ever started, and  *)
(* no status goes back.  A request that took the id of one deleted while its *)
(* approval was in hand (mixed) is promised less: the thread that has that   *)
(* approval in hand knows it by the id, and may start or fail it.            *)
RowsOf(n) == {i \in Present : approval[i].number = n}
Requested ==
    [n \in Numbers |->
        IF RowsOf(n) = {} THEN NoRow
        ELSE LET row == approval[CHOOSE i \in RowsOf(n) : TRUE]
             IN  [agent |-> row.agent, ask |-> row.ask, status |-> row.status, run |-> row.run]]
Desk == INSTANCE ApprovalDesk WITH
    Cap <- MaxPending, desk <- Requested, entered <- made, hand <- InDecision, runs <- started
ASSUME NoRowIsNoRequest == NoRow \notin Desk!Requests
ImplementsDesk == Desk!Spec

(* An approval leads to a run to follow or to "failed", unless the row is    *)
(* gone or the server died, or a write failed, before it could be recorded.  *)
Unresolved(n) ==
    \E i \in Present : approval[i].number = n /\ approval[i].status = "approved" /\ ~approval[i].run
ApprovalResolves == \A n \in Numbers : Unresolved(n) ~> (~Unresolved(n) \/ n \in cut)

(* README.md:169-170: approving starts the run exactly as shown: the request *)
(* whose page was looked at, however old the page is.  Left out is a page    *)
(* that was the newest request's when it went with its agent, before its row *)
(* was read: the id on it is given to the next request, which it does start. *)
StartsWhatWasShown ==
    [][\A d \in Admins :
         (admin[d].pc = "starting" /\ admin'[d].pc = "recording" /\ started' # started)
         => admin[d].row.number = admin[d].shown \/ d \in outdated]_vars

-----------------------------------------------------------------------------
(* The invariant the proofs of ApprovalsProofs carry from step to step.      *)

(* Whoever is between the look and the pruning holds the lock; what it found *)
(* when it looked is still so.                                               *)
LookInv ==
    \A c \in Callers :
        /\ caller[c].pc \in {"cleared", "recorded"} <=> createLock = c
        /\ caller[c].pc = "cleared" => ~Same(c) /\ ~Full(c)

(* No agent has the same request waiting twice, nor more than the cap: the   *)
(* part of the desk's promise that leaves nothing out.                       *)
WaitingOnce ==
    \A i, j \in Pending :
        approval[i].agent = approval[j].agent /\ approval[i].ask = approval[j].ask => i = j
WaitingFew == \A agent \in AgentIds : Cardinality(Waiting(agent)) <= MaxPending

(* A number is one request's, whatever row an id stands for.                 *)
NumberInv ==
    /\ \A i \in Present : approval[i].number <= made
    /\ \A i, j \in Present : approval[i].number = approval[j].number => i = j
    /\ \A d \in InHand : admin[d].claim <= made
    /\ \A d \in Working : admin[d].row.number <= made
    /\ \A n \in mixed : n <= made

(* No run is started for what has not been decided. *)
StartInv ==
    /\ \A n \in Numbers : n > made => started[n] = 0
    /\ \A i \in Pending : approval[i].number \notin mixed => started[approval[i].number] = 0

(* A request is approved by one thread.  What has its id is that request, or *)
(* mixed up with it; what the thread starts is that request, or mixed up     *)
(* with it and it is gone.                                                   *)
Claims(d) ==
    /\ \A i \in RowsOf(admin[d].claim) : i = admin[d].id /\ i \notin Pending
    /\ admin[d].id \in Present => approval[admin[d].id].number \in {admin[d].claim} \cup mixed
    /\ d \in Working =>
          \/ admin[d].row.number = admin[d].claim
          \/ admin[d].row.number \in mixed /\ RowsOf(admin[d].claim) = {}
    /\ admin[d].pc # "recording" /\ admin[d].claim \notin mixed => started[admin[d].claim] = 0
    /\ admin[d].pc = "recording" /\ admin[d].ok => started[admin[d].row.number] > 0
ClaimInv ==
    /\ \A d, e \in InHand : admin[d].claim = admin[e].claim => d = e
    /\ \A d \in InHand : Claims(d)

(* The id on a page that is not outdated stands for what the page showed, or *)
(* for nothing, and is not given again; a row that was read is what it shows. *)
Shows(d) ==
    /\ d \notin Working =>
          /\ \E j \in Present : admin[d].id <= j
          /\ admin[d].id \in Present => approval[admin[d].id].number = admin[d].shown
    /\ d \in Working => admin[d].row.number = admin[d].shown
ShownInv == \A d \in Opened \ outdated : Shows(d)

IInv == TypeOK /\ LookInv /\ NumberInv /\ StartInv /\ ClaimInv /\ ShownInv
=============================================================================
