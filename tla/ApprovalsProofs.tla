----------------------------- MODULE ApprovalsProofs -----------------------------
(***************************************************************************)
(* Proofs about Approvals, for any number of agents, requests, callers and *)
(* admins and any caps, whenever agents are deleted: no copies and no more *)
(* than the cap wait, the code's table and threads implement the abstract  *)
(* desk, and what is started is what was shown.                            *)
(***************************************************************************)
EXTENDS Approvals, FiniteSetTheorems, TLAPS

-----------------------------------------------------------------------------
(* Type correctness. *)

LEMMA IdleTypes == Idle \in CallerStates /\ Idle \in AdminStates
BY DEF CallerStates, AdminStates, Idle

LEMMA TypeInit == Init => TypeOK
<1>1. MaxMade \in Nat /\ 0 \in 0 .. MaxMade /\ MaxAgentId \in Nat /\ 0 \in 0 .. MaxAgentId
  BY BoundsAreNumbers
<1>2. Init => caller \in [Callers -> CallerStates] /\ admin \in [Admins -> AdminStates]
  BY IdleTypes DEF Init
<1>3. QED
  BY <1>1, <1>2 DEF Init, TypeOK

LEMMA RowTypes ==
  ASSUME TypeOK, NEW i \in Ids, approval[i] # NoRow
  PROVE  /\ i \in Present /\ approval[i] \in Rows
         /\ approval[i].agent \in AgentIds /\ approval[i].ask \in Asks
         /\ approval[i].status \in Statuses /\ approval[i].late \in BOOLEAN
         /\ approval[i].run \in BOOLEAN /\ approval[i].number \in Numbers
BY DEF TypeOK, Rows, Present

(* A row of which one column is changed is a row. *)
LEMMA RowEdits ==
  ASSUME NEW row \in Rows
  PROVE  /\ \A status \in Statuses : [row EXCEPT !.status = status] \in Rows
         /\ [row EXCEPT !.late = TRUE] \in Rows /\ [row EXCEPT !.run = TRUE] \in Rows
BY DEF Rows

LEMMA ExpiredType ==
  ASSUME TypeOK
  PROVE  Expired \in [Ids -> Rows \cup {NoRow}]
<1>1. ASSUME NEW i \in Ids
      PROVE  (IF i \in Pending /\ approval[i].late
              THEN [approval[i] EXCEPT !.status = "expired"] ELSE approval[i]) \in Rows \cup {NoRow}
  <2>1. CASE i \in Pending
    BY <2>1, RowTypes, RowEdits DEF Pending, Present, Statuses
  <2>2. CASE i \notin Pending
    BY <2>2 DEF TypeOK
  <2>3. QED
    BY <2>1, <2>2
<1>2. QED
  BY <1>1 DEF Expired

LEMMA CallerTypes ==
  ASSUME TypeOK, NEW c \in Callers,
         \/ \E a \in Agents, k \in Asks : Ask(c, a, k)
         \/ Creating(c)
  PROVE  TypeOK'
<1>1. ASSUME NEW a \in Agents, NEW k \in Asks, Ask(c, a, k)
      PROVE  TypeOK'
  <2>1. agentId[a] \in AgentIds
    BY <1>1, BoundsAreNumbers DEF TypeOK, Ask, AgentIds
  <2>2. [pc |-> "asking", agent |-> agentId[a], ask |-> k] \in CallerStates
    BY <2>1 DEF CallerStates
  <2>3. QED
    BY <1>1, <2>2, ExpiredType DEF TypeOK, Ask, CallerStep
<1>2. CASE AnswerWithoutRow(c)
  BY <1>2, IdleTypes DEF TypeOK, AnswerWithoutRow, CallerStep
<1>3. CASE LookFirst(c)
  <2>1. caller[c] \in [pc : {"asking", "cleared"}, agent : AgentIds, ask : Asks]
    BY <1>3 DEF TypeOK, LookFirst, CallerStates
  <2>2. [caller[c] EXCEPT !.pc = "cleared"] \in CallerStates
    BY <2>1 DEF CallerStates
  <2>3. QED
    BY <1>3, <2>2 DEF TypeOK, LookFirst, CallerStep
<1>4. ASSUME NEW i \in Ids, Insert(c, i)
      PROVE  TypeOK'
  <2>1. caller[c] \in [pc : {"asking", "cleared"}, agent : AgentIds, ask : Asks]
    BY <1>4 DEF TypeOK, Insert, CallerStates
  <2>2. made + 1 \in Numbers
    BY <1>4, BoundsAreNumbers DEF TypeOK, Insert, Numbers
  <2>3. [agent |-> caller[c].agent, ask |-> caller[c].ask, status |-> "pending",
         late |-> FALSE, run |-> FALSE, number |-> made + 1] \in Rows
    BY <2>1, <2>2 DEF Rows, Statuses
  <2>4. [pc |-> "recorded", id |-> i] \in CallerStates
    BY DEF CallerStates
  <2>5. made' \in 0 .. MaxMade
    BY <1>4, <2>2 DEF Insert, Numbers
  <2>6. mixed' \in SUBSET Numbers
    BY <1>4, <2>2 DEF TypeOK, Insert
  <2>7. QED
    BY <1>4, <2>3, <2>4, <2>5, <2>6 DEF TypeOK, Insert, CallerStep
<1>5. CASE Prune(c)
  BY <1>5, IdleTypes DEF TypeOK, Prune, CallerStep, IdsFreed, Opened
<1>6. CASE CreateRaises(c)
  BY <1>6, IdleTypes DEF TypeOK, CreateRaises, CallerStep
<1>7. QED
  BY <1>1, <1>2, <1>3, <1>4, <1>5, <1>6 DEF Creating

(* Where an admin's thread can be, by what it carries. *)
LEMMA AdminParts ==
  ASSUME TypeOK, NEW d \in Admins
  PROVE  /\ admin[d].pc \in {"idle", "looking", "deciding", "reading", "starting", "recording"}
         /\ admin[d].pc = "looking" => admin[d] \in [pc : {"looking"}, id : Ids, shown : Numbers]
         /\ admin[d].pc = "deciding" =>
               admin[d] \in [pc : {"deciding"}, id : Ids, shown : Numbers, approve : BOOLEAN]
         /\ admin[d].pc = "reading" =>
               admin[d] \in [pc : {"reading"}, id : Ids, shown : Numbers, approve : BOOLEAN,
                             claim : Numbers]
         /\ admin[d].pc = "starting" =>
               admin[d] \in [pc : {"starting"}, id : Ids, shown : Numbers, row : Rows, claim : Numbers]
         /\ admin[d].pc = "recording" =>
               admin[d] \in [pc : {"recording"}, id : Ids, shown : Numbers, row : Rows, ok : BOOLEAN,
                             claim : Numbers]
<1>1. admin[d] \in AdminStates
  BY DEF TypeOK
<1>2. QED
  BY <1>1 DEF AdminStates

(* What a thread that has claimed a request knows. *)
LEMMA HandParts ==
  ASSUME TypeOK, NEW d \in InHand
  PROVE  /\ d \in Admins /\ admin[d].id \in Ids /\ admin[d].shown \in Numbers
         /\ admin[d].claim \in Numbers
         /\ d \in Working => admin[d].row \in Rows /\ admin[d].row.number \in Numbers
BY AdminParts DEF InHand, Working, Rows

LEMMA AdminTypes ==
  ASSUME TypeOK, NEW d \in Admins,
         \/ \E i \in Ids : ShowPage(d, i)
         \/ \E yes \in BOOLEAN : PressButton(d, yes)
         \/ Deciding(d)
  PROVE  TypeOK'
<1>1. ASSUME NEW i \in Ids, ShowPage(d, i)
      PROVE  TypeOK'
  <2>1. [pc |-> "looking", id |-> i, shown |-> approval[i].number] \in AdminStates
    BY <1>1, RowTypes DEF ShowPage, Present, AdminStates
  <2>2. QED
    BY <1>1, <2>1, ExpiredType DEF TypeOK, ShowPage, AdminStep
<1>2. ASSUME NEW yes \in BOOLEAN, PressButton(d, yes)
      PROVE  TypeOK'
  <2>1. [pc |-> "deciding", id |-> admin[d].id, shown |-> admin[d].shown, approve |-> yes] \in AdminStates
    BY <1>2, AdminParts DEF PressButton, AdminStates
  <2>2. QED
    BY <1>2, <2>1, ExpiredType DEF TypeOK, PressButton, AdminStep
<1>3. CASE Claim(d)
  <2>1. admin[d] \in [pc : {"deciding"}, id : Ids, shown : Numbers, approve : BOOLEAN]
    BY <1>3, AdminParts DEF Claim
  <2>2. [pc |-> "reading", id |-> admin[d].id, shown |-> admin[d].shown,
         approve |-> admin[d].approve, claim |-> approval[admin[d].id].number] \in AdminStates
    BY <1>3, <2>1, RowTypes DEF Claim, Claimable, Pending, Present, AdminStates
  <2>3. [approval[admin[d].id] EXCEPT !.status = Decided(d)] \in Rows
    BY <1>3, <2>1, RowTypes, RowEdits DEF Claim, Claimable, Pending, Present, Decided, Statuses
  <2>4. approval' \in [Ids -> Rows \cup {NoRow}]
    BY <1>3, <2>1, <2>3 DEF TypeOK, Claim
  <2>5. QED
    BY <1>3, <2>2, <2>4 DEF TypeOK, Claim, AdminStep
<1>4. CASE TooLate(d) \/ RowGone(d)
  BY <1>4, IdleTypes DEF TypeOK, TooLate, RowGone, AdminStep
<1>5. CASE ReadRow(d)
  <2>1. [pc |-> "starting", id |-> admin[d].id, shown |-> admin[d].shown,
         row |-> approval[admin[d].id], claim |-> admin[d].claim] \in AdminStates
    BY <1>5, AdminParts, RowTypes DEF ReadRow, AdminStates
  <2>2. QED
    BY <1>5, <2>1, IdleTypes DEF TypeOK, ReadRow, AdminStep
<1>6. ASSUME NEW ok \in BOOLEAN, ToRecord(d, ok), admin[d].pc = "starting"
      PROVE  admin' \in [Admins -> AdminStates]
  <2>1. [pc |-> "recording", id |-> admin[d].id, shown |-> admin[d].shown,
         row |-> admin[d].row, ok |-> ok, claim |-> admin[d].claim] \in AdminStates
    BY <1>6, AdminParts DEF AdminStates
  <2>2. QED
    BY <1>6, <2>1 DEF TypeOK, ToRecord, AdminStep
<1>7. CASE StartRun(d)
  <2>1. admin' \in [Admins -> AdminStates]
    BY <1>6, <1>7 DEF StartRun
  <2>2. started' \in [Numbers -> Nat]
    <3>1. admin[d].row.number \in Numbers
      BY <1>7, AdminParts DEF StartRun, Rows
    <3>2. QED
      BY <1>7, <3>1 DEF TypeOK, StartRun
  <2>3. QED
    BY <1>7, <2>1, <2>2 DEF TypeOK, StartRun, ToRecord, AdminStep
<1>8. CASE StartRefused(d)
  <2>1. admin' \in [Admins -> AdminStates]
    BY <1>6, <1>8 DEF StartRefused
  <2>2. QED
    BY <1>8, <2>1 DEF TypeOK, StartRefused, ToRecord, AdminStep
<1>9. CASE RecordOutcome(d)
  <2>1. admin[d].id \in Ids /\ admin[d].ok \in BOOLEAN
    BY <1>9, AdminParts DEF RecordOutcome
  <2>2. admin[d].id \in Present => WithOutcome(approval[admin[d].id], admin[d].ok) \in Rows
    BY <2>1, RowTypes, RowEdits DEF WithOutcome, Present, Statuses
  <2>3. approval' \in [Ids -> Rows \cup {NoRow}]
    BY <1>9, <2>1, <2>2 DEF TypeOK, RecordOutcome
  <2>4. QED
    BY <1>9, <2>3, IdleTypes DEF TypeOK, RecordOutcome, AdminStep
<1>10. CASE RecordRaises(d)
  <2>1. admin[d].claim \in Numbers
    BY <1>10, AdminParts DEF RecordRaises
  <2>2. QED
    BY <1>10, <2>1, IdleTypes DEF TypeOK, RecordRaises, AdminStep
<1>11. QED
  BY <1>1, <1>2, <1>3, <1>4, <1>5, <1>7, <1>8, <1>9, <1>10 DEF Deciding

LEMMA OtherTypes ==
  ASSUME TypeOK,
         \/ \E i \in Ids : Lapse(i)
         \/ ExpireStale
         \/ \E a \in Agents, i \in AgentIds : CreateAgent(a, i)
         \/ \E a \in Agents : DeleteAgent(a)
         \/ Crash
  PROVE  TypeOK'
<1>1. ASSUME NEW i \in Ids, Lapse(i)
      PROVE  TypeOK'
  <2>1. [approval[i] EXCEPT !.late = TRUE] \in Rows
    BY <1>1, RowTypes, RowEdits DEF Lapse, Pending, Present
  <2>2. approval' \in [Ids -> Rows \cup {NoRow}]
    BY <1>1, <2>1 DEF TypeOK, Lapse
  <2>3. QED
    BY <1>1, <2>2 DEF TypeOK, Lapse, Unaffected
<1>2. CASE ExpireStale
  BY <1>2, ExpiredType DEF TypeOK, ExpireStale, Unaffected
<1>3. ASSUME NEW a \in Agents, NEW i \in AgentIds, CreateAgent(a, i)
      PROVE  TypeOK'
  <2>1. agentId' \in [Agents -> 0 .. MaxAgentId]
    BY <1>3, BoundsAreNumbers DEF TypeOK, CreateAgent, AgentIds
  <2>2. QED
    BY <1>3, <2>1 DEF TypeOK, CreateAgent, Unaffected
<1>4. ASSUME NEW a \in Agents, DeleteAgent(a)
      PROVE  TypeOK'
  <2>1. agentId' \in [Agents -> 0 .. MaxAgentId]
    BY <1>4, BoundsAreNumbers DEF TypeOK, DeleteAgent
  <2>2. QED
    BY <1>4, <2>1 DEF TypeOK, DeleteAgent, Unaffected, IdsFreed, Opened
<1>5. CASE Crash
  <2>1. caller' \in [Callers -> CallerStates] /\ admin' \in [Admins -> AdminStates]
    BY <1>5, IdleTypes DEF TypeOK, Crash
  <2>2. InDecision \subseteq Numbers
    BY HandParts DEF InDecision
  <2>3. QED
    BY <1>5, <2>1, <2>2 DEF TypeOK, Crash
<1>6. QED
  BY <1>1, <1>2, <1>3, <1>4, <1>5

LEMMA TypeStep ==
  ASSUME TypeOK, [Next]_vars
  PROVE  TypeOK'
<1>1. CASE Next
  BY <1>1, CallerTypes, AdminTypes, OtherTypes DEF Next
<1>2. CASE UNCHANGED vars
  BY <1>2 DEF TypeOK, vars
<1>3. QED
  BY <1>1, <1>2

-----------------------------------------------------------------------------
(* How steps change the rows: most leave them, or let some expire.           *)

Ages ==
    \A i \in Ids : \/ approval'[i] = approval[i]
                   \/ /\ i \in Pending /\ approval'[i] # NoRow
                      /\ approval'[i].agent = approval[i].agent /\ approval'[i].ask = approval[i].ask
                      /\ approval'[i].number = approval[i].number /\ approval'[i].run = approval[i].run
                      /\ approval'[i].status \in {"pending", "expired"}

Quiet(c) == AnswerWithoutRow(c) \/ LookFirst(c) \/ CreateRaises(c)
Still(d) == TooLate(d) \/ ReadRow(d) \/ RowGone(d) \/ StartRun(d) \/ StartRefused(d) \/ RecordRaises(d)

LEMMA ExpiredAges ==
  ASSUME TypeOK, approval' = Expired
  PROVE  Ages
<1>1. SUFFICES ASSUME NEW i \in Ids, approval'[i] # approval[i]
               PROVE  /\ i \in Pending /\ approval'[i] # NoRow
                      /\ approval'[i].agent = approval[i].agent /\ approval'[i].ask = approval[i].ask
                      /\ approval'[i].number = approval[i].number /\ approval'[i].run = approval[i].run
                      /\ approval'[i].status \in {"pending", "expired"}
  BY DEF Ages
<1>2. i \in Pending /\ approval'[i] = [approval[i] EXCEPT !.status = "expired"]
  BY <1>1 DEF Expired
<1>3. approval[i] \in Rows
  BY <1>2, RowTypes DEF Pending, Present
<1>4. approval'[i] \in Rows
  BY <1>2, <1>3, RowEdits DEF Statuses
<1>5. approval'[i] # NoRow
  BY <1>4, NoRowIsNoRow
<1>6. QED
  BY <1>2, <1>3, <1>5 DEF Rows

LEMMA SameAges ==
  ASSUME approval' = approval
  PROVE  Ages
BY DEF Ages

LEMMA MostAge ==
  ASSUME TypeOK,
         \/ \E c \in Callers : Quiet(c) \/ \E a \in Agents, k \in Asks : Ask(c, a, k)
         \/ \E d \in Admins : \/ Still(d)
                              \/ \E i \in Ids : ShowPage(d, i)
                              \/ \E yes \in BOOLEAN : PressButton(d, yes)
         \/ \E i \in Ids : Lapse(i)
         \/ ExpireStale
         \/ \E a \in Agents, i \in AgentIds : CreateAgent(a, i)
         \/ Crash
  PROVE  Ages
<1>1. ASSUME NEW i \in Ids, Lapse(i)
      PROVE  Ages
  <2>1. approval[i] \in Rows /\ i \in Pending
    BY <1>1, RowTypes DEF Lapse, Pending, Present
  <2>2. [approval[i] EXCEPT !.late = TRUE] \in Rows
    BY <2>1, RowEdits
  <2>3. \A j \in Ids : approval'[j] = IF j = i THEN [approval[i] EXCEPT !.late = TRUE] ELSE approval[j]
    BY <1>1 DEF TypeOK, Lapse
  <2>4. /\ approval'[i] # NoRow
        /\ approval'[i].agent = approval[i].agent /\ approval'[i].ask = approval[i].ask
        /\ approval'[i].number = approval[i].number /\ approval'[i].run = approval[i].run
        /\ approval'[i].status = approval[i].status
    BY <2>1, <2>2, <2>3, NoRowIsNoRow DEF Rows
  <2>5. QED
    BY <2>1, <2>3, <2>4 DEF Ages, Pending
<1>2. CASE (\E c \in Callers : Quiet(c)) \/ (\E d \in Admins : Still(d)) \/ Crash
           \/ \E a \in Agents, i \in AgentIds : CreateAgent(a, i)
  BY <1>2, SameAges DEF Quiet, AnswerWithoutRow, LookFirst, CreateRaises, Still, TooLate, ReadRow, RowGone,
                        StartRun, StartRefused, RecordRaises, Crash, CreateAgent
<1>3. CASE \/ \E c \in Callers, a \in Agents, k \in Asks : Ask(c, a, k)
           \/ \E d \in Admins, i \in Ids : ShowPage(d, i)
           \/ \E d \in Admins, yes \in BOOLEAN : PressButton(d, yes)
           \/ ExpireStale
  BY <1>3, ExpiredAges DEF Ask, ShowPage, PressButton, ExpireStale
<1>4. QED
  BY <1>1, <1>2, <1>3

LEMMA AgedRows ==
  ASSUME TypeOK, Ages
  PROVE  /\ Present' = Present /\ Pending' \subseteq Pending
         /\ \A i \in Present : /\ approval'[i].agent = approval[i].agent
                               /\ approval'[i].ask = approval[i].ask
                               /\ approval'[i].number = approval[i].number
                               /\ approval'[i].run = approval[i].run
                               /\ i \notin Pending => approval'[i] = approval[i]
<1>1. \A i \in Ids : approval'[i] # NoRow <=> approval[i] # NoRow
  BY DEF Ages, Pending, Present
<1>2. Present' = Present
  BY <1>1 DEF Present
<1>3. Pending' \subseteq Pending
  BY <1>2 DEF Ages, Pending, Present
<1>4. QED
  BY <1>2, <1>3 DEF Ages, Present

(* Who takes a step, and where the others are. *)
LEMMA OneCaller ==
  ASSUME TypeOK, NEW c \in Callers, NEW next, caller' = [caller EXCEPT ![c] = next]
  PROVE  caller'[c] = next /\ \A e \in Callers \ {c} : caller'[e] = caller[e]
BY DEF TypeOK

LEMMA OneAdmin ==
  ASSUME TypeOK, NEW d \in Admins, NEW next, admin' = [admin EXCEPT ![d] = next]
  PROVE  admin'[d] = next /\ \A e \in Admins \ {d} : admin'[e] = admin[e]
BY DEF TypeOK

-----------------------------------------------------------------------------
(* The lock, and who waits: whenever an agent is deleted.                    *)

InLock == {"cleared", "recorded"}

(* Only an INSERT makes a request wait. *)
Inserts == \E c \in Callers, i \in Ids : Insert(c, i)
NoneBegins ==
    \A i \in Pending' : i \in Pending /\ approval'[i].agent = approval[i].agent
                                      /\ approval'[i].ask = approval[i].ask

LEMMA DecidesOne ==
  ASSUME TypeOK, NEW d \in Admins, Claim(d) \/ RecordOutcome(d)
  PROVE  NoneBegins /\ Present' = Present
<1>1. admin[d].id \in Ids
  BY AdminParts DEF Claim, RecordOutcome
<1>2. /\ admin[d].id \in Present \/ approval' = approval
      /\ \A i \in Ids : i # admin[d].id => approval'[i] = approval[i]
  BY <1>1 DEF TypeOK, Claim, Claimable, Pending, RecordOutcome
<1>3. CASE approval' = approval
  BY <1>3 DEF NoneBegins, Pending, Present
<1>4. CASE approval' # approval
  <2>1. approval[admin[d].id] \in Rows /\ admin[d].id \in Present
    BY <1>1, <1>2, <1>4, RowTypes DEF Present
  <2>2. approval'[admin[d].id] = [approval[admin[d].id] EXCEPT !.status = Decided(d)]
        \/ approval'[admin[d].id] = WithOutcome(approval[admin[d].id], admin[d].ok)
    BY <1>1, <1>4, <2>1 DEF TypeOK, Claim, RecordOutcome
  <2>3. /\ approval'[admin[d].id].agent = approval[admin[d].id].agent
        /\ approval'[admin[d].id].ask = approval[admin[d].id].ask
        /\ approval'[admin[d].id].status \in {"approved", "denied", "failed", approval[admin[d].id].status}
    BY <2>1, <2>2 DEF Rows, Decided, WithOutcome
  <2>4. approval'[admin[d].id] # NoRow
    <3>1. approval'[admin[d].id] \in Rows
      BY <2>1, <2>2, RowEdits DEF Decided, WithOutcome, Statuses
    <3>2. QED
      BY <3>1, NoRowIsNoRow
  <2>5. Present' = Present
    BY <1>1, <1>2, <2>1, <2>4 DEF Present
  <2>6. NoneBegins
    BY <1>2, <2>3, <2>5 DEF NoneBegins, Pending, Present
  <2>7. QED
    BY <2>5, <2>6
<1>5. QED
  BY <1>3, <1>4

LEMMA MostBeginNone ==
  ASSUME TypeOK, [Next]_vars, ~Inserts
  PROVE  NoneBegins
<1>1. ASSUME Ages
      PROVE  NoneBegins
  BY <1>1, AgedRows DEF NoneBegins, Pending
<1>2. CASE \/ \E c \in Callers : Quiet(c) \/ \E a \in Agents, k \in Asks : Ask(c, a, k)
           \/ \E d \in Admins : \/ Still(d)
                                \/ \E i \in Ids : ShowPage(d, i)
                                \/ \E yes \in BOOLEAN : PressButton(d, yes)
           \/ \E i \in Ids : Lapse(i)
           \/ ExpireStale
           \/ \E a \in Agents, i \in AgentIds : CreateAgent(a, i)
           \/ Crash
  BY <1>1, <1>2, MostAge
<1>3. ASSUME NEW c \in Callers, Prune(c)
      PROVE  NoneBegins
  BY <1>3 DEF Prune, NoneBegins, Pending, Present
<1>4. ASSUME NEW d \in Admins, Claim(d) \/ RecordOutcome(d)
      PROVE  NoneBegins
  BY <1>4, DecidesOne
<1>5. ASSUME NEW a \in Agents, DeleteAgent(a)
      PROVE  NoneBegins
  BY <1>5 DEF DeleteAgent, NoneBegins, Pending, Present
<1>6. CASE Next
  <2>1. ASSUME NEW c \in Callers, Creating(c)
        PROVE  NoneBegins
    BY <1>2, <1>3, <2>1 DEF Creating, Inserts, Quiet
  <2>2. ASSUME NEW d \in Admins, Deciding(d)
        PROVE  NoneBegins
    BY <1>2, <1>4, <2>2 DEF Deciding, Still
  <2>3. QED
    BY <1>2, <1>5, <1>6, <2>1, <2>2 DEF Next
<1>7. CASE UNCHANGED vars
  BY <1>1, <1>7, SameAges DEF vars
<1>8. QED
  BY <1>6, <1>7

(* What waits of an agent is counted. *)
LEMMA WaitingCounted ==
  ASSUME NEW agent
  PROVE  /\ IsFiniteSet(Waiting(agent)) /\ Cardinality(Waiting(agent)) \in Nat
         /\ IsFiniteSet(Waiting(agent)') /\ Cardinality(Waiting(agent)') \in Nat
<1>1. IsFiniteSet(Ids) /\ Waiting(agent) \subseteq Ids /\ Waiting(agent)' \subseteq Ids
  BY FS_Interval, BoundsAreNumbers DEF Ids, Waiting, Pending, Present
<1>2. QED
  BY <1>1, FS_Subset, FS_CardinalityType

LEMMA FewerWait ==
  ASSUME NoneBegins, NEW agent
  PROVE  /\ Waiting(agent)' \subseteq Waiting(agent)
         /\ Cardinality(Waiting(agent)') <= Cardinality(Waiting(agent))
<1>1. Waiting(agent)' \subseteq Waiting(agent)
  BY DEF Waiting, NoneBegins
<1>2. QED
  BY <1>1, WaitingCounted, FS_Subset

LEMMA LookKept ==
  ASSUME LookInv, NoneBegins, createLock' = createLock,
         \A c \in Callers : \/ caller'[c] = caller[c]
                            \/ caller[c].pc \notin InLock /\ caller'[c].pc \notin InLock
  PROVE  LookInv'
<1>1. SUFFICES ASSUME NEW c \in Callers
               PROVE  /\ caller'[c].pc \in InLock <=> createLock' = c
                      /\ caller'[c].pc = "cleared" => ~Same(c)' /\ ~Full(c)'
  BY DEF LookInv, InLock
<1>2. caller'[c].pc \in InLock <=> createLock' = c
  BY DEF LookInv, InLock
<1>3. ASSUME caller'[c].pc = "cleared"
      PROVE  ~Same(c)' /\ ~Full(c)'
  <2>1. caller'[c] = caller[c] /\ ~Same(c) /\ ~Full(c)
    BY <1>3 DEF LookInv, InLock
  <2>2. PICK agent : agent = caller[c].agent
    OBVIOUS
  <2>3. /\ Waiting(agent)' \subseteq Waiting(agent)
        /\ Cardinality(Waiting(agent)') <= Cardinality(Waiting(agent))
        /\ Cardinality(Waiting(agent)') \in Nat /\ Cardinality(Waiting(agent)) \in Nat
    BY FewerWait, WaitingCounted
  <2>4. ~Same(c)'
    BY <2>1, <2>2, <2>3 DEF Same, Waiting, NoneBegins
  <2>5. ~Full(c)'
    BY <2>1, <2>2, <2>3, BoundsAreNumbers DEF Full
  <2>6. QED
    BY <2>4, <2>5
<1>4. QED
  BY <1>2, <1>3

LEMMA LookStep ==
  ASSUME TypeOK, LookInv, [Next]_vars
  PROVE  LookInv'
(* The holder, or whoever finds the lock free, is alone. *)
<1>1. ASSUME NEW c \in Callers, createLock \in {c, Nobody}
      PROVE  \A e \in Callers \ {c} : caller[e].pc \notin InLock
  BY <1>1, NobodyIsNoCaller DEF LookInv, InLock
<1>2. ASSUME NEW c \in Callers, NEW i \in Ids, Insert(c, i)
      PROVE  LookInv'
  <2>1. caller'[c] = [pc |-> "recorded", id |-> i] /\ \A e \in Callers \ {c} : caller'[e] = caller[e]
    BY <1>2, OneCaller DEF Insert, CallerStep
  <2>2. createLock = c /\ createLock' = c
    BY <1>2 DEF LookInv, Insert
  <2>3. QED
    BY <1>1, <2>1, <2>2 DEF LookInv, InLock
<1>3. ASSUME NEW c \in Callers, NEW a \in Agents, NEW k \in Asks, Ask(c, a, k)
      PROVE  LookInv'
  <2>1. caller'[c] = [pc |-> "asking", agent |-> agentId[a], ask |-> k]
        /\ \A e \in Callers \ {c} : caller'[e] = caller[e]
    BY <1>3, OneCaller DEF Ask, CallerStep
  <2>2. caller[c].pc \notin InLock /\ caller'[c].pc \notin InLock
    BY <1>3, <2>1 DEF Ask, Idle, InLock
  <2>3. NoneBegins
    BY <1>3, MostAge, AgedRows DEF NoneBegins, Pending
  <2>4. QED
    BY <1>3, <2>1, <2>2, <2>3, LookKept DEF Ask
<1>4. ASSUME NEW c \in Callers, AnswerWithoutRow(c)
      PROVE  LookInv'
  <2>1. caller'[c] = Idle /\ \A e \in Callers \ {c} : caller'[e] = caller[e]
    BY <1>4, OneCaller DEF AnswerWithoutRow, CallerStep
  <2>2. caller[c].pc \notin InLock /\ caller'[c].pc \notin InLock
    BY <1>4, <2>1 DEF AnswerWithoutRow, Idle, InLock
  <2>3. NoneBegins
    BY <1>4 DEF AnswerWithoutRow, NoneBegins, Pending, Present
  <2>4. QED
    BY <1>4, <2>1, <2>2, <2>3, LookKept DEF AnswerWithoutRow
<1>5. ASSUME NEW c \in Callers, LookFirst(c)
      PROVE  LookInv'
  <2>1. caller'[c] = [caller[c] EXCEPT !.pc = "cleared"] /\ \A e \in Callers \ {c} : caller'[e] = caller[e]
    BY <1>5, OneCaller DEF LookFirst, CallerStep
  <2>2. caller[c] \in [pc : {"asking", "cleared"}, agent : AgentIds, ask : Asks]
    BY <1>5 DEF TypeOK, LookFirst, CallerStates
  <2>3. /\ caller'[c].pc = "cleared" /\ caller'[c].agent = caller[c].agent /\ caller'[c].ask = caller[c].ask
    BY <2>1, <2>2
  <2>4. ~Same(c)' /\ ~Full(c)'
    <3>1. PICK agent : agent = caller[c].agent
      OBVIOUS
    <3>2. Waiting(agent)' = Waiting(agent)
      BY <1>5 DEF LookFirst, Waiting, Pending, Present
    <3>3. QED
      BY <1>5, <2>3, <3>1, <3>2 DEF LookFirst, Same, Full
  <2>5. QED
    BY <1>1, <1>5, <2>1, <2>3, <2>4 DEF LookInv, LookFirst, InLock
<1>6. ASSUME NEW c \in Callers, Prune(c) \/ CreateRaises(c)
      PROVE  LookInv'
  <2>1. caller'[c] = Idle /\ \A e \in Callers \ {c} : caller'[e] = caller[e]
    BY <1>6, OneCaller DEF Prune, CreateRaises, CallerStep
  <2>2. createLock = c /\ createLock' = Nobody
    BY <1>6 DEF LookInv, Prune, CreateRaises
  <2>3. QED
    BY <1>1, <2>1, <2>2, NobodyIsNoCaller DEF LookInv, Idle, InLock
<1>7. ASSUME NoneBegins, UNCHANGED <<createLock, caller>>
      PROVE  LookInv'
  BY <1>7, LookKept
<1>8. ASSUME NEW d \in Admins,
             \/ Deciding(d)
             \/ \E i \in Ids : ShowPage(d, i)
             \/ \E yes \in BOOLEAN : PressButton(d, yes)
      PROVE  LookInv'
  <2>1. UNCHANGED <<createLock, caller>>
    BY <1>8 DEF Deciding, Claim, TooLate, ReadRow, RowGone, StartRun, StartRefused, RecordOutcome,
                RecordRaises, ShowPage, PressButton, ToRecord, AdminStep
  <2>2. Still(d) \/ Claim(d) \/ RecordOutcome(d) \/ (\E i \in Ids : ShowPage(d, i))
        \/ \E yes \in BOOLEAN : PressButton(d, yes)
    BY <1>8 DEF Deciding, Still
  <2>3. NoneBegins
    BY <2>2, DecidesOne, MostAge, AgedRows DEF NoneBegins, Pending
  <2>4. QED
    BY <1>7, <2>1, <2>3
<1>9. CASE \/ \E i \in Ids : Lapse(i)
           \/ ExpireStale
           \/ \E a \in Agents, i \in AgentIds : CreateAgent(a, i)
  <2>1. UNCHANGED <<createLock, caller>>
    BY <1>9 DEF Lapse, ExpireStale, CreateAgent, Unaffected
  <2>2. NoneBegins
    BY <1>9, MostAge, AgedRows DEF NoneBegins, Pending
  <2>3. QED
    BY <1>7, <2>1, <2>2
<1>10. ASSUME NEW a \in Agents, DeleteAgent(a)
       PROVE  LookInv'
  <2>1. NoneBegins
    BY <1>10 DEF DeleteAgent, NoneBegins, Pending, Present
  <2>2. QED
    BY <1>7, <1>10, <2>1 DEF DeleteAgent, Unaffected
<1>11. CASE Crash
  BY <1>11, NobodyIsNoCaller DEF LookInv, Crash, Idle
<1>12. CASE Next
  BY <1>2, <1>3, <1>4, <1>5, <1>6, <1>8, <1>9, <1>10, <1>11, <1>12 DEF Next, Creating
<1>13. CASE UNCHANGED vars
  BY <1>7, <1>13 DEF vars, NoneBegins, Pending, Present
<1>14. QED
  BY <1>12, <1>13

(* Who has looked and found none like it, and fewer than the cap, adds one.  *)
LEMMA WaitingStep ==
  ASSUME TypeOK, LookInv, WaitingOnce, WaitingFew, [Next]_vars
  PROVE  WaitingOnce' /\ WaitingFew'
<1>1. ASSUME NEW c \in Callers, NEW i \in Ids, Insert(c, i)
      PROVE  WaitingOnce' /\ WaitingFew'
  <2>1. ~Same(c) /\ ~Full(c) /\ i \notin Present
    <3>1. i \in Present => i < i
      BY <1>1 DEF Insert
    <3>2. QED
      BY <1>1, <3>1, BoundsAreNumbers DEF Insert, LookInv, Ids
  <2>2. /\ approval'[i].agent = caller[c].agent /\ approval'[i].ask = caller[c].ask
        /\ \A j \in Ids \ {i} : approval'[j] = approval[j]
    BY <1>1 DEF TypeOK, Insert
  <2>3. Pending' \subseteq Pending \cup {i}
    BY <2>2 DEF Pending, Present
  <2>4. \A j \in Pending : j # i /\ j \in Ids
    BY <2>1 DEF Pending, Present
  <2>5. WaitingOnce'
    BY <2>1, <2>2, <2>3, <2>4 DEF WaitingOnce, Same, Waiting
  <2>6. ASSUME NEW agent \in AgentIds
        PROVE  Cardinality(Waiting(agent)') <= MaxPending
    <3>1. Cardinality(Waiting(agent)) \in Nat /\ IsFiniteSet(Waiting(agent))
          /\ Cardinality(Waiting(agent)') \in Nat
      BY WaitingCounted
    <3>2. CASE agent = caller[c].agent
      <4>1. Waiting(agent)' \subseteq Waiting(agent) \cup {i}
        BY <2>2, <2>3, <2>4 DEF Waiting
      <4>2. Cardinality(Waiting(agent) \cup {i}) <= Cardinality(Waiting(agent)) + 1
            /\ IsFiniteSet(Waiting(agent) \cup {i})
            /\ Cardinality(Waiting(agent) \cup {i}) \in Nat
        <5>1. PICK waits : waits = Waiting(agent)
          OBVIOUS
        <5>2. IsFiniteSet(waits \cup {i})
              /\ Cardinality(waits \cup {i}) = IF i \in waits THEN Cardinality(waits)
                                                             ELSE Cardinality(waits) + 1
          BY <3>1, <5>1, FS_AddElement
        <5>3. QED
          BY <3>1, <5>1, <5>2, FS_CardinalityType
      <4>3. Cardinality(Waiting(agent)') <= Cardinality(Waiting(agent) \cup {i})
        BY <4>1, <4>2, FS_Subset
      <4>4. Cardinality(Waiting(agent)) < MaxPending
        BY <2>1, <3>1, <3>2, BoundsAreNumbers DEF Full
      <4>5. QED
        BY <3>1, <4>2, <4>3, <4>4, BoundsAreNumbers
    <3>3. CASE agent # caller[c].agent
      <4>1. Waiting(agent)' \subseteq Waiting(agent)
        BY <2>2, <2>3, <2>4, <3>3 DEF Waiting
      <4>2. Cardinality(Waiting(agent)') <= Cardinality(Waiting(agent))
        BY <3>1, <4>1, FS_Subset
      <4>3. QED
        BY <3>1, <4>2, BoundsAreNumbers DEF WaitingFew
    <3>4. QED
      BY <3>2, <3>3
  <2>7. QED
    BY <2>5, <2>6 DEF WaitingFew
<1>2. CASE ~Inserts
  <2>1. NoneBegins
    BY <1>2, MostBeginNone
  <2>2. WaitingOnce'
    BY <2>1 DEF WaitingOnce, NoneBegins
  <2>3. ASSUME NEW agent \in AgentIds
        PROVE  Cardinality(Waiting(agent)') <= MaxPending
    BY <2>1, FewerWait, WaitingCounted, BoundsAreNumbers DEF WaitingFew
  <2>4. QED
    BY <2>2, <2>3 DEF WaitingFew
<1>3. QED
  BY <1>1, <1>2 DEF Inserts

-----------------------------------------------------------------------------
(* What the three steps that do more than age do to the rows. *)

LEMMA InsertIs ==
  ASSUME TypeOK, NEW c \in Callers, NEW i \in Ids, Insert(c, i)
  PROVE  /\ approval'[i].agent = caller[c].agent /\ approval'[i].ask = caller[c].ask
         /\ approval'[i].status = "pending" /\ approval'[i].run = FALSE
         /\ approval'[i].number = made + 1
         /\ \A j \in Ids \ {i} : approval'[j] = approval[j]
         /\ approval'[i] \in Rows /\ i \notin Present /\ Present' = Present \cup {i}
         /\ \A j \in Present : j < i
         /\ made \in Nat /\ made + 1 \in Numbers /\ made' = made + 1
<1>1. approval'[i] = [agent |-> caller[c].agent, ask |-> caller[c].ask, status |-> "pending",
                      late |-> FALSE, run |-> FALSE, number |-> made + 1]
      /\ \A j \in Ids \ {i} : approval'[j] = approval[j]
  BY DEF TypeOK, Insert
<1>2. caller[c] \in [pc : {"asking", "cleared"}, agent : AgentIds, ask : Asks]
  BY DEF TypeOK, Insert, CallerStates
<1>3. made \in Nat /\ made + 1 \in Numbers /\ made' = made + 1
  BY BoundsAreNumbers DEF TypeOK, Insert, Numbers
<1>4. approval'[i] \in Rows
  BY <1>1, <1>2, <1>3 DEF Rows, Statuses
<1>5. Present' = Present \cup {i}
  BY <1>1, <1>4, NoRowIsNoRow DEF Present
<1>6. (\A j \in Present : j < i) /\ i \notin Present
  BY DEF Insert, Ids
<1>7. QED
  BY <1>1, <1>3, <1>4, <1>5, <1>6

LEMMA SetsOne ==
  ASSUME TypeOK, NEW d \in Admins, Claim(d) \/ (RecordOutcome(d) /\ admin[d].id \in Present)
  PROVE  /\ admin[d].id \in Present /\ approval[admin[d].id] \in Rows
         /\ \A j \in Ids \ {admin[d].id} : approval'[j] = approval[j]
         /\ Claim(d) => approval'[admin[d].id] = [approval[admin[d].id] EXCEPT !.status = Decided(d)]
         /\ RecordOutcome(d) => approval'[admin[d].id] = WithOutcome(approval[admin[d].id], admin[d].ok)
         /\ approval'[admin[d].id].number = approval[admin[d].id].number
         /\ Present' = Present
<1>1. admin[d].id \in Present /\ approval[admin[d].id] \in Rows /\ admin[d].id \in Ids
  BY AdminParts, RowTypes DEF Claim, Claimable, Pending, RecordOutcome, Present
<1>2. /\ \A j \in Ids \ {admin[d].id} : approval'[j] = approval[j]
      /\ Claim(d) => approval'[admin[d].id] = [approval[admin[d].id] EXCEPT !.status = Decided(d)]
      /\ RecordOutcome(d) => approval'[admin[d].id] = WithOutcome(approval[admin[d].id], admin[d].ok)
  BY <1>1 DEF TypeOK, Claim, RecordOutcome
<1>3. approval'[admin[d].id] \in Rows
  BY <1>1, <1>2, RowEdits DEF Decided, WithOutcome, Statuses
<1>4. approval'[admin[d].id].number = approval[admin[d].id].number
  BY <1>1, <1>2 DEF Rows, Decided, WithOutcome
<1>5. Present' = Present
  BY <1>1, <1>2, <1>3, NoRowIsNoRow DEF Present
<1>6. QED
  BY <1>1, <1>2, <1>4, <1>5

(* Pruning, or a deletion: rows go, others stay as they are. *)
LEMMA RowsGo ==
  ASSUME TypeOK, NEW gone, approval' = [i \in Ids |-> IF i \in gone THEN NoRow ELSE approval[i]]
  PROVE  /\ Present' = Present \ gone
         /\ \A i \in Present' : approval'[i] = approval[i]
BY DEF Present

-----------------------------------------------------------------------------
(* What a step leaves of the rows: only an INSERT adds one.                  *)

Numbered == Present' = Present /\ \A i \in Present : approval'[i].number = approval[i].number
Fewer == Present' \subseteq Present /\ \A i \in Present' : approval'[i].number = approval[i].number

(* A thread of an admin that shows a page, or decides. *)
Moves(d) == \/ \E i \in Ids : ShowPage(d, i)
            \/ \E yes \in BOOLEAN : PressButton(d, yes)
            \/ Deciding(d)

LEMMA AgesNumbered ==
  ASSUME TypeOK, Ages
  PROVE  Numbered
BY AgedRows DEF Numbered

LEMMA MovesNumbered ==
  ASSUME TypeOK, NEW d \in Admins, Moves(d)
  PROVE  Numbered
<1>1. CASE (\E i \in Ids : ShowPage(d, i)) \/ (\E yes \in BOOLEAN : PressButton(d, yes)) \/ Still(d)
  BY <1>1, MostAge, AgesNumbered
<1>2. CASE Claim(d) \/ (RecordOutcome(d) /\ admin[d].id \in Present)
  BY <1>2, SetsOne DEF Numbered, Present
<1>3. CASE RecordOutcome(d) /\ admin[d].id \notin Present
  BY <1>3 DEF RecordOutcome, Numbered, Present
<1>4. QED
  BY <1>1, <1>2, <1>3 DEF Moves, Deciding, Still

LEMMA MovesAlone ==
  ASSUME TypeOK, NEW d \in Admins, Moves(d)
  PROVE  /\ \A e \in Admins \ {d} : admin'[e] = admin[e] /\ (e \in outdated' <=> e \in outdated)
         /\ admin'[d].pc \notin {"idle", "looking"} => outdated' = outdated
         /\ UNCHANGED <<made, mixed, agentId, createLock, caller>>
         /\ ~StartRun(d) => started' = started
<1>1. PICK next : AdminStep(d, next)
  BY DEF Moves, Deciding, ShowPage, PressButton, Claim, TooLate, ReadRow, RowGone, StartRun, StartRefused,
         RecordOutcome, RecordRaises, ToRecord
<1>2. admin'[d] = next /\ \A e \in Admins \ {d} : admin'[e] = admin[e]
  BY <1>1, OneAdmin DEF AdminStep
<1>3. ~StartRun(d) => started' = started
  BY DEF Moves, Deciding, ShowPage, PressButton, Claim, TooLate, ReadRow, RowGone, StartRefused,
         RecordOutcome, RecordRaises
<1>4. QED
  BY <1>1, <1>2, <1>3 DEF AdminStep

LEMMA MostFewer ==
  ASSUME TypeOK, [Next]_vars, ~Inserts
  PROVE  Fewer /\ UNCHANGED <<made, mixed>>
<1>1. ASSUME Numbered
      PROVE  Fewer
  BY <1>1 DEF Numbered, Fewer
<1>2. ASSUME NEW c \in Callers, Creating(c)
      PROVE  Fewer /\ UNCHANGED <<made, mixed>>
  <2>1. CASE Quiet(c)
    <3>1. Fewer
      BY <1>1, <2>1, MostAge, AgesNumbered
    <3>2. QED
      BY <2>1, <3>1 DEF Quiet, AnswerWithoutRow, LookFirst, CreateRaises
  <2>2. CASE Prune(c)
    BY <2>2 DEF Prune, Fewer, Present
  <2>3. QED
    BY <1>2, <2>1, <2>2 DEF Creating, Quiet, Inserts
<1>3. ASSUME NEW d \in Admins, Moves(d)
      PROVE  Fewer /\ UNCHANGED <<made, mixed>>
  BY <1>1, <1>3, MovesNumbered, MovesAlone
<1>4. CASE \/ \E c \in Callers, a \in Agents, k \in Asks : Ask(c, a, k)
           \/ \E i \in Ids : Lapse(i)
           \/ ExpireStale
           \/ \E a \in Agents, i \in AgentIds : CreateAgent(a, i)
           \/ Crash
  <2>1. Fewer
    BY <1>1, <1>4, MostAge, AgesNumbered
  <2>2. QED
    BY <1>4, <2>1 DEF Ask, Lapse, ExpireStale, CreateAgent, Crash, Unaffected
<1>5. ASSUME NEW a \in Agents, DeleteAgent(a)
      PROVE  Fewer /\ UNCHANGED <<made, mixed>>
  BY <1>5 DEF DeleteAgent, Unaffected, Fewer, Present
<1>6. CASE Next
  BY <1>2, <1>3, <1>4, <1>5, <1>6 DEF Next, Moves
<1>7. CASE UNCHANGED vars
  BY <1>7 DEF vars, Fewer, Present
<1>8. QED
  BY <1>6, <1>7

(* The steps in which no thread of an admin takes part. *)
LEMMA Bystanders ==
  ASSUME [Next]_vars, ~Crash, ~\E d \in Admins : Moves(d)
  PROVE  UNCHANGED <<admin, started>>
BY DEF Next, Moves, Creating, Ask, AnswerWithoutRow, LookFirst, Insert, Prune, CreateRaises, CallerStep,
       Lapse, ExpireStale, CreateAgent, DeleteAgent, Unaffected, vars

(* A thread that goes idle, or to a page, has nothing in hand. *)
LEMMA NotInHand ==
  ASSUME NEW d \in Admins, admin[d].pc \notin {"reading", "starting", "recording"}
  PROVE  d \notin InHand /\ d \notin Working
BY DEF InHand, Working

LEMMA NotInHandNext ==
  ASSUME NEW d \in Admins, admin'[d].pc \notin {"reading", "starting", "recording"}
  PROVE  d \notin InHand' /\ d \notin Working'
BY DEF InHand, Working

(* What the thread that moves has in hand afterwards. *)
LEMMA MoverHas ==
  ASSUME TypeOK, NEW d \in Admins, Moves(d), d \in InHand'
  PROVE  \/ /\ Claim(d) /\ admin[d].approve
            /\ admin[d].pc = "deciding" /\ admin[d].id \in Pending
            /\ admin'[d].pc = "reading" /\ admin'[d].approve
            /\ admin'[d].claim = approval[admin[d].id].number
            /\ admin'[d].id = admin[d].id /\ admin'[d].shown = admin[d].shown
         \/ /\ ReadRow(d) /\ d \in InHand /\ admin[d].pc = "reading"
            /\ admin[d].id \in Present /\ admin[d].id \in Ids
            /\ admin'[d].pc = "starting" /\ admin'[d].row = approval[admin[d].id]
            /\ admin'[d].claim = admin[d].claim
            /\ admin'[d].id = admin[d].id /\ admin'[d].shown = admin[d].shown
         \/ /\ StartRun(d) \/ (StartRefused(d) /\ ~admin'[d].ok)
            /\ d \in InHand /\ d \in Working /\ admin[d].pc = "starting"
            /\ admin'[d].pc = "recording" /\ admin'[d].row = admin[d].row
            /\ admin'[d].claim = admin[d].claim
            /\ admin'[d].id = admin[d].id /\ admin'[d].shown = admin[d].shown
<1>1. ASSUME NEW next, AdminStep(d, next)
      PROVE  admin'[d] = next
  BY <1>1, OneAdmin DEF AdminStep
<1>2. ASSUME NEW i \in Ids, ShowPage(d, i)
      PROVE  FALSE
  BY <1>1, <1>2, NotInHandNext DEF ShowPage
<1>3. ASSUME NEW yes \in BOOLEAN, PressButton(d, yes)
      PROVE  FALSE
  BY <1>1, <1>3, NotInHandNext DEF PressButton
<1>4. CASE TooLate(d) \/ RowGone(d) \/ RecordOutcome(d) \/ RecordRaises(d)
  <2>1. admin'[d] = Idle
    BY <1>1, <1>4 DEF TooLate, RowGone, RecordOutcome, RecordRaises
  <2>2. admin'[d].pc = "idle"
    BY <2>1 DEF Idle
  <2>3. QED
    BY <2>2, NotInHandNext
<1>5. CASE Claim(d)
  <2>1. admin'[d] = [pc |-> "reading", id |-> admin[d].id, shown |-> admin[d].shown,
                     approve |-> admin[d].approve, claim |-> approval[admin[d].id].number]
    BY <1>1, <1>5 DEF Claim
  <2>2. /\ admin'[d].pc = "reading" /\ admin'[d].approve = admin[d].approve
        /\ admin'[d].claim = approval[admin[d].id].number
        /\ admin'[d].id = admin[d].id /\ admin'[d].shown = admin[d].shown
    BY <2>1
  <2>3. admin'[d].approve
    BY <2>2 DEF InHand
  <2>4. QED
    BY <1>5, <2>2, <2>3 DEF Claim, Claimable
<1>6. CASE ReadRow(d)
  <2>1. admin[d].approve
    <3>1. CASE ~admin[d].approve
      <4>1. admin'[d] = Idle
        BY <1>1, <1>6, <3>1 DEF ReadRow
      <4>2. admin'[d].pc = "idle"
        BY <4>1 DEF Idle
      <4>3. QED
        BY <4>2, NotInHandNext
    <3>2. QED
      BY <3>1
  <2>2. admin'[d] = [pc |-> "starting", id |-> admin[d].id, shown |-> admin[d].shown,
                     row |-> approval[admin[d].id], claim |-> admin[d].claim]
    BY <1>1, <1>6, <2>1 DEF ReadRow
  <2>3. /\ admin'[d].pc = "starting" /\ admin'[d].row = approval[admin[d].id]
        /\ admin'[d].claim = admin[d].claim
        /\ admin'[d].id = admin[d].id /\ admin'[d].shown = admin[d].shown
    BY <2>2
  <2>4. admin[d].pc = "reading" /\ approval[admin[d].id] # NoRow
    BY <1>6 DEF ReadRow
  <2>5. admin[d].id \in Ids
    BY <2>4, AdminParts
  <2>6. QED
    BY <1>6, <2>1, <2>3, <2>4, <2>5 DEF InHand, Present
<1>7. ASSUME NEW ok \in BOOLEAN, admin[d].pc = "starting", ToRecord(d, ok)
      PROVE  /\ d \in InHand /\ d \in Working
             /\ admin'[d].pc = "recording" /\ admin'[d].row = admin[d].row
             /\ admin'[d].claim = admin[d].claim /\ admin'[d].ok = ok
             /\ admin'[d].id = admin[d].id /\ admin'[d].shown = admin[d].shown
  <2>1. admin'[d] = [pc |-> "recording", id |-> admin[d].id, shown |-> admin[d].shown,
                     row |-> admin[d].row, ok |-> ok, claim |-> admin[d].claim]
    BY <1>1, <1>7 DEF ToRecord
  <2>2. QED
    BY <1>7, <2>1 DEF InHand, Working
<1>8. CASE StartRun(d)
  BY <1>7, <1>8 DEF StartRun
<1>9. CASE StartRefused(d)
  BY <1>7, <1>9 DEF StartRefused
<1>10. QED
  BY <1>2, <1>3, <1>4, <1>5, <1>6, <1>8, <1>9 DEF Moves, Deciding

-----------------------------------------------------------------------------
(* Numbers. *)

LEMMA NumberStep ==
  ASSUME TypeOK, NumberInv, [Next]_vars
  PROVE  NumberInv'
<1>1. ASSUME NEW c \in Callers, NEW i \in Ids, Insert(c, i)
      PROVE  NumberInv'
  <2>1. /\ approval'[i].number = made + 1 /\ \A j \in Ids \ {i} : approval'[j] = approval[j]
        /\ i \notin Present /\ Present' = Present \cup {i} /\ made \in Nat /\ made' = made + 1
    BY <1>1, InsertIs
  <2>2. \A j \in Present : /\ j \in Ids \ {i} /\ approval'[j] = approval[j]
                           /\ approval[j].number \in Nat /\ approval[j].number <= made
    BY <2>1, RowTypes, BoundsAreNumbers DEF NumberInv, Present, Numbers
  <2>3. /\ \A j \in Present' : approval'[j].number <= made'
        /\ \A j, k \in Present' : approval'[j].number = approval'[k].number => j = k
    <3>1. \A j \in Present : approval'[j].number # approval'[i].number
      BY <2>1, <2>2
    <3>2. QED
      BY <2>1, <2>2, <3>1 DEF NumberInv
  <2>4. UNCHANGED admin /\ mixed' \subseteq mixed \cup {made + 1}
    BY <1>1 DEF Insert, CallerStep
  <2>5. \A d \in InHand' : admin'[d].claim <= made'
    <3>1. \A d \in InHand : admin[d].claim \in Nat
      BY HandParts, BoundsAreNumbers DEF Numbers
    <3>2. QED
      BY <2>1, <2>4, <3>1 DEF NumberInv, InHand
  <2>6. \A d \in Working' : admin'[d].row.number <= made'
    <3>1. \A d \in Working : admin[d].row.number \in Nat
      BY HandParts, BoundsAreNumbers DEF Numbers, InHand, Working
    <3>2. QED
      BY <2>1, <2>4, <3>1 DEF NumberInv, Working
  <2>7. \A n \in mixed' : n <= made'
    <3>1. \A n \in mixed : n \in Nat
      BY BoundsAreNumbers DEF TypeOK, Numbers
    <3>2. QED
      BY <2>1, <2>4, <3>1 DEF NumberInv
  <2>8. QED
    BY <2>3, <2>5, <2>6, <2>7 DEF NumberInv
<1>2. CASE ~Inserts
  <2>1. Fewer /\ made' = made /\ mixed' = mixed
    BY <1>2, MostFewer
  <2>2. /\ \A j \in Present' : approval'[j].number <= made'
        /\ \A j, k \in Present' : approval'[j].number = approval'[k].number => j = k
        /\ \A n \in mixed' : n <= made'
    BY <2>1 DEF NumberInv, Fewer
  <2>3. ASSUME NEW d \in Admins, Moves(d)
        PROVE  NumberInv'
    <3>1. \A e \in Admins \ {d} : admin'[e] = admin[e]
      BY <2>3, MovesAlone
    <3>2. d \in InHand' => /\ admin'[d].claim <= made
                           /\ d \in Working' => admin'[d].row.number <= made
      BY <2>3, MoverHas DEF NumberInv, Pending, Working
    <3>3. Working' \subseteq InHand'
      BY DEF Working, InHand
    <3>4. \A e \in InHand' : e = d \/ (e \in InHand /\ admin'[e] = admin[e])
      BY <3>1 DEF InHand
    <3>5. \A e \in Working' : e = d \/ (e \in Working /\ admin'[e] = admin[e])
      BY <3>1 DEF Working
    <3>6. QED
      BY <2>1, <2>2, <3>2, <3>3, <3>4, <3>5 DEF NumberInv
  <2>4. CASE Crash
    <3>1. \A d \in Admins : admin'[d].pc \in {"idle", "looking"}
      BY <2>4 DEF Crash, Idle
    <3>2. InHand' = {} /\ Working' = {}
      BY <3>1 DEF InHand, Working
    <3>3. QED
      BY <2>2, <3>2 DEF NumberInv
  <2>5. CASE admin' = admin
    BY <2>1, <2>2, <2>5 DEF NumberInv, InHand, Working
  <2>6. QED
    BY <2>3, <2>4, <2>5, Bystanders
<1>3. QED
  BY <1>1, <1>2 DEF Inserts

-----------------------------------------------------------------------------
(* Who starts what. *)

(* What a thread starts is what it has claimed, or mixed up with that. *)
LEMMA OwnRuns ==
  ASSUME TypeOK, NumberInv, ClaimInv, NEW d \in Admins, StartRun(d)
  PROVE  /\ d \in InHand /\ d \in Working /\ Claims(d)
         /\ admin[d].row.number \in Numbers /\ admin[d].row.number <= made
         /\ admin[d].row.number = admin[d].claim \/ admin[d].row.number \in mixed
         /\ started' = [started EXCEPT ![admin[d].row.number] = @ + 1]
         /\ started'[admin[d].row.number] = started[admin[d].row.number] + 1
         /\ \A n \in Numbers : n # admin[d].row.number => started'[n] = started[n]
<1>1. d \in InHand /\ d \in Working
  BY DEF StartRun, InHand, Working
<1>2. Claims(d) /\ admin[d].row.number \in Numbers /\ admin[d].row.number <= made
  BY <1>1, HandParts DEF ClaimInv, NumberInv
<1>3. started' = [started EXCEPT ![admin[d].row.number] = @ + 1]
  BY DEF StartRun
<1>4. /\ started'[admin[d].row.number] = started[admin[d].row.number] + 1
      /\ \A n \in Numbers : n # admin[d].row.number => started'[n] = started[n]
  BY <1>2, <1>3 DEF TypeOK
<1>5. QED
  BY <1>1, <1>2, <1>3, <1>4 DEF Claims

LEMMA StartStep ==
  ASSUME TypeOK, NumberInv, StartInv, ClaimInv, [Next]_vars
  PROVE  StartInv'
<1>1. ASSUME NEW c \in Callers, NEW i \in Ids, Insert(c, i)
      PROVE  StartInv'
  <2>1. /\ approval'[i].number = made + 1 /\ \A j \in Ids \ {i} : approval'[j] = approval[j]
        /\ i \notin Present /\ Present' = Present \cup {i}
        /\ made \in Nat /\ made + 1 \in Numbers /\ made' = made + 1
    BY <1>1, InsertIs
  <2>2. started' = started /\ mixed \subseteq mixed'
    BY <1>1 DEF Insert, CallerStep
  <2>3. \A n \in Numbers : n > made' => started'[n] = 0
    BY <2>1, <2>2, BoundsAreNumbers DEF StartInv, Numbers
  <2>4. started[made + 1] = 0
    BY <2>1 DEF StartInv
  <2>5. \A j \in Pending' : j = i \/ (j \in Pending /\ approval'[j] = approval[j])
    BY <2>1 DEF Pending, Present
  <2>6. QED
    BY <2>1, <2>2, <2>3, <2>4, <2>5 DEF StartInv
<1>2. CASE ~Inserts
  <2>1. Fewer /\ made' = made /\ mixed' = mixed /\ NoneBegins
    BY <1>2, MostFewer, MostBeginNone
  <2>2. \A i \in Pending' : i \in Pending /\ approval'[i].number = approval[i].number
    BY <2>1 DEF NoneBegins, Fewer, Pending
  <2>3. CASE started' = started
    BY <2>1, <2>2, <2>3 DEF StartInv
  <2>4. ASSUME NEW d \in Admins, StartRun(d)
        PROVE  StartInv'
    <3>1. /\ Claims(d) /\ admin[d].row.number \in Numbers /\ admin[d].row.number <= made
          /\ admin[d].row.number = admin[d].claim \/ admin[d].row.number \in mixed
          /\ \A n \in Numbers : n # admin[d].row.number => started'[n] = started[n]
      BY <2>4, OwnRuns
    <3>2. \A n \in Numbers : n > made => n # admin[d].row.number
      BY <3>1, BoundsAreNumbers DEF TypeOK, Numbers
    <3>3. ASSUME NEW i \in Pending, approval[i].number \notin mixed
          PROVE  approval[i].number # admin[d].row.number /\ approval[i].number \in Numbers
      <4>1. i \notin RowsOf(admin[d].claim) /\ i \in Present /\ i \in Ids
        BY <3>1 DEF Claims, Pending, Present
      <4>2. QED
        BY <3>1, <3>3, <4>1, RowTypes DEF RowsOf, Present
    <3>4. QED
      BY <2>1, <2>2, <3>1, <3>2, <3>3 DEF StartInv
  <2>5. started' = started \/ \E d \in Admins : StartRun(d)
    BY Bystanders, MovesAlone DEF Crash
  <2>6. QED
    BY <2>3, <2>4, <2>5
<1>3. QED
  BY <1>1, <1>2 DEF Inserts

(* What a thread that stays where it is has claimed. *)
LEMMA ClaimsKept ==
  ASSUME NEW d \in InHand, Claims(d), Fewer, NoneBegins, mixed \subseteq mixed', admin'[d] = admin[d],
         admin[d].claim \notin mixed => started'[admin[d].claim] = started[admin[d].claim],
         d \in Working /\ started[admin[d].row.number] > 0 => started'[admin[d].row.number] > 0
  PROVE  Claims(d)'
<1>1. \A n : RowsOf(n)' \subseteq RowsOf(n)
  BY DEF Fewer, RowsOf
<1>2. Pending' \subseteq Pending
  BY DEF NoneBegins
<1>3. \A n : (\A i \in RowsOf(n) : i = admin[d].id /\ i \notin Pending)
           => (\A i \in RowsOf(n)' : i = admin'[d].id /\ i \notin Pending')
  BY <1>1, <1>2
<1>4. \A n : RowsOf(n) = {} => RowsOf(n)' = {}
  BY <1>1
<1>5. d \in Working' => d \in Working
  BY DEF Working
<1>6. admin[d].id \in Present' => approval'[admin[d].id].number \in {admin[d].claim} \cup mixed'
  BY DEF Claims, Fewer
<1>7. PICK claim : claim = admin[d].claim
  OBVIOUS
<1>8. /\ \A i \in RowsOf(claim)' : i = admin'[d].id /\ i \notin Pending'
      /\ d \in Working' =>
            \/ admin[d].row.number = claim
            \/ admin[d].row.number \in mixed' /\ RowsOf(claim)' = {}
  BY <1>3, <1>4, <1>5, <1>7 DEF Claims
<1>9. /\ admin[d].pc # "recording" /\ claim \notin mixed' => started'[claim] = 0
      /\ admin[d].pc = "recording" /\ admin[d].ok => started'[admin[d].row.number] > 0
  BY <1>7 DEF Claims, Working, InHand
<1>10. QED
  BY <1>6, <1>7, <1>8, <1>9 DEF Claims, RowsOf

LEMMA ClaimStep ==
  ASSUME TypeOK, NumberInv, StartInv, ClaimInv, [Next]_vars
  PROVE  ClaimInv'
<1>1. ASSUME NEW c \in Callers, NEW i \in Ids, Insert(c, i)
      PROVE  ClaimInv'
  <2>1. /\ approval'[i].number = made + 1 /\ \A j \in Ids \ {i} : approval'[j] = approval[j]
        /\ i \notin Present /\ Present' = Present \cup {i}
        /\ made \in Nat /\ made + 1 \in Numbers /\ made' = made + 1
    BY <1>1, InsertIs
  <2>2. /\ admin' = admin /\ started' = started
        /\ mixed' = IF \E d \in InHand : admin[d].id = i THEN mixed \cup {made + 1} ELSE mixed
    BY <1>1 DEF Insert, CallerStep
  <2>3. InHand' = InHand /\ Working' = Working
    BY <2>2 DEF InHand, Working
  <2>4. ASSUME NEW d \in InHand
        PROVE  Claims(d)'
    <3>1. PICK claim : claim = admin[d].claim
      OBVIOUS
    <3>2. claim \in Nat /\ claim < made + 1
      BY <2>1, <3>1, HandParts, BoundsAreNumbers DEF NumberInv, Numbers
    <3>3. RowsOf(claim)' = RowsOf(claim)
      <4>1. \A j \in Present : j # i /\ j \in Ids
        BY <2>1 DEF Present
      <4>2. \A j \in Present : approval'[j] = approval[j]
        BY <2>1, <4>1
      <4>3. approval'[i].number # claim
        BY <2>1, <3>2
      <4>4. QED
        BY <2>1, <4>2, <4>3 DEF RowsOf
    <3>4. \A j \in RowsOf(claim) : j = admin[d].id /\ j \notin Pending /\ j # i /\ j \in Ids
      BY <2>1, <3>1 DEF ClaimInv, Claims, RowsOf, Present
    <3>5. \A j \in RowsOf(claim)' : j = admin'[d].id /\ j \notin Pending'
      BY <2>1, <2>2, <3>3, <3>4 DEF Pending, Present
    <3>6. admin[d].id \in Present' => approval'[admin[d].id].number \in {claim} \cup mixed'
      <4>1. CASE admin[d].id = i
        BY <2>1, <2>2, <4>1
      <4>2. CASE admin[d].id # i
        BY <2>1, <2>2, <3>1, <4>2 DEF ClaimInv, Claims, Present
      <4>3. QED
        BY <4>1, <4>2
    <3>7. d \in Working' =>
            \/ admin[d].row.number = claim
            \/ admin[d].row.number \in mixed' /\ RowsOf(claim)' = {}
      BY <2>2, <2>3, <3>1, <3>3 DEF ClaimInv, Claims
    <3>8. /\ admin[d].pc # "recording" /\ claim \notin mixed' => started'[claim] = 0
          /\ admin[d].pc = "recording" /\ admin[d].ok => started'[admin[d].row.number] > 0
      BY <2>2, <3>1 DEF ClaimInv, Claims
    <3>9. QED
      BY <2>2, <3>1, <3>5, <3>6, <3>7, <3>8 DEF Claims, RowsOf
  <2>5. QED
    BY <2>2, <2>3, <2>4 DEF ClaimInv
<1>2. CASE ~Inserts
  <2>1. Fewer /\ made' = made /\ mixed' = mixed /\ NoneBegins
    BY <1>2, MostFewer, MostBeginNone
  <2>2. ASSUME NEW e \in Admins, Moves(e)
        PROVE  ClaimInv'
    <3>1. \A d \in InHand' : d = e \/ (d \in InHand /\ admin'[d] = admin[d])
      BY <2>2, MovesAlone DEF InHand
    <3>2. ASSUME NEW d \in InHand, d # e
          PROVE  /\ admin[d].claim \notin mixed => started'[admin[d].claim] = started[admin[d].claim]
                 /\ d \in Working /\ started[admin[d].row.number] > 0 => started'[admin[d].row.number] > 0
      <4>1. CASE started' = started
        BY <4>1
      <4>2. CASE StartRun(e)
        <5>1. /\ e \in InHand /\ admin[e].row.number \in Numbers
              /\ admin[e].row.number = admin[e].claim \/ admin[e].row.number \in mixed
              /\ started'[admin[e].row.number] = started[admin[e].row.number] + 1
              /\ \A n \in Numbers : n # admin[e].row.number => started'[n] = started[n]
          BY <2>2, <4>2, OwnRuns
        <5>2. admin[d].claim # admin[e].claim /\ admin[d].claim \in Numbers
              /\ (d \in Working => admin[d].row.number \in Numbers)
          BY <3>2, <5>1, HandParts DEF ClaimInv
        <5>3. \A n \in Numbers : started[n] \in Nat
          BY DEF TypeOK
        <5>4. \A n \in Numbers : started[n] > 0 => started'[n] > 0
          BY <5>1, <5>3
        <5>5. QED
          BY <5>1, <5>2, <5>4
      <4>3. QED
        BY <2>2, <4>1, <4>2, MovesAlone
    <3>3. ASSUME NEW d \in InHand, d # e, admin'[d] = admin[d]
          PROVE  Claims(d)'
      BY <2>1, <3>2, <3>3, ClaimsKept DEF ClaimInv
    <3>4. CASE e \notin InHand'
      BY <3>1, <3>3, <3>4 DEF ClaimInv
    <3>5. ASSUME e \in InHand',
                 Claims(e)', \A d \in InHand : d # e => admin[d].claim # admin'[e].claim
          PROVE  ClaimInv'
      BY <3>1, <3>3, <3>5 DEF ClaimInv
    <3>6. ASSUME e \in InHand', e \in InHand, admin'[e].claim = admin[e].claim, admin'[e].id = admin[e].id,
                 approval' = approval,
                 e \in Working' =>
                    \/ admin'[e].row.number = admin[e].claim
                    \/ admin'[e].row.number \in mixed /\ RowsOf(admin[e].claim) = {},
                 admin'[e].pc # "recording" /\ admin[e].claim \notin mixed => started'[admin[e].claim] = 0,
                 admin'[e].pc = "recording" /\ admin'[e].ok => started'[admin'[e].row.number] > 0
          PROVE  ClaimInv'
      <4>1. PICK claim : claim = admin[e].claim
        OBVIOUS
      <4>2. RowsOf(claim)' = RowsOf(claim) /\ Pending' = Pending /\ Present' = Present
        BY <3>6 DEF RowsOf, Pending, Present
      <4>3. /\ \A i \in RowsOf(claim)' : i = admin'[e].id /\ i \notin Pending'
            /\ admin'[e].id \in Present' => approval'[admin'[e].id].number \in {claim} \cup mixed'
        BY <2>1, <3>6, <4>1, <4>2 DEF ClaimInv, Claims
      <4>4. /\ e \in Working' =>
                   \/ admin'[e].row.number = claim
                   \/ admin'[e].row.number \in mixed' /\ RowsOf(claim)' = {}
            /\ admin'[e].pc # "recording" /\ claim \notin mixed' => started'[claim] = 0
        BY <2>1, <3>6, <4>1, <4>2
      <4>5. Claims(e)'
        BY <3>6, <4>1, <4>3, <4>4 DEF Claims, RowsOf
      <4>6. \A d \in InHand : d # e => admin[d].claim # admin'[e].claim
        BY <3>6 DEF ClaimInv
      <4>7. QED
        BY <3>5, <3>6, <4>5, <4>6
    <3>7. ASSUME Claim(e), admin[e].approve, admin[e].id \in Pending, e \in InHand',
                 admin'[e].pc = "reading", admin'[e].claim = approval[admin[e].id].number,
                 admin'[e].id = admin[e].id
          PROVE  ClaimInv'
      <4>1. PICK i : i = admin[e].id
        OBVIOUS
      <4>2. PICK n : n = approval[i].number
        OBVIOUS
      <4>3. /\ i \in Present /\ approval[i] \in Rows /\ Present' = Present
            /\ approval'[i] = [approval[i] EXCEPT !.status = Decided(e)]
            /\ approval'[i].number = n
        BY <2>2, <3>7, <4>1, <4>2, SetsOne
      <4>4. i \notin Pending'
        BY <3>7, <4>3 DEF Pending, Rows, Decided
      <4>5. \A j \in RowsOf(n)' : j = i /\ j \notin Pending'
        BY <2>1, <4>2, <4>3, <4>4 DEF RowsOf, Fewer, NumberInv
      <4>6. n \notin mixed => started'[n] = 0
        <5>1. started' = started
          BY <3>7 DEF Claim
        <5>2. QED
          BY <3>7, <4>1, <4>2, <5>1 DEF StartInv
      <4>7. e \notin Working'
        BY <3>7 DEF Working
      <4>8. Claims(e)'
        BY <2>1, <3>7, <4>1, <4>2, <4>3, <4>5, <4>6, <4>7 DEF Claims, RowsOf
      <4>9. \A d \in InHand : admin[d].claim # n
        BY <3>7, <4>1, <4>2, <4>3 DEF ClaimInv, Claims, RowsOf
      <4>10. QED
        BY <3>5, <3>7, <4>1, <4>2, <4>8, <4>9
    <3>8. ASSUME ReadRow(e), e \in InHand, admin[e].pc = "reading", admin[e].id \in Present,
                 admin'[e].pc = "starting", admin'[e].row = approval[admin[e].id],
                 admin'[e].claim = admin[e].claim, admin'[e].id = admin[e].id, e \in InHand'
          PROVE  ClaimInv'
      <4>1. approval' = approval /\ started' = started
        BY <3>8 DEF ReadRow
      <4>2. \/ admin'[e].row.number = admin[e].claim
            \/ admin'[e].row.number \in mixed /\ RowsOf(admin[e].claim) = {}
        BY <3>8 DEF ClaimInv, Claims, RowsOf
      <4>3. admin[e].claim \notin mixed => started'[admin[e].claim] = 0
        BY <3>8, <4>1 DEF ClaimInv, Claims
      <4>4. QED
        BY <3>6, <3>8, <4>1, <4>2, <4>3
    <3>9. ASSUME StartRun(e) \/ (StartRefused(e) /\ ~admin'[e].ok), e \in InHand, e \in Working,
                 admin'[e].pc = "recording", admin'[e].row = admin[e].row,
                 admin'[e].claim = admin[e].claim, admin'[e].id = admin[e].id, e \in InHand'
          PROVE  ClaimInv'
      <4>1. approval' = approval
        BY <3>9 DEF StartRun, StartRefused
      <4>2. \/ admin'[e].row.number = admin[e].claim
            \/ admin'[e].row.number \in mixed /\ RowsOf(admin[e].claim) = {}
        BY <3>9 DEF ClaimInv, Claims
      <4>3. admin'[e].ok => started'[admin'[e].row.number] > 0
        <5>1. CASE StartRun(e)
          <6>1. /\ started'[admin[e].row.number] = started[admin[e].row.number] + 1
                /\ admin[e].row.number \in Numbers
            BY <2>2, <5>1, OwnRuns
          <6>2. started[admin[e].row.number] \in Nat
            BY <6>1 DEF TypeOK
          <6>3. QED
            BY <3>9, <6>1, <6>2
        <5>2. QED
          BY <3>9, <5>1
      <4>4. QED
        BY <3>6, <3>9, <4>1, <4>2, <4>3
    <3>10. QED
      BY <2>2, <3>4, <3>7, <3>8, <3>9, MoverHas
  <2>3. CASE Crash
    <3>1. \A d \in Admins : admin'[d].pc \in {"idle", "looking"}
      BY <2>3 DEF Crash, Idle
    <3>2. InHand' = {}
      BY <3>1 DEF InHand
    <3>3. QED
      BY <3>2 DEF ClaimInv
  <2>4. CASE admin' = admin /\ started' = started
    <3>1. InHand' = InHand
      BY <2>4 DEF InHand
    <3>2. \A d \in InHand : Claims(d)'
      BY <2>1, <2>4, ClaimsKept DEF ClaimInv
    <3>3. QED
      BY <2>4, <3>1, <3>2 DEF ClaimInv
  <2>5. QED
    BY <2>2, <2>3, <2>4, Bystanders
<1>3. QED
  BY <1>1, <1>2 DEF Inserts

-----------------------------------------------------------------------------
(* What pages show. *)

LEMMA ShowsKept ==
  ASSUME NEW d \in Admins, Shows(d), Numbered,
         admin'[d].id = admin[d].id, admin'[d].shown = admin[d].shown,
         d \in Working => d \in Working',
         d \in Working' => admin'[d].row.number = admin[d].shown
  PROVE  Shows(d)'
<1>1. Present' = Present /\ \A i \in Present : approval'[i].number = approval[i].number
  BY DEF Numbered
<1>2. d \notin Working' => /\ \E j \in Present' : admin'[d].id <= j
                           /\ admin'[d].id \in Present' => approval'[admin'[d].id].number = admin'[d].shown
  BY <1>1 DEF Shows
<1>3. QED
  BY <1>2 DEF Shows

(* A page is shown, or its thread goes on with what it has. *)
LEMMA MoverShows ==
  ASSUME TypeOK, NEW d \in Admins, Moves(d), d \in Opened'
  PROVE  \/ \E i \in Ids : /\ ShowPage(d, i) /\ d \notin Working'
                           /\ admin'[d].id = i /\ admin'[d].shown = approval[i].number
         \/ /\ d \in Opened /\ (d \in outdated' <=> d \in outdated)
            /\ admin'[d].id = admin[d].id /\ admin'[d].shown = admin[d].shown
            /\ d \in Working => d \in Working'
            /\ d \in Working' => \/ d \in Working /\ admin'[d].row = admin[d].row
                                 \/ /\ d \notin Working /\ admin[d].id \in Present
                                    /\ admin'[d].row = approval[admin[d].id]
<1>1. ASSUME NEW next, AdminStep(d, next)
      PROVE  admin'[d] = next
  BY <1>1, OneAdmin DEF AdminStep
<1>2. ASSUME NEW i \in Ids, ShowPage(d, i)
      PROVE  d \notin Working' /\ admin'[d].id = i /\ admin'[d].shown = approval[i].number
  <2>1. admin'[d] = [pc |-> "looking", id |-> i, shown |-> approval[i].number]
    BY <1>1, <1>2 DEF ShowPage
  <2>2. QED
    BY <2>1 DEF Working
<1>3. ASSUME NEW yes \in BOOLEAN, PressButton(d, yes)
      PROVE  /\ d \in Opened /\ (d \in outdated' <=> d \in outdated)
             /\ d \notin Working /\ d \notin Working'
             /\ admin'[d].id = admin[d].id /\ admin'[d].shown = admin[d].shown
  <2>1. admin'[d] = [pc |-> "deciding", id |-> admin[d].id, shown |-> admin[d].shown, approve |-> yes]
    BY <1>1, <1>3 DEF PressButton
  <2>2. admin[d].pc = "looking"
    BY <1>3 DEF PressButton
  <2>3. outdated' = outdated
    BY <1>3 DEF PressButton, AdminStep
  <2>4. QED
    BY <2>1, <2>2, <2>3 DEF Opened, Idle, Working
<1>4. CASE d \notin InHand' /\ ~Claim(d) /\ Deciding(d)
  <2>1. admin'[d] = Idle
    <3>1. CASE TooLate(d) \/ RowGone(d) \/ RecordOutcome(d) \/ RecordRaises(d)
      BY <1>1, <3>1 DEF TooLate, RowGone, RecordOutcome, RecordRaises
    <3>2. CASE ReadRow(d)
      <4>1. CASE admin[d].approve
        <5>1. admin'[d] = [pc |-> "starting", id |-> admin[d].id, shown |-> admin[d].shown,
                           row |-> approval[admin[d].id], claim |-> admin[d].claim]
          BY <1>1, <3>2, <4>1 DEF ReadRow
        <5>2. QED
          BY <1>4, <5>1 DEF InHand
      <4>2. QED
        BY <1>1, <3>2, <4>1 DEF ReadRow
    <3>3. ASSUME NEW ok, ToRecord(d, ok)
          PROVE  FALSE
      <4>1. admin'[d] = [pc |-> "recording", id |-> admin[d].id, shown |-> admin[d].shown,
                         row |-> admin[d].row, ok |-> ok, claim |-> admin[d].claim]
        BY <1>1, <3>3 DEF ToRecord
      <4>2. QED
        BY <1>4, <4>1 DEF InHand
    <3>4. QED
      BY <1>4, <3>1, <3>2, <3>3 DEF Deciding, StartRun, StartRefused
  <2>2. QED
    BY <2>1 DEF Opened
<1>5. CASE Claim(d)
  <2>1. admin'[d] = [pc |-> "reading", id |-> admin[d].id, shown |-> admin[d].shown,
                     approve |-> admin[d].approve, claim |-> approval[admin[d].id].number]
    BY <1>1, <1>5 DEF Claim
  <2>2. admin[d].pc = "deciding"
    BY <1>5 DEF Claim
  <2>3. outdated' = outdated
    BY <1>5 DEF Claim, AdminStep
  <2>4. QED
    BY <2>1, <2>2, <2>3 DEF Opened, Idle, Working
<1>6. CASE d \in InHand'
  <2>1. admin[d].pc \in {"deciding", "reading", "starting"} /\ outdated' = outdated
    <3>1. admin'[d].pc \notin {"idle", "looking"}
      BY <1>6 DEF InHand
    <3>2. QED
      BY <1>6, <3>1, MoverHas, MovesAlone
  <2>2. d \in Opened
    BY <2>1 DEF Opened, Idle
  <2>3. QED
    BY <1>6, <2>1, <2>2, MoverHas DEF Working
<1>7. QED
  BY <1>2, <1>3, <1>4, <1>5, <1>6 DEF Moves

LEMMA ShownStep ==
  ASSUME TypeOK, ShownInv, [Next]_vars
  PROVE  ShownInv'
<1>1. ASSUME NEW d \in Opened
      PROVE  d \in Admins /\ admin[d].id \in Ids
  BY <1>1 DEF Opened, Idle, TypeOK, AdminStates
<1>2. ASSUME NEW d \in Opened \ outdated, admin'[d] = admin[d], Numbered
      PROVE  Shows(d)'
  <2>1. d \in Working' <=> d \in Working
    BY <1>1, <1>2 DEF Working
  <2>2. Shows(d)
    BY DEF ShownInv
  <2>3. QED
    BY <1>1, <1>2, <2>1, <2>2, ShowsKept DEF Shows
<1>3. ASSUME NEW gone, approval' = [i \in Ids |-> IF i \in gone THEN NoRow ELSE approval[i]],
             admin' = admin, IdsFreed
      PROVE  ShownInv'
  <2>1. Present' = Present \ gone /\ \A i \in Present' : approval'[i] = approval[i]
    BY <1>3, RowsGo
  <2>2. outdated \subseteq outdated' /\ Opened' = Opened /\ Working' = Working
    BY <1>3 DEF IdsFreed, Opened, Working
  <2>3. ASSUME NEW d \in Opened, d \notin outdated'
        PROVE  Shows(d)'
    <3>1. Shows(d) /\ admin[d].id \in Ids
      BY <1>1, <2>2, <2>3 DEF ShownInv
    <3>2. ASSUME d \notin Working
          PROVE  \E j \in Present' : admin[d].id <= j
      <4>1. PICK j \in Present' : ~(j < admin[d].id)
        BY <1>3, <2>3, <3>2 DEF IdsFreed
      <4>2. j \in Ids
        BY DEF Present
      <4>3. QED
        BY <3>1, <4>1, <4>2 DEF Ids
    <3>3. d \notin Working /\ admin[d].id \in Present' => approval'[admin[d].id].number = admin[d].shown
      BY <2>1, <3>1 DEF Shows
    <3>4. d \in Working => admin[d].row.number = admin[d].shown
      BY <3>1 DEF Shows
    <3>5. QED
      BY <1>3, <2>2, <3>2, <3>3, <3>4 DEF Shows
  <2>4. QED
    BY <2>2, <2>3 DEF ShownInv
<1>4. ASSUME NEW c \in Callers, Prune(c)
      PROVE  ShownInv'
  <2>1. PICK gone : gone = {i \in Ids : i + Keep <= caller[c].id}
    OBVIOUS
  <2>2. /\ approval' = [i \in Ids |-> IF i \in gone THEN NoRow ELSE approval[i]]
        /\ admin' = admin /\ IdsFreed
    BY <1>4, <2>1 DEF Prune, CallerStep
  <2>3. QED
    BY <1>3, <2>2
<1>5. ASSUME NEW c \in Callers, NEW i \in Ids, Insert(c, i)
      PROVE  ShownInv'
  <2>1. /\ \A j \in Ids \ {i} : approval'[j] = approval[j]
        /\ Present' = Present \cup {i} /\ \A j \in Present : j < i
    BY <1>5, InsertIs
  <2>2. admin' = admin /\ outdated' = outdated
    BY <1>5 DEF Insert, CallerStep
  <2>3. ASSUME NEW d \in Opened \ outdated
        PROVE  Shows(d)'
    <3>1. Shows(d) /\ admin[d].id \in Ids
      BY <1>1 DEF ShownInv
    <3>2. ASSUME d \notin Working
          PROVE  /\ \E j \in Present' : admin[d].id <= j
                 /\ admin[d].id \in Present' => approval'[admin[d].id].number = admin[d].shown
      <4>1. PICK j \in Present : admin[d].id <= j
        BY <3>1, <3>2 DEF Shows
      <4>2. j \in Ids /\ j < i
        BY <2>1 DEF Present
      <4>3. admin[d].id # i
        BY <3>1, <4>1, <4>2 DEF Ids
      <4>4. QED
        BY <2>1, <3>1, <3>2, <4>1, <4>3 DEF Shows
    <3>3. d \in Working => admin[d].row.number = admin[d].shown
      BY <3>1 DEF Shows
    <3>4. Working' = Working
      BY <2>2 DEF Working
    <3>5. QED
      BY <2>2, <3>2, <3>3, <3>4 DEF Shows
  <2>4. QED
    BY <2>2, <2>3 DEF ShownInv, Opened
<1>6. ASSUME NEW e \in Admins, Moves(e)
      PROVE  ShownInv'
  <2>1. Numbered
    BY <1>6, MovesNumbered
  <2>2. ASSUME NEW d \in Opened', d \notin outdated', d # e
        PROVE  Shows(d)'
    <3>1. d \in Opened \ outdated /\ admin'[d] = admin[d]
      BY <1>6, <2>2, MovesAlone DEF Opened
    <3>2. QED
      BY <1>2, <2>1, <3>1
  <2>3. ASSUME e \in Opened', e \notin outdated'
        PROVE  Shows(e)'
    <3>1. ASSUME NEW i \in Ids, ShowPage(e, i), e \notin Working',
                 admin'[e].id = i, admin'[e].shown = approval[i].number
          PROVE  Shows(e)'
      <4>1. i \in Present' /\ approval'[i].number = approval[i].number
        BY <2>1, <3>1 DEF ShowPage, Numbered
      <4>2. i <= i
        BY DEF Ids
      <4>3. QED
        BY <3>1, <4>1, <4>2 DEF Shows
    <3>2. ASSUME e \in Opened, e \in outdated' <=> e \in outdated,
                 admin'[e].id = admin[e].id, admin'[e].shown = admin[e].shown,
                 e \in Working => e \in Working',
                 e \in Working' => \/ e \in Working /\ admin'[e].row = admin[e].row
                                   \/ /\ e \notin Working /\ admin[e].id \in Present
                                      /\ admin'[e].row = approval[admin[e].id]
          PROVE  Shows(e)'
      <4>1. Shows(e)
        BY <2>3, <3>2 DEF ShownInv
      <4>2. e \in Working' => admin'[e].row.number = admin[e].shown
        BY <3>2, <4>1 DEF Shows
      <4>3. QED
        BY <2>1, <3>2, <4>1, <4>2, ShowsKept
    <3>3. QED
      BY <1>6, <2>3, <3>1, <3>2, MoverShows
  <2>4. QED
    BY <2>2, <2>3 DEF ShownInv
<1>7. CASE Crash
  <2>1. Numbered
    BY <1>7, MostAge, AgesNumbered
  <2>2. ASSUME NEW d \in Opened', d \notin outdated'
        PROVE  d \in Opened \ outdated /\ admin'[d] = admin[d]
    <3>1. admin'[d] = IF admin[d].pc = "looking" THEN admin[d] ELSE Idle
      BY <1>7, <2>2 DEF Crash, Opened
    <3>2. QED
      BY <1>7, <2>2, <3>1 DEF Crash, Opened
  <2>3. QED
    BY <1>2, <2>1, <2>2 DEF ShownInv
<1>8. ASSUME Numbered, admin' = admin, outdated' = outdated
      PROVE  ShownInv'
  BY <1>2, <1>8 DEF ShownInv, Opened
<1>9. CASE \/ \E c \in Callers : Quiet(c)
           \/ \E c \in Callers, a \in Agents, k \in Asks : Ask(c, a, k)
           \/ \E i \in Ids : Lapse(i)
           \/ ExpireStale
           \/ \E a \in Agents, i \in AgentIds : CreateAgent(a, i)
  <2>1. Numbered
    BY <1>9, MostAge, AgesNumbered
  <2>2. admin' = admin /\ outdated' = outdated
    BY <1>9 DEF Quiet, AnswerWithoutRow, LookFirst, CreateRaises, Ask, CallerStep, Lapse, ExpireStale,
                CreateAgent, Unaffected
  <2>3. QED
    BY <1>8, <2>1, <2>2
<1>10. ASSUME NEW c \in Callers, Creating(c)
       PROVE  ShownInv'
  BY <1>4, <1>5, <1>9, <1>10 DEF Creating, Quiet
<1>11. ASSUME NEW a \in Agents, DeleteAgent(a)
       PROVE  ShownInv'
  <2>1. PICK gone : gone = {i \in Present : approval[i].agent = agentId[a]}
    OBVIOUS
  <2>2. /\ approval' = [i \in Ids |-> IF i \in gone THEN NoRow ELSE approval[i]]
        /\ admin' = admin /\ IdsFreed
    BY <1>11, <2>1 DEF DeleteAgent, Unaffected
  <2>3. QED
    BY <1>3, <2>2
<1>12. CASE Next
  BY <1>6, <1>7, <1>9, <1>10, <1>11, <1>12 DEF Next, Moves
<1>13. CASE UNCHANGED vars
  BY <1>8, <1>13 DEF vars, Numbered, Present
<1>14. QED
  BY <1>12, <1>13

-----------------------------------------------------------------------------
(* The inductive invariant. *)

LEMMA IInvInit == Init => IInv
<1> SUFFICES ASSUME Init
             PROVE  IInv
  OBVIOUS
<1>1. TypeOK
  BY TypeInit
<1>2. /\ Present = {} /\ Pending = {} /\ Working = {} /\ InHand = {} /\ Opened = {} /\ mixed = {}
      /\ \A c \in Callers : caller[c].pc = "idle" /\ createLock # c
  BY NobodyIsNoCaller DEF Init, Idle, Present, Pending, Working, InHand, Opened
<1>3. LookInv /\ NumberInv /\ ClaimInv /\ ShownInv
  BY <1>2 DEF LookInv, NumberInv, ClaimInv, ShownInv
<1>4. StartInv
  BY <1>2 DEF Init, StartInv
<1>5. QED
  BY <1>1, <1>3, <1>4 DEF IInv

LEMMA IInvStep ==
  ASSUME IInv, [Next]_vars
  PROVE  IInv'
BY TypeStep, LookStep, NumberStep, StartStep, ClaimStep, ShownStep DEF IInv

(* The table, the lock and the threads are of the kind TypeOK says, at any   *)
(* number of callers and admins.                                             *)
THEOREM TypeCorrect == Spec => []TypeOK
<1>1. Init => TypeOK
  BY TypeInit
<1>2. TypeOK /\ [Next]_vars => TypeOK'
  BY TypeStep
<1>3. QED
  BY <1>1, <1>2, PTL DEF Spec

(* No agent has the same request waiting twice, nor more than the cap,       *)
(* whoever asks at once and whenever an agent is deleted, whose id another   *)
(* may then have: approvals.create looks and records under one lock.         *)
THEOREM WaitsOnce == Spec => [](WaitingOnce /\ WaitingFew)
<1>1. Init => TypeOK /\ LookInv /\ WaitingOnce /\ WaitingFew
  <2> SUFFICES ASSUME Init
               PROVE  TypeOK /\ LookInv /\ WaitingOnce /\ WaitingFew
    OBVIOUS
  <2>1. Pending = {} /\ \A agent \in AgentIds : Waiting(agent) = {}
    BY DEF Init, Waiting, Pending, Present
  <2>2. WaitingFew
    BY <2>1, FS_EmptySet, BoundsAreNumbers DEF WaitingFew
  <2>3. LookInv
    BY NobodyIsNoCaller DEF Init, LookInv, Idle
  <2>4. QED
    BY <2>1, <2>2, <2>3, TypeInit DEF WaitingOnce
<1>2. TypeOK /\ LookInv /\ WaitingOnce /\ WaitingFew /\ [Next]_vars
         => (TypeOK /\ LookInv /\ WaitingOnce /\ WaitingFew)'
  BY TypeStep, LookStep, WaitingStep
<1>3. QED
  BY <1>1, <1>2, PTL DEF Spec

(* The lock keeps what a caller has looked at, a request is claimed by one   *)
(* thread, and what has the id a thread knows is that request or mixed up    *)
(* with it: approvals.create and approvals.decide.                           *)
LEMMA Inductive == Spec => []IInv
<1>1. Init => IInv
  BY IInvInit
<1>2. IInv /\ [Next]_vars => IInv'
  BY IInvStep
<1>3. QED
  BY <1>1, <1>2, PTL DEF Spec

-----------------------------------------------------------------------------
(* Approving starts what was shown (README.md:169-170), whatever is asked,   *)
(* decided, pruned or dies meanwhile, and whichever agents are deleted: also *)
(* between the claim and the read of the row.  Only where the request shown  *)
(* was the newest there was when it went with its agent, before its row was  *)
(* read, does the page, or the thread, start the one that has its id next.   *)
THEOREM StartsAsShown == Spec => StartsWhatWasShown
<1>1. ASSUME IInv, NEW d \in Admins, admin[d].pc = "starting"
      PROVE  admin[d].row.number = admin[d].shown \/ d \in outdated
  BY <1>1 DEF IInv, ShownInv, Shows, Opened, Idle, Working
<1>2. IInv => \A d \in Admins : admin[d].pc = "starting" =>
                 admin[d].row.number = admin[d].shown \/ d \in outdated
  BY <1>1
<1>3. IInv /\ [Next]_vars =>
         [\A d \in Admins :
             (admin[d].pc = "starting" /\ admin'[d].pc = "recording" /\ started' # started)
             => admin[d].row.number = admin[d].shown \/ d \in outdated]_vars
  BY <1>2
<1>4. QED
  BY <1>3, Inductive, PTL DEF Spec, StartsWhatWasShown

-----------------------------------------------------------------------------
(* The requests as ApprovalDesk sees them.                                   *)

Entry == [i \in Ids |-> [agent |-> approval[i].agent, ask |-> approval[i].ask,
                         status |-> approval[i].status, run |-> approval[i].run]]

(* Each row is one request, and each request on the desk is a row. *)
Mirrors ==
    /\ \A i \in Present : /\ approval[i].number \in Numbers /\ i \in Ids
                          /\ Requested[approval[i].number] = Entry[i]
                          /\ Requested[approval[i].number] # NoRow
    /\ \A n \in Numbers : Requested[n] # NoRow => \E i \in Present : approval[i].number = n
    /\ \A i, j \in Present : approval[i].number = approval[j].number => i = j

LEMMA MirrorsNow == IInv => Mirrors
<1> SUFFICES ASSUME IInv
             PROVE  Mirrors
  OBVIOUS
<1>1. \A i \in Present : i \in Ids /\ approval[i].number \in Numbers
  BY RowTypes DEF IInv, Present
<1>2. \A i, j \in Present : approval[i].number = approval[j].number => i = j
  BY DEF IInv, NumberInv
<1>3. ASSUME NEW i \in Present
      PROVE  Requested[approval[i].number] = Entry[i] /\ Entry[i] # NoRow
  <2>1. RowsOf(approval[i].number) = {i}
    BY <1>2 DEF RowsOf
  <2>2. Requested[approval[i].number] = Entry[i]
    BY <1>1, <2>1 DEF Requested, Entry
  <2>3. Entry[i] \in Desk!Requests
    BY <1>1, RowTypes DEF IInv, Present, Entry, Desk!Requests, Desk!Statuses, Statuses
  <2>4. QED
    BY <2>2, <2>3, NoRowIsNoRequest
<1>4. \A n \in Numbers : Requested[n] # NoRow => \E i \in Present : approval[i].number = n
  BY DEF Requested, RowsOf
<1>5. QED
  BY <1>1, <1>2, <1>3, <1>4 DEF Mirrors

LEMMA MirrorsNext == IInv' => Mirrors'
BY MirrorsNow, PTL

(* What waits on the desk is what waits in the table. *)
LEMMA SameWait ==
  ASSUME Mirrors, NEW i \in Present
  PROVE  /\ approval[i].number \in Desk!On
         /\ approval[i].number \in Desk!Pending <=> i \in Pending
         /\ Entry[i].agent = approval[i].agent /\ Entry[i].ask = approval[i].ask
         /\ Entry[i].status = approval[i].status /\ Entry[i].run = approval[i].run
<1>1. approval[i].number \in Numbers /\ Requested[approval[i].number] = Entry[i]
      /\ Requested[approval[i].number] # NoRow /\ i \in Ids
  BY DEF Mirrors
<1>2. /\ Entry[i].agent = approval[i].agent /\ Entry[i].ask = approval[i].ask
      /\ Entry[i].status = approval[i].status /\ Entry[i].run = approval[i].run
  BY <1>1 DEF Entry
<1>3. QED
  BY <1>1, <1>2 DEF Desk!On, Desk!Pending, Pending

(* Requests that age on the desk: some of the waiting expire. *)
LEMMA DeskAges ==
  ASSUME TypeOK, Mirrors, Mirrors', Ages
  PROVE  \E some \in SUBSET Numbers :
            /\ some \subseteq Desk!Pending
            /\ Requested' = [n \in Numbers |-> IF n \in some THEN [Requested[n] EXCEPT !.status = "expired"]
                                               ELSE Requested[n]]
<1> DEFINE some == {n \in Numbers : \E i \in Present : /\ approval[i].number = n
                                                       /\ approval'[i].status # approval[i].status}
<1>1. Present' = Present /\ \A i \in Present : approval'[i].number = approval[i].number /\ i \in Ids
  BY AgedRows DEF Present
<1>2. ASSUME NEW i \in Present, approval'[i].status # approval[i].status
      PROVE  i \in Pending /\ Entry'[i] = [Entry[i] EXCEPT !.status = "expired"]
  <2>1. i \in Ids /\ approval'[i] # approval[i]
    BY <1>1, <1>2
  <2>2. /\ i \in Pending /\ approval'[i].agent = approval[i].agent /\ approval'[i].ask = approval[i].ask
        /\ approval'[i].run = approval[i].run /\ approval'[i].status \in {"pending", "expired"}
    BY <2>1 DEF Ages
  <2>3. approval'[i].status = "expired"
    BY <1>2, <2>2 DEF Pending
  <2>4. QED
    BY <2>1, <2>2, <2>3 DEF Entry
<1>3. ASSUME NEW i \in Present, approval'[i].status = approval[i].status
      PROVE  Entry'[i] = Entry[i]
  BY <1>1, <1>3, AgedRows DEF Entry
<1>4. some \subseteq Desk!Pending
  BY <1>2, SameWait
<1>5. ASSUME NEW n \in Numbers
      PROVE  Requested'[n] = IF n \in some THEN [Requested[n] EXCEPT !.status = "expired"] ELSE Requested[n]
  <2>1. CASE \E i \in Present : approval[i].number = n
    <3>1. PICK i \in Present : approval[i].number = n
      BY <2>1
    <3>2. Requested[n] = Entry[i] /\ Requested'[n] = Entry'[i]
      BY <1>1, <3>1 DEF Mirrors
    <3>3. n \in some <=> approval'[i].status # approval[i].status
      BY <3>1 DEF Mirrors
    <3>4. QED
      BY <1>2, <1>3, <3>2, <3>3
  <2>2. CASE ~\E i \in Present : approval[i].number = n
    BY <1>1, <2>2 DEF Mirrors
  <2>3. QED
    BY <2>1, <2>2
<1>6. Requested' = [n \in Numbers |-> Requested'[n]]
  BY DEF Requested
<1> HIDE DEF some
<1>7. Requested' = [n \in Numbers |-> IF n \in some THEN [Requested[n] EXCEPT !.status = "expired"]
                                      ELSE Requested[n]]
  BY <1>5, <1>6
<1>8. some \in SUBSET Numbers
  BY DEF some
<1>9. QED
  BY <1>4, <1>7, <1>8

(* One row changes. *)
LEMMA DeskOne ==
  ASSUME Mirrors, Mirrors', NEW i \in Present, Present' = Present,
         approval'[i].number = approval[i].number,
         \A j \in Present \ {i} : approval'[j] = approval[j]
  PROVE  Requested' = [Requested EXCEPT ![approval[i].number] = Entry'[i]]
<1>1. ASSUME NEW n \in Numbers
      PROVE  Requested'[n] = IF n = approval[i].number THEN Entry'[i] ELSE Requested[n]
  <2>1. CASE n = approval[i].number
    BY <2>1 DEF Mirrors
  <2>2. ASSUME n # approval[i].number, NEW j \in Present, approval[j].number = n
        PROVE  Requested'[n] = Requested[n]
    <3>1. approval'[j] = approval[j] /\ j \in Ids
      BY <2>2 DEF Mirrors
    <3>2. Requested'[n] = Entry'[j] /\ Requested[n] = Entry[j]
      BY <2>2, <3>1 DEF Mirrors
    <3>3. QED
      BY <3>1, <3>2 DEF Entry
  <2>3. CASE ~\E j \in Present : approval[j].number = n
    <3>1. \A j \in Present : approval'[j].number = approval[j].number
      OBVIOUS
    <3>2. QED
      BY <2>3, <3>1 DEF Mirrors
  <2>4. QED
    BY <2>1, <2>2, <2>3
<1>2. QED
  BY <1>1 DEF Requested

(* Rows go. *)
LEMMA DeskGo ==
  ASSUME TypeOK, Mirrors, Mirrors', NEW gone,
         approval' = [i \in Ids |-> IF i \in gone THEN NoRow ELSE approval[i]]
  PROVE  \E some \in SUBSET Numbers :
            /\ some \subseteq Desk!On
            /\ Requested' = [n \in Numbers |-> IF n \in some THEN NoRow ELSE Requested[n]]
<1> DEFINE some == {n \in Numbers : \E i \in Present : i \in gone /\ approval[i].number = n}
<1>1. Present' = Present \ gone /\ \A i \in Present' : approval'[i] = approval[i]
  BY RowsGo
<1>2. some \subseteq Desk!On
  BY SameWait
<1>3. ASSUME NEW n \in Numbers
      PROVE  Requested'[n] = IF n \in some THEN NoRow ELSE Requested[n]
  <2>1. ASSUME NEW i \in Present, approval[i].number = n, i \in gone
        PROVE  Requested'[n] = NoRow /\ n \in some
    <3>1. \A j \in Present' : approval'[j].number # n
      BY <1>1, <2>1 DEF Mirrors
    <3>2. QED
      BY <2>1, <3>1 DEF Mirrors
  <2>2. ASSUME NEW i \in Present, approval[i].number = n, i \notin gone
        PROVE  Requested'[n] = Requested[n] /\ n \notin some
    <3>1. i \in Present' /\ approval'[i] = approval[i] /\ i \in Ids
      BY <1>1, <2>2 DEF Mirrors
    <3>2. Requested'[n] = Entry'[i] /\ Requested[n] = Entry[i]
      BY <2>2, <3>1 DEF Mirrors
    <3>3. n \notin some
      BY <2>2 DEF Mirrors
    <3>4. QED
      BY <3>1, <3>2, <3>3 DEF Entry
  <2>3. CASE ~\E i \in Present : approval[i].number = n
    BY <1>1, <2>3 DEF Mirrors
  <2>4. QED
    BY <2>1, <2>2, <2>3
<1>4. Requested' = [n \in Numbers |-> IF n \in some THEN NoRow ELSE Requested[n]]
  BY <1>3 DEF Requested
<1>5. QED
  BY <1>2, <1>4

-----------------------------------------------------------------------------
(* Who has which request in hand.                                            *)

LEMMA OthersHold ==
  ASSUME TypeOK, NEW d \in Admins, Moves(d)
  PROVE  \A e \in Admins \ {d} : (e \in InHand' <=> e \in InHand) /\ admin'[e] = admin[e]
BY MovesAlone DEF InHand

LEMMA HandSame ==
  ASSUME TypeOK, NEW d \in Admins, Moves(d), d \in InHand' <=> d \in InHand,
         d \in InHand => admin'[d].claim = admin[d].claim
  PROVE  InDecision' = InDecision
<1>1. \A e \in Admins : (e \in InHand' <=> e \in InHand)
                        /\ (e \in InHand => admin'[e].claim = admin[e].claim)
  BY OthersHold
<1>2. InHand \subseteq Admins /\ InHand' \subseteq Admins
  BY DEF InHand
<1>3. QED
  BY <1>1, <1>2 DEF InDecision

(* No two threads have the same one. *)
LEMMA HandLess ==
  ASSUME TypeOK, ClaimInv, NEW d \in InHand, Moves(d), d \notin InHand'
  PROVE  /\ InDecision' = InDecision \ {admin[d].claim}
         /\ admin[d].claim \in InDecision /\ admin[d].claim \in Numbers
<1>1. InHand \subseteq Admins /\ InHand' \subseteq Admins
  BY DEF InHand
<1>2. \A e \in InHand' : e # d /\ e \in InHand /\ admin'[e] = admin[e]
  BY <1>1, OthersHold
<1>3. \A e \in InHand \ {d} : e \in InHand' /\ admin'[e] = admin[e] /\ admin[e].claim # admin[d].claim
  BY <1>1, OthersHold DEF ClaimInv
<1>4. QED
  BY <1>1, <1>2, <1>3, HandParts DEF InDecision

LEMMA HandMore ==
  ASSUME TypeOK, NEW d \in Admins, d \notin InHand, Moves(d), d \in InHand'
  PROVE  InDecision' = InDecision \cup {admin'[d].claim}
<1>1. InHand \subseteq Admins /\ InHand' \subseteq Admins
  BY DEF InHand
<1>2. \A e \in Admins \ {d} : (e \in InHand' <=> e \in InHand) /\ admin'[e] = admin[e]
  BY OthersHold
<1>3. QED
  BY <1>1, <1>2 DEF InDecision

LEMMA HandNumbers ==
  ASSUME TypeOK
  PROVE  InDecision \in SUBSET Numbers
BY HandParts DEF InDecision

(* A request that a thread has claimed and that has no row is astray. *)
LEMMA IsAstray ==
  ASSUME TypeOK, Mirrors, NEW d \in InHand, RowsOf(admin[d].claim) = {}
  PROVE  Desk!Astray /\ admin[d].claim \notin Desk!On
<1>1. PICK claim : claim = admin[d].claim
  OBVIOUS
<1>2. claim \in Numbers /\ claim \in InDecision
  BY <1>1, HandParts DEF InDecision
<1>3. Requested[claim] = NoRow
  BY <1>1, <1>2 DEF Requested
<1>4. claim \notin Desk!On
  BY <1>3 DEF Desk!On
<1>5. QED
  BY <1>1, <1>2, <1>4 DEF Desk!Astray

-----------------------------------------------------------------------------
(* Each step is one of the desk's, or none.                                  *)

LEMMA CalmStep ==
  ASSUME IInv, IInv', Ages, UNCHANGED <<made, started, mixed>>, InDecision' = InDecision
  PROVE  Desk!Next
<1>1. PICK some \in SUBSET Numbers :
         /\ some \subseteq Desk!Pending
         /\ Requested' = [n \in Numbers |-> IF n \in some THEN [Requested[n] EXCEPT !.status = "expired"]
                                            ELSE Requested[n]]
  BY DeskAges, MirrorsNow, MirrorsNext DEF IInv
<1>2. Desk!Expire(some)
  BY <1>1 DEF Desk!Expire
<1>3. QED
  BY <1>2 DEF Desk!Next

(* Steps that enter, decide and start nothing. *)
LEMMA CalmSteps ==
  ASSUME IInv, IInv',
         \/ UNCHANGED vars
         \/ \E c \in Callers : Quiet(c) \/ \E a \in Agents, k \in Asks : Ask(c, a, k)
         \/ \E i \in Ids : Lapse(i)
         \/ ExpireStale
         \/ \E a \in Agents, i \in AgentIds : CreateAgent(a, i)
  PROVE  Desk!Next
<1>1. Ages
  BY MostAge, SameAges DEF IInv, vars
<1>2. UNCHANGED <<admin, made, started, mixed>>
  BY DEF Quiet, AnswerWithoutRow, LookFirst, CreateRaises, Ask, CallerStep, Lapse, ExpireStale, CreateAgent,
         Unaffected, vars
<1>3. InDecision' = InDecision
  BY <1>2 DEF InDecision, InHand
<1>4. QED
  BY <1>1, <1>2, <1>3, CalmStep

(* Those of an admin's thread: what it has in hand it keeps. *)
LEMMA CalmMoves ==
  ASSUME IInv, IInv', NEW d \in Admins,
         \/ \E i \in Ids : ShowPage(d, i)
         \/ \E yes \in BOOLEAN : PressButton(d, yes)
         \/ TooLate(d) \/ ReadRow(d) \/ StartRefused(d)
  PROVE  Desk!Next
<1>1. TypeOK /\ Ages /\ Moves(d)
  BY MostAge DEF IInv, Still, Moves, Deciding
<1>2. UNCHANGED <<made, started, mixed>> /\ ~Claim(d)
  <2>1. started' = started
    BY DEF ShowPage, PressButton, TooLate, ReadRow, StartRefused
  <2>2. admin[d].pc = "deciding" => TooLate(d)
    BY DEF ShowPage, PressButton, ReadRow, StartRefused
  <2>3. QED
    BY <1>1, <2>1, <2>2, MovesAlone DEF Claim, TooLate
<1>3. d \in InHand' => d \in InHand /\ admin'[d].claim = admin[d].claim
  BY <1>1, <1>2, MoverHas
<1>4. d \in InHand => d \in InHand'
  <2>1. SUFFICES ASSUME d \in InHand
                 PROVE  d \in InHand'
    OBVIOUS
  <2>2. CASE ReadRow(d)
    <3>1. admin'[d] = [pc |-> "starting", id |-> admin[d].id, shown |-> admin[d].shown,
                       row |-> approval[admin[d].id], claim |-> admin[d].claim]
      BY <1>1, <2>1, <2>2, OneAdmin DEF ReadRow, AdminStep, InHand
    <3>2. QED
      BY <3>1 DEF InHand
  <2>3. CASE StartRefused(d)
    <3>1. admin'[d] = [pc |-> "recording", id |-> admin[d].id, shown |-> admin[d].shown,
                       row |-> admin[d].row, ok |-> FALSE, claim |-> admin[d].claim]
      BY <1>1, <2>3, OneAdmin DEF StartRefused, ToRecord, AdminStep
    <3>2. QED
      BY <3>1 DEF InHand
  <2>4. QED
    BY <2>1, <2>2, <2>3 DEF InHand, ShowPage, PressButton, TooLate
<1>5. InDecision' = InDecision
  BY <1>1, <1>3, <1>4, HandSame
<1>6. QED
  BY <1>1, <1>2, <1>5, CalmStep

(* An approval's outcome is never noted. *)
LEMMA LostSteps ==
  ASSUME IInv, IInv',
         Crash \/ \E d \in Admins : RecordRaises(d) \/ RowGone(d)
  PROVE  Desk!Next
<1>1. UNCHANGED <<made, started, mixed>> /\ Requested' = Requested
  <2>1. UNCHANGED <<approval, made, started, mixed>>
    BY DEF Crash, RecordRaises, RowGone, AdminStep
  <2>2. QED
    BY <2>1 DEF Requested, RowsOf, Present
<1>2. InDecision' \subseteq InDecision
  <2>1. CASE Crash
    <3>1. \A d \in Admins : admin'[d].pc \in {"idle", "looking"}
      BY <2>1 DEF Crash, Idle
    <3>2. QED
      BY <3>1 DEF InDecision, InHand
  <2>2. ASSUME NEW d \in Admins, RecordRaises(d) \/ RowGone(d)
        PROVE  InDecision' \subseteq InDecision
    <3>1. Moves(d) /\ TypeOK
      BY <2>2 DEF Moves, Deciding, IInv
    <3>2. admin'[d] = Idle
      BY <2>2, <3>1, OneAdmin DEF RecordRaises, RowGone, AdminStep
    <3>3. d \notin InHand'
      BY <3>2 DEF InHand, Idle
    <3>4. \A e \in InHand' : e \in InHand /\ admin'[e] = admin[e]
      <4>1. InHand' \subseteq Admins
        BY DEF InHand
      <4>2. QED
        BY <3>1, <3>3, <4>1, OthersHold
    <3>5. QED
      BY <3>4 DEF InDecision
  <2>3. QED
    BY <2>1, <2>2
<1>3. PICK some : some = InDecision \ InDecision'
  OBVIOUS
<1>4. Desk!LetGo(some) /\ some \in SUBSET Numbers
  BY <1>1, <1>2, <1>3, HandNumbers DEF Desk!LetGo, IInv
<1>5. QED
  BY <1>4 DEF Desk!Next

LEMMA RunNoted ==
  ASSUME NEW r \in [agent : AgentIds, ask : Asks, status : Statuses, run : BOOLEAN], NEW run
  PROVE  [r EXCEPT !.run = run] = [agent |-> r.agent, ask |-> r.ask, status |-> r.status, run |-> run]
OBVIOUS

(* The outcome goes to what has the id by then. *)
LEMMA OutcomeNoted ==
  ASSUME IInv, IInv', NEW d \in Admins, RecordOutcome(d), admin[d].id \in Present,
         NEW m, m = approval[admin[d].id].number
  PROVE  /\ m \in Numbers /\ m \in Desk!On
         /\ Requested' = IF admin[d].ok THEN [Requested EXCEPT ![m].run = TRUE]
                         ELSE [Requested EXCEPT ![m].status = "failed"]
         /\ ~admin[d].ok => Requested'[m].run = Requested[m].run
<1> DEFINE i == admin[d].id
<1>1. TypeOK /\ Mirrors /\ Mirrors' /\ i \in Ids
  BY MirrorsNow, MirrorsNext DEF IInv, Present
<1>2. /\ approval[i] \in Rows /\ Present' = Present
      /\ approval'[i] = WithOutcome(approval[i], admin[d].ok)
      /\ \A j \in Present \ {i} : approval'[j] = approval[j]
      /\ approval'[i].number = m
  BY <1>1, SetsOne DEF Present
<1>3. Requested' = [Requested EXCEPT ![m] = Entry'[i]] /\ Requested[m] = Entry[i] /\ m \in Desk!On
      /\ m \in Numbers
  BY <1>1, <1>2, DeskOne, SameWait DEF Mirrors
<1>4. CASE admin[d].ok
  <2>1. approval'[i] = [approval[i] EXCEPT !.run = TRUE]
    BY <1>2, <1>4 DEF WithOutcome
  <2>2. Entry'[i] = [Entry[i] EXCEPT !.run = TRUE]
    <3>1. /\ approval'[i].agent = approval[i].agent /\ approval'[i].ask = approval[i].ask
          /\ approval'[i].status = approval[i].status /\ approval'[i].run = TRUE
      BY <1>2, <2>1 DEF Rows
    <3>2. Entry'[i] = [agent |-> Entry[i].agent, ask |-> Entry[i].ask,
                       status |-> Entry[i].status, run |-> TRUE]
      BY <1>1, <3>1, Zenon DEF Entry
    <3>3. Entry[i] \in [agent : AgentIds, ask : Asks, status : Statuses, run : BOOLEAN]
      BY <1>1, <1>2 DEF Entry, Rows
    <3>4. QED
      BY <3>2, <3>3, RunNoted
  <2>3. QED
    BY <1>3, <1>4, <2>2
<1>5. CASE ~admin[d].ok
  <2>1. approval'[i] = [approval[i] EXCEPT !.status = "failed"]
    BY <1>2, <1>5 DEF WithOutcome
  <2>2. Entry'[i] = [Entry[i] EXCEPT !.status = "failed"] /\ Entry'[i].run = Entry[i].run
    BY <1>1, <1>2, <2>1 DEF Entry, Rows
  <2>3. Requested'[m] = Entry'[i]
    BY <1>1, <1>2 DEF Mirrors
  <2>4. QED
    BY <1>3, <1>5, <2>2, <2>3
<1>6. QED
  BY <1>4, <1>5

LEMMA OutcomeStep ==
  ASSUME IInv, IInv', NEW d \in Admins, RecordOutcome(d)
  PROVE  Desk!Next
<1>1. PICK n : n = admin[d].claim
  OBVIOUS
<1>2. TypeOK /\ Mirrors /\ ClaimInv /\ d \in InHand /\ d \in Working /\ Claims(d) /\ Moves(d)
  BY MirrorsNow DEF IInv, ClaimInv, InHand, Working, RecordOutcome, Moves, Deciding
<1>3. UNCHANGED <<made, started, mixed>>
  BY DEF RecordOutcome, AdminStep
<1>4. InDecision' = InDecision \ {n} /\ n \in InDecision /\ n \in Numbers
  <2>1. admin'[d] = Idle
    BY <1>2, OneAdmin DEF RecordOutcome, AdminStep
  <2>2. d \notin InHand'
    BY <2>1 DEF InHand, Idle
  <2>3. QED
    BY <1>1, <1>2, <2>2, HandLess
<1>5. ASSUME admin[d].id \in Present, approval[admin[d].id].number = n
      PROVE  Desk!Next
  <2>1. /\ n \in Desk!On
        /\ Requested' = IF admin[d].ok THEN [Requested EXCEPT ![n].run = TRUE]
                        ELSE [Requested EXCEPT ![n].status = "failed"]
        /\ ~admin[d].ok => Requested'[n].run = Requested[n].run
    BY <1>5, OutcomeNoted
  <2>2. admin[d].ok => started[n] > 0
    BY <1>1, <1>2, <1>5 DEF Claims, RowsOf, RecordOutcome
  <2>3. Desk!Noted(n)
    BY <2>1 DEF Desk!Noted
  <2>4. Desk!Note(n)
    BY <1>3, <1>4, <2>1, <2>2, <2>3 DEF Desk!Note
  <2>5. QED
    BY <1>4, <2>4 DEF Desk!Next
<1>6. ASSUME ~(admin[d].id \in Present /\ approval[admin[d].id].number = n)
      PROVE  Desk!Next
  <2>1. RowsOf(admin[d].claim) = {}
    BY <1>1, <1>2, <1>6 DEF Claims, RowsOf
  <2>2. n \notin Desk!On
    BY <1>1, <1>2, <2>1, IsAstray
  <2>3. CASE admin[d].id \notin Present
    <3>1. Requested' = Requested
      BY <2>3 DEF RecordOutcome, Requested, RowsOf, Present
    <3>2. Desk!Note(n)
      BY <1>3, <1>4, <2>2, <3>1 DEF Desk!Note
    <3>3. QED
      BY <1>4, <3>2 DEF Desk!Next
  <2>4. CASE admin[d].id \in Present
    <3>1. PICK m : m = approval[admin[d].id].number
      OBVIOUS
    <3>2. m \in mixed
      BY <1>1, <1>2, <1>6, <2>4, <3>1 DEF Claims
    <3>3. m \in Desk!On /\ Desk!Noted(m)
      BY <2>4, <3>1, OutcomeNoted DEF Desk!Noted
    <3>4. Desk!Note(n)
      BY <1>3, <1>4, <2>2, <3>2, <3>3 DEF Desk!Note
    <3>5. QED
      BY <1>4, <3>4 DEF Desk!Next
  <2>5. QED
    BY <2>3, <2>4
<1>7. QED
  BY <1>5, <1>6

LEMMA RunStep ==
  ASSUME IInv, NEW d \in Admins, StartRun(d)
  PROVE  Desk!Next
<1>1. TypeOK /\ Mirrors /\ ClaimInv /\ NumberInv /\ Moves(d) /\ admin[d].pc = "starting"
  BY MirrorsNow DEF IInv, StartRun, Moves, Deciding
<1>2. PICK n : n = admin[d].row.number
  OBVIOUS
<1>3. /\ d \in InHand /\ d \in Working /\ Claims(d) /\ n \in Numbers
      /\ started' = [started EXCEPT ![n] = @ + 1]
  BY <1>1, <1>2, OwnRuns
<1>4. UNCHANGED <<Requested, made, mixed>>
  BY <1>1, MovesAlone DEF StartRun, Requested, RowsOf, Present
<1>5. InDecision' = InDecision /\ admin[d].claim \in InDecision
  <2>1. PICK ok : ToRecord(d, ok)
    BY DEF StartRun
  <2>2. admin'[d] = [pc |-> "recording", id |-> admin[d].id, shown |-> admin[d].shown,
                     row |-> admin[d].row, ok |-> ok, claim |-> admin[d].claim]
    BY <1>1, <2>1, OneAdmin DEF ToRecord, AdminStep
  <2>3. d \in InHand' /\ admin'[d].claim = admin[d].claim
    BY <2>2 DEF InHand
  <2>4. QED
    BY <1>1, <1>3, <2>3, HandSame DEF InDecision
<1>6. CASE n = admin[d].claim
  <2>1. n \in InDecision /\ (started[n] = 0 \/ n \in mixed)
    BY <1>1, <1>3, <1>5, <1>6 DEF Claims
  <2>2. Desk!Start(n)
    BY <1>3, <1>4, <1>5, <2>1 DEF Desk!Start
  <2>3. QED
    BY <1>3, <2>2 DEF Desk!Next
<1>7. CASE n # admin[d].claim
  <2>1. n \in mixed /\ Desk!Astray
    BY <1>1, <1>2, <1>3, <1>7, IsAstray DEF Claims
  <2>2. Desk!Start(n)
    BY <1>3, <1>4, <1>5, <2>1 DEF Desk!Start
  <2>3. QED
    BY <1>3, <2>2 DEF Desk!Next
<1>8. QED
  BY <1>6, <1>7

LEMMA DecideStep ==
  ASSUME IInv, IInv', NEW d \in Admins, Claim(d)
  PROVE  Desk!Next
<1> DEFINE i == admin[d].id
           n == approval[i].number
<1>1. TypeOK /\ Mirrors /\ Mirrors' /\ i \in Pending /\ i \in Ids /\ Moves(d)
  BY MirrorsNow, MirrorsNext DEF IInv, Claim, Claimable, Pending, Present, Moves, Deciding
<1>2. /\ i \in Present /\ approval[i] \in Rows /\ Present' = Present
      /\ \A j \in Ids \ {i} : approval'[j] = approval[j]
      /\ approval'[i] = [approval[i] EXCEPT !.status = Decided(d)]
      /\ approval'[i].number = n
  BY <1>1, SetsOne
<1>3. n \in Desk!Pending /\ n \in Numbers /\ Requested[n] = Entry[i]
  BY <1>1, <1>2, SameWait DEF Mirrors
<1>4. Entry'[i] = [Entry[i] EXCEPT !.status = Decided(d)]
  BY <1>1, <1>2 DEF Entry, Rows
<1>5. Requested' = [Requested EXCEPT ![n] = Entry'[i]]
  BY <1>1, <1>2, DeskOne DEF Present
<1>6. Requested' = [Requested EXCEPT ![n].status = Decided(d)] /\ UNCHANGED <<made, started, mixed>>
  BY <1>3, <1>4, <1>5 DEF Claim, AdminStep
<1>7. admin'[d] = [pc |-> "reading", id |-> i, shown |-> admin[d].shown,
                   approve |-> admin[d].approve, claim |-> n]
  BY <1>1, OneAdmin DEF Claim, AdminStep
<1>8. /\ d \notin InHand /\ admin'[d].claim = n /\ (d \in InHand' <=> admin[d].approve)
  BY <1>7 DEF Claim, InHand
<1>9. CASE admin[d].approve
  <2>1. InDecision' = InDecision \cup {n}
    BY <1>1, <1>8, <1>9, HandMore
  <2>2. Desk!Approve(n)
    BY <1>3, <1>6, <1>9, <2>1 DEF Desk!Approve, Decided
  <2>3. QED
    BY <1>3, <2>2 DEF Desk!Next
<1>10. CASE ~admin[d].approve
  <2>1. InDecision' = InDecision
    BY <1>1, <1>8, <1>10, HandSame
  <2>2. Desk!Deny(n)
    BY <1>3, <1>6, <1>10, <2>1 DEF Desk!Deny, Decided
  <2>3. QED
    BY <1>3, <2>2 DEF Desk!Next
<1>11. QED
  BY <1>9, <1>10

(* Rows go: by pruning, or with their agent. *)
LEMMA GoStep ==
  ASSUME IInv, IInv', NEW gone, UNCHANGED <<admin, made, started, mixed>>,
         approval' = [i \in Ids |-> IF i \in gone THEN NoRow ELSE approval[i]]
  PROVE  Desk!Next
<1>1. TypeOK /\ Mirrors /\ Mirrors'
  BY MirrorsNow, MirrorsNext DEF IInv
<1>2. PICK some \in SUBSET Numbers :
         /\ some \subseteq Desk!On
         /\ Requested' = [n \in Numbers |-> IF n \in some THEN NoRow ELSE Requested[n]]
  BY <1>1, DeskGo
<1>3. InDecision' = InDecision
  BY DEF InDecision, InHand
<1>4. Desk!Forget(some)
  BY <1>2, <1>3 DEF Desk!Forget
<1>5. QED
  BY <1>4 DEF Desk!Next

LEMMA EnterStep ==
  ASSUME IInv, IInv', NEW c \in Callers, NEW i \in Ids, Insert(c, i)
  PROVE  Desk!Next
<1> DEFINE agent == caller[c].agent
           ask == caller[c].ask
           waits == Waiting(agent)
           desk == Desk!Waiting(agent)
<1>1. TypeOK /\ Mirrors /\ Mirrors' /\ ~Same(c) /\ ~Full(c)
  BY MirrorsNow, MirrorsNext DEF IInv, LookInv, Insert
<1>2. agent \in AgentIds /\ ask \in Asks
  <2>1. caller[c] \in [pc : {"asking", "cleared"}, agent : AgentIds, ask : Asks]
    BY <1>1 DEF TypeOK, Insert, CallerStates
  <2>2. QED
    BY <2>1
<1>3. /\ approval'[i].agent = agent /\ approval'[i].ask = ask
      /\ approval'[i].status = "pending" /\ approval'[i].run = FALSE
      /\ approval'[i].number = made + 1
      /\ \A j \in Ids \ {i} : approval'[j] = approval[j]
      /\ i \notin Present /\ Present' = Present \cup {i}
      /\ \A j \in Present : j < i
      /\ made + 1 \in Numbers /\ made' = made + 1
  BY <1>1, InsertIs
<1>4. \A j \in Present : j \in Ids /\ j # i /\ approval'[j] = approval[j]
  BY <1>3 DEF Present
<1>5. \A n \in desk : \E j \in waits : approval[j].number = n /\ Requested[n] = Entry[j]
  <2>1. SUFFICES ASSUME NEW n \in Numbers, n \in Desk!Pending, Requested[n].agent = agent
                 PROVE  \E j \in waits : approval[j].number = n /\ Requested[n] = Entry[j]
    BY DEF Desk!Waiting, Desk!Pending, Desk!On
  <2>2. PICK j \in Present : approval[j].number = n
    BY <1>1, <2>1 DEF Mirrors, Desk!Pending, Desk!On
  <2>3. Requested[n] = Entry[j] /\ j \in Pending /\ approval[j].agent = agent
    BY <1>1, <2>1, <2>2, SameWait DEF Mirrors
  <2>4. QED
    BY <2>2, <2>3 DEF Waiting
<1>6. \A n \in desk : Requested[n].ask # ask
  BY <1>1, <1>4, <1>5, SameWait DEF Same, Waiting, Pending
<1>7. Cardinality(desk) < MaxPending
  <2>1. IsFiniteSet(waits)
    <3>1. IsFiniteSet(Ids) /\ waits \subseteq Ids
      BY FS_Interval, BoundsAreNumbers DEF Ids, Waiting, Pending, Present
    <3>2. QED
      BY <3>1, FS_Subset
  <2>2. \A j \in waits : approval[j].number \in desk
    BY <1>1, SameWait DEF Waiting, Pending, Desk!Waiting, Desk!Pending, Desk!On, Mirrors
  <2>3. [j \in waits |-> approval[j].number] \in Surjection(waits, desk)
    BY <1>5, <2>2 DEF Surjection
  <2>4. Cardinality(desk) <= Cardinality(waits) /\ IsFiniteSet(desk)
    BY <2>1, <2>3, FS_Surjection
  <2>5. Cardinality(desk) \in Nat /\ Cardinality(waits) \in Nat
    BY <2>1, <2>4, FS_CardinalityType
  <2>6. ~(Cardinality(waits) >= MaxPending)
    BY <1>1 DEF Full
  <2>7. QED
    BY <2>4, <2>5, <2>6, BoundsAreNumbers
<1>8. Requested' = [Requested EXCEPT ![made + 1] = [agent |-> agent, ask |-> ask,
                                                    status |-> "pending", run |-> FALSE]]
  <2>1. Entry'[i] = [agent |-> agent, ask |-> ask, status |-> "pending", run |-> FALSE]
    BY <1>3, Zenon DEF Entry
  <2>2. Requested'[made + 1] = Entry'[i]
    BY <1>1, <1>3 DEF Mirrors
  <2>3. ASSUME NEW n \in Numbers \ {made + 1}
        PROVE  Requested'[n] = Requested[n]
    <3>1. ASSUME NEW j \in Present, approval[j].number = n
          PROVE  Requested'[n] = Requested[n]
      <4>1. j \in Present' /\ approval'[j] = approval[j] /\ j \in Ids
        BY <1>3, <1>4
      <4>2. Requested'[n] = Entry'[j] /\ Requested[n] = Entry[j]
        BY <1>1, <3>1, <4>1 DEF Mirrors
      <4>3. QED
        BY <4>1, <4>2 DEF Entry
    <3>2. CASE ~\E j \in Present : approval[j].number = n
      <4>1. \A j \in Present' : approval'[j].number # n
        BY <1>3, <1>4, <2>3, <3>2
      <4>2. QED
        BY <1>1, <3>2, <4>1 DEF Mirrors
    <3>3. QED
      BY <3>1, <3>2
  <2>4. Requested' = [n \in Numbers |-> Requested'[n]] /\ Requested = [n \in Numbers |-> Requested[n]]
    BY DEF Requested
  <2>5. QED
    BY <1>3, <2>1, <2>2, <2>3, <2>4
<1>9. UNCHANGED <<InDecision, started>>
  BY DEF Insert, CallerStep, InDecision, InHand
<1>10. mixed' = mixed \/ (Desk!Astray /\ mixed' = mixed \cup {made + 1})
  <2>1. CASE ~\E d \in InHand : admin[d].id = i
    BY <2>1 DEF Insert
  <2>2. ASSUME NEW d \in InHand, admin[d].id = i
        PROVE  Desk!Astray /\ mixed' = mixed \cup {made + 1}
    <3>1. Claims(d)
      BY DEF IInv, ClaimInv
    <3>2. RowsOf(admin[d].claim) = {}
      BY <1>3, <2>2, <3>1 DEF Claims, RowsOf
    <3>3. Desk!Astray
      BY <1>1, <3>2, IsAstray
    <3>4. QED
      BY <2>2, <3>3 DEF Insert
  <2>3. QED
    BY <2>1, <2>2
<1>11. Desk!Enter(agent, ask)
  <2>1. Desk!Cardinality(desk) = Cardinality(desk)
    BY DEF Desk!Cardinality, Cardinality
  <2>2. QED
    BY <1>3, <1>6, <1>7, <1>8, <1>9, <1>10, <2>1 DEF Desk!Enter
<1> HIDE DEF agent, ask
<1>12. QED
  BY <1>2, <1>11 DEF Desk!Next

LEMMA DeskStep ==
  ASSUME IInv, IInv', [Next]_vars
  PROVE  [Desk!Next]_(Desk!vars)
<1>1. ASSUME NEW c \in Callers, Prune(c)
      PROVE  Desk!Next
  <2>1. PICK gone : gone = {i \in Ids : i + Keep <= caller[c].id}
    OBVIOUS
  <2>2. /\ UNCHANGED <<admin, made, started, mixed>>
        /\ approval' = [i \in Ids |-> IF i \in gone THEN NoRow ELSE approval[i]]
    BY <1>1, <2>1 DEF Prune, CallerStep
  <2>3. QED
    BY <2>2, GoStep
<1>2. ASSUME NEW a \in Agents, DeleteAgent(a)
      PROVE  Desk!Next
  <2>1. PICK gone : gone = {i \in Present : approval[i].agent = agentId[a]}
    OBVIOUS
  <2>2. /\ UNCHANGED <<admin, made, started, mixed>>
        /\ approval' = [i \in Ids |-> IF i \in gone THEN NoRow ELSE approval[i]]
    BY <1>2, <2>1 DEF DeleteAgent, Unaffected
  <2>3. QED
    BY <2>2, GoStep
<1>3. ASSUME NEW c \in Callers, Creating(c)
      PROVE  Desk!Next
  BY <1>1, <1>3, CalmSteps, EnterStep DEF Creating, Quiet
<1>4. ASSUME NEW d \in Admins, Deciding(d)
      PROVE  Desk!Next
  BY <1>4, CalmMoves, LostSteps, DecideStep, RunStep, OutcomeStep DEF Deciding
<1>5. CASE Next
  BY <1>2, <1>3, <1>4, <1>5, CalmSteps, CalmMoves, LostSteps DEF Next
<1>6. CASE UNCHANGED vars
  BY <1>6, CalmSteps
<1>7. QED
  BY <1>5, <1>6

LEMMA DeskInit == Init => Desk!Init
<1> SUFFICES ASSUME Init
             PROVE  Desk!Init
  OBVIOUS
<1>1. Present = {} /\ \A d \in Admins : admin[d].pc = "idle"
  BY DEF Init, Present, Idle
<1>2. \A n \in Numbers : RowsOf(n) = {}
  BY <1>1 DEF RowsOf
<1>3. Requested = [n \in Numbers |-> NoRow]
  BY <1>2 DEF Requested
<1>4. InDecision = {}
  BY <1>1 DEF InDecision, InHand
<1>5. QED
  BY <1>3, <1>4 DEF Init, Desk!Init

(* The approvals table, its lock and its threads keep what ApprovalDesk      *)
(* promises, whenever an agent is deleted: a request waits once and is       *)
(* decided once, no agent has more than MAX_PENDING_PER_AGENT or the same    *)
(* one waiting twice, and only what was approved is started, one time at     *)
(* most.  A request that took the id of one deleted while its approval was   *)
(* in hand may be started, or failed, in place of that one.                  *)
THEOREM KeepsThePromise == Spec => ImplementsDesk
<1>1. Init => Desk!Init
  BY DeskInit
<1>2. IInv /\ IInv' /\ [Next]_vars => [Desk!Next]_(Desk!vars)
  BY DeskStep
<1>3. QED
  BY <1>1, <1>2, Inductive, PTL DEF Spec, ImplementsDesk, Desk!Spec

=============================================================================
