-------------------------- MODULE PlaybookCallsProofs --------------------------
(***************************************************************************)
(* Proofs about PlaybookCalls, for any playbooks, hosts, inventories and   *)
(* grants, any number of threads, requests and edits.                      *)
(***************************************************************************)
EXTENDS PlaybookCalls, TLAPS

-----------------------------------------------------------------------------
(* Type correctness: the rows and the threads, and then what was observed.   *)

RowsOK == /\ inventory \in Listings
          /\ cache \in Listings \cup {None}
          /\ enabled \in BOOLEAN
          /\ agent \in [enabled : BOOLEAN, hasRole : BOOLEAN]
          /\ role \in BOOLEAN
          /\ grant \in [GrantIds -> Grants \cup {None}]
          /\ approval \in [Requests -> [want : Wants, status : {"pending", "approved"}] \cup {None}]
          /\ edits \in 0 .. MaxEdits
          /\ crossed \in BOOLEAN

ThreadsOK == /\ \A x \in Calls : thread[x] \in CallStates
             /\ \A d \in Admins : thread[d] \in AdminStates
             /\ thread \in [Threads -> CallStates \cup AdminStates]

ObservedOK == seen \in [Calls -> SUBSET Conditions] /\ blind \subseteq Calls

LEMMA TypeParts == TypeOK <=> RowsOK /\ ThreadsOK /\ ObservedOK
BY DEF TypeOK, RowsOK, ThreadsOK, ObservedOK

LEMMA TypeInit == Init => TypeOK
<1>1. Init => RowsOK
  <2>1. 0 \in 0 .. MaxEdits /\ Standing \subseteq [GrantIds -> Grants \cup {None}]
    BY EditsAreCounted, StandingAreTables
  <2>2. Init => grant \in [GrantIds -> Grants \cup {None}] /\ edits \in 0 .. MaxEdits
    BY <2>1 DEF Init
  <2>3. Init => agent \in [enabled : BOOLEAN, hasRole : BOOLEAN]
    BY DEF Init
  <2>4. Init => approval \in [Requests -> [want : Wants, status : {"pending", "approved"}] \cup {None}]
    BY DEF Init
  <2>5. QED
    BY <2>2, <2>3, <2>4 DEF Init, RowsOK
<1>2. Init => ThreadsOK /\ ObservedOK
  BY DEF Init, ThreadsOK, ObservedOK, Threads, CallStates, AdminStates, Idle
<1>3. QED
  BY <1>1, <1>2, TypeParts

(* A thread that serves the agent, or an admin, goes on to a state of its kind. *)
LEMMA CallGoes ==
  ASSUME ThreadsOK, NEW x \in Calls, NEW next \in CallStates, Goes(x, next)
  PROVE  ThreadsOK'
BY ThreadsDiffer DEF ThreadsOK, Goes, Threads

LEMMA AdminGoes ==
  ASSUME ThreadsOK, NEW d \in Admins, NEW next \in AdminStates, Goes(d, next)
  PROVE  ThreadsOK'
BY ThreadsDiffer DEF ThreadsOK, Goes, Threads

LEMMA IdleIsState == Idle \in CallStates /\ Idle \in AdminStates
BY DEF CallStates, AdminStates

LEMMA ObservedType ==
  ASSUME ObservedOK, Observe
  PROVE  ObservedOK'
<1>1. \A x \in Calls : Now(x)' \subseteq Conditions
  BY DEF Now
<1>2. QED
  BY <1>1 DEF ObservedOK, Observe

(* A call that is served is one of the records a call may be. *)
Served == [pc : {"approved", "called", "switched on", "hosts", "groups", "checked", "starting"},
           want : Wants, request : Requests \cup {None}, hasRole : BOOLEAN,
           got : Listings \cup {None}, kept : BOOLEAN]

LEMMA ServedCalls ==
  ASSUME ThreadsOK, NEW x \in Calls, thread[x] # Idle
  PROVE  thread[x] \in Served
BY DEF ThreadsOK, CallStates, Served

LEMMA CallTypes ==
  ASSUME RowsOK, ThreadsOK, NEW x \in Calls, CallMoves(x)
  PROVE  RowsOK' /\ ThreadsOK'
<1>1. ASSUME NEW want \in Wants, Authenticate(x, want)
      PROVE  RowsOK' /\ ThreadsOK'
  <2>1. [pc |-> "called", want |-> want, request |-> None, hasRole |-> agent.hasRole,
         got |-> None, kept |-> FALSE] \in CallStates
    BY DEF RowsOK, CallStates
  <2>2. QED
    BY <1>1, <2>1, CallGoes DEF RowsOK, Authenticate, CallStep, Unedited
<1>2. ASSUME NEW r \in Requests, Approve(x, r)
      PROVE  RowsOK' /\ ThreadsOK'
  <2>1. approval[r].want \in Wants
    BY <1>2 DEF RowsOK, Approve
  <2>2. [pc |-> "approved", want |-> approval[r].want, request |-> r, hasRole |-> FALSE,
         got |-> None, kept |-> FALSE] \in CallStates
    BY <2>1 DEF CallStates
  <2>3. ThreadsOK'
    BY <1>2, <2>2, CallGoes DEF Approve, CallStep
  <2>4. QED
    BY <1>2, <2>3 DEF RowsOK, Approve, CallStep, Unedited
<1>3. CASE ReadAgent(x)
  <2>1. thread[x] \in Served
    BY <1>3, ServedCalls DEF ReadAgent
  <2>2. [thread[x] EXCEPT !.pc = "called", !.hasRole = agent.hasRole] \in CallStates
    BY <2>1 DEF RowsOK, Served, CallStates
  <2>3. QED
    BY <1>3, <2>2, CallGoes DEF RowsOK, ReadAgent, CallStep, Unedited
<1>4. ASSUME SwitchedOn(x) \/ Granted(x) \/ GoOn(x)
      PROVE  RowsOK' /\ ThreadsOK'
  <2>1. thread[x] \in Served
    BY <1>4, ServedCalls DEF SwitchedOn, Granted, GoOn
  <2>2. \A pc \in {"switched on", "hosts", "starting"} : [thread[x] EXCEPT !.pc = pc] \in CallStates
    BY <2>1 DEF Served, CallStates
  <2>3. QED
    BY <1>4, <2>2, CallGoes DEF RowsOK, SwitchedOn, Granted, GoOn, CallStep, Unedited
<1>5. CASE Ask(x)
  <2>1. thread[x].want \in Wants
    BY <1>5, ServedCalls DEF Ask, Served
  <2>2. approval' \in [Requests -> [want : Wants, status : {"pending", "approved"}] \cup {None}]
    BY <1>5, <2>1 DEF RowsOK, Ask
  <2>3. QED
    BY <1>5, <2>2, CallGoes, IdleIsState DEF RowsOK, Ask, CallStep, Unedited
<1>6. CASE Launch(x) \/ Refuse(x)
  <2>1. approval' \in [Requests -> [want : Wants, status : {"pending", "approved"}] \cup {None}]
    BY <1>6 DEF RowsOK, Launch, Refuse, Finish
  <2>2. QED
    BY <1>6, <2>1, CallGoes, IdleIsState DEF RowsOK, Launch, Refuse, CallStep, Unedited
<1>7. QED
  BY <1>1, <1>2, <1>3, <1>4, <1>5, <1>6 DEF CallMoves

(* What Passed makes of a thread is a thread again. *)
LEMMA PassedTypes ==
  ASSUME ThreadsOK, NEW t \in Threads, Lists(t), NEW listing, Passed(t, listing)
  PROVE  ThreadsOK'
<1>1. CASE t \in Calls
  <2>1. thread[t] \in Served
    BY <1>1, ServedCalls DEF Lists
  <2>2. /\ thread[t].pc # "listing"
        /\ [thread[t] EXCEPT !.got = None, !.kept = FALSE,
                            !.pc = IF @ = "hosts" THEN "groups" ELSE "checked"] \in CallStates
    BY <2>1 DEF Served, CallStates
  <2>3. QED
    BY <1>1, <2>2, CallGoes DEF Passed
<1>2. CASE t \in Admins /\ thread[t].pc = "listing"
  BY <1>2, AdminGoes, IdleIsState DEF Passed
<1>3. CASE t \in Admins /\ thread[t].pc # "listing"
  <2>1. thread[t] \in [pc : {"hosts", "groups", "checked", "found"}, want : Wants, asks : BOOLEAN,
                       got : Listings \cup {None}, kept : BOOLEAN]
    BY <1>3 DEF ThreadsOK, AdminStates, Lists, Idle
  <2>2. [thread[t] EXCEPT !.got = None, !.kept = FALSE,
                            !.pc = IF @ = "hosts" THEN "groups" ELSE "checked"] \in AdminStates
    BY <2>1 DEF AdminStates
  <2>3. QED
    BY <1>3, <2>2, AdminGoes DEF Passed
<1>4. QED
  BY <1>1, <1>2, <1>3 DEF Threads

LEMMA ReadingTypes ==
  ASSUME RowsOK, ThreadsOK, NEW t \in Threads, Reading(t)
  PROVE  RowsOK' /\ ThreadsOK'
<1>1. CASE FromCache(t)
  BY <1>1, PassedTypes DEF RowsOK, FromCache, Unedited
<1>2. ASSUME NEW next, Lists(t), Goes(t, next),
             \/ \E listing \in Listings : next = [thread[t] EXCEPT !.got = listing]
             \/ next = [thread[t] EXCEPT !.kept = TRUE]
      PROVE  ThreadsOK'
  <2>1. CASE t \in Calls
    <3>1. thread[t] \in Served
      BY <1>2, <2>1, ServedCalls DEF Lists
    <3>2. next \in CallStates
      BY <1>2, <3>1 DEF Served, CallStates
    <3>3. QED
      BY <1>2, <2>1, <3>2, CallGoes
  <2>2. CASE t \in Admins
    <3>1. thread[t] \in [pc : {"hosts", "groups", "checked", "found"}, want : Wants, asks : BOOLEAN,
                         got : Listings \cup {None}, kept : BOOLEAN]
          \/ thread[t] \in [pc : {"listing"}, got : Listings \cup {None}, kept : BOOLEAN]
      BY <1>2, <2>2 DEF ThreadsOK, AdminStates, Lists, Idle
    <3>2. next \in AdminStates
      BY <1>2, <3>1 DEF AdminStates
    <3>3. QED
      BY <1>2, <2>2, <3>2, AdminGoes
  <2>3. QED
    BY <2>1, <2>2 DEF Threads
<1>3. CASE AskAnsible(t)
  <2>1. inventory \in Listings /\ Unreadable \in Listings
    BY DEF RowsOK, Listings
  <2>2. ThreadsOK'
    BY <1>2, <1>3, <2>1 DEF AskAnsible
  <2>3. QED
    BY <1>3, <2>2 DEF RowsOK, AskAnsible, Unedited
<1>4. CASE Keep(t)
  <2>1. thread[t].got \in Listings
    BY <1>4 DEF ThreadsOK, Keep, Writing, Lists, Threads, CallStates, AdminStates, Idle
  <2>2. ThreadsOK'
    BY <1>2, <1>4 DEF Keep, Writing
  <2>3. QED
    BY <1>4, <2>1, <2>2 DEF RowsOK, Keep, Unedited
<1>5. CASE FromAnsible(t)
  BY <1>5, PassedTypes DEF RowsOK, FromAnsible, Unedited
<1>6. QED
  BY <1>1, <1>3, <1>4, <1>5 DEF Reading

LEMMA EditsCounted ==
  ASSUME RowsOK, Edit
  PROVE  edits' \in 0 .. MaxEdits
BY EditsAreCounted DEF RowsOK, Edit

LEMMA AdminTypes ==
  ASSUME RowsOK, ThreadsOK, NEW d \in Admins, AdminMoves(d)
  PROVE  RowsOK' /\ ThreadsOK'
<1>1. ASSUME NEW want \in Wants, NEW asks \in BOOLEAN, AddGrant(d, want, asks)
      PROVE  RowsOK' /\ ThreadsOK'
  <2>1. [pc |-> "hosts", want |-> want, asks |-> asks, got |-> None, kept |-> FALSE] \in AdminStates
    BY DEF AdminStates
  <2>2. QED
    BY <1>1, <2>1, AdminGoes, EditsCounted DEF RowsOK, AddGrant, Begins
<1>2. CASE FindRole(d)
  <2>1. [thread[d] EXCEPT !.pc = "found"] \in AdminStates
    <3>1. thread[d] \in [pc : {"hosts", "groups", "checked", "found"}, want : Wants, asks : BOOLEAN,
                         got : Listings \cup {None}, kept : BOOLEAN]
      BY <1>2 DEF ThreadsOK, FindRole, AdminStates, Idle
    <3>2. QED
      BY <3>1 DEF AdminStates
  <2>2. QED
    BY <1>2, <2>1, AdminGoes DEF RowsOK, FindRole, CallStep, Unedited
<1>3. CASE InsertGrant(d)
  <2>1. thread[d] \in [pc : {"hosts", "groups", "checked", "found"}, want : Wants, asks : BOOLEAN,
                       got : Listings \cup {None}, kept : BOOLEAN]
    BY <1>3 DEF ThreadsOK, InsertGrant, AdminStates, Idle
  <2>2. [playbook |-> thread[d].want.playbook, hosts |-> thread[d].want.hosts,
         asks |-> thread[d].asks] \in Grants
    BY <2>1 DEF Wants, Grants
  <2>3. grant' \in [GrantIds -> Grants \cup {None}]
    BY <1>3, <2>2 DEF RowsOK, InsertGrant
  <2>4. crossed' \in BOOLEAN
    BY <1>3 DEF InsertGrant, Ends
  <2>5. QED
    BY <1>3, <2>3, <2>4, AdminGoes, IdleIsState DEF RowsOK, InsertGrant, Ends
<1>4. CASE Assign(d)
  <2>1. [pc |-> "assigning"] \in AdminStates
    BY DEF AdminStates
  <2>2. QED
    BY <1>4, <2>1, AdminGoes, EditsCounted DEF RowsOK, Assign, Begins
<1>5. CASE WriteRole(d)
  <2>1. crossed' \in BOOLEAN /\ agent' \in [enabled : BOOLEAN, hasRole : BOOLEAN]
    BY <1>5 DEF RowsOK, WriteRole, Ends
  <2>2. QED
    BY <1>5, <2>1, AdminGoes, IdleIsState DEF RowsOK, WriteRole, Ends
<1>6. ASSUME NEW i \in GrantIds, Flip(d, i)
      PROVE  RowsOK' /\ ThreadsOK'
  <2>1. [pc |-> "flipping", grant |-> i, asks |-> ~grant[i].asks] \in AdminStates
    <3>1. grant[i].asks \in BOOLEAN
      BY <1>6 DEF RowsOK, Flip, Present, Grants
    <3>2. (~grant[i].asks) \in BOOLEAN
      OBVIOUS
    <3>3. QED
      BY <3>2 DEF AdminStates
  <2>2. QED
    BY <1>6, <2>1, AdminGoes, EditsCounted DEF RowsOK, Flip, Begins
<1>7. CASE WriteFlip(d)
  <2>1. thread[d] \in [pc : {"flipping"}, grant : GrantIds, asks : BOOLEAN]
    BY <1>7 DEF ThreadsOK, WriteFlip, AdminStates, Idle
  <2>2. [grant[thread[d].grant] EXCEPT !.asks = thread[d].asks] \in Grants
    BY <1>7, <2>1 DEF RowsOK, WriteFlip, Present, Grants
  <2>3. grant' \in [GrantIds -> Grants \cup {None}]
    BY <1>7, <2>1, <2>2 DEF RowsOK, WriteFlip
  <2>4. crossed' \in BOOLEAN
    BY <1>7 DEF WriteFlip, Ends
  <2>5. QED
    BY <1>7, <2>3, <2>4, AdminGoes, IdleIsState DEF RowsOK, WriteFlip, Ends
<1>8. CASE List(d)
  <2>1. [pc |-> "listing", got |-> None, kept |-> FALSE] \in AdminStates
    BY DEF AdminStates
  <2>2. QED
    BY <1>8, <2>1, AdminGoes DEF RowsOK, List, CallStep, Unedited
<1>9. QED
  BY <1>1, <1>2, <1>3, <1>4, <1>5, <1>6, <1>7, <1>8 DEF AdminMoves

(* Edits of one step leave the threads alone. *)
LEMMA EditTypes ==
  ASSUME RowsOK, ThreadsOK,
         \/ \E r \in Requests : Drop(r)
         \/ \E listing \in Listings : InventoryChanges(listing)
         \/ CacheAges \/ SetRunsEnabled \/ ToggleEnabled \/ Unassign \/ CreateRole \/ DeleteRole
         \/ \E i \in GrantIds : DeleteGrant(i)
  PROVE  RowsOK' /\ ThreadsOK'
<1>1. ThreadsOK'
  <2>1. thread' = thread
    BY DEF Drop, InventoryChanges, CacheAges, SetRunsEnabled, ToggleEnabled, Unassign, CreateRole,
           DeleteRole, DeleteGrant, EditStep
  <2>2. QED
    BY <2>1 DEF ThreadsOK
<1>2. CASE (\E r \in Requests : Drop(r)) \/ CacheAges
  BY <1>1, <1>2 DEF RowsOK, Drop, CacheAges, Unedited
<1>3. CASE (\E listing \in Listings : InventoryChanges(listing)) \/ SetRunsEnabled
  BY <1>1, <1>3, EditsCounted DEF RowsOK, InventoryChanges, SetRunsEnabled, EditStep
<1>4. CASE ToggleEnabled \/ Unassign
  BY <1>1, <1>4, EditsCounted DEF RowsOK, ToggleEnabled, Unassign, EditStep
<1>5. CASE CreateRole \/ DeleteRole \/ \E i \in GrantIds : DeleteGrant(i)
  BY <1>1, <1>5, EditsCounted DEF RowsOK, CreateRole, DeleteRole, DeleteGrant, EditStep
<1>6. QED
  BY <1>1, <1>2, <1>3, <1>4, <1>5

LEMMA TypeStep ==
  ASSUME TypeOK, [Next]_vars
  PROVE  TypeOK'
<1>1. RowsOK /\ ThreadsOK /\ ObservedOK
  BY TypeParts
<1>2. ASSUME NEW t \in Threads, EditFails(t)
      PROVE  RowsOK' /\ ThreadsOK'
  <2>1. t \in Admins
    BY <1>2 DEF EditFails, Threads
  <2>2. QED
    BY <1>1, <1>2, <2>1, AdminGoes, IdleIsState DEF RowsOK, EditFails, CallStep, Unedited
<1>3. CASE Next
  <2>1. RowsOK' /\ ThreadsOK'
    BY <1>1, <1>2, <1>3, CallTypes, ReadingTypes, EditTypes, AdminTypes DEF Next, Step
  <2>2. ObservedOK'
    BY <1>1, <1>3, ObservedType DEF Next
  <2>3. QED
    BY <2>1, <2>2 DEF TypeOK, RowsOK, ThreadsOK, ObservedOK
<1>4. CASE UNCHANGED vars
  BY <1>4 DEF TypeOK, vars
<1>5. QED
  BY <1>3, <1>4

-----------------------------------------------------------------------------
(* What a call has seen. *)

LEMMA NowHas ==
  ASSUME NEW x \in Calls
  PROVE  /\ "enabled" \in Now(x)' <=> agent'.enabled
         /\ "switched on" \in Now(x)' <=> enabled'
         /\ "has role" \in Now(x)' <=> agent'.hasRole
         /\ "granted" \in Now(x)' <=> thread'[x].want.hosts \subseteq Allowed(thread[x].want.playbook)'
         /\ "free" \in Now(x)' <=> thread'[x].want.hosts \subseteq Free(thread[x].want.playbook)'
         /\ "hosts" \in Now(x)' <=> \E l \in InService' : thread'[x].want.hosts \subseteq l.hosts
         /\ "no groups" \in Now(x)' <=>
               \E l \in InService' \ {Unreadable} : thread'[x].want.hosts \cap l.groups = {}
BY DEF Now, Conditions

(* A call that goes on keeps what it has seen, and sees what is so now.      *)
LEMMA Sees ==
  ASSUME ObservedOK, Observe, NEW x \in Calls, thread'[x] # Idle
  PROVE  /\ seen[x] \cup Now(x)' \subseteq seen'[x]
         /\ thread[x] # Idle /\ x \in blind => x \in blind'
BY DEF ObservedOK, Observe

LEMMA OthersStay ==
  ASSUME ObservedOK, StageInv, Observe, NEW x \in Calls, thread'[x] = thread[x]
  PROVE  Stage(x)'
<1>1. CASE thread[x] = Idle
  BY <1>1 DEF Stage
<1>2. CASE thread[x] # Idle
  <2>1. Stage(x) /\ seen[x] \subseteq seen'[x] /\ (x \in blind => x \in blind')
    BY <1>2, Sees DEF StageInv
  <2>2. QED
    BY <1>2, <2>1 DEF Stage
<1>3. QED
  BY <1>1, <1>2

LEMMA OnlyMover ==
  ASSUME ThreadsOK, NEW t \in Threads, NEW next, Goes(t, next)
  PROVE  thread'[t] = next /\ \A x \in Calls \ {t} : thread'[x] = thread[x]
BY DEF ThreadsOK, Goes, Threads

LEMMA CallStages ==
  ASSUME TypeOK, StageInv, Observe, NEW x \in Calls, CallMoves(x)
  PROVE  StageInv'
<1> USE DEF PastSwitch, PastGrants, PastHosts, PastGroups
<1>1. RowsOK /\ ThreadsOK /\ ObservedOK /\ x \in Threads
  BY TypeParts DEF Threads
<1>2. SUFFICES Stage(x)'
  <2>1. \A y \in Calls \ {x} : thread'[y] = thread[y]
    <3>1. \E next : Goes(x, next)
      BY DEF CallMoves, Authenticate, Approve, ReadAgent, SwitchedOn, Granted, Ask, GoOn, Launch,
             Refuse, CallStep
    <3>2. QED
      BY <1>1, <3>1, OnlyMover
  <2>2. QED
    BY <1>1, <2>1, OthersStay DEF StageInv
<1>3. thread'[x] # Idle => /\ seen[x] \cup Now(x)' \subseteq seen'[x]
                           /\ thread[x] # Idle /\ x \in blind => x \in blind'
  BY <1>1, Sees
<1>4. Stage(x) /\ (thread[x] # Idle => thread[x] \in Served)
  BY <1>1, ServedCalls DEF StageInv
<1>5. ASSUME NEW want \in Wants, Authenticate(x, want)
      PROVE  Stage(x)'
  <2>1. thread'[x] = [pc |-> "called", want |-> want, request |-> None, hasRole |-> agent.hasRole,
                      got |-> None, kept |-> FALSE]
    BY <1>1, <1>5, OnlyMover DEF Authenticate, CallStep
  <2>2. thread'[x] # Idle /\ agent' = agent /\ agent.enabled
    BY <1>5, <2>1 DEF Authenticate, CallStep, Unedited, Idle
  <2>3. "enabled" \in seen'[x] /\ (agent.hasRole => "has role" \in seen'[x])
    BY <1>3, <2>2, NowHas
  <2>4. /\ thread'[x].pc = "called" /\ thread'[x].hasRole = agent.hasRole
        /\ thread'[x].got = None
    BY <2>1
  <2>5. QED
    BY <2>3, <2>4 DEF Stage
<1>6. ASSUME NEW r \in Requests, Approve(x, r)
      PROVE  Stage(x)'
  <2>1. thread'[x] = [pc |-> "approved", want |-> approval[r].want, request |-> r,
                      hasRole |-> FALSE,
         got |-> None, kept |-> FALSE]
    BY <1>1, <1>6, OnlyMover DEF Approve, CallStep
  <2>2. QED
    BY <2>1 DEF Stage
<1>7. CASE ReadAgent(x)
  <2>1. /\ thread'[x] = [thread[x] EXCEPT !.pc = "called", !.hasRole = agent.hasRole]
        /\ thread[x] \in Served /\ thread[x].pc = "approved"
        /\ agent' = agent /\ agent.enabled
    BY <1>1, <1>4, <1>7, OnlyMover DEF ReadAgent, CallStep, Unedited
  <2>2. /\ thread'[x].pc = "called" /\ thread'[x].hasRole = agent.hasRole
        /\ thread'[x].got = None
    BY <1>4, <1>7, <2>1 DEF Served, Stage, ReadAgent
  <2>3. thread'[x] # Idle
    BY <2>2 DEF Idle
  <2>4. "enabled" \in seen'[x] /\ (agent.hasRole => "has role" \in seen'[x])
    BY <1>3, <2>1, <2>3, NowHas
  <2>5. QED
    BY <2>2, <2>4 DEF Stage
<1>8. ASSUME NEW at \in {"switched on", "hosts", "starting"},
             Goes(x, [thread[x] EXCEPT !.pc = at]), thread[x] # Idle
      PROVE  /\ thread'[x].pc = at /\ thread'[x] # Idle /\ thread'[x].want = thread[x].want
             /\ thread'[x].request = thread[x].request /\ thread'[x].hasRole = thread[x].hasRole
             /\ thread'[x].got = thread[x].got
             /\ seen[x] \cup Now(x)' \subseteq seen'[x]
             /\ x \in blind => x \in blind'
  <2>1. thread'[x] = [thread[x] EXCEPT !.pc = at] /\ thread[x] \in Served
    BY <1>1, <1>4, <1>8, OnlyMover
  <2>2. /\ thread'[x].pc = at /\ thread'[x].want = thread[x].want
        /\ thread'[x].request = thread[x].request /\ thread'[x].hasRole = thread[x].hasRole
        /\ thread'[x].got = thread[x].got
    BY <2>1 DEF Served
  <2>3. thread'[x].pc # "idle"
    BY <2>2
  <2>4. thread'[x] # Idle
    <3>1. Idle.pc = "idle"
      BY DEF Idle
    <3>2. QED
      BY <2>3, <3>1
  <2>5. QED
    BY <1>3, <1>8, <2>2, <2>4
<1>9. CASE SwitchedOn(x)
  <2>1. /\ thread[x] # Idle /\ thread[x].pc = "called" /\ enabled /\ enabled' = enabled
        /\ Goes(x, [thread[x] EXCEPT !.pc = "switched on"])
    BY <1>9 DEF SwitchedOn, CallStep, Unedited
  <2>2. "switched on" \in seen'[x]
    BY <1>8, <2>1, NowHas
  <2>3. QED
    BY <1>4, <1>8, <2>1, <2>2 DEF Stage
<1>10. CASE Granted(x)
  <2>1. /\ thread[x] # Idle /\ thread[x].pc = "switched on" /\ thread[x].hasRole
        /\ Goes(x, [thread[x] EXCEPT !.pc = "hosts"])
        /\ thread[x].want.hosts \subseteq Allowed(thread[x].want.playbook) /\ grant' = grant
    BY <1>10 DEF Granted, CallStep, Unedited
  <2>2. "granted" \in seen'[x]
    <3>1. thread'[x].want = thread[x].want
      BY <1>8, <2>1
    <3>2. Allowed(thread[x].want.playbook)' = Allowed(thread[x].want.playbook)
      BY <2>1, <3>1 DEF Allowed, For, Present
    <3>3. QED
      BY <1>8, <2>1, <3>1, <3>2, NowHas
  <2>3. QED
    BY <1>4, <1>8, <2>1, <2>2 DEF Stage
<1>11. CASE GoOn(x)
  <2>1. /\ thread[x] # Idle /\ thread[x].pc = "checked"
        /\ Goes(x, [thread[x] EXCEPT !.pc = "starting"])
        /\ thread[x].request # None \/ thread[x].want.hosts \subseteq Free(thread[x].want.playbook)
        /\ grant' = grant
    BY <1>11 DEF GoOn, CallStep, Unedited, NeedsApproval
  <2>2. thread[x].request # None \/ "free" \in seen'[x]
    <3>1. thread'[x].want = thread[x].want
      BY <1>8, <2>1
    <3>2. Free(thread[x].want.playbook)' = Free(thread[x].want.playbook)
      BY <2>1, <3>1 DEF Free, For, Present
    <3>3. QED
      BY <1>8, <2>1, <3>1, <3>2, NowHas
  <2>3. QED
    BY <1>4, <1>8, <2>1, <2>2 DEF Stage
<1>12. CASE Ask(x) \/ Launch(x) \/ Refuse(x)
  <2>1. thread'[x] = Idle
    BY <1>1, <1>12, OnlyMover DEF Ask, Launch, Refuse, CallStep
  <2>2. QED
    BY <2>1 DEF Stage
<1>13. QED
  BY <1>5, <1>6, <1>7, <1>9, <1>10, <1>11, <1>12 DEF CallMoves

(* A thread that reads a listing, of the hosts or of the groups. *)
LEMMA ReadingStages ==
  ASSUME TypeOK, StageInv, Observe, NEW t \in Threads, Reading(t)
  PROVE  StageInv'
<1> USE DEF PastSwitch, PastGrants, PastHosts, PastGroups
<1>1. RowsOK /\ ThreadsOK /\ ObservedOK
  BY TypeParts
<1>2. \A x \in Calls \ {t} : Stage(x)'
  <2>1. \E next : Goes(t, next)
    BY DEF Reading, FromCache, AskAnsible, Keep, FromAnsible, Passed
  <2>2. QED
    BY <1>1, <2>1, OnlyMover, OthersStay
<1>3. SUFFICES ASSUME t \in Calls
               PROVE  Stage(t)'
  BY <1>2 DEF StageInv
<1>4. /\ thread[t] \in Served /\ thread[t] # Idle /\ Stage(t)
      /\ thread[t].pc \in {"hosts", "groups"} /\ thread[t].want.hosts # {}
      /\ inventory' = inventory
  <2>1. Lists(t) /\ inventory' = inventory
    BY DEF Reading, FromCache, AskAnsible, Keep, Writing, FromAnsible, Unedited
  <2>2. thread[t] \in Served
    BY <1>1, <1>3, <2>1, ServedCalls DEF Lists
  <2>3. QED
    BY <1>3, <2>1, <2>2 DEF StageInv, Lists, Served, Wants
<1>5. ASSUME NEW listing, Passed(t, listing)
      PROVE  /\ thread'[t].pc = IF thread[t].pc = "hosts" THEN "groups" ELSE "checked"
             /\ thread'[t].got = None /\ thread'[t] # Idle
             /\ thread'[t].want = thread[t].want /\ thread'[t].hasRole = thread[t].hasRole
  <2>1. thread'[t] = [thread[t] EXCEPT !.got = None, !.kept = FALSE,
                                       !.pc = IF @ = "hosts" THEN "groups" ELSE "checked"]
    BY <1>1, <1>4, <1>5, OnlyMover DEF Passed
  <2>2. QED
    BY <1>4, <2>1 DEF Served, Idle
<1>6. /\ thread'[t] # Idle => seen[t] \cup Now(t)' \subseteq seen'[t]
      /\ thread'[t] # Idle /\ t \in blind => t \in blind'
  BY <1>1, <1>3, <1>4, Sees
<1>7. CASE FromCache(t)
  <2>1. Passed(t, cache) /\ cache \in InService' /\ cache \in Listings /\ thread[t].got = None
    BY <1>1, <1>7 DEF FromCache, InService, RowsOK
  <2>2. CASE thread[t].pc = "hosts"
    <3>1. "hosts" \in seen'[t]
      BY <1>3, <1>5, <1>6, <2>1, <2>2, NowHas DEF Passed
    <3>2. QED
      BY <1>4, <1>5, <1>6, <2>1, <2>2, <3>1 DEF Stage
  <2>3. CASE thread[t].pc = "groups"
    <3>1. CASE cache = Unreadable
      <4>1. t \in blind'
        BY <1>3, <1>4, <1>5, <2>1, <2>3, <3>1 DEF Observe
      <4>2. QED
        BY <1>4, <1>5, <1>6, <2>1, <2>3, <4>1 DEF Stage
    <3>2. CASE cache # Unreadable
      <4>1. "no groups" \in seen'[t]
        BY <1>3, <1>5, <1>6, <2>1, <2>3, <3>2, NowHas DEF Passed
      <4>2. QED
        BY <1>4, <1>5, <1>6, <2>1, <2>3, <4>1 DEF Stage
    <3>3. QED
      BY <3>1, <3>2
  <2>4. QED
    BY <1>4, <2>2, <2>3
<1>8. CASE AskAnsible(t)
  <2>1. PICK listing \in {inventory, Unreadable} : Goes(t, [thread[t] EXCEPT !.got = listing])
    BY <1>8 DEF AskAnsible
  <2>2. thread'[t] = [thread[t] EXCEPT !.got = listing]
    BY <1>1, <2>1, OnlyMover
  <2>3. /\ thread'[t].pc = thread[t].pc /\ thread'[t].got = listing /\ thread'[t] # Idle
        /\ thread'[t].want = thread[t].want /\ thread'[t].hasRole = thread[t].hasRole
    BY <1>4, <2>2 DEF Served, Idle
  <2>4. thread[t].want.hosts \subseteq listing.hosts => "hosts" \in seen'[t]
    <3>1. CASE listing = inventory
      BY <1>3, <1>4, <1>6, <2>3, <3>1, NowHas DEF InService
    <3>2. CASE listing = Unreadable
      BY <1>4, <3>2 DEF Unreadable
    <3>3. QED
      BY <2>1, <3>1, <3>2
  <2>5. listing # Unreadable /\ thread[t].want.hosts \cap listing.groups = {} => "no groups" \in seen'[t]
    <3>1. CASE listing = inventory
      BY <1>3, <1>4, <1>6, <2>3, <3>1, NowHas DEF InService
    <3>2. QED
      BY <2>1, <3>1
  <2>6. QED
    BY <1>4, <1>6, <2>3, <2>4, <2>5 DEF Stage
<1>9. CASE Keep(t)
  <2>1. thread'[t] = [thread[t] EXCEPT !.kept = TRUE]
    BY <1>1, <1>9, OnlyMover DEF Keep
  <2>2. /\ thread'[t].pc = thread[t].pc /\ thread'[t].got = thread[t].got /\ thread'[t] # Idle
        /\ thread'[t].want = thread[t].want /\ thread'[t].hasRole = thread[t].hasRole
    BY <1>4, <2>1 DEF Served, Idle
  <2>3. QED
    BY <1>4, <1>6, <2>2 DEF Stage
<1>10. CASE FromAnsible(t)
  <2>1. Passed(t, thread[t].got) /\ thread[t].got # None
    BY <1>10 DEF FromAnsible
  <2>2. CASE thread[t].pc = "hosts"
    <3>1. "hosts" \in seen[t]
      BY <1>4, <2>1, <2>2 DEF Passed, Stage
    <3>2. QED
      BY <1>4, <1>5, <1>6, <2>1, <2>2, <3>1 DEF Stage
  <2>3. CASE thread[t].pc = "groups"
    <3>1. CASE thread[t].got = Unreadable
      <4>1. t \in blind'
        BY <1>3, <1>4, <1>5, <2>1, <2>3, <3>1 DEF Observe
      <4>2. QED
        BY <1>4, <1>5, <1>6, <2>1, <2>3, <4>1 DEF Stage
    <3>2. CASE thread[t].got # Unreadable
      <4>1. "no groups" \in seen[t]
        BY <1>4, <2>1, <2>3, <3>2 DEF Passed, Stage
      <4>2. QED
        BY <1>4, <1>5, <1>6, <2>1, <2>3, <4>1 DEF Stage
    <3>3. QED
      BY <3>1, <3>2
  <2>4. QED
    BY <1>4, <2>2, <2>3
<1>11. QED
  BY <1>7, <1>8, <1>9, <1>10 DEF Reading

(* Every other step leaves the calls where they are. *)
LEMMA StageStep ==
  ASSUME TypeOK, StageInv, [Next]_vars
  PROVE  StageInv'
<1>1. RowsOK /\ ThreadsOK /\ ObservedOK
  BY TypeParts
<1>2. ASSUME Observe, \A x \in Calls : thread'[x] = thread[x]
      PROVE  StageInv'
  BY <1>1, <1>2, OthersStay DEF StageInv
<1>3. ASSUME NEW t \in Threads \ Calls, NEW next, Goes(t, next)
      PROVE  \A x \in Calls : thread'[x] = thread[x]
  BY <1>1, <1>3, OnlyMover
<1>4. ASSUME NEW t \in Threads, EditFails(t)
      PROVE  \A x \in Calls : thread'[x] = thread[x]
  BY <1>3, <1>4 DEF EditFails, CallStep
<1>5. ASSUME NEW d \in Admins, AdminMoves(d)
      PROVE  \A x \in Calls : thread'[x] = thread[x]
  <2>1. d \in Threads \ Calls
    BY ThreadsDiffer DEF Threads
  <2>2. \E next : Goes(d, next)
    BY <1>5 DEF AdminMoves, AddGrant, FindRole, InsertGrant, Assign, WriteRole, Flip, WriteFlip, List,
                Begins, Ends, CallStep
  <2>3. QED
    BY <1>3, <2>1, <2>2
<1>6. ASSUME \/ \E r \in Requests : Drop(r)
             \/ \E listing \in Listings : InventoryChanges(listing)
             \/ CacheAges \/ SetRunsEnabled \/ ToggleEnabled \/ Unassign \/ CreateRole \/ DeleteRole
             \/ \E i \in GrantIds : DeleteGrant(i)
      PROVE  \A x \in Calls : thread'[x] = thread[x]
  BY <1>6 DEF Drop, InventoryChanges, CacheAges, SetRunsEnabled, ToggleEnabled, Unassign, CreateRole,
              DeleteRole, DeleteGrant, EditStep
<1>7. CASE Next
  BY <1>2, <1>4, <1>5, <1>6, <1>7, CallStages, ReadingStages DEF Next, Step
<1>8. CASE UNCHANGED vars
  BY <1>8 DEF StageInv, Stage, vars
<1>9. QED
  BY <1>7, <1>8

-----------------------------------------------------------------------------
(* What a role that is gone leaves. *)

LEMMA GoneStep ==
  ASSUME TypeOK, GoneInv, [Next]_vars
  PROVE  GoneInv'
<1>1. ASSUME UNCHANGED <<grant, role, crossed>>, agent'.hasRole => agent.hasRole
      PROVE  GoneInv'
  BY <1>1 DEF GoneInv, Present
<1>2. ASSUME NEW x \in Calls, CallMoves(x)
      PROVE  GoneInv'
  BY <1>1, <1>2 DEF CallMoves, Authenticate, Approve, ReadAgent, SwitchedOn, Granted, Ask, GoOn, Launch,
                    Refuse, CallStep, Unedited
<1>3. ASSUME NEW t \in Threads, Reading(t) \/ EditFails(t)
      PROVE  GoneInv'
  BY <1>1, <1>3 DEF Reading, FromCache, AskAnsible, Keep, FromAnsible, EditFails, CallStep, Unedited
<1>4. CASE (\E r \in Requests : Drop(r)) \/ CacheAges
  BY <1>1, <1>4 DEF Drop, CacheAges, Unedited
<1>5. CASE (\E listing \in Listings : InventoryChanges(listing)) \/ SetRunsEnabled
  BY <1>1, <1>5 DEF InventoryChanges, SetRunsEnabled, EditStep
<1>6. CASE ToggleEnabled \/ Unassign
  <2>1. UNCHANGED <<grant, role, crossed>>
    BY <1>6 DEF ToggleEnabled, Unassign, EditStep
  <2>2. agent'.hasRole => agent.hasRole
    BY <1>6 DEF TypeOK, ToggleEnabled, Unassign
  <2>3. QED
    BY <1>1, <2>1, <2>2
<1>7. CASE CreateRole
  BY <1>7 DEF GoneInv, CreateRole
<1>8. CASE DeleteRole
  BY <1>8 DEF TypeOK, GoneInv, DeleteRole, Present
<1>9. ASSUME NEW i \in GrantIds, DeleteGrant(i)
      PROVE  GoneInv'
  BY <1>9 DEF TypeOK, GoneInv, DeleteGrant, EditStep, Present
<1>10. ASSUME NEW d \in Admins, AdminMoves(d)
       PROVE  GoneInv'
  <2>1. ASSUME NEW want \in Wants, NEW asks \in BOOLEAN, AddGrant(d, want, asks)
        PROVE  GoneInv'
    BY <1>1, <2>1 DEF AddGrant, Begins
  <2>2. CASE FindRole(d) \/ List(d)
    BY <1>1, <2>2 DEF FindRole, List, CallStep, Unedited
  <2>3. CASE InsertGrant(d) \/ WriteRole(d)
    <3>1. ~role => crossed'
      BY <2>3 DEF InsertGrant, WriteRole, Ends
    <3>2. role' = role
      BY <2>3 DEF InsertGrant, WriteRole, Ends
    <3>3. QED
      BY <3>1, <3>2 DEF GoneInv
  <2>4. CASE Assign(d)
    BY <1>1, <2>4 DEF Assign, Begins
  <2>5. ASSUME NEW i \in GrantIds, Flip(d, i)
        PROVE  GoneInv'
    BY <1>1, <2>5 DEF Flip, Begins
  <2>6. CASE WriteFlip(d)
    BY <2>6 DEF GoneInv, WriteFlip, Ends
  <2>7. QED
    BY <1>10, <2>1, <2>2, <2>3, <2>4, <2>5, <2>6 DEF AdminMoves
<1>11. CASE Next
  BY <1>2, <1>3, <1>4, <1>5, <1>6, <1>7, <1>8, <1>9, <1>10, <1>11 DEF Next, Step
<1>12. CASE UNCHANGED vars
  BY <1>1, <1>12 DEF vars
<1>13. QED
  BY <1>11, <1>12

-----------------------------------------------------------------------------
(* The invariant holds of every state. *)
THEOREM Inductive == Spec => []IInv
<1>1. Init => IInv
  <2>1. Init => StageInv
    BY DEF Init, StageInv, Stage, Threads
  <2>2. Init => GoneInv
    BY DEF Init, GoneInv
  <2>3. QED
    BY <2>1, <2>2, TypeInit DEF IInv
<1>2. IInv /\ [Next]_vars => IInv'
  BY TypeStep, StageStep, GoneStep DEF IInv
<1>3. QED
  BY <1>1, <1>2, PTL DEF Spec

(* Rows have what their columns say, and threads carry what they read. *)
THEOREM TypeCorrect == Spec => []TypeOK
<1>1. IInv => TypeOK
  BY DEF IInv
<1>2. QED
  BY <1>1, Inductive, PTL

(* Whatever run is started was within what its agent may do while the call   *)
(* was served: enabled, on the role, the switch on, every host granted.      *)
THEOREM StartsGranted == Spec => []StartsOnlyWhatWasGranted
<1>1. IInv => StartsOnlyWhatWasGranted
  BY DEF IInv, StageInv, Stage, StartsOnlyWhatWasGranted, Starting, PastSwitch, PastGrants, PastHosts,
         PastGroups
<1>2. QED
  BY <1>1, Inductive, PTL

(* A run that starts without an approval had its hosts covered by grants     *)
(* that ask for none, at one moment while the call was served.               *)
THEOREM RunsWait == Spec => []GrantedRunsWait
<1>1. IInv => GrantedRunsWait
  BY DEF IInv, StageInv, Stage, GrantedRunsWait, Starting
<1>2. QED
  BY <1>1, Inductive, PTL

(* Every name a run is limited to was a host and no group while the call was *)
(* served, unless the groups could not be listed.                            *)
THEOREM PlainHosts == Spec => []NamesPlainHosts
<1>1. IInv => NamesPlainHosts
  BY DEF IInv, StageInv, Stage, NamesPlainHosts, Starting, PastHosts, PastGroups
<1>2. QED
  BY <1>1, Inductive, PTL

(* A role begins with no grants and no agents, whatever its id was before,   *)
(* but for a row written after its role was deleted.                         *)
THEOREM NewRoles == Spec => NewRolesAreEmpty
<1>1. IInv /\ [Next]_vars => [(~role /\ role' /\ ~crossed) => (Present' = {} /\ ~agent'.hasRole)]_vars
  <2>1. SUFFICES ASSUME IInv, Next, ~role, role', ~crossed
                 PROVE  Present' = {} /\ ~agent'.hasRole
    BY DEF vars
  <2>2. UNCHANGED <<agent, grant>>
    <3>1. CASE CreateRole
      BY <3>1 DEF CreateRole
    <3>2. CASE ~CreateRole
      <4>1. role' = role
        BY <2>1, <3>2 DEF Next, Step, CallMoves, Authenticate, Approve, ReadAgent, SwitchedOn, Granted,
             Ask, GoOn, Launch, Refuse, Reading, FromCache, AskAnsible, Keep, FromAnsible, EditFails, Drop,
             InventoryChanges, CacheAges, SetRunsEnabled, ToggleEnabled, Unassign, DeleteRole,
             DeleteGrant, AdminMoves, AddGrant, FindRole, InsertGrant, Assign, WriteRole, Flip,
             WriteFlip, List, Begins, Ends, CallStep, Unedited
      <4>2. QED
        BY <2>1, <4>1
    <3>3. QED
      BY <3>1, <3>2
  <2>3. QED
    BY <2>1, <2>2 DEF IInv, GoneInv, Present
<1>2. QED
  BY <1>1, Inductive, PTL DEF Spec, NewRolesAreEmpty
=============================================================================
