---------------------------- MODULE AdmissionProofs ----------------------------
(***************************************************************************)
(* Proofs about Admission, for any number of agents, threads and requests, *)
(* any limits and any length of the hour.                                  *)
(***************************************************************************)
EXTENDS Admission, FiniteSetTheorems, TLAPS

-----------------------------------------------------------------------------
(* Type correctness. *)

(* The limit a call carries is a number, 0 for none. *)
LEMMA CarriedLimits ==
  /\ Carried \subseteq Nat
  /\ \A setting \in Settings : HourlyLimit(setting) \in Carried
BY LimitsAreNumbers DEF Carried, Settings, HourlyLimit

LEMMA TypeInit == Init => TypeOK
<1>1. 0 \in Times /\ 0 \in 0 .. MaxAdmitted
  BY BoundsAreNumbers DEF Times
<1>2. Idle \in CallerStates
  BY DEF Idle, CallerStates
<1>3. QED
  BY <1>1, <1>2 DEF Init, TypeOK

(* A thread that serves a call keeps the types. *)
LEMMA TypeServing ==
  ASSUME TypeOK, NEW c \in Callers, Serving(c)
  PROVE  TypeOK'
<1>1. Idle \in CallerStates
  BY DEF Idle, CallerStates
<1>2. CASE AnswerUncounted(c)
  BY <1>1, <1>2 DEF TypeOK, AnswerUncounted, CallerStep, Uncounted, Unlogged
<1>3. CASE LookFirst(c)
  <2>1. [caller[c] EXCEPT !.pc = "cleared"] \in CallerStates
    BY <1>3 DEF TypeOK, LookFirst, CallerStates
  <2>2. QED
    BY <1>3, <2>1 DEF TypeOK, LookFirst, CallerStep, Uncounted, Unlogged
<1>4. CASE Note(c)
  <2>1. /\ caller[c].agent \in AgentIds /\ caller[c].limit \in Carried
        /\ caller[c].want \in Asks \cup {Run}
    BY <1>4 DEF TypeOK, Note, CallerStates
  <2>2. [pc |-> "noted", agent |-> caller[c].agent, limit |-> caller[c].limit,
         want |-> caller[c].want, at |-> now] \in CallerStates
    BY <2>1 DEF TypeOK, CallerStates
  <2>3. QED
    BY <1>4, <2>2 DEF TypeOK, Note, CallerStep, Uncounted, Unlogged
<1>5. CASE Admit(c)
  <2>1. /\ caller[c].agent \in AgentIds /\ caller[c].limit \in Carried
        /\ caller[c].want \in Asks \cup {Run}
    BY <1>5 DEF TypeOK, Admit, CallerStates
  <2>2. admitted + 1 \in Numbers /\ admitted + 1 \in 0 .. MaxAdmitted
    BY <1>5, BoundsAreNumbers DEF TypeOK, Admit, Numbers
  <2>3. [number |-> admitted + 1, agent |-> caller[c].agent, at |-> now] \in Entries
    BY <2>1, <2>2 DEF TypeOK, Entries
  <2>4. request' \in SUBSET Entries /\ log' \in SUBSET Entries
    BY <1>5, <2>3 DEF TypeOK, Admit, Kept
  <2>5. limitOf' \in [Numbers -> Carried \cup {0}]
    BY <1>5, <2>1, <2>2 DEF TypeOK, Admit
  <2>6. caller' \in [Callers -> CallerStates]
    <3>1. CASE caller[c].want = Run
      BY <1>1, <1>5, <3>1 DEF TypeOK, Admit, CallerStep
    <3>2. CASE caller[c].want # Run
      <4>1. [pc |-> "admitted", agent |-> caller[c].agent, want |-> caller[c].want] \in CallerStates
        BY <2>1, <3>2 DEF CallerStates
      <4>2. QED
        BY <1>5, <3>2, <4>1 DEF TypeOK, Admit, CallerStep
    <3>3. QED
      BY <3>1, <3>2
  <2>7. now' = now /\ agent' = agent /\ waiting' = waiting /\ createLock' = createLock
    BY <1>5 DEF Admit, CallerStep
  <2>8. QED
    BY <1>5, <2>2, <2>4, <2>5, <2>6, <2>7 DEF TypeOK, Admit
<1>6. CASE RefuseSpent(c)
  <2>1. [pc |-> "refused", agent |-> caller[c].agent] \in CallerStates
    BY <1>6 DEF TypeOK, RefuseSpent, CallerStates
  <2>2. QED
    BY <1>6, <2>1 DEF TypeOK, RefuseSpent, Kept, Release, CallerStep, Unlogged
<1>7. CASE Answer(c)
  BY <1>1, <1>7 DEF TypeOK, Answer, CallerStep, Uncounted, Unlogged
<1>8. CASE Record(c)
  <2>1. [agent |-> caller[c].agent, ask |-> caller[c].want] \in Pending
    BY <1>8 DEF TypeOK, Record, CallerStates, Pending
  <2>2. QED
    BY <1>1, <1>8, <2>1 DEF TypeOK, Record, Release, CallerStep, Uncounted, Unlogged
<1>9. CASE Raises(c)
  BY <1>1, <1>9 DEF TypeOK, Raises, Release, CallerStep, Uncounted, Unlogged
<1>10. QED
  BY <1>2, <1>3, <1>4, <1>5, <1>6, <1>7, <1>8, <1>9 DEF Serving

LEMMA TypeStep ==
  ASSUME TypeOK, [Next]_vars
  PROVE  TypeOK'
<1>1. ASSUME NEW c \in Callers, NEW i \in AgentIds, NEW want \in Asks \cup {Run}, Call(c, i, want)
      PROVE  TypeOK'
  <2>1. agent[i] \in Settings
    BY <1>1 DEF TypeOK, Call
  <2>2. [pc |-> "called", agent |-> i, limit |-> HourlyLimit(agent[i]), want |-> want] \in CallerStates
    BY <1>1, <2>1, CarriedLimits DEF CallerStates
  <2>3. QED
    BY <1>1, <2>2 DEF TypeOK, Call, CallerStep, Uncounted, Unlogged
<1>2. ASSUME NEW c \in Callers, Serving(c)
      PROVE  TypeOK'
  BY <1>2, TypeServing
<1>3. CASE Tick
  BY <1>3, BoundsAreNumbers DEF TypeOK, Tick, Times, Unaffected
<1>4. ASSUME NEW w \in Pending, Decide(w)
      PROVE  TypeOK'
  BY <1>4 DEF TypeOK, Decide, Unaffected
<1>5. ASSUME NEW i \in AgentIds, NEW setting \in Settings,
             CreateAgent(i, setting) \/ SetHourlyLimit(i, setting)
      PROVE  TypeOK'
  BY <1>5 DEF TypeOK, CreateAgent, SetHourlyLimit, Unaffected
<1>6. ASSUME NEW i \in AgentIds, DeleteAgent(i)
      PROVE  TypeOK'
  BY <1>6 DEF TypeOK, DeleteAgent, OfOthers, Unaffected
<1>7. CASE Crash
  BY <1>7 DEF TypeOK, Crash, Unlogged, Idle, CallerStates
<1>8. CASE UNCHANGED vars
  BY <1>8 DEF TypeOK, vars
<1>9. QED
  BY <1>1, <1>2, <1>3, <1>4, <1>5, <1>6, <1>7, <1>8 DEF Next

(* Every variable keeps its type. *)
THEOREM TypeCorrect == Spec => []TypeOK
<1>1. Init => TypeOK
  BY TypeInit
<1>2. TypeOK /\ [Next]_vars => TypeOK'
  BY TypeStep
<1>3. QED
  BY <1>1, <1>2, PTL DEF Spec

-----------------------------------------------------------------------------
(* The hour. *)

LEMMA InvInit == Init => TableInv /\ LogInv /\ NotedInv /\ WithinAllowance
BY FS_EmptySet DEF Init, TableInv, LogInv, NotedInv, WithinAllowance, Idle

(* Time may pass: what was old stays old. *)
LEMMA Untouched ==
  ASSUME IInv, TypeOK', UNCHANGED <<request, admitted, log, limitOf>>, now <= now'
  PROVE  TableInv' /\ LogInv' /\ WithinAllowance'
<1>1. now \in Nat /\ now' \in Nat /\ \A e \in log : e.at \in Nat
  BY BoundsAreNumbers DEF IInv, TypeOK, Times, Entries
<1>2. TableInv' /\ LogInv'
  BY <1>1, BoundsAreNumbers DEF IInv, TableInv, LogInv
<1>3. WithinAllowance'
  BY DEF IInv, WithinAllowance, InHourBefore
<1>4. QED
  BY <1>2, <1>3

(* A call's idea of the time is not ahead of the clock, so that what it       *)
(* forgets is older than an hour.                                            *)
LEMMA ForgetsTheOld ==
  ASSUME IInv, NEW c \in Callers, caller[c].pc = "noted"
  PROVE  /\ Since(c) \in Int /\ Since(c) <= now - Hour
         /\ Kept(c) \subseteq log
         /\ \A e \in log \ Kept(c) : e.at < now - Hour
<1>1. caller[c].at \in Nat /\ caller[c].at <= now
  BY BoundsAreNumbers DEF IInv, NotedInv, TypeOK, CallerStates, Times
<1>2. now \in Nat /\ Hour \in Nat /\ \A e \in log : e.at \in Nat
  BY BoundsAreNumbers DEF IInv, TypeOK, Times, Entries
<1>3. QED
  BY <1>1, <1>2 DEF IInv, TableInv, Since, Kept

LEMMA OneMore ==
  ASSUME NEW S, NEW x, IsFiniteSet(S)
  PROVE  /\ IsFiniteSet(S \cup {x})
         /\ Cardinality(S \cup {x}) \in Nat
         /\ Cardinality(S \cup {x}) <= Cardinality(S) + 1
<1>1. IsFiniteSet(S \cup {x}) /\ Cardinality(S) \in Nat
  BY FS_AddElement, FS_CardinalityType
<1>2. Cardinality(S \cup {x}) = IF x \in S THEN Cardinality(S) ELSE Cardinality(S) + 1
  BY FS_AddElement
<1>3. QED
  BY <1>1, <1>2

(* Admitting keeps to the limit: the requests of the last hour are all in    *)
(* the table, were all counted, and were fewer than the limit.               *)
LEMMA AdmitStep ==
  ASSUME IInv, TypeOK', NEW c \in Callers, Admit(c)
  PROVE  TableInv' /\ LogInv' /\ WithinAllowance'
<1> DEFINE row == [number |-> admitted + 1, agent |-> caller[c].agent, at |-> now]
           limit == caller[c].limit
           counted == {r \in request : r.agent = caller[c].agent /\ r.at >= Since(c)}
<1>1. /\ now \in Nat /\ admitted \in Nat /\ Hour \in Nat /\ limit \in Nat
      /\ admitted + 1 \in Numbers
      /\ \A e \in log : e.at \in Nat /\ e.number \in Numbers /\ e.number \in Nat
  <2>1. caller[c].limit \in Carried
    BY DEF IInv, TypeOK, Admit, CallerStates
  <2>2. now \in Nat /\ admitted \in Nat /\ Hour \in Nat /\ admitted + 1 \in Numbers
    BY BoundsAreNumbers DEF IInv, TypeOK, Times, Admit, Numbers
  <2>3. \A e \in log : e.at \in Nat /\ e.number \in Numbers /\ e.number \in Nat
    BY BoundsAreNumbers DEF IInv, TypeOK, Times, Entries, Numbers
  <2>4. QED
    BY <2>1, <2>2, <2>3, CarriedLimits
<1>2. /\ request' = Kept(c) \cup {row} /\ log' = log \cup {row}
      /\ limitOf' = [limitOf EXCEPT ![admitted + 1] = limit]
      /\ admitted' = admitted + 1 /\ now' = now
  BY DEF Admit, CallerStep
<1>3. /\ Since(c) \in Int /\ Since(c) <= now - Hour
      /\ Kept(c) \subseteq log
      /\ \A e \in log \ Kept(c) : e.at < now - Hour
  BY ForgetsTheOld DEF Admit
<1>4. TableInv'
  <2>1. IsFiniteSet(log')
    BY <1>2, FS_AddElement DEF IInv, TableInv
  <2>2. QED
    BY <1>2, <1>3, <2>1 DEF TableInv
<1>5. LogInv'
  BY <1>1, <1>2 DEF IInv, LogInv
<1>6. WithinAllowance'
  <2> SUFFICES ASSUME NEW e \in log', limitOf'[e.number] # 0
               PROVE  Cardinality(InHourBefore(e)') <= limitOf'[e.number]
    BY DEF WithinAllowance
  <2>1. CASE e \in log
    <3>1. e.number <= admitted /\ e.number # admitted + 1
      BY <1>1, <2>1 DEF IInv, LogInv
    <3>2. limitOf'[e.number] = limitOf[e.number]
      BY <1>1, <1>2, <2>1, <3>1 DEF IInv, TypeOK
    <3>3. InHourBefore(e)' = InHourBefore(e)
      BY <1>1, <1>2, <3>1 DEF InHourBefore
    <3>4. QED
      BY <2>1, <3>2, <3>3 DEF IInv, WithinAllowance
  <2>2. CASE e = row
    <3>1. limitOf'[e.number] = limit
      BY <1>1, <1>2, <2>2 DEF IInv, TypeOK
    <3>2. IsFiniteSet(counted) /\ Cardinality(counted) \in Nat /\ Cardinality(counted) < limit
      <4>1. IsFiniteSet(counted)
        BY FS_Subset DEF IInv, TableInv
      <4>2. Cardinality(counted) \in Nat
        BY <4>1, FS_CardinalityType
      <4>3. ~(Used(c) >= limit)
        BY <3>1 DEF Admit, Spent
      <4>4. QED
        BY <1>1, <4>1, <4>2, <4>3 DEF Used
    <3>3. InHourBefore(e)' \subseteq counted \cup {row}
      BY <1>1, <1>2, <1>3, <2>2 DEF InHourBefore, IInv, TableInv
    <3>4. /\ IsFiniteSet(counted \cup {row})
          /\ Cardinality(counted \cup {row}) \in Nat
          /\ Cardinality(counted \cup {row}) <= Cardinality(counted) + 1
      BY <3>2, OneMore
    <3>5. /\ Cardinality(InHourBefore(e)') \in Nat
          /\ Cardinality(InHourBefore(e)') <= Cardinality(counted \cup {row})
      BY <3>3, <3>4, FS_Subset, FS_CardinalityType
    <3>6. QED
      BY <1>1, <3>1, <3>2, <3>4, <3>5
  <2>3. QED
    BY <1>2, <2>1, <2>2
<1>7. QED
  BY <1>4, <1>5, <1>6

(* With an agent go its rows and its part of the log. *)
LEMMA DeleteStep ==
  ASSUME IInv, NEW i \in AgentIds, DeleteAgent(i)
  PROVE  TableInv' /\ LogInv' /\ WithinAllowance'
<1>1. /\ request' = OfOthers(request, i) /\ log' = OfOthers(log, i)
      /\ now' = now /\ admitted' = admitted /\ limitOf' = limitOf
  BY DEF DeleteAgent, Unaffected
<1>2. IsFiniteSet(log')
  BY <1>1, FS_Subset DEF IInv, TableInv, OfOthers
<1>3. TableInv' /\ LogInv'
  BY <1>1, <1>2 DEF IInv, TableInv, LogInv, OfOthers
<1>4. ASSUME NEW e \in log', limitOf'[e.number] # 0
      PROVE  Cardinality(InHourBefore(e)') <= limitOf'[e.number]
  <2>1. e \in log /\ InHourBefore(e)' = InHourBefore(e)
    BY <1>1 DEF InHourBefore, OfOthers
  <2>2. QED
    BY <1>1, <1>4, <2>1 DEF IInv, WithinAllowance
<1>5. QED
  BY <1>3, <1>4 DEF WithinAllowance

(* The invariant is inductive. *)
LEMMA InvStep ==
  ASSUME IInv, [Next]_vars
  PROVE  IInv'
<1>1. TypeOK'
  BY TypeStep DEF IInv
<1>2. now \in Nat
  BY BoundsAreNumbers DEF IInv, TypeOK, Times
<1>3. NotedInv'
  <2>1. now <= now' /\ now' \in Nat
    BY <1>1, <1>2, BoundsAreNumbers
    DEF TypeOK, Times, Next, vars, Call, Serving, AnswerUncounted, LookFirst, Note, Admit, RefuseSpent, Answer,
        Record, Raises, CallerStep, Tick, Decide, CreateAgent, SetHourlyLimit, DeleteAgent, Crash
  <2> SUFFICES ASSUME NEW d \in Callers, caller'[d].pc = "noted"
               PROVE  caller'[d].at <= now'
    BY DEF NotedInv
  <2>2. caller[d].pc = "noted" => caller[d].at \in Nat /\ caller[d].at <= now
    BY BoundsAreNumbers DEF IInv, NotedInv, TypeOK, CallerStates, Times
  <2>3. CASE caller'[d] = caller[d]
    BY <1>2, <2>1, <2>2, <2>3
  <2>4. ASSUME NEW c \in Callers, Note(c), caller'[d] # caller[d]
        PROVE  caller'[d].at <= now'
    BY <1>2, <2>4 DEF IInv, TypeOK, Note, CallerStep
  <2>5. ASSUME NEW c \in Callers, caller'[d] # caller[d],
               \/ \E i \in AgentIds, want \in Asks \cup {Run} : Call(c, i, want)
               \/ AnswerUncounted(c) \/ LookFirst(c) \/ Admit(c) \/ RefuseSpent(c)
               \/ Answer(c) \/ Record(c) \/ Raises(c)
        PROVE  FALSE
    <3>1. c = d /\ caller' = [caller EXCEPT ![c] = caller'[c]]
      BY <2>5 DEF IInv, TypeOK, Call, AnswerUncounted, LookFirst, Admit, RefuseSpent, Answer, Record, Raises, CallerStep
    <3>2. caller'[c].pc \in {"idle", "called", "cleared", "admitted", "refused"}
      BY <2>5, <3>1 DEF IInv, TypeOK, CallerStates, Call, AnswerUncounted, LookFirst, Admit, RefuseSpent, Answer,
                        Record, Raises, CallerStep, Idle
    <3>3. QED
      BY <3>1, <3>2
  <2>6. CASE Crash
    BY <2>6 DEF Crash, Idle
  <2>7. CASE caller' = caller
    BY <2>3, <2>7
  <2>8. QED
    BY <2>3, <2>4, <2>5, <2>6, <2>7
    DEF Next, vars, Serving, Tick, Decide, CreateAgent, SetHourlyLimit, DeleteAgent, Unaffected
<1>4. TableInv' /\ LogInv' /\ WithinAllowance'
  <2>1. ASSUME NEW c \in Callers, NEW i \in AgentIds, NEW want \in Asks \cup {Run}, Call(c, i, want)
        PROVE  TableInv' /\ LogInv' /\ WithinAllowance'
    BY <1>1, <1>2, <2>1, Untouched DEF Call, CallerStep, Uncounted, Unlogged
  <2>2. ASSUME NEW c \in Callers, Serving(c)
        PROVE  TableInv' /\ LogInv' /\ WithinAllowance'
    <3>1. CASE AnswerUncounted(c) \/ LookFirst(c) \/ Note(c) \/ Answer(c) \/ Record(c) \/ Raises(c)
      BY <1>1, <1>2, <3>1, Untouched
      DEF AnswerUncounted, LookFirst, Note, Answer, Record, Raises, CallerStep, Uncounted, Unlogged
    <3>2. CASE Admit(c)
      BY <1>1, <3>2, AdmitStep
    <3>3. CASE RefuseSpent(c)
      <4>1. /\ request' = Kept(c) /\ log' = log /\ limitOf' = limitOf
            /\ admitted' = admitted /\ now' = now /\ caller[c].pc = "noted"
        BY <3>3 DEF RefuseSpent, CallerStep, Unlogged
      <4>2. Kept(c) \subseteq log /\ \A e \in log \ Kept(c) : e.at < now - Hour
        BY <4>1, ForgetsTheOld
      <4>3. TableInv' /\ LogInv'
        BY <4>1, <4>2 DEF IInv, TableInv, LogInv
      <4>4. WithinAllowance'
        BY <4>1 DEF IInv, WithinAllowance, InHourBefore
      <4>5. QED
        BY <4>3, <4>4
    <3>4. QED
      BY <2>2, <3>1, <3>2, <3>3 DEF Serving
  <2>3. CASE Tick
    BY <1>1, <1>2, <2>3, Untouched DEF Tick, Unaffected
  <2>4. ASSUME NEW w \in Pending, Decide(w)
        PROVE  TableInv' /\ LogInv' /\ WithinAllowance'
    BY <1>1, <1>2, <2>4, Untouched DEF Decide, Unaffected
  <2>5. ASSUME NEW i \in AgentIds, NEW setting \in Settings,
               CreateAgent(i, setting) \/ SetHourlyLimit(i, setting)
        PROVE  TableInv' /\ LogInv' /\ WithinAllowance'
    BY <1>1, <1>2, <2>5, Untouched DEF CreateAgent, SetHourlyLimit, Unaffected
  <2>6. ASSUME NEW i \in AgentIds, DeleteAgent(i)
        PROVE  TableInv' /\ LogInv' /\ WithinAllowance'
    BY <2>6, DeleteStep
  <2>7. CASE Crash
    BY <1>1, <1>2, <2>7, Untouched DEF Crash, Unlogged
  <2>8. CASE UNCHANGED vars
    BY <1>1, <1>2, <2>8, Untouched DEF vars
  <2>9. QED
    BY <2>1, <2>2, <2>3, <2>4, <2>5, <2>6, <2>7, <2>8 DEF Next
<1>5. QED
  BY <1>1, <1>3, <1>4 DEF IInv

(* No agent makes more requests in any hour than the limit its call carried. *)
THEOREM AllowanceKept == Spec => []WithinAllowance
<1>1. Init => IInv
  BY TypeInit, InvInit DEF IInv
<1>2. IInv /\ [Next]_vars => IInv'
  BY InvStep
<1>3. IInv => WithinAllowance
  BY DEF IInv
<1>4. QED
  BY <1>1, <1>2, <1>3, PTL DEF Spec

(* A call is refused only for what the present holder of its agent's id was  *)
(* let through to do in the hour before.                                     *)
THEOREM OnlyTheSpentRefused == Spec => RefusesOnlyTheSpent
<1>1. ASSUME IInv, [Next]_vars, NEW c \in Callers, caller'[c] # caller[c], caller'[c].pc = "refused"
      PROVE  /\ caller[c].limit # 0
             /\ Cardinality({e \in log : e.agent = caller[c].agent /\ e.at >= Since(c)}) >= caller[c].limit
  <2> DEFINE logged == {e \in log : e.agent = caller[c].agent /\ e.at >= Since(c)}
             counted == {r \in request : r.agent = caller[c].agent /\ r.at >= Since(c)}
  <2>1. RefuseSpent(c)
    <3>1. ASSUME NEW d \in Callers, \/ \E i \in AgentIds, want \in Asks \cup {Run} : Call(d, i, want)
                                    \/ AnswerUncounted(d) \/ LookFirst(d) \/ Note(d) \/ Admit(d)
                                    \/ Answer(d) \/ Record(d) \/ Raises(d)
          PROVE  FALSE
      <4>1. d = c /\ caller'[d].pc \in {"idle", "called", "cleared", "noted", "admitted"}
        BY <1>1, <3>1 DEF IInv, TypeOK, CallerStates, Call, AnswerUncounted, LookFirst, Note, Admit, Answer,
                          Record, Raises, CallerStep, Idle
      <4>2. QED
        BY <1>1, <4>1
    <3>2. ASSUME NEW d \in Callers, RefuseSpent(d)
          PROVE  d = c
      BY <1>1, <3>2 DEF IInv, TypeOK, RefuseSpent, CallerStep
    <3>3. ~Crash
      BY <1>1 DEF Crash, Idle
    <3>4. QED
      BY <1>1, <3>1, <3>2, <3>3
      DEF Next, vars, Serving, Tick, Decide, CreateAgent, SetHourlyLimit, DeleteAgent, Unaffected
  <2>2. caller[c].limit # 0 /\ Cardinality(counted) >= caller[c].limit
    BY <2>1 DEF RefuseSpent, Spent, Used
  <2>3. caller[c].limit \in Nat
    <3>1. caller[c].limit \in Carried
      BY <1>1, <2>1 DEF IInv, TypeOK, RefuseSpent, CallerStates
    <3>2. QED
      BY <3>1, CarriedLimits
  <2>4. /\ Cardinality(counted) \in Nat /\ Cardinality(logged) \in Nat
        /\ Cardinality(counted) <= Cardinality(logged)
    <3>1. IsFiniteSet(logged) /\ counted \subseteq logged
      BY <1>1, FS_Subset DEF IInv, TableInv
    <3>2. QED
      BY <3>1, FS_Subset, FS_CardinalityType
  <2>5. QED
    BY <2>2, <2>3, <2>4
<1>2. IInv /\ [Next]_vars =>
        [\A c \in Callers : (caller'[c] # caller[c] /\ caller'[c].pc = "refused") =>
            /\ caller[c].limit # 0
            /\ Cardinality({e \in log : e.agent = caller[c].agent /\ e.at >= Since(c)})
               >= caller[c].limit]_vars
  BY <1>1
<1>3. Init => IInv
  BY TypeInit, InvInit DEF IInv
<1>4. IInv /\ [Next]_vars => IInv'
  BY InvStep
<1>5. QED
  BY <1>2, <1>3, <1>4, PTL DEF Spec, RefusesOnlyTheSpent

-----------------------------------------------------------------------------
(* Requests for approval. *)

(* The lock of approvals.create is kept by who looked, and while it is, only *)
(* its holder makes a request wait.                                          *)
LEMMA LockStep ==
  ASSUME TypeOK, LockInv, NewInv, [Next]_vars
  PROVE  LockInv' /\ NewInv'
<1> USE NobodyIsNoCaller
<1>1. ASSUME NEW c \in Callers, NEW i \in AgentIds, NEW want \in Asks \cup {Run}, Call(c, i, want)
      PROVE  LockInv' /\ NewInv'
  BY <1>1 DEF TypeOK, LockInv, NewInv, Holding, Same, Call, CallerStep, Idle
<1>2. ASSUME NEW c \in Callers, Serving(c)
      PROVE  LockInv' /\ NewInv'
  <2>1. CASE AnswerUncounted(c)
    BY <2>1 DEF TypeOK, LockInv, NewInv, Holding, Same, AnswerUncounted, CallerStep, Idle
  <2>2. CASE LookFirst(c)
    <3>1. caller' = [caller EXCEPT ![c] = [caller[c] EXCEPT !.pc = "cleared"]]
      BY <2>2 DEF LookFirst, CallerStep
    <3>2. caller[c] \in [pc : {"called"}, agent : AgentIds, limit : Carried, want : Asks \cup {Run}]
      BY <2>2 DEF LookFirst, TypeOK, CallerStates
    <3>3. \A d \in Callers : ~Holding(d)
      BY <2>2 DEF LookFirst, LockInv
    <3>4. LockInv'
      BY <2>2, <3>1, <3>3 DEF TypeOK, LockInv, Holding, LookFirst
    <3>5. NewInv'
      BY <2>2, <3>1, <3>2, <3>3 DEF TypeOK, NewInv, Holding, Same, LookFirst
    <3>6. QED
      BY <3>4, <3>5
  <2>3. CASE Note(c)
    BY <2>3 DEF TypeOK, LockInv, NewInv, Holding, Same, Note, CallerStep
  <2>4. CASE Admit(c)
    <3>1. caller' = [caller EXCEPT ![c] = IF caller[c].want = Run THEN Idle
             ELSE [pc |-> "admitted", agent |-> caller[c].agent, want |-> caller[c].want]]
      BY <2>4 DEF Admit, CallerStep
    <3>2. QED
      BY <2>4, <3>1 DEF TypeOK, LockInv, NewInv, Holding, Same, Admit, Idle
  <2>5. CASE RefuseSpent(c)
    BY <2>5 DEF TypeOK, LockInv, NewInv, Holding, Same, RefuseSpent, Release, CallerStep
  <2>6. CASE Answer(c)
    BY <2>6 DEF TypeOK, LockInv, NewInv, Holding, Same, Answer, CallerStep, Idle
  <2>7. CASE Record(c)
    <3>1. createLock = c /\ createLock' = Nobody /\ caller' = [caller EXCEPT ![c] = Idle]
      BY <2>7 DEF LockInv, Holding, Record, Release, CallerStep
    <3>2. \A d \in Callers : ~Holding(d)'
      BY <3>1 DEF TypeOK, LockInv, Holding, Idle
    <3>3. QED
      BY <3>2 DEF LockInv, NewInv, Holding
  <2>8. CASE Raises(c)
    BY <2>8 DEF TypeOK, LockInv, NewInv, Holding, Same, Raises, Release, CallerStep, Idle
  <2>9. QED
    BY <1>2, <2>1, <2>2, <2>3, <2>4, <2>5, <2>6, <2>7, <2>8 DEF Serving
<1>3. CASE Crash
  BY <1>3 DEF LockInv, NewInv, Holding, Crash, Idle
<1>4. CASE createLock' = createLock /\ caller' = caller /\ waiting' \subseteq waiting
  BY <1>4 DEF LockInv, NewInv, Holding, Same
<1>5. QED
  BY <1>1, <1>2, <1>3, <1>4
  DEF Next, vars, Tick, Decide, CreateAgent, SetHourlyLimit, DeleteAgent, OfOthers, Unaffected

(* A retry of a request that is already waiting is not counted. *)
THEOREM RetriesCostNothing == Spec => RetriesAreFree
<1>1. Init => TypeOK /\ LockInv /\ NewInv
  <2>1. Init => TypeOK
    BY TypeInit
  <2>2. Init => LockInv /\ NewInv
    BY DEF Init, LockInv, NewInv, Holding, Idle
  <2>3. QED
    BY <2>1, <2>2
<1>2. (TypeOK /\ LockInv /\ NewInv) /\ [Next]_vars => (TypeOK /\ LockInv /\ NewInv)'
  BY TypeStep, LockStep
<1>3. ASSUME TypeOK, NewInv, Next, NEW c \in Callers,
             admitted' # admitted, caller'[c] # caller[c], caller[c].want # Run
      PROVE  ~Same(c)
  <2>1. PICK d \in Callers : Admit(d)
    BY <1>3 DEF Next, Call, Serving, AnswerUncounted, LookFirst, Note, RefuseSpent, Answer, Record, Raises, CallerStep,
                Uncounted, Unlogged, Tick, Decide, CreateAgent, SetHourlyLimit, DeleteAgent, Crash, Unaffected
  <2>2. d = c
    BY <1>3, <2>1 DEF TypeOK, Admit, CallerStep
  <2>3. QED
    BY <1>3, <2>1, <2>2 DEF NewInv, Admit
<1>4. (TypeOK /\ NewInv) /\ [Next]_vars =>
        [\A c \in Callers : (admitted' # admitted /\ caller'[c] # caller[c] /\ caller[c].want # Run)
                             => ~Same(c)]_vars
  BY <1>3
<1>5. QED
  BY <1>1, <1>2, <1>4, PTL DEF Spec, RetriesAreFree
=============================================================================
