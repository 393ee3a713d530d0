--------------------------- MODULE CommandRunsProofs ---------------------------
(***************************************************************************)
(* Proofs about CommandRuns, for any number of commands, requests and      *)
(* hosts, any caps, and any number of attempts and kept rows.              *)
(***************************************************************************)
EXTENDS CommandRuns, FiniteSetTheorems, TLAPS

-----------------------------------------------------------------------------
(* Type correctness. *)

LEMMA TypeInit == Init => TypeOK
BY DEF Init, TypeOK, Running, Present, Idle, RequestStates, None, Threads

(* A change of statuses, or the loss of rows that are not old, keeps the     *)
(* types of the table.                                                       *)
LEMMA TypeSettle ==
  ASSUME TypeOK, NEW lost \in SUBSET Present, Settle(lost)
  PROVE  run' \in [Ids -> Rows \cup {NoRow}] /\ aged' \in SUBSET Running'
<1>1. run' \in [Ids -> Rows \cup {NoRow}]
  <2>1. \A r \in lost : [run[r] EXCEPT !.status = "error"] \in Rows
    BY DEF TypeOK, Present, Rows, Final
  <2>2. QED
    BY <2>1 DEF TypeOK, Settle
<1>2. \A r \in Ids \ lost : run'[r] = run[r]
  BY DEF Settle
<1>3. QED
  BY <1>1, <1>2 DEF TypeOK, Settle, Running, Present

(* A request keeps the types, whatever step of launch_command it takes.      *)
LEMMA TypeLaunching ==
  ASSUME TypeOK, NEW q \in Requests, Launching(q)
  PROVE  TypeOK'
<1>1. CASE TakeStartLock(q)
  BY <1>1 DEF TypeOK, TakeStartLock, Move, RequestStates, Running, Present
<1>2. CASE CountRuns(q)
  <2>1. run' \in [Ids -> Rows \cup {NoRow}] /\ aged' \in SUBSET Running'
    BY <1>2, TypeSettle DEF CountRuns, TypeOK, Running
  <2>2. request' \in [Requests -> RequestStates]
    BY <1>2 DEF TypeOK, CountRuns, Move, RequestStates
  <2>3. QED
    BY <1>2, <2>1, <2>2 DEF TypeOK, CountRuns
<1>3. CASE RefuseFull(q)
  <2>1. run' \in [Ids -> Rows \cup {NoRow}] /\ aged' \in SUBSET Running'
    BY <1>3, TypeSettle DEF RefuseFull, TypeOK, Running
  <2>2. QED
    BY <1>3, <2>1 DEF TypeOK, RefuseFull, Move, Idle, RequestStates
<1>4. CASE RefuseSetup(q)
  BY <1>4 DEF TypeOK, RefuseSetup, Move, Idle, RequestStates, Running, Present
<1>5. ASSUME NEW r \in Ids, Insert(q, r), SlowTurnover'
      PROVE  TypeOK'
  <2>1. request[q] \in [pc : {"checked", "locked", "counted"}, host : Hosts] /\ r \notin Present
    BY <1>5 DEF TypeOK, Insert, RequestStates, Ids
  <2>2. run' \in [Ids -> Rows \cup {NoRow}] /\ thread' \in [Ids -> Threads]
    BY <1>5, <2>1 DEF TypeOK, Insert, Turn, Rows, Threads
  <2>3. aged' \in SUBSET Running'
    BY <1>5, <2>1 DEF TypeOK, Insert, Running, Present
  <2>4. request' \in [Requests -> RequestStates]
    BY <1>5, <2>1 DEF TypeOK, Insert, Move, RequestStates
  <2>5. QED
    BY <1>5, <2>2, <2>3, <2>4 DEF TypeOK, Insert
<1>6. CASE Spawn(q)
  <2>1. request[q].id \in Ids
    BY <1>6 DEF TypeOK, Spawn, RequestStates
  <2>2. thread' \in [Ids -> Threads] /\ givenUp' \in SUBSET Ids
    BY <1>6, <2>1 DEF TypeOK, Spawn, Turn, GiveUp, None, Threads
  <2>3. QED
    BY <1>6, <2>2 DEF TypeOK, Spawn, Move, Idle, RequestStates, Running, Present
<1>7. QED
  BY <1>1, <1>2, <1>3, <1>4, <1>5, <1>6 DEF Launching

(* So does the thread of a command. *)
LEMMA TypeExecuting ==
  ASSUME TypeOK, RowInv, NEW r \in Ids, Executing(r)
  PROVE  TypeOK'
<1> USE BoundsAreNumbers
<1>1. ASSUME NEW s \in Final, SshEnds(r, s)
      PROVE  TypeOK'
  BY <1>1 DEF TypeOK, SshEnds, Turn, Threads, Running, Present
<1>2. CASE WriteResult(r)
  <2>1. thread[r] \in [pc : {"writing", "pruning"}, result : Final, tries : 0 .. Attempts - 1]
    BY <1>2 DEF TypeOK, WriteResult, Threads
  <2>2. r \in Present \ aged
    BY <1>2 DEF WriteResult, RowInv, HasThread, None
  <2>3. run' \in [Ids -> Rows \cup {NoRow}] /\ aged' \in SUBSET Running'
    <3>1. [run[r] EXCEPT !.status = thread[r].result] \in Rows
      BY <2>1, <2>2 DEF TypeOK, Present, Rows
    <3>2. QED
      BY <1>2, <2>2, <3>1 DEF TypeOK, WriteResult, Running, Present
  <2>4. thread' \in [Ids -> Threads]
    BY <1>2, <2>1 DEF TypeOK, WriteResult, Turn, Threads
  <2>5. QED
    BY <1>2, <2>3, <2>4 DEF TypeOK, WriteResult
<1>3. CASE PruneOld(r)
  <2>1. run' \in [Ids -> Rows \cup {NoRow}] /\ aged' \in SUBSET Running'
    BY <1>3 DEF TypeOK, PruneOld, Running, Present
  <2>2. QED
    BY <1>3, <2>1 DEF TypeOK, PruneOld, Turn, None, Threads
<1>4. CASE TryAgain(r)
  <2>1. thread[r] \in [pc : {"writing", "pruning"}, result : Final, tries : 0 .. Attempts - 1]
    BY <1>4 DEF TypeOK, TryAgain, WriteFails, Threads
  <2>2. QED
    BY <1>4, <2>1 DEF TypeOK, TryAgain, Turn, Threads, Running, Present
<1>5. CASE LastTryFails(r)
  BY <1>5 DEF TypeOK, LastTryFails, GiveUp, Turn, None, Threads, Running, Present
<1>6. QED
  BY <1>1, <1>2, <1>3, <1>4, <1>5 DEF Executing

LEMMA TypeStep ==
  ASSUME TypeOK, RowInv, [Next]_vars
  PROVE  TypeOK'
<1>1. ASSUME NEW q \in Requests, NEW h \in Hosts, Precheck(q, h)
      PROVE  TypeOK'
  BY <1>1 DEF TypeOK, Precheck, Move, RequestStates, Running, Present
<1>2. ASSUME NEW q \in Requests, Launching(q)
      PROVE  TypeOK'
  BY <1>2, TypeLaunching
<1>3. ASSUME NEW r \in Ids, Executing(r)
      PROVE  TypeOK'
  BY <1>3, TypeExecuting
<1>4. ASSUME NEW r \in Ids, GrowOld(r)
      PROVE  TypeOK'
  BY <1>4 DEF TypeOK, GrowOld, Running, Present
<1>5. CASE Crash
  BY <1>5 DEF TypeOK, Crash, Idle, RequestStates, None, Threads, Running, Present
<1>6. CASE Restart
  <2>1. run' \in [Ids -> Rows \cup {NoRow}] /\ aged' \in SUBSET Running'
    BY <1>6, TypeSettle DEF Restart, Running
  <2>2. QED
    BY <1>6, <2>1 DEF TypeOK, Restart
<1>7. CASE UNCHANGED vars
  BY <1>7 DEF TypeOK, vars, Running, Present
<1>8. QED
  BY <1>1, <1>2, <1>3, <1>4, <1>5, <1>6, <1>7 DEF Next

-----------------------------------------------------------------------------
(* The lock, the rows and the threads. *)

LEMMA InvInit == Init => LockInv /\ DownInv /\ RowInv /\ RecordedInv
<1>1. \A r \in Ids : Init => ~HasThread(r)
  BY DEF Init, HasThread
<1>2. QED
  BY <1>1, NobodyIsNoRequest DEF Init, LockInv, DownInv, RowInv, RecordedInv, Idle, InLock

(* A command ends or gives up its row; no other has a thread less, and none  *)
(* is looked after by another.                                               *)
LEMMA RowsSurvive ==
  ASSUME TypeOK, RowInv, NEW lost \in SUBSET aged, Settle(lost), UNCHANGED thread
  PROVE  RowInv'
BY DEF TypeOK, RowInv, Settle, HasThread, Running, Present

LEMMA LaunchingStep ==
  ASSUME TypeOK, LockInv, DownInv, RowInv, RecordedInv, NEW q \in Requests, Launching(q)
  PROVE  LockInv' /\ DownInv' /\ RowInv' /\ RecordedInv'
<1> USE NobodyIsNoRequest
<1>1. CASE TakeStartLock(q)
  <2>1. request' = [request EXCEPT ![q] = [request[q] EXCEPT !.pc = "locked"]]
    BY <1>1 DEF TakeStartLock, Move
  <2>2. request[q].pc = "checked" /\ request[q] \in RequestStates
    BY <1>1 DEF TakeStartLock, TypeOK
  <2>3. LockInv'
    BY <1>1, <2>1, <2>2 DEF TypeOK, LockInv, TakeStartLock, InLock, RequestStates
  <2>4. QED
    BY <1>1, <2>1, <2>2, <2>3 DEF TypeOK, DownInv, RowInv, RecordedInv, TakeStartLock, Idle,
                                  RequestStates, HasThread, Present
<1>2. CASE CountRuns(q)
  <2>1. RowInv'
    BY <1>2, RowsSurvive DEF CountRuns
  <2>2. QED
    BY <1>2, <2>1 DEF TypeOK, LockInv, DownInv, RecordedInv, CountRuns, Move, Idle, InLock,
                      RequestStates, HasThread
<1>3. CASE RefuseFull(q)
  <2>1. RowInv'
    BY <1>3, RowsSurvive DEF RefuseFull
  <2>2. QED
    BY <1>3, <2>1 DEF TypeOK, LockInv, DownInv, RecordedInv, RefuseFull, Move, Idle, InLock, HasThread
<1>4. CASE RefuseSetup(q)
  BY <1>4 DEF TypeOK, LockInv, DownInv, RowInv, RecordedInv, RefuseSetup, Move, Idle, InLock, HasThread, Present
<1>5. ASSUME NEW r \in Ids, Insert(q, r), SlowTurnover'
      PROVE  LockInv' /\ DownInv' /\ RowInv' /\ RecordedInv'
  <2>1. /\ thread' = [thread EXCEPT ![r] = [pc |-> "unborn"]]
        /\ request' = [request EXCEPT ![q] = [pc |-> "recorded", host |-> request[q].host, id |-> r]]
        /\ run' = [run EXCEPT ![r] = [host |-> request[q].host, status |-> "running"]]
    BY <1>5 DEF Insert, Turn, Move
  <2>2. r \notin Present /\ r \notin aged
    BY <1>5 DEF TypeOK, Insert, Running, Present, Ids
  <2>3. request[q] \in [pc : {"checked", "locked", "counted"}, host : Hosts]
    BY <1>5 DEF TypeOK, Insert, RequestStates
  <2>4. Present' = Present \cup {r}
    <3>1. run'[r] # NoRow
      BY <2>1, <2>3, NoRowIsNoRow DEF TypeOK, Rows
    <3>2. QED
      BY <2>1, <3>1 DEF TypeOK, Present
  <2>5. RowInv'
    <3>1. ASSUME NEW s \in Ids, HasThread(s)'
          PROVE  \A t \in Present' : t < s + KeepRuns
      BY <1>5, <3>1 DEF SlowTurnover, HasThread, Present
    <3>2. QED
      BY <1>5, <2>1, <2>2, <2>4, <3>1 DEF TypeOK, RowInv, Insert, HasThread, Present
  <2>6. LockInv' /\ DownInv'
    BY <1>5, <2>1 DEF TypeOK, LockInv, DownInv, Insert, InLock, Idle
  <2>7. RecordedInv'
    <3>1. \A p \in Requests \ {q} : request'[p].pc # "recorded"
      BY <1>5, <2>1 DEF TypeOK, LockInv, Insert, InLock
    <3>2. QED
      BY <2>1, <3>1 DEF TypeOK, RecordedInv
  <2>8. QED
    BY <2>5, <2>6, <2>7
<1>6. CASE Spawn(q)
  <2>1. request[q].id \in Ids /\ thread[request[q].id].pc = "unborn"
    BY <1>6 DEF TypeOK, RecordedInv, Spawn, RequestStates
  <2>2. \/ thread' = [thread EXCEPT ![request[q].id] = [pc |-> "waiting"]]
        \/ thread' = [thread EXCEPT ![request[q].id] = None]
    BY <1>6 DEF Spawn, Turn, GiveUp
  <2>3. RowInv'
    BY <1>6, <2>1, <2>2 DEF TypeOK, RowInv, Spawn, HasThread, None, Present
  <2>4. LockInv' /\ DownInv'
    BY <1>6 DEF TypeOK, LockInv, DownInv, Spawn, Move, InLock, Idle
  <2>5. RecordedInv'
    BY <1>6 DEF TypeOK, LockInv, RecordedInv, Spawn, Move, InLock, Idle
  <2>6. QED
    BY <2>3, <2>4, <2>5
<1>7. QED
  BY <1>1, <1>2, <1>3, <1>4, <1>5, <1>6 DEF Launching

LEMMA ExecutingStep ==
  ASSUME TypeOK, LockInv, DownInv, RowInv, RecordedInv, NEW r \in Ids, Executing(r)
  PROVE  LockInv' /\ DownInv' /\ RowInv' /\ RecordedInv'
<1> USE BoundsAreNumbers
<1>1. HasThread(r) /\ r \in Present \ aged /\ thread[r].pc \in {"waiting", "writing", "pruning"} /\ up
  <2>1. thread[r].pc \in {"waiting", "writing", "pruning"}
    BY DEF Executing, SshEnds, WriteResult, PruneOld, TryAgain, LastTryFails, WriteFails
  <2>2. HasThread(r)
    BY <2>1 DEF HasThread, None
  <2>3. r \in Present \ aged /\ up
    BY <2>2 DEF TypeOK, RowInv, DownInv
  <2>4. QED
    BY <2>1, <2>2, <2>3
<1>2. UNCHANGED <<startLock, request, up>>
  BY DEF Executing, SshEnds, WriteResult, PruneOld, TryAgain, LastTryFails
<1>3. LockInv' /\ DownInv'
  BY <1>1, <1>2 DEF LockInv, DownInv
<1>4. \E next : Turn(r, next)
  BY DEF Executing, SshEnds, WriteResult, PruneOld, TryAgain, LastTryFails, GiveUp
<1>5. RecordedInv'
  BY <1>1, <1>2, <1>4 DEF TypeOK, RecordedInv, Turn, RequestStates
<1>6. RowInv'
  <2>1. ASSUME NEW s \in Final, SshEnds(r, s)
        PROVE  RowInv'
    BY <1>1, <2>1 DEF TypeOK, RowInv, SshEnds, Turn, HasThread, Present
  <2>2. CASE WriteResult(r)
    <3>1. run'[r] = [run[r] EXCEPT !.status = thread[r].result] /\ run[r] \in Rows
      BY <1>1, <2>2 DEF TypeOK, WriteResult, Present
    <3>2. thread' = [thread EXCEPT ![r] = [thread[r] EXCEPT !.pc = "pruning"]] /\ thread[r].pc = "writing"
      BY <2>2 DEF WriteResult, Turn
    <3>3. thread'[r].pc = "pruning" /\ thread'[r].result = thread[r].result /\ run'[r].status = thread[r].result
      BY <3>1, <3>2 DEF TypeOK, Threads, Rows
    <3>4. Present' = Present
      <4>1. run'[r] \in Rows
        BY <3>1, <3>2, <3>3 DEF TypeOK, Rows, Threads
      <4>2. QED
        BY <1>1, <2>2, <4>1, NoRowIsNoRow DEF TypeOK, WriteResult, Present
    <3>5. QED
      BY <1>1, <2>2, <3>2, <3>3, <3>4 DEF TypeOK, RowInv, WriteResult, HasThread
  <2>3. CASE PruneOld(r)
    <3>1. ASSUME NEW s \in Ids, HasThread(s)'
          PROVE  s \notin Expendable(r) /\ HasThread(s)
      <4>1. HasThread(s) /\ thread'[s] = thread[s]
        BY <2>3, <3>1 DEF TypeOK, PruneOld, Turn, HasThread
      <4>2. r < s + KeepRuns
        BY <1>1, <4>1 DEF RowInv
      <4>3. QED
        BY <4>1, <4>2 DEF Expendable, Ids
    <3>2. Present' \subseteq Present
      BY <2>3 DEF TypeOK, PruneOld, Present
    <3>3. \A s \in Ids \ {r} : thread'[s] = thread[s]
      BY <2>3 DEF TypeOK, PruneOld, Turn
    <3>4. ~HasThread(r)'
      BY <2>3 DEF TypeOK, PruneOld, Turn, HasThread
    <3>5. QED
      BY <2>3, <3>1, <3>2, <3>3, <3>4 DEF RowInv, PruneOld, Present
  <2>4. CASE TryAgain(r)
    BY <1>1, <2>4 DEF TypeOK, RowInv, TryAgain, WriteFails, Turn, HasThread, None, Present
  <2>5. CASE LastTryFails(r)
    BY <1>1, <2>5 DEF TypeOK, RowInv, LastTryFails, GiveUp, Turn, HasThread, Present
  <2>6. QED
    BY <2>1, <2>2, <2>3, <2>4, <2>5 DEF Executing
<1>7. QED
  BY <1>3, <1>5, <1>6

LEMMA InvStep ==
  ASSUME TypeOK, LockInv, DownInv, RowInv, RecordedInv, [Next]_vars
  PROVE  LockInv' /\ DownInv' /\ RowInv' /\ RecordedInv'
<1>1. ASSUME NEW q \in Requests, NEW h \in Hosts, Precheck(q, h)
      PROVE  LockInv' /\ DownInv' /\ RowInv' /\ RecordedInv'
  BY <1>1 DEF TypeOK, LockInv, DownInv, RowInv, RecordedInv, Precheck, Move, Idle, InLock,
              HasThread, Present
<1>2. ASSUME NEW q \in Requests, Launching(q)
      PROVE  LockInv' /\ DownInv' /\ RowInv' /\ RecordedInv'
  BY <1>2, LaunchingStep
<1>3. ASSUME NEW r \in Ids, Executing(r)
      PROVE  LockInv' /\ DownInv' /\ RowInv' /\ RecordedInv'
  BY <1>3, ExecutingStep
<1>4. ASSUME NEW r \in Ids, GrowOld(r)
      PROVE  LockInv' /\ DownInv' /\ RowInv' /\ RecordedInv'
  <2>1. ~HasThread(r)
    BY <1>4 DEF TypeOK, GrowOld, DownInv
  <2>2. QED
    BY <1>4, <2>1 DEF LockInv, DownInv, RowInv, RecordedInv, GrowOld, HasThread, Present
<1>5. CASE Crash
  BY <1>5, NobodyIsNoRequest DEF Crash, LockInv, DownInv, RowInv, RecordedInv, Idle, InLock, HasThread
<1>6. CASE Restart
  <2>1. \A r \in Ids : ~HasThread(r) /\ ~HasThread(r)'
    BY <1>6 DEF Restart, DownInv, HasThread
  <2>2. QED
    BY <1>6, <2>1 DEF Restart, LockInv, DownInv, RowInv, RecordedInv
<1>7. CASE UNCHANGED vars
  BY <1>7 DEF vars, LockInv, DownInv, RowInv, RecordedInv, HasThread, Present
<1>8. QED
  BY <1>1, <1>2, <1>3, <1>4, <1>5, <1>6, <1>7 DEF Next

-----------------------------------------------------------------------------
(* The caps. *)

(* Sets of ids are finite, and a part of one is no larger than the whole.    *)
LEMMA IdsFinite ==
  /\ \A S \in SUBSET Ids : IsFiniteSet(S) /\ Cardinality(S) \in Nat
  /\ \A T \in SUBSET Ids : \A S \in SUBSET T : Cardinality(S) <= Cardinality(T)
<1>1. IsFiniteSet(Ids)
  BY FS_Interval, BoundsAreNumbers DEF Ids
<1>2. QED
  BY <1>1, FS_Subset, FS_CardinalityType

(* What goes has a row that says so and is not old: it is counted.           *)
LEMMA GoingIsCounted ==
  ASSUME RowInv
  PROVE  Going \subseteq Running \ aged /\ \A h \in Hosts : GoingOn(h) \subseteq Busy(h)
<1>1. \A r \in Going : r \in Ids /\ HasThread(r) /\ thread[r].pc \in {"unborn", "waiting"}
  BY DEF Going, HasThread, None
<1>2. \A r \in Going : r \in Running \ aged
  BY <1>1 DEF RowInv, Running
<1>3. QED
  BY <1>2 DEF GoingOn, Busy

(* No step but Insert adds to what goes, and rows keep their host.           *)
LEMMA FewerGo ==
  ASSUME TypeOK, CapsHold,
         Going' \subseteq Going,
         \A r \in Going' \cap Present' : r \in Present /\ run'[r].host = run[r].host
  PROVE  /\ CapsHold'
         /\ Cardinality(Going') <= Cardinality(Going)
         /\ \A h \in Hosts : Cardinality(GoingOn(h)') <= Cardinality(GoingOn(h))
<1>1. Going \in SUBSET Ids /\ Going' \in SUBSET Going
  BY DEF Going
<1>2. \A h \in Hosts : GoingOn(h) \in SUBSET Ids /\ GoingOn(h)' \in SUBSET GoingOn(h)
  BY DEF GoingOn, Present
<1>3. /\ Cardinality(Going') <= Cardinality(Going)
      /\ Cardinality(Going) \in Nat /\ Cardinality(Going') \in Nat
  BY <1>1, IdsFinite
<1>4. ASSUME NEW h \in Hosts
      PROVE  /\ Cardinality(GoingOn(h)') <= Cardinality(GoingOn(h))
             /\ Cardinality(GoingOn(h)) \in Nat /\ Cardinality(GoingOn(h)') \in Nat
  BY <1>2, IdsFinite
<1>5. QED
  BY <1>3, <1>4, BoundsAreNumbers DEF CapsHold

(* A request that has found a place is the only one that may take it.        *)
LEMMA OthersDoNotCount ==
  ASSUME LockInv, NEW q \in Requests, request[q].pc \in InLock
  PROVE  \A p \in Requests \ {q} : request[p].pc \notin InLock
BY DEF LockInv

(* When fewer go and nobody new has counted, every place that was found is   *)
(* still there.                                                              *)
LEMMA PlaceStays ==
  ASSUME TypeOK, CapsHold, PlaceInv,
         Going' \subseteq Going,
         \A r \in Going' \cap Present' : r \in Present /\ run'[r].host = run[r].host,
         \A q \in Requests : request'[q].pc = "counted" => request'[q] = request[q]
  PROVE  CapsHold' /\ PlaceInv'
<1>1. /\ CapsHold'
      /\ Cardinality(Going') <= Cardinality(Going)
      /\ \A h \in Hosts : Cardinality(GoingOn(h)') <= Cardinality(GoingOn(h))
  BY FewerGo
<1>2. ASSUME NEW q \in Requests, request'[q].pc = "counted"
      PROVE  /\ Cardinality(Going') < MaxCommandRuns
             /\ Cardinality(GoingOn(request[q].host))' < MaxPerHost
  <2>1. request'[q] = request[q] /\ request[q].pc = "counted"
    BY <1>2
  <2>2. PICK h \in Hosts : h = request[q].host /\ h = request'[q].host
    BY <2>1 DEF TypeOK, RequestStates, Idle
  <2>3. Cardinality(Going) < MaxCommandRuns /\ Cardinality(GoingOn(h)) < MaxPerHost
    BY <2>1, <2>2 DEF PlaceInv
  <2>4. Cardinality(Going) \in Nat /\ Cardinality(Going') \in Nat
    BY IdsFinite DEF Going
  <2>5. Cardinality(GoingOn(h)) \in Nat /\ Cardinality(GoingOn(h)') \in Nat
    BY IdsFinite DEF GoingOn, Going, Present
  <2>6. Cardinality(Going') < MaxCommandRuns /\ Cardinality(GoingOn(h)') < MaxPerHost
    BY <1>1, <2>3, <2>4, <2>5, BoundsAreNumbers
  <2>7. QED
    BY <2>2, <2>6 DEF GoingOn
<1>3. QED
  BY <1>1, <1>2 DEF PlaceInv, GoingOn

LEMMA LaunchingCaps ==
  ASSUME TypeOK, LockInv, RowInv, RecordedInv, PlaceInv, CapsHold, NEW q \in Requests, Launching(q)
  PROVE  CapsHold' /\ PlaceInv'
<1>1. CASE TakeStartLock(q)
  <2>1. \A p \in Requests : request'[p].pc = "counted" => request'[p] = request[p]
    BY <1>1 DEF TypeOK, TakeStartLock, Move, RequestStates
  <2>2. QED
    BY <1>1, <2>1, PlaceStays DEF TakeStartLock, Going, Present
<1>2. CASE CountRuns(q)
  <2>1. /\ Going' = Going
        /\ \A r \in Going' \cap Present' : r \in Present /\ run'[r].host = run[r].host
    BY <1>2 DEF TypeOK, CountRuns, Settle, Going, Present, Running, Rows
  <2>2. /\ CapsHold'
        /\ Cardinality(Going') <= Cardinality(Going)
        /\ \A h \in Hosts : Cardinality(GoingOn(h)') <= Cardinality(GoingOn(h))
    BY <2>1, FewerGo
  <2>3. \A p \in Requests \ {q} : request'[p].pc # "counted"
    BY <1>2, OthersDoNotCount DEF TypeOK, CountRuns, Move, InLock
  <2>4. PICK h \in Hosts : h = request[q].host /\ h = request'[q].host
    BY <1>2 DEF TypeOK, CountRuns, Move, RequestStates
  <2>5. Going \subseteq Running \ aged /\ GoingOn(h) \subseteq Busy(h)
    BY GoingIsCounted
  <2>6. /\ Running \ aged \in SUBSET Ids /\ Busy(h) \in SUBSET Ids
        /\ Going' \in SUBSET Ids /\ GoingOn(h)' \in SUBSET Ids
    BY DEF Running, Busy, Going, GoingOn, Present
  <2>7. /\ Cardinality(Going) <= Cardinality(Running \ aged)
        /\ Cardinality(GoingOn(h)) <= Cardinality(Busy(h))
    BY <2>5, <2>6, IdsFinite
  <2>8. /\ Cardinality(Running \ aged) \in Nat /\ Cardinality(Busy(h)) \in Nat
        /\ Cardinality(Going) \in Nat /\ Cardinality(GoingOn(h)) \in Nat
        /\ Cardinality(Going') \in Nat /\ Cardinality(GoingOn(h)') \in Nat
    BY <2>5, <2>6, IdsFinite
  <2>9. Cardinality(Running \ aged) < MaxCommandRuns /\ Cardinality(Busy(h)) < MaxPerHost
    BY <1>2, <2>4 DEF CountRuns, HasPlace
  <2>10. Cardinality(Going') < MaxCommandRuns /\ Cardinality(GoingOn(h)') < MaxPerHost
    BY <2>2, <2>7, <2>8, <2>9, BoundsAreNumbers
  <2>11. QED
    BY <2>2, <2>3, <2>4, <2>10 DEF PlaceInv, GoingOn
<1>3. CASE RefuseFull(q)
  <2>1. /\ Going' = Going
        /\ \A r \in Going' \cap Present' : r \in Present /\ run'[r].host = run[r].host
    BY <1>3 DEF TypeOK, RefuseFull, Settle, Going, Present, Running, Rows
  <2>2. \A p \in Requests : request'[p].pc = "counted" => request'[p] = request[p]
    BY <1>3 DEF TypeOK, RefuseFull, Move, Idle
  <2>3. QED
    BY <2>1, <2>2, PlaceStays
<1>4. CASE RefuseSetup(q)
  <2>1. \A p \in Requests : request'[p].pc = "counted" => request'[p] = request[p]
    BY <1>4 DEF TypeOK, RefuseSetup, Move, Idle
  <2>2. QED
    BY <1>4, <2>1, PlaceStays DEF RefuseSetup, Going, Present
<1>5. ASSUME NEW r \in Ids, Insert(q, r), SlowTurnover'
      PROVE  CapsHold' /\ PlaceInv'
  <2>1. \A p \in Requests : request'[p].pc # "counted"
    <3>1. request[q].pc \in InLock
      BY <1>5 DEF Insert, InLock
    <3>2. QED
      BY <1>5, <3>1, OthersDoNotCount DEF TypeOK, Insert, Move, InLock
  <2>2. PICK h \in Hosts : h = request[q].host
    BY <1>5 DEF TypeOK, Insert, RequestStates
  <2>3. r \notin Present /\ r \notin Going
    BY <1>5 DEF Insert, RowInv, Going, HasThread, None, Ids
  <2>4. Going' = Going \cup {r}
    BY <1>5 DEF TypeOK, Insert, Turn, Going
  <2>5. \A s \in Ids \ {r} : run'[s] = run[s]
    BY <1>5 DEF TypeOK, Insert
  <2>6. run'[r].host = h
    BY <1>5, <2>2 DEF TypeOK, Insert
  <2>7. /\ GoingOn(h)' \in SUBSET (GoingOn(h) \cup {r})
        /\ \A g \in Hosts \ {h} : GoingOn(g)' \in SUBSET GoingOn(g)
    BY <2>4, <2>5, <2>6 DEF GoingOn, Present, Going
  <2>8. /\ Cardinality(Going) < MaxCommandRuns
        /\ Cardinality(GoingOn(h)) < MaxPerHost
    BY <1>5, <2>2 DEF PlaceInv, Insert
  <2>9. /\ Going \in SUBSET Ids /\ Going \cup {r} \in SUBSET Ids
        /\ \A g \in Hosts : GoingOn(g) \in SUBSET Ids /\ GoingOn(g) \cup {r} \in SUBSET Ids
    BY <1>5 DEF Going, GoingOn, Present
  <2>10. Cardinality(Going') <= MaxCommandRuns
    BY <2>3, <2>4, <2>8, <2>9, IdsFinite, FS_AddElement, BoundsAreNumbers
  <2>11. Cardinality(GoingOn(h)') <= MaxPerHost
    <3>1. r \notin GoingOn(h)
      BY <2>3 DEF GoingOn
    <3>2. Cardinality(GoingOn(h)) \in Nat /\ IsFiniteSet(GoingOn(h))
      BY <2>9, IdsFinite
    <3>3. Cardinality(GoingOn(h) \cup {r}) = Cardinality(GoingOn(h)) + 1
      BY <3>1, <3>2, FS_AddElement
    <3>4. Cardinality(GoingOn(h)') <= Cardinality(GoingOn(h) \cup {r}) /\ Cardinality(GoingOn(h)') \in Nat
      BY <2>7, <2>9, IdsFinite
    <3>5. QED
      BY <2>8, <3>2, <3>3, <3>4, BoundsAreNumbers
  <2>12. ASSUME NEW g \in Hosts \ {h}
         PROVE  Cardinality(GoingOn(g)') <= MaxPerHost
    <3>1. Cardinality(GoingOn(g)') <= Cardinality(GoingOn(g))
      BY <2>7, <2>9, IdsFinite
    <3>2. Cardinality(GoingOn(g)) \in Nat /\ Cardinality(GoingOn(g)') \in Nat
      BY <2>7, <2>9, IdsFinite
    <3>3. QED
      BY <3>1, <3>2, BoundsAreNumbers DEF CapsHold
  <2>13. QED
    BY <2>1, <2>10, <2>11, <2>12 DEF CapsHold, PlaceInv
<1>6. CASE Spawn(q)
  <2>1. request[q].id \in Ids /\ thread[request[q].id].pc = "unborn"
    BY <1>6 DEF TypeOK, RecordedInv, Spawn, RequestStates
  <2>2. Going' \subseteq Going
    BY <1>6, <2>1 DEF TypeOK, Spawn, Turn, GiveUp, None, Going
  <2>3. \A p \in Requests : request'[p].pc = "counted" => request'[p] = request[p]
    BY <1>6 DEF TypeOK, Spawn, Move, Idle
  <2>4. QED
    BY <1>6, <2>2, <2>3, PlaceStays DEF Spawn, Present
<1>7. QED
  BY <1>1, <1>2, <1>3, <1>4, <1>5, <1>6 DEF Launching

LEMMA ExecutingCaps ==
  ASSUME TypeOK, RowInv, PlaceInv, CapsHold, NEW r \in Ids, Executing(r)
  PROVE  CapsHold' /\ PlaceInv'
<1>1. UNCHANGED request
  BY DEF Executing, SshEnds, WriteResult, PruneOld, TryAgain, LastTryFails
<1>2. Going' \subseteq Going
  <2>1. CASE WriteResult(r)
    <3>1. thread[r] \in [pc : {"writing", "pruning"}, result : Final, tries : 0 .. Attempts - 1]
      BY <2>1 DEF TypeOK, WriteResult, Threads
    <3>2. QED
      BY <2>1, <3>1 DEF TypeOK, WriteResult, Turn, Going
  <2>2. ASSUME NEW s \in Final, SshEnds(r, s)
        PROVE  Going' \subseteq Going
    BY <2>2 DEF TypeOK, SshEnds, Turn, Going
  <2>3. CASE PruneOld(r) \/ LastTryFails(r)
    BY <2>3 DEF TypeOK, PruneOld, LastTryFails, GiveUp, Turn, None, Going
  <2>4. CASE TryAgain(r)
    BY <2>4 DEF TypeOK, TryAgain, Turn, Going
  <2>5. QED
    BY <2>1, <2>2, <2>3, <2>4 DEF Executing
<1>3. \A s \in Going' \cap Present' : s \in Present /\ run'[s].host = run[s].host
  <2>1. CASE WriteResult(r)
    BY <2>1 DEF TypeOK, WriteResult, Turn, Going, Present
  <2>2. CASE PruneOld(r)
    BY <2>2 DEF TypeOK, PruneOld, Present
  <2>3. CASE UNCHANGED run
    BY <2>3 DEF Present
  <2>4. QED
    BY <2>1, <2>2, <2>3 DEF Executing, SshEnds, TryAgain, LastTryFails
<1>4. QED
  BY <1>1, <1>2, <1>3, PlaceStays

LEMMA CapStep ==
  ASSUME IInv, [Next]_vars
  PROVE  CapsHold' /\ PlaceInv'
<1> USE DEF IInv
<1>1. ASSUME NEW q \in Requests, NEW h \in Hosts, Precheck(q, h)
      PROVE  CapsHold' /\ PlaceInv'
  <2>1. \A p \in Requests : request'[p].pc = "counted" => request'[p] = request[p]
    BY <1>1 DEF TypeOK, Precheck, Move
  <2>2. QED
    BY <1>1, <2>1, PlaceStays DEF Precheck, Going, Present
<1>2. ASSUME NEW q \in Requests, Launching(q)
      PROVE  CapsHold' /\ PlaceInv'
  BY <1>2, LaunchingCaps
<1>3. ASSUME NEW r \in Ids, Executing(r)
      PROVE  CapsHold' /\ PlaceInv'
  BY <1>3, ExecutingCaps
<1>4. ASSUME NEW r \in Ids, GrowOld(r)
      PROVE  CapsHold' /\ PlaceInv'
  BY <1>4, PlaceStays DEF GrowOld, Going, Present
<1>5. CASE Crash
  <2>1. Going' = {} /\ \A q \in Requests : request'[q].pc # "counted"
    BY <1>5 DEF Crash, Going, None, Idle
  <2>2. QED
    BY <2>1, PlaceStays
<1>6. CASE Restart
  <2>1. Going' = {} /\ \A q \in Requests : request'[q].pc # "counted"
    BY <1>6 DEF Restart, DownInv, HasThread, Going, None, Idle
  <2>2. QED
    BY <2>1, PlaceStays
<1>7. CASE UNCHANGED vars
  BY <1>7, PlaceStays DEF vars, Going, Present
<1>8. QED
  BY <1>1, <1>2, <1>3, <1>4, <1>5, <1>6, <1>7 DEF Next

-----------------------------------------------------------------------------
(* The theorems. *)

LEMMA IInvInit == Init => IInv
<1>1. Init => Going = {} /\ \A h \in Hosts : GoingOn(h) = {}
  BY DEF Init, Going, GoingOn, None
<1>2. Init => CapsHold /\ PlaceInv
  <2>1. Cardinality({}) = 0
    BY FS_EmptySet
  <2>2. Init => CapsHold
    BY <1>1, <2>1, BoundsAreNumbers DEF CapsHold
  <2>3. Init => PlaceInv
    BY DEF Init, PlaceInv, Idle
  <2>4. QED
    BY <2>2, <2>3
<1>3. QED
  BY <1>2, TypeInit, InvInit DEF IInv

LEMMA IInvStep == IInv /\ [Next]_vars => IInv'
<1>1. SUFFICES ASSUME IInv, [Next]_vars
               PROVE  IInv'
  OBVIOUS
<1>2. TypeOK'
  BY <1>1, TypeStep DEF IInv
<1>3. LockInv' /\ DownInv' /\ RowInv' /\ RecordedInv'
  BY <1>1, InvStep DEF IInv
<1>4. CapsHold' /\ PlaceInv'
  BY <1>1, CapStep
<1>5. QED
  BY <1>2, <1>3, <1>4 DEF IInv

THEOREM Inductive == Spec => []IInv
BY IInvInit, IInvStep, PTL DEF Spec

(* Every variable keeps its type: no status, thread or request is ever in a  *)
(* shape the code of commands.py does not know.                              *)
THEOREM TypeCorrect == Spec => []TypeOK
<1>1. IInv => TypeOK
  BY DEF IInv
<1>2. QED
  BY <1>1, Inductive, PTL

(* README.md:161, for any caps: never more commands at work than             *)
(* MAX_COMMAND_RUNS in all and MAX_COMMANDS_PER_HOST on one host.            *)
THEOREM CapsKept == Spec => []CapsHold
<1>1. IInv => CapsHold
  BY DEF IInv
<1>2. QED
  BY <1>1, Inductive, PTL

(* commands.py:172-173: whoever leaves _start_lock after counting has first  *)
(* settled every row that is too old to be anything but lost.                *)
THEOREM LostSettled == Spec => LostRowsSettled
<1>1. ASSUME IInv, Next, NEW q \in Requests,
             request[q].pc = "locked", request'[q].pc # "locked", up'
      PROVE  \A r \in aged : run'[r].status = "error"
  <2>1. \E p \in Requests : CountRuns(p) \/ RefuseFull(p)
    <3>1. ASSUME NEW p \in Requests, Launching(p)
          PROVE  CountRuns(p) \/ RefuseFull(p)
      <4>1. CASE p = q
        BY <1>1, <3>1, <4>1 DEF Launching, TakeStartLock, RefuseSetup, Insert, Spawn
      <4>2. CASE p # q
        <5>1. request'[q] = request[q]
          <6>1. \E next : Move(p, next)
            BY <3>1 DEF Launching, TakeStartLock, CountRuns, RefuseFull, RefuseSetup, Insert, Spawn
          <6>2. QED
            BY <1>1, <4>2, <6>1 DEF IInv, TypeOK, Move
        <5>2. QED
          BY <1>1, <5>1
      <4>3. QED
        BY <4>1, <4>2
    <3>2. ASSUME NEW p \in Requests, NEW h \in Hosts, Precheck(p, h)
          PROVE  FALSE
      BY <1>1, <3>2 DEF IInv, TypeOK, Precheck, Move, Idle
    <3>3. ~\E r \in Ids : Executing(r) \/ GrowOld(r)
      BY <1>1 DEF Executing, SshEnds, WriteResult, PruneOld, TryAgain, LastTryFails, GrowOld
    <3>4. ~Crash /\ ~Restart
      BY <1>1 DEF Crash, Restart
    <3>5. QED
      BY <1>1, <3>1, <3>2, <3>3, <3>4 DEF Next
  <2>2. Settle(aged)
    BY <2>1 DEF CountRuns, RefuseFull
  <2>3. \A r \in aged : r \in Ids /\ run[r] \in Rows
    BY <1>1 DEF IInv, TypeOK, Running, Present
  <2>4. QED
    BY <2>2, <2>3 DEF Settle, Rows
<1>2. ASSUME IInv, [Next]_vars
      PROVE  [\A q \in Requests :
                (request[q].pc = "locked" /\ request'[q].pc # "locked" /\ up')
                => \A r \in aged : run'[r].status = "error"]_vars
  BY <1>1, <1>2
<1>3. QED
  BY <1>2, Inductive, PTL DEF Spec, LostRowsSettled

(* A command has one result: neither its own thread, which may try to write  *)
(* it again, nor the settling of lost rows, nor a restart changes it.        *)
THEOREM ResultKept == Spec => ResultStays
<1>1. ASSUME IInv, Next, NEW r \in Present, run[r].status \in Final, run'[r] # NoRow
      PROVE  run'[r] = run[r]
  <2>1. r \in Ids /\ run[r] \in Rows /\ r \notin Running /\ r \notin aged
    BY <1>1 DEF IInv, TypeOK, Running, Present, Final
  <2>2. ASSUME NEW lost \in SUBSET Running, Settle(lost)
        PROVE  run'[r] = run[r]
    BY <2>1, <2>2 DEF Settle
  <2>3. ASSUME NEW q \in Requests, Launching(q)
        PROVE  run'[r] = run[r]
    <3>1. CASE CountRuns(q) \/ RefuseFull(q)
      BY <1>1, <2>2, <3>1 DEF IInv, TypeOK, CountRuns, RefuseFull
    <3>2. ASSUME NEW s \in Ids, Insert(q, s)
          PROVE  run'[r] = run[r]
      <4>1. s # r
        BY <1>1, <3>2, <2>1 DEF Insert, Ids
      <4>2. QED
        BY <2>1, <3>2, <4>1 DEF IInv, TypeOK, Insert
    <3>3. CASE TakeStartLock(q) \/ RefuseSetup(q) \/ Spawn(q)
      BY <3>3 DEF TakeStartLock, RefuseSetup, Spawn
    <3>4. QED
      BY <2>3, <3>1, <3>2, <3>3 DEF Launching
  <2>4. ASSUME NEW s \in Ids, Executing(s)
        PROVE  run'[r] = run[r]
    <3>1. CASE WriteResult(s)
      <4>1. CASE s = r
        <5>1. thread[r].result = run[r].status
          <6>1. HasThread(r)
            BY <3>1, <4>1 DEF WriteResult, HasThread, None
          <6>2. QED
            BY <1>1, <2>1, <6>1 DEF IInv, RowInv, Final
        <5>2. run'[r] = [run[r] EXCEPT !.status = run[r].status]
          BY <1>1, <2>1, <3>1, <4>1, <5>1 DEF IInv, TypeOK, WriteResult
        <5>3. QED
          BY <2>1, <5>2 DEF Rows
      <4>2. CASE s # r
        BY <1>1, <2>1, <3>1, <4>2 DEF IInv, TypeOK, WriteResult
      <4>3. QED
        BY <4>1, <4>2
    <3>2. CASE PruneOld(s)
      BY <1>1, <2>1, <3>2 DEF PruneOld
    <3>3. CASE UNCHANGED run
      BY <3>3
    <3>4. QED
      BY <2>4, <3>1, <3>2, <3>3 DEF Executing, SshEnds, TryAgain, LastTryFails
  <2>5. CASE Restart
    BY <2>2, <2>5 DEF Restart
  <2>6. CASE UNCHANGED run
    BY <2>6
  <2>7. QED
    BY <1>1, <2>3, <2>4, <2>5, <2>6 DEF Next, Precheck, GrowOld, Crash
<1>2. ASSUME IInv, [Next]_vars
      PROVE  [\A r \in Present : (run[r].status \in Final /\ run'[r] # NoRow) => run'[r] = run[r]]_vars
  BY <1>1, <1>2
<1>3. QED
  BY <1>2, Inductive, PTL DEF Spec, ResultStays
=============================================================================
