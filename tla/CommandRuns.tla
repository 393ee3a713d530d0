------------------------------ MODULE CommandRuns ------------------------------
(***************************************************************************)
(* Library commands run over SSH: app/services/commands.py, and            *)
(* launch_command of app/services/agent_runs.py.                           *)
(*                                                                         *)
(* Request threads count the rows that say "running" and start a command   *)
(* under _start_lock; one thread per command waits for ssh and writes the  *)
(* result, trying five times.  A row whose thread is gone is settled at    *)
(* the next start once it is older than any command can last.              *)
(***************************************************************************)
EXTENDS Naturals, FiniteSets

CONSTANTS
    MaxRuns,        \* bound on the CommandRun rows ever made
    Requests,       \* request threads: an agent's call or an approval just given
    Hosts,          \* the library hosts a command runs on
    MaxCommandRuns, \* MAX_COMMAND_RUNS (5)
    MaxPerHost,     \* MAX_COMMANDS_PER_HOST (2)
    Attempts,       \* how often _finish tries (5)
    KeepRuns,       \* KEEP_RUNS (500)
    MayFail,        \* TRUE: a write or the start of a thread may raise
    NoRow,          \* no such row
    Nobody          \* the lock is free

ASSUME BoundsAreNumbers == /\ MaxRuns \in Nat /\ MaxCommandRuns \in Nat /\ MaxPerHost \in Nat
                           /\ Attempts \in Nat \ {0} /\ KeepRuns \in Nat \ {0}
ASSUME MayFailIsBoolean == MayFail \in BOOLEAN
ASSUME NobodyIsNoRequest == Nobody \notin Requests

VARIABLES
    run,            \* the CommandRun table: a row or NoRow for each id
    aged,           \* "running" rows older than STALE_AFTER (10 minutes)
    up,             \* whether the server is running
    startLock,      \* agent_runs._start_lock
    request,        \* the request threads
    thread,         \* the thread of each command
    givenUp         \* auxiliary: whose thread did not start, or gave up, since the last start

vars == <<run, aged, up, startLock, request, thread, givenUp>>

-----------------------------------------------------------------------------
Ids == 1 .. MaxRuns
Final == {"ended", "error"}     \* "ended" stands for success, failed and timeout
Rows == [host : Hosts, status : {"running"} \cup Final]
ASSUME NoRowIsNoRow == NoRow \notin Rows
Present == {r \in Ids : run[r] # NoRow}
Running == {r \in Present : run[r].status = "running"}

Idle == [pc |-> "idle"]
InLock == {"locked", "counted", "recorded"}
RequestStates == [pc : {"idle"}] \cup [pc : {"checked", "locked", "counted"}, host : Hosts]
                 \cup [pc : {"recorded"}, host : Hosts, id : Ids]

(* The thread of a command: not started yet, waiting for ssh, writing the    *)
(* result (tries so far), deleting old rows after it.                        *)
None == [pc |-> "none"]
Threads == [pc : {"none", "unborn", "waiting"}]
           \cup [pc : {"writing", "pruning"}, result : Final, tries : 0 .. Attempts - 1]

(* A command that may be at work on its host, or is about to be. *)
Going == {r \in Ids : thread[r].pc \in {"unborn", "waiting"}}
GoingOn(h) == {r \in Going \cap Present : run[r].host = h}
HasThread(r) == thread[r] # None

Init ==
    /\ run = [r \in Ids |-> NoRow]
    /\ aged = {}
    /\ up = TRUE
    /\ startLock = Nobody
    /\ request = [q \in Requests |-> Idle]
    /\ thread = [r \in Ids |-> None]
    /\ givenUp = {}

-----------------------------------------------------------------------------
(* Starting: agent_runs.launch_command and commands.start. *)

Move(q, next) == request' = [request EXCEPT ![q] = next]
Turn(r, next) == thread' = [thread EXCEPT ![r] = next]
GiveUp(r) == Turn(r, None) /\ givenUp' = givenUp \cup {r}

Precheck(q, h) ==
    /\ up /\ request[q] = Idle
    /\ Move(q, [pc |-> "checked", host |-> h])
    /\ UNCHANGED <<run, aged, up, startLock, thread, givenUp>>

(* Mutant of TakeStartLock: two requests count before either has its row. *)
TakeStartLock_NotExclusive(q) ==
    /\ request[q].pc = "checked"
    /\ startLock' = q
    /\ Move(q, [request[q] EXCEPT !.pc = "locked"])
    /\ UNCHANGED <<run, aged, up, thread, givenUp>>

TakeStartLock(q) ==
    /\ request[q].pc = "checked" /\ startLock = Nobody
    /\ startLock' = q
    /\ Move(q, [request[q] EXCEPT !.pc = "locked"])
    /\ UNCHANGED <<run, aged, up, thread, givenUp>>

Settle(lost) == /\ run' = [r \in Ids |-> IF r \in lost THEN [run[r] EXCEPT !.status = "error"]
                                         ELSE run[r]]
                /\ aged' = aged \ lost

(* running() settles the rows that are too old and counts what is left, in   *)
(* all and then on the host; commands that end between the two only lower    *)
(* the count, so the two are one step.                                       *)
Busy(h) == {r \in Running \ aged : run[r].host = h}

HasPlace(h) ==
    Cardinality(Running \ aged) < MaxCommandRuns /\ Cardinality(Busy(h)) < MaxPerHost

(* Mutant of CountRuns: rows that are lost are counted but not settled. *)
CountRuns_SettlesNone(q) ==
    /\ request[q].pc = "locked"
    /\ Cardinality(Running) < MaxCommandRuns
    /\ Cardinality({r \in Running : run[r].host = request[q].host}) < MaxPerHost
    /\ Move(q, [request[q] EXCEPT !.pc = "counted"])
    /\ UNCHANGED <<run, aged, up, startLock, thread, givenUp>>

CountRuns(q) ==
    /\ request[q].pc = "locked" /\ HasPlace(request[q].host)
    /\ Settle(aged)
    /\ Move(q, [request[q] EXCEPT !.pc = "counted"])
    /\ UNCHANGED <<up, startLock, thread, givenUp>>

RefuseFull(q) ==            \* 429
    /\ request[q].pc = "locked" /\ ~HasPlace(request[q].host)
    /\ Settle(aged)
    /\ startLock' = Nobody /\ Move(q, Idle)
    /\ UNCHANGED <<up, thread, givenUp>>

RefuseSetup(q) ==           \* 502: no key, no password, no sshpass; nothing was recorded
    /\ request[q].pc = "counted"
    /\ startLock' = Nobody /\ Move(q, Idle)
    /\ UNCHANGED <<run, aged, up, thread, givenUp>>

Insert(q, r) ==
    /\ request[q].pc = "counted"
    /\ \A s \in Present : s < r
    /\ r = 1 \/ r - 1 \in Present
    /\ run' = [run EXCEPT ![r] = [host |-> request[q].host, status |-> "running"]]
    /\ Turn(r, [pc |-> "unborn"])
    /\ Move(q, [pc |-> "recorded", host |-> request[q].host, id |-> r])
    /\ UNCHANGED <<aged, up, startLock, givenUp>>

Spawn(q) ==
    /\ request[q].pc = "recorded"
    /\ \/ Turn(request[q].id, [pc |-> "waiting"]) /\ UNCHANGED givenUp
       \/ MayFail /\ GiveUp(request[q].id)          \* Thread.start raised
    /\ startLock' = Nobody /\ Move(q, Idle)
    /\ UNCHANGED <<run, aged, up>>

-----------------------------------------------------------------------------
(* The thread of a command: _execute and _finish. *)

(* ssh has ended or was killed, or could not be run: every case has a status. *)
SshEnds(r, s) ==
    /\ thread[r].pc = "waiting"
    /\ Turn(r, [pc |-> "writing", result |-> s, tries |-> 0])
    /\ UNCHANGED <<run, aged, up, startLock, request, givenUp>>

WriteResult(r) ==
    /\ thread[r].pc = "writing" /\ r \in Present
    /\ run' = [run EXCEPT ![r].status = thread[r].result]
    /\ Turn(r, [thread[r] EXCEPT !.pc = "pruning"])
    /\ UNCHANGED <<aged, up, startLock, request, givenUp>>

(* The rows that go when r is finished: all but the newest KeepRuns ids. *)
Expendable(r) == {s \in Ids : s + KeepRuns <= r}

PruneOld(r) ==
    /\ thread[r].pc = "pruning"
    /\ run' = [s \in Ids |-> IF s \in Expendable(r) THEN NoRow ELSE run[s]]
    /\ aged' = aged \ Expendable(r)
    /\ Turn(r, None)
    /\ UNCHANGED <<up, startLock, request, givenUp>>

(* A write raised, or the row is gone. *)
WriteFails(r) == \/ MayFail /\ thread[r].pc \in {"writing", "pruning"}
                 \/ thread[r].pc = "writing" /\ r \notin Present

(* All of it is tried again, and given up after the last attempt. *)
TryAgain(r) ==
    /\ WriteFails(r) /\ thread[r].tries + 1 < Attempts
    /\ Turn(r, [pc |-> "writing", result |-> thread[r].result, tries |-> thread[r].tries + 1])
    /\ UNCHANGED <<run, aged, up, startLock, request, givenUp>>

LastTryFails(r) ==
    /\ WriteFails(r) /\ thread[r].tries + 1 = Attempts
    /\ GiveUp(r)
    /\ UNCHANGED <<run, aged, up, startLock, request>>

-----------------------------------------------------------------------------
(* Ten minutes are longer than any command with its grace and retries: a row *)
(* grows that old only when its thread is gone.                              *)
GrowOld(r) ==
    /\ r \in Running \ aged
    /\ up => ~HasThread(r)
    /\ aged' = aged \cup {r}
    /\ UNCHANGED <<run, up, startLock, request, thread, givenUp>>

(* Fewer than KeepRuns commands start while one goes on: a command lasts     *)
(* minutes, and at most MaxCommandRuns go at once.                           *)
SlowTurnover == \A r \in Ids : HasThread(r) => \A s \in Present : s < r + KeepRuns

Crash ==
    /\ up /\ up' = FALSE
    /\ startLock' = Nobody
    /\ request' = [q \in Requests |-> Idle]
    /\ thread' = [r \in Ids |-> None]
    /\ givenUp' = {}
    /\ UNCHANGED <<run, aged>>

(* Mutant of Restart: at start-up only rows that are too old are settled. *)
Restart_StaleOnly ==
    /\ ~up /\ up' = TRUE
    /\ Settle(aged)
    /\ UNCHANGED <<startLock, request, thread, givenUp>>

(* Mutant of Restart: settles every row there is. *)
Restart_EveryRow ==
    /\ ~up /\ up' = TRUE
    /\ Settle(Present)
    /\ UNCHANGED <<startLock, request, thread, givenUp>>

(* lifespan: settle_stale with no age settles every row left "running". *)
Restart ==
    /\ ~up /\ up' = TRUE
    /\ Settle(Running)
    /\ UNCHANGED <<startLock, request, thread, givenUp>>

-----------------------------------------------------------------------------
Launching(q) == \/ TakeStartLock(q) \/ CountRuns(q) \/ RefuseFull(q) \/ RefuseSetup(q)
                \/ (\E r \in Ids : Insert(q, r) /\ SlowTurnover') \/ Spawn(q)
Executing(r) == \/ (\E s \in Final : SshEnds(r, s))
                \/ WriteResult(r) \/ PruneOld(r) \/ TryAgain(r) \/ LastTryFails(r)

Next ==
    \/ \E q \in Requests, h \in Hosts : Precheck(q, h)
    \/ \E q \in Requests : Launching(q)
    \/ \E r \in Ids : Executing(r)
    \/ \E r \in Ids : GrowOld(r)
    \/ Crash
    \/ Restart

Spec == Init /\ [][Next]_vars

(* Threads go on, ssh is killed KILL_GRACE after the command's timeout, time *)
(* passes, and a dead server is started again.  Nobody is obliged to ask.    *)
FairSpec == /\ Spec
            /\ \A q \in Requests : WF_vars(Launching(q))
            /\ \A r \in Ids : WF_vars(Executing(r)) /\ WF_vars(GrowOld(r))
            /\ WF_vars(Restart)

-----------------------------------------------------------------------------
(* Properties. *)

TypeOK ==
    /\ run \in [Ids -> Rows \cup {NoRow}]
    /\ aged \in SUBSET Running
    /\ up \in BOOLEAN
    /\ startLock \in Requests \cup {Nobody}
    /\ request \in [Requests -> RequestStates]
    /\ thread \in [Ids -> Threads]
    /\ givenUp \in SUBSET Ids

(* README.md:161: the commands that are really going, not only the rows that *)
(* say so, keep to both caps; pruning, settling and retries never lose count *)
(* of one that is still at work.                                             *)
CapsHold ==
    /\ Cardinality(Going) <= MaxCommandRuns
    /\ \A h \in Hosts : Cardinality(GoingOn(h)) <= MaxPerHost

(* commands.py:172-173: "running" rows without a thread are lost and must    *)
(* not refuse commands for ever.  A request that is refused for want of      *)
(* places leaves no old lost row behind to be counted again.                 *)
LostRowsSettled ==
    [][\A q \in Requests :
         (request[q].pc = "locked" /\ request'[q].pc # "locked" /\ up')
         => \A r \in aged : run'[r].status = "error"]_vars

(* A command gets one final status: a late writer, the settling of old rows  *)
(* and a restart never change a result that is there.                        *)
ResultStays ==
    [][\A r \in Present : (run[r].status \in Final /\ run'[r] # NoRow) => run'[r] = run[r]]_vars

(* commands.py:147, 154: every command ends in a final state across crashes  *)
(* and failing writes, unless every attempt to write it failed, or its       *)
(* thread never started.                                                     *)
CommandSettles == \A r \in Ids : (r \in Running) ~> (r \notin Running \/ r \in givenUp)

-----------------------------------------------------------------------------
(* The invariant the proofs of CommandRunsProofs carry from step to step. *)

(* A request is between taking and releasing the lock iff it holds it. *)
LockInv == \A q \in Requests : request[q].pc \in InLock <=> startLock = q

(* A dead server has no threads. *)
DownInv == ~up => /\ \A r \in Ids : ~HasThread(r)
                  /\ \A q \in Requests : request[q] = Idle

(* A thread has its row, which has not grown old and is too new to be pruned *)
(* by another; the row says "running" until the thread has written its       *)
(* result.                                                                   *)
RowInv ==
    \A r \in Ids : HasThread(r) =>
        /\ r \in Present \ aged
        /\ \A s \in Present : s < r + KeepRuns
        /\ \/ run[r].status = "running"
           \/ thread[r].pc \in {"writing", "pruning"} /\ run[r].status = thread[r].result

(* The thread of a row that was just inserted is still to be started. *)
RecordedInv == \A q \in Requests : request[q].pc = "recorded" => thread[request[q].id].pc = "unborn"

(* A request that found a place knows of it until it takes it. *)
PlaceInv ==
    \A q \in Requests : request[q].pc = "counted" =>
        /\ Cardinality(Going) < MaxCommandRuns
        /\ Cardinality(GoingOn(request[q].host)) < MaxPerHost

IInv == /\ TypeOK /\ LockInv /\ DownInv /\ RowInv /\ RecordedInv
        /\ PlaceInv /\ CapsHold
=============================================================================
