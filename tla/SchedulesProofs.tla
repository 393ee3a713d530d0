---------------------------- MODULE SchedulesProofs ----------------------------
(***************************************************************************)
(* Proofs about Schedules, for any number of playbooks, expressions,       *)
(* threads and pushes.                                                     *)
(***************************************************************************)
EXTENDS Schedules, TLAPS

-----------------------------------------------------------------------------
(* Type correctness. *)

LEMMA TypeInit == Init => TypeOK
BY PushesAreCounted, FoldersHavePlaybooks DEF Init, TypeOK, Idle, SyncStates, SaverStates

(* A thread that syncs keeps the types. *)
LEMMA TypeSyncing ==
  ASSUME TypeOK, NEW s \in Syncers, Begin(s) \/ Syncing(s)
  PROVE  TypeOK'
<1> USE DEF SyncStep, Repository, Schedule
<1>1. CASE Begin(s)
  BY <1>1 DEF TypeOK, Begin, SyncStates
<1>2. CASE Fetch(s)
  BY <1>2 DEF TypeOK, Fetch, SyncStates
<1>3. CASE Reset(s)
  <2>1. [pc |-> "resetting", to |-> tracking] \in SyncStates
    BY DEF TypeOK, SyncStates
  <2>2. QED
    BY <1>3, <2>1 DEF TypeOK, Reset, Done
<1>4. CASE ResetDone(s)
  <2>1. sync[s].to \in SUBSET Playbooks
    BY <1>4 DEF TypeOK, ResetDone, SyncStates
  <2>2. [pc |-> "synced"] \in SyncStates
    BY DEF SyncStates
  <2>3. QED
    BY <1>4, <2>1, <2>2 DEF TypeOK, ResetDone, Done
<1>5. CASE Clone(s)
  <2>1. sync' \in [Syncers -> SyncStates]
    BY <1>5 DEF TypeOK, Clone, SyncStates
  <2>2. QED
    BY <1>5, <2>1 DEF TypeOK, Clone
<1>6. CASE CloneDone(s)
  BY <1>6 DEF TypeOK, CloneDone, SyncStates
<1>7. CASE Fail(s)
  BY <1>7 DEF TypeOK, Fail, SyncStates
<1>8. CASE Settle(s) \/ SettleFails(s)
  BY <1>8 DEF TypeOK, Settle, SettleFails, Idle, SyncStates
<1>9. CASE ListPlaybooks(s)
  <2>1. [pc |-> "listed", valid |-> files \cap subdir, within |-> subdir] \in SyncStates
    BY DEF TypeOK, SyncStates
  <2>2. QED
    BY <1>9, <2>1 DEF TypeOK, ListPlaybooks
<1>10. CASE RemoveJobs(s)
  <2>1. PICK gone \in SUBSET Playbooks :
             /\ job' = [p \in Playbooks |-> IF p \in gone THEN NoRow ELSE job[p]]
             /\ apart' = apart \cup {p \in gone : Saving(p) # {}}
             /\ SyncStep(s, [pc |-> "reaping", gone |-> gone, within |-> sync[s].within])
    BY <1>10 DEF RemoveJobs
  <2>2. [pc |-> "reaping", gone |-> gone, within |-> sync[s].within] \in SyncStates
    BY <1>10 DEF TypeOK, RemoveJobs, SyncStates
  <2>3. QED
    BY <1>10, <2>1, <2>2 DEF TypeOK, RemoveJobs
<1>11. CASE DeleteRows(s)
  BY <1>11 DEF TypeOK, DeleteRows, Idle, SyncStates
<1>12. CASE ReapFails(s)
  <2>1. sync[s].pc = "reaping" => sync[s].gone \in SUBSET Playbooks
    BY DEF TypeOK, SyncStates
  <2>2. Idle \in SyncStates
    BY DEF Idle, SyncStates
  <2>3. QED
    BY <1>12, <2>1, <2>2 DEF TypeOK, ReapFails
<1>13. QED
  BY <1>1, <1>2, <1>3, <1>4, <1>5, <1>6, <1>7, <1>8, <1>9, <1>10, <1>11, <1>12 DEF Syncing

(* So does a thread that saves a schedule. *)
LEMMA TypeSaving ==
  ASSUME TypeOK, NEW d \in Savers,
         (\E p \in Playbooks, c \in Crons \cup {Off} : OpenRow(d, p, c)) \/ Save(d)
  PROVE  TypeOK'
<1> USE DEF SaverStep
<1>1. ASSUME NEW p \in Playbooks, NEW c \in Crons \cup {Off}, OpenRow(d, p, c)
      PROVE  TypeOK'
  <2>1. [pc |-> "opened", playbook |-> p, cron |-> c, found |-> row[p]] \in SaverStates
    BY <1>1 DEF TypeOK, SaverStates
  <2>2. QED
    BY <1>1, <2>1 DEF TypeOK, OpenRow
<1>2. CASE CommitRow(d)
  <2>1. saver[d].playbook \in Playbooks /\ saver[d].cron \in Crons \cup {Off}
    BY <1>2 DEF TypeOK, CommitRow, SaverStates
  <2>2. [pc |-> "committed", playbook |-> saver[d].playbook, cron |-> saver[d].cron] \in SaverStates
    BY <2>1 DEF SaverStates
  <2>3. QED
    BY <1>2, <2>1, <2>2 DEF TypeOK, CommitRow
<1>3. CASE CommitFails(d)
  BY <1>3 DEF TypeOK, CommitFails, Idle, SaverStates
<1>4. CASE SetJob(d)
  <2>1. saver[d].playbook \in Playbooks /\ saver[d].cron \in Crons \cup {Off}
    BY <1>4 DEF TypeOK, SetJob, SaverStates
  <2>2. JobFor(saver[d].cron) \in Crons \cup {NoRow}
    BY <2>1 DEF JobFor
  <2>3. QED
    BY <1>4, <2>1, <2>2 DEF TypeOK, SetJob, Idle, SaverStates
<1>5. CASE JobVanishes(d)
  <2>1. saver[d].playbook \in Playbooks
    BY <1>5 DEF TypeOK, JobVanishes, SaverStates
  <2>2. QED
    BY <1>5, <2>1 DEF TypeOK, JobVanishes, Idle, SaverStates
<1>6. QED
  BY <1>1, <1>2, <1>3, <1>4, <1>5 DEF Save

LEMMA TypeStep ==
  ASSUME TypeOK, [Next]_vars
  PROVE  TypeOK'
<1>1. ASSUME NEW playbooks \in SUBSET Playbooks, Push(playbooks)
      PROVE  TypeOK'
  BY <1>1, PushesAreCounted DEF TypeOK, Push
<1>2. CASE Crash
  BY <1>2 DEF TypeOK, Crash, Idle, SyncStates, SaverStates
<1>3. CASE Restart
  <2>1. job' \in [Playbooks -> Crons \cup {NoRow}]
    BY <1>3 DEF TypeOK, Restart, JobFor
  <2>2. history' \in [Syncers -> {"none", "running", "success", "failed"}]
    BY <1>3 DEF TypeOK, Restart, Reconciled
  <2>3. QED
    BY <1>3, <2>1, <2>2 DEF TypeOK, Restart
<1>4. ASSUME NEW folder \in Folders, ChangeSubdir(folder)
      PROVE  TypeOK'
  BY <1>4 DEF TypeOK, ChangeSubdir
<1>5. CASE UNCHANGED vars
  BY <1>5 DEF TypeOK, vars
<1>6. QED
  BY <1>1, <1>2, <1>3, <1>4, <1>5, TypeSyncing, TypeSaving DEF Next

-----------------------------------------------------------------------------
(* Rows and jobs. *)

JobsInv == SavingInv /\ ReapingInv /\ JobsFollowRows

LEMMA DownStep ==
  ASSUME TypeOK, DownInv, [Next]_vars
  PROVE  DownInv'
<1>1. CASE up /\ up'
  BY <1>1 DEF DownInv
<1>2. CASE ~up'
  <2>1. CASE UNCHANGED vars
    BY <2>1 DEF DownInv, vars
  <2>2. CASE Crash
    BY <2>2 DEF DownInv, Crash
  <2>3. ASSUME NEW playbooks \in SUBSET Playbooks, Push(playbooks)
        PROVE  DownInv'
    BY <2>3 DEF DownInv, Push
  <2>4. QED
    BY <1>2, <2>1, <2>2, <2>3 DEF Next, Begin, Syncing, Save, Fetch, Reset, ResetDone, Clone, CloneDone,
       Fail, Settle, SettleFails, ListPlaybooks, RemoveJobs, DeleteRows, ReapFails, OpenRow, CommitRow,
       CommitFails, SetJob, JobVanishes, ChangeSubdir, Restart, SyncStep, SaverStep
<1>3. QED
  BY <1>1, <1>2 DEF TypeOK, DownInv

(* A step that leaves rows, jobs and whoever is between them as they are.    *)
Quiet == /\ row' = row /\ job' = job /\ up' = up
         /\ apart \subseteq apart'
         /\ \A p \in Playbooks : Saving(p)' = Saving(p)
         /\ \A d \in Savers : saver'[d].pc = "committed" => saver'[d] = saver[d]
         /\ \A p \in Playbooks \ apart' : Reaping(p)' = Reaping(p)

LEMMA QuietKeeps ==
  ASSUME TypeOK, JobsInv, Quiet
  PROVE  JobsInv'
<1>1. SavingInv'
  <2>1. SUFFICES ASSUME NEW d \in Savers, saver'[d].pc = "committed",
                        saver'[d].playbook \notin apart'
                 PROVE  /\ row'[saver'[d].playbook] = saver'[d].cron
                        /\ Saving(saver[d].playbook)' = {d}
                        /\ Reaping(saver[d].playbook)' = {}
    BY DEF SavingInv
  <2>2. saver'[d] = saver[d] /\ saver[d].playbook \in Playbooks
    BY <2>1 DEF TypeOK, Quiet, SaverStates
  <2>3. /\ row[saver[d].playbook] = saver[d].cron
        /\ Saving(saver[d].playbook) = {d}
        /\ Reaping(saver[d].playbook) = {}
    BY <2>1, <2>2 DEF JobsInv, SavingInv, Quiet
  <2>4. PICK p \in Playbooks : p = saver[d].playbook /\ p = saver'[d].playbook
    BY <2>2
  <2>5. Saving(p)' = {d} /\ Reaping(p)' = {}
    BY <2>1, <2>3, <2>4 DEF Quiet
  <2>6. QED
    BY <2>2, <2>3, <2>4, <2>5 DEF Quiet, Saving, Reaping
<1>2. ReapingInv'
  BY DEF JobsInv, ReapingInv, Quiet
<1>3. JobsFollowRows'
  BY DEF JobsInv, JobsFollowRows, Quiet
<1>4. QED
  BY <1>1, <1>2, <1>3 DEF JobsInv

LEMMA QuietSync ==
  ASSUME TypeOK, NEW s \in Syncers, Begin(s) \/ Syncing(s), ~RemoveJobs(s), ~DeleteRows(s)
  PROVE  Quiet
<1>1. /\ row' = row /\ job' = job /\ up' = up /\ saver' = saver /\ apart \subseteq apart'
  BY DEF Begin, Syncing, Fetch, Reset, ResetDone, Clone, CloneDone, Fail, Settle, SettleFails,
         ListPlaybooks, ReapFails, SyncStep, Schedule
<1>2. ASSUME NEW p \in Playbooks \ apart'
      PROVE  Reaping(p)' = Reaping(p)
  <2>1. CASE ReapFails(s)
    BY <1>2, <2>1 DEF TypeOK, ReapFails, SyncStep, Reaping, Idle
  <2>2. CASE Clone(s)
    <3>1. \A t \in Syncers : 
               sync'[t] = sync[t] \/ (sync[t].pc \in {"recorded", "cloning"}
                                      /\ sync'[t].pc \in {"cloning", "failed"})
      BY <2>2 DEF TypeOK, Clone
    <3>2. QED
      BY <3>1 DEF Reaping
  <2>3. CASE ~ReapFails(s) /\ ~Clone(s)
    <3>1. PICK next : /\ sync' = [sync EXCEPT ![s] = next]
                      /\ next.pc # "reaping" /\ sync[s].pc # "reaping"
      BY <2>3 DEF Begin, Syncing, Fetch, Reset, ResetDone, CloneDone, Fail, Settle, SettleFails,
                  ListPlaybooks, SyncStep, Idle
    <3>2. QED
      BY <3>1 DEF TypeOK, Reaping
  <2>4. QED
    BY <2>1, <2>2, <2>3
<1>3. QED
  BY <1>1, <1>2 DEF Quiet, Saving

LEMMA RemoveJobsKeeps ==
  ASSUME TypeOK, JobsInv, NEW s \in Syncers, RemoveJobs(s)
  PROVE  JobsInv'
<1>1. PICK gone \in SUBSET Playbooks :
           /\ job' = [p \in Playbooks |-> IF p \in gone THEN NoRow ELSE job[p]]
           /\ apart' = apart \cup {p \in gone : Saving(p) # {}}
           /\ sync' = [sync EXCEPT ![s] = [pc |-> "reaping", gone |-> gone, within |-> sync[s].within]]
           /\ up /\ up' = up
  BY DEF RemoveJobs, SyncStep
<1>2. row' = row /\ saver' = saver /\ \A p \in Playbooks : Saving(p)' = Saving(p)
  BY DEF RemoveJobs, Saving
<1>3. \A p \in Playbooks : Reaping(p)' = IF p \in gone THEN Reaping(p) \cup {s} ELSE Reaping(p)
  BY <1>1 DEF TypeOK, RemoveJobs, Reaping
<1>4. SavingInv'
  <2>1. SUFFICES ASSUME NEW d \in Savers, saver[d].pc = "committed", saver[d].playbook \notin apart'
                 PROVE  /\ row[saver[d].playbook] = saver[d].cron
                        /\ Saving(saver[d].playbook) = {d}
                        /\ Reaping(saver[d].playbook)' = {}
    BY <1>2 DEF SavingInv, Saving
  <2>2. PICK p \in Playbooks : p = saver[d].playbook
    BY <2>1 DEF TypeOK, SaverStates
  <2>3. row[p] = saver[d].cron /\ Saving(p) = {d} /\ Reaping(p) = {}
    BY <1>1, <2>1, <2>2 DEF JobsInv, SavingInv
  <2>4. p \notin gone
    BY <1>1, <2>1, <2>2, <2>3
  <2>5. Reaping(p)' = {}
    BY <1>3, <2>3, <2>4
  <2>6. QED
    BY <1>2, <2>2, <2>3, <2>5 DEF Reaping
<1>5. ReapingInv'
  BY <1>1, <1>3 DEF JobsInv, ReapingInv
<1>6. JobsFollowRows'
  BY <1>1, <1>2, <1>3 DEF JobsInv, JobsFollowRows
<1>7. QED
  BY <1>4, <1>5, <1>6 DEF JobsInv

LEMMA DeleteRowsKeeps ==
  ASSUME TypeOK, JobsInv, NEW s \in Syncers, DeleteRows(s)
  PROVE  JobsInv'
<1>1. /\ sync[s].pc = "reaping" /\ sync' = [sync EXCEPT ![s] = Idle]
      /\ row' = [p \in Playbooks |-> IF p \in sync[s].gone THEN NoRow ELSE row[p]]
      /\ job' = job /\ saver' = saver /\ apart' = apart /\ up' = up
  BY DEF DeleteRows, SyncStep
<1>2. \A p \in Playbooks : Saving(p)' = Saving(p)
  BY <1>1 DEF Saving
<1>3. \A p \in Playbooks : Reaping(p)' = Reaping(p) \ {s}
  BY <1>1 DEF TypeOK, Reaping, Idle
<1>4. \A p \in Playbooks : p \in sync[s].gone <=> s \in Reaping(p)
  BY <1>1 DEF Reaping
<1>5. SavingInv'
  <2>1. SUFFICES ASSUME NEW d \in Savers, saver[d].pc = "committed", saver[d].playbook \notin apart
                 PROVE  /\ row'[saver[d].playbook] = saver[d].cron
                        /\ Saving(saver[d].playbook) = {d}
                        /\ Reaping(saver[d].playbook)' = {}
    BY <1>1 DEF SavingInv, Saving
  <2>2. PICK p \in Playbooks : p = saver[d].playbook
    BY <2>1 DEF TypeOK, SaverStates
  <2>3. row[p] = saver[d].cron /\ Saving(p) = {d} /\ Reaping(p) = {}
    BY <2>1, <2>2 DEF JobsInv, SavingInv
  <2>4. row'[p] = row[p] /\ Reaping(p)' = {}
    BY <1>1, <1>3, <1>4, <2>3
  <2>5. QED
    BY <1>1, <2>2, <2>3, <2>4 DEF Reaping
<1>6. ReapingInv'
  BY <1>1, <1>3 DEF JobsInv, ReapingInv
<1>7. JobsFollowRows'
  <2>1. SUFFICES ASSUME up, NEW p \in Playbooks, Saving(p) \cup Reaping(p)' = {}, p \notin apart
                 PROVE  job[p] = IF row'[p] = NoRow THEN NoRow ELSE JobFor(row'[p])
    BY <1>1, <1>2 DEF JobsFollowRows
  <2>2. CASE p \in sync[s].gone
    BY <1>1, <1>4, <2>1, <2>2 DEF JobsInv, ReapingInv
  <2>3. CASE p \notin sync[s].gone
    BY <1>1, <1>3, <1>4, <2>1, <2>3 DEF JobsInv, JobsFollowRows
  <2>4. QED
    BY <2>2, <2>3
<1>8. QED
  BY <1>5, <1>6, <1>7 DEF JobsInv

LEMMA CommitRowKeeps ==
  ASSUME TypeOK, JobsInv, NEW d \in Savers, CommitRow(d)
  PROVE  JobsInv'
<1>1. PICK p \in Playbooks, cron \in Crons \cup {Off} :
        /\ p = saver[d].playbook /\ cron = saver[d].cron
        /\ saver' = [saver EXCEPT ![d] = [pc |-> "committed", playbook |-> p, cron |-> cron]]
        /\ row' = row \/ row' = [row EXCEPT ![p] = cron]
        /\ apart' = IF Saving(p) \cup Reaping(p) = {} /\ row'[p] = cron
                    THEN apart \ {p} ELSE apart \cup {p}
  BY DEF TypeOK, CommitRow, SaverStep, SaverStates
<1>2. job' = job /\ sync' = sync /\ up' = up /\ saver[d].pc = "opened"
  BY DEF CommitRow, SaverStep
<1>3. \A q \in Playbooks : Reaping(q)' = Reaping(q)
  BY <1>2 DEF Reaping
<1>4. \A q \in Playbooks : Saving(q)' = IF q = p THEN Saving(q) \cup {d} ELSE Saving(q)
  BY <1>1, <1>2 DEF TypeOK, Saving
<1>5. \A q \in Playbooks \ {p} : row'[q] = row[q] /\ (q \in apart' <=> q \in apart)
  BY <1>1 DEF TypeOK
<1>6. SavingInv'
  <2>1. SUFFICES ASSUME NEW e \in Savers, NEW q \in Playbooks, q = saver'[e].playbook,
                        saver'[e].pc = "committed", q \notin apart'
                 PROVE  row'[q] = saver'[e].cron /\ Saving(q)' = {e} /\ Reaping(q)' = {}
    <3>1. \A e \in Savers : saver'[e].pc = "committed" => saver'[e].playbook \in Playbooks
      BY <1>1 DEF TypeOK, SaverStates
    <3>2. QED
      BY <2>1, <3>1 DEF SavingInv, Saving, Reaping
  <2>2. CASE e = d
    <3>1. q = p /\ saver'[e].cron = cron
      BY <1>1, <2>1, <2>2 DEF TypeOK
    <3>2. Saving(p) \cup Reaping(p) = {} /\ row'[p] = cron
      BY <1>1, <2>1, <3>1
    <3>3. QED
      BY <1>3, <1>4, <2>2, <3>1, <3>2
  <2>3. CASE e # d
    <3>1. saver'[e] = saver[e] /\ e \in Saving(q)
      BY <1>1, <2>1, <2>3 DEF TypeOK, Saving
    <3>2. q # p
      BY <1>1, <2>1, <3>1
    <3>3. row[q] = saver[e].cron /\ Saving(q) = {e} /\ Reaping(q) = {}
      BY <1>5, <2>1, <3>1, <3>2 DEF JobsInv, SavingInv, Saving
    <3>4. QED
      BY <1>3, <1>4, <1>5, <3>1, <3>2, <3>3
  <2>4. QED
    BY <2>2, <2>3
<1>7. ReapingInv'
  BY <1>1, <1>2, <1>3, <1>5 DEF JobsInv, ReapingInv
<1>8. JobsFollowRows'
  BY <1>2, <1>3, <1>4, <1>5 DEF JobsInv, JobsFollowRows
<1>9. QED
  BY <1>6, <1>7, <1>8 DEF JobsInv

(* A job is set as its row says, or the schedule is one that threads         *)
(* crossed at.                                                               *)
LEMMA JobKeeps ==
  ASSUME TypeOK, JobsInv, NEW d \in Savers, SetJob(d) \/ JobVanishes(d)
  PROVE  JobsInv'
<1>1. PICK p \in Playbooks : p = saver[d].playbook /\ saver[d].pc = "committed"
  BY DEF TypeOK, SetJob, JobVanishes, SaverStates
<1>2. /\ row' = row /\ sync' = sync /\ up' = up /\ apart \subseteq apart'
      /\ saver' = [saver EXCEPT ![d] = Idle]
      /\ \A q \in Playbooks \ {p} : job'[q] = job[q]
  BY <1>1 DEF TypeOK, SetJob, JobVanishes, SaverStep
<1>3. p \in apart' \/ (job'[p] = JobFor(row[p]) /\ row[p] # NoRow)
  <2>1. CASE JobVanishes(d)
    BY <1>1, <2>1 DEF JobVanishes
  <2>2. CASE SetJob(d) /\ p \notin apart'
    <3>1. row[p] = saver[d].cron /\ saver[d].cron \in Crons \cup {Off}
      BY <1>1, <1>2, <2>2 DEF TypeOK, JobsInv, SavingInv, SaverStates
    <3>2. job'[p] = JobFor(saver[d].cron)
      BY <1>1, <2>2 DEF TypeOK, SetJob
    <3>3. QED
      BY <3>1, <3>2, OffIsNoCron
  <2>3. QED
    BY <2>1, <2>2
<1>4. \A q \in Playbooks : Reaping(q)' = Reaping(q) /\ Saving(q)' = Saving(q) \ {d}
  BY <1>2 DEF TypeOK, Reaping, Saving, Idle
<1>5. d \in Saving(p) /\ \A q \in Playbooks \ {p} : d \notin Saving(q)
  BY <1>1 DEF Saving
<1>6. p \notin apart => Saving(p) = {d} /\ Reaping(p) = {}
  BY <1>1 DEF JobsInv, SavingInv
<1>7. SavingInv'
  <2>1. SUFFICES ASSUME NEW e \in Savers, NEW q \in Playbooks, q = saver'[e].playbook,
                        saver'[e].pc = "committed", q \notin apart'
                 PROVE  row'[q] = saver'[e].cron /\ Saving(q)' = {e} /\ Reaping(q)' = {}
    <3>1. \A e \in Savers : saver'[e].pc = "committed" => saver'[e].playbook \in Playbooks
      BY <1>2 DEF TypeOK, SaverStates, Idle
    <3>2. QED
      BY <2>1, <3>1 DEF SavingInv, Saving, Reaping
  <2>2. e # d /\ saver'[e] = saver[e]
    BY <1>2, <2>1 DEF TypeOK, Idle
  <2>3. row[q] = saver[e].cron /\ Saving(q) = {e} /\ Reaping(q) = {}
    BY <1>2, <2>1, <2>2 DEF JobsInv, SavingInv
  <2>4. QED
    BY <1>2, <1>4, <2>2, <2>3
<1>8. ReapingInv'
  <2>1. ASSUME NEW q \in Playbooks \ apart', Reaping(q) # {}
        PROVE  q # p /\ job[q] = NoRow
    BY <1>2, <1>6, <2>1 DEF JobsInv, ReapingInv
  <2>2. QED
    BY <1>2, <1>4, <2>1 DEF ReapingInv
<1>9. JobsFollowRows'
  BY <1>2, <1>3, <1>4, <1>5 DEF JobsInv, JobsFollowRows
<1>10. QED
  BY <1>7, <1>8, <1>9 DEF JobsInv

LEMMA JobsStep ==
  ASSUME TypeOK, DownInv, JobsInv, [Next]_vars
  PROVE  JobsInv'
<1>1. ASSUME NEW s \in Syncers, Begin(s) \/ Syncing(s)
      PROVE  JobsInv'
  <2>1. CASE RemoveJobs(s)
    BY <2>1, RemoveJobsKeeps
  <2>2. CASE DeleteRows(s)
    BY <2>2, DeleteRowsKeeps
  <2>3. CASE ~RemoveJobs(s) /\ ~DeleteRows(s)
    BY <1>1, <2>3, QuietSync, QuietKeeps
  <2>4. QED
    BY <2>1, <2>2, <2>3
<1>2. ASSUME NEW d \in Savers, CommitFails(d) \/ \E p \in Playbooks, c \in Crons \cup {Off} : OpenRow(d, p, c)
      PROVE  JobsInv'
  <2>1. PICK next : /\ saver' = [saver EXCEPT ![d] = next]
                    /\ saver[d].pc # "committed" /\ next.pc # "committed"
    BY <1>2 DEF CommitFails, OpenRow, SaverStep, Idle
  <2>2. row' = row /\ job' = job /\ up' = up /\ apart' = apart /\ sync' = sync
    BY <1>2 DEF CommitFails, OpenRow, SaverStep
  <2>3. Quiet
    BY <2>1, <2>2 DEF TypeOK, Quiet, Saving, Reaping
  <2>4. QED
    BY <2>3, QuietKeeps
<1>3. ASSUME NEW d \in Savers, Save(d)
      PROVE  JobsInv'
  BY <1>2, <1>3, CommitRowKeeps, JobKeeps DEF Save
<1>4. CASE UNCHANGED <<row, job, up, apart, saver, sync>>
  <2>1. Quiet
    BY <1>4 DEF Quiet, Saving, Reaping
  <2>2. QED
    BY <2>1, QuietKeeps
<1>5. CASE Crash
  BY <1>5 DEF Crash, JobsInv, SavingInv, ReapingInv, JobsFollowRows, Reaping, Idle
<1>6. CASE Restart
  <2>1. \A p \in Playbooks : Saving(p)' = {} /\ Reaping(p)' = {}
    BY <1>6 DEF Restart, DownInv, Saving, Reaping, Idle
  <2>2. \A d \in Savers : saver'[d].pc # "committed"
    BY <1>6 DEF Restart, DownInv, Idle
  <2>3. \A p \in Playbooks : job'[p] = IF row'[p] = NoRow THEN NoRow ELSE JobFor(row'[p])
    BY <1>6 DEF Restart
  <2>4. QED
    BY <2>1, <2>2, <2>3 DEF JobsInv, SavingInv, ReapingInv, JobsFollowRows
<1>7. QED
  BY <1>1, <1>2, <1>3, <1>4, <1>5, <1>6 DEF Next, Push, ChangeSubdir, vars

-----------------------------------------------------------------------------
(* The checkout and what is dropped by it. *)

LEMMA RepoStep ==
  ASSUME TypeOK, DownInv, RepoInv, [Next]_vars
  PROVE  RepoInv'
<1> DEFINE Whole == {"fetched", "resetting", "synced", "succeeded", "listed", "reaping"}
<1>1. ASSUME NEW s \in Syncers, Clone(s)
      PROVE  RepoInv'
  <2>1. /\ repo # "cloned" /\ repo' = "cloning"
        /\ \A t \in Syncers \ {s} : sync'[t].pc # "cloning" /\ (sync'[t] = sync[t] \/ sync'[t].pc = "failed")
        /\ sync'[s].pc = "cloning"
    BY <1>1 DEF TypeOK, Clone
  <2>2. \A t \in Syncers : sync[t].pc \notin Whole
    BY <2>1 DEF RepoInv
  <2>3. \A t \in Syncers : sync'[t].pc \notin Whole
    BY <2>1, <2>2
  <2>4. QED
    BY <2>1, <2>3 DEF RepoInv
<1>2. ASSUME NEW s \in Syncers, Fail(s)
      PROVE  RepoInv'
  <2>1. sync' = [sync EXCEPT ![s] = [pc |-> "failed"]]
    BY <1>2 DEF Fail, SyncStep
  <2>2. CASE sync[s].pc = "cloning"
    <3>1. \A t \in Syncers : sync[t].pc \notin Whole /\ (sync[t].pc = "cloning" => t = s)
      BY <2>2 DEF RepoInv
    <3>2. QED
      BY <2>1, <3>1 DEF TypeOK, RepoInv
  <2>3. CASE sync[s].pc # "cloning"
    BY <1>2, <2>1, <2>3 DEF TypeOK, RepoInv, Fail
  <2>4. QED
    BY <2>2, <2>3
<1>3. ASSUME NEW s \in Syncers, CloneDone(s)
      PROVE  RepoInv'
  <2>1. sync' = [sync EXCEPT ![s] = [pc |-> "synced"]] /\ repo' = "cloned" /\ sync[s].pc = "cloning"
    BY <1>3 DEF CloneDone, SyncStep
  <2>2. \A t \in Syncers : sync[t].pc \notin Whole /\ (sync[t].pc = "cloning" => t = s)
    BY <2>1 DEF RepoInv
  <2>3. QED
    BY <2>1, <2>2 DEF TypeOK, RepoInv
<1>4. ASSUME NEW s \in Syncers, Begin(s) \/ Syncing(s), ~Clone(s), ~Fail(s), ~CloneDone(s)
      PROVE  RepoInv'
  <2>1. PICK next : /\ sync' = [sync EXCEPT ![s] = next]
                    /\ next.pc # "cloning"
                    /\ next.pc = "resetting" => Writing = {}
                    /\ next.pc \in Whole => repo = "cloned"
    BY <1>4 DEF RepoInv, Begin, Syncing, Fetch, Reset, ResetDone, Settle, SettleFails, ListPlaybooks,
                RemoveJobs, DeleteRows, ReapFails, SyncStep, Idle
  <2>2. repo' = repo
    BY <1>4 DEF Begin, Syncing, Fetch, Reset, ResetDone, Settle, SettleFails, ListPlaybooks,
                RemoveJobs, DeleteRows, ReapFails, SyncStep, Repository
  <2>3. QED
    BY <2>1, <2>2 DEF TypeOK, RepoInv, Writing
<1>5. CASE UNCHANGED <<repo, sync>>
  BY <1>5 DEF RepoInv
<1>6. CASE Crash
  BY <1>6 DEF Crash, RepoInv, Idle
<1>7. QED
  BY <1>1, <1>2, <1>3, <1>4, <1>5, <1>6 DEF Next, Save, OpenRow, CommitRow, CommitFails, SetJob,
     JobVanishes, SaverStep, Push, ChangeSubdir, Restart, vars

(* A step of a sync that is not one of its checkout, nor a list of it.       *)
LEMMA AsideStep ==
  ASSUME TypeOK, CheckoutInv, NEW s \in Syncers, NEW next,
         sync' = [sync EXCEPT ![s] = next], UNCHANGED <<files, absent>>,
         next.pc \notin {"resetting", "cloning", "synced", "listed", "reaping"},
         next.pc = "succeeded" => sync[s].pc = "synced",
         overtaken' = overtaken \/ (overtaken' = overtaken \ {s} /\ next.pc # "succeeded")
  PROVE  CheckoutInv'
<1>1. Writing' \subseteq Writing
  BY DEF TypeOK, Writing
<1>2. ASSUME NEW t \in Steady'
      PROVE  t \in Steady /\ (sync'[t] = sync[t] \/ sync'[t].pc = "succeeded")
  BY <1>2 DEF TypeOK, Steady
<1>3. QED
  BY <1>1, <1>2 DEF CheckoutInv

LEMMA CheckoutStep ==
  ASSUME TypeOK, RepoInv, CheckoutInv, [Next]_vars
  PROVE  CheckoutInv'
<1>1. ASSUME NEW s \in Syncers, ResetDone(s)
      PROVE  CheckoutInv'
  <2>1. /\ sync' = [sync EXCEPT ![s] = [pc |-> "synced"]] /\ sync[s].pc = "resetting"
        /\ files' = sync[s].to /\ absent' = absent \cup (Playbooks \ sync[s].to)
        /\ overtaken' = overtaken \cup Done(s)
    BY <1>1 DEF ResetDone, SyncStep
  <2>2. Writing = {s}
    BY <2>1 DEF RepoInv, Writing
  <2>3. Writing' = {}
    BY <2>1, <2>2 DEF TypeOK, Writing
  <2>4. Steady' \subseteq {s}
    BY <2>1 DEF TypeOK, Steady, Done
  <2>5. QED
    BY <2>1, <2>3, <2>4 DEF TypeOK, CheckoutInv
<1>2. ASSUME NEW s \in Syncers, CloneDone(s)
      PROVE  CheckoutInv'
  <2>1. /\ sync' = [sync EXCEPT ![s] = [pc |-> "synced"]] /\ sync[s].pc = "cloning"
        /\ files' = branch /\ absent' = absent \cup (Playbooks \ branch)
    BY <1>2 DEF CloneDone, SyncStep
  <2>2. Writing = {s} /\ Steady = {}
    BY <2>1 DEF RepoInv, Writing, Steady
  <2>3. Writing' = {} /\ Steady' \subseteq {s}
    <3>1. overtaken' = overtaken
      BY <1>2 DEF CloneDone
    <3>2. QED
      BY <2>1, <2>2, <3>1 DEF TypeOK, Writing, Steady
  <2>4. QED
    BY <2>1, <2>3 DEF TypeOK, CheckoutInv
<1>3. ASSUME NEW s \in Syncers, Clone(s)
      PROVE  CheckoutInv'
  <2>1. \A t \in Syncers : sync[t].pc \notin {"synced", "succeeded", "listed", "reaping"}
    BY <1>3 DEF RepoInv, Clone
  <2>2. \A t \in Syncers : sync'[t].pc \notin {"synced", "succeeded", "listed", "reaping"}
    BY <1>3, <2>1 DEF TypeOK, Clone
  <2>3. QED
    BY <2>2 DEF CheckoutInv, Steady
<1>4. ASSUME NEW s \in Syncers, Reset(s)
      PROVE  CheckoutInv'
  <2>1. /\ sync' = [sync EXCEPT ![s] = [pc |-> "resetting", to |-> tracking]]
        /\ overtaken' = overtaken \cup Done(s)
    BY <1>4 DEF Reset, SyncStep
  <2>2. Steady' = {}
    BY <2>1 DEF TypeOK, Steady, Done
  <2>3. QED
    BY <2>2 DEF CheckoutInv
<1>5. ASSUME NEW s \in Syncers, ListPlaybooks(s)
      PROVE  CheckoutInv'
  <2>1. /\ sync' = [sync EXCEPT ![s] = [pc |-> "listed", valid |-> files \cap subdir, within |-> subdir]]
        /\ sync[s].pc = "succeeded" /\ files' = files /\ absent' = absent /\ overtaken' = overtaken
    BY <1>5 DEF ListPlaybooks, SyncStep, Repository
  <2>2. Writing' = Writing /\ Steady' = Steady
    BY <2>1 DEF TypeOK, Writing, Steady
  <2>3. QED
    BY <2>1, <2>2 DEF TypeOK, CheckoutInv, Steady
<1>6. ASSUME NEW s \in Syncers, RemoveJobs(s)
      PROVE  CheckoutInv'
  <2>1. PICK gone \in SUBSET (Playbooks \ sync[s].valid) :
             sync' = [sync EXCEPT ![s] = [pc |-> "reaping", gone |-> gone, within |-> sync[s].within]]
    BY <1>6 DEF RemoveJobs, SyncStep
  <2>2. sync[s].pc = "listed" /\ files' = files /\ absent' = absent /\ overtaken' = overtaken
    BY <1>6 DEF RemoveJobs, Repository
  <2>3. Writing' = Writing /\ Steady' = Steady
    BY <2>1, <2>2 DEF TypeOK, Writing, Steady
  <2>4. QED
    BY <2>1, <2>2, <2>3 DEF TypeOK, CheckoutInv, Steady
<1>7. ASSUME NEW s \in Syncers,
             \/ Begin(s) \/ Fetch(s) \/ Fail(s) \/ Settle(s) \/ SettleFails(s)
             \/ DeleteRows(s) \/ ReapFails(s)
      PROVE  CheckoutInv'
  <2>1. UNCHANGED <<files, absent>>
    BY <1>7 DEF Begin, Fetch, Fail, Settle, SettleFails, DeleteRows, ReapFails, Repository
  <2>2. \E next : /\ sync' = [sync EXCEPT ![s] = next]
                  /\ next.pc \notin {"resetting", "cloning", "synced", "listed", "reaping"}
                  /\ next.pc = "succeeded" => sync[s].pc = "synced"
                  /\ overtaken' = overtaken \/ (overtaken' = overtaken \ {s} /\ next.pc # "succeeded")
    BY <1>7 DEF Begin, Fetch, Fail, Settle, SettleFails, DeleteRows, ReapFails, SyncStep, Idle
  <2>3. QED
    BY <2>1, <2>2, AsideStep
<1>8. CASE UNCHANGED <<files, sync, overtaken>> /\ absent \ files \subseteq absent'
  BY <1>8 DEF CheckoutInv, Steady, Writing
<1>9. CASE Crash
  BY <1>9 DEF Crash, CheckoutInv, Steady, Idle
<1>10. QED
  BY <1>1, <1>2, <1>3, <1>4, <1>5, <1>6, <1>7, <1>8, <1>9 DEF Next, Syncing, Save, OpenRow, CommitRow,
     CommitFails, SetJob, JobVanishes, SaverStep, Push, ChangeSubdir, Restart, vars

-----------------------------------------------------------------------------
(* The theorems. *)

LEMMA IInvInit == Init => IInv
<1>1. Init => DownInv /\ SavingInv /\ ReapingInv /\ RepoInv /\ CheckoutInv
  BY DEF Init, DownInv, SavingInv, ReapingInv, RepoInv, CheckoutInv, Steady, Reaping, Idle
<1>2. Init => JobsFollowRows
  BY DEF Init, JobsFollowRows
<1>3. QED
  BY <1>1, <1>2, TypeInit DEF IInv

LEMMA IInvStep == IInv /\ [Next]_vars => IInv'
<1>1. SUFFICES ASSUME IInv, [Next]_vars
               PROVE  IInv'
  OBVIOUS
<1>2. TypeOK' /\ DownInv'
  BY <1>1, TypeStep, DownStep DEF IInv
<1>3. JobsInv'
  BY <1>1, JobsStep DEF IInv, JobsInv
<1>4. RepoInv' /\ CheckoutInv'
  BY <1>1, RepoStep, CheckoutStep DEF IInv
<1>5. QED
  BY <1>2, <1>3, <1>4 DEF IInv, JobsInv

THEOREM Inductive == Spec => []IInv
BY IInvInit, IInvStep, PTL DEF Spec

(* Every variable keeps its type, and the scheduler never has a job for the  *)
(* empty expression, which its trigger would refuse.                         *)
THEOREM TypeCorrect == Spec => []TypeOK
<1>1. IInv => TypeOK
  BY DEF IInv
<1>2. QED
  BY <1>1, Inductive, PTL

(* What the page says of a schedule is what the scheduler does, through any  *)
(* number of saves, syncs that drop schedules, crashes and restarts.         *)
THEOREM JobsFollow == Spec => []JobsFollowRows
<1>1. IInv => JobsFollowRows
  BY DEF IInv
<1>2. QED
  BY <1>1, Inductive, PTL

(* A schedule is dropped only by a sync that listed the playbooks, and only  *)
(* if its playbook was missing from a commit that was checked out since it  *)
(* was saved, lay outside the folder the setting named at that listing, or  *)
(* the sync was one whose checkout another one changed.                     *)
THEOREM DropsTheGone == Spec => DropsOnlyTheGone
<1>1. ASSUME IInv, Next, NEW p \in Playbooks, row[p] # NoRow, row'[p] = NoRow
      PROVE  \E s \in Reaping(p) : sync'[s] = Idle /\ ReapedFor(s, p)
  <2>1. \A d \in Savers : CommitRow(d) => saver[d].cron # NoRow
    BY <1>1, OffIsNoCron DEF IInv, TypeOK, CommitRow, SaverStates
  <2>2. ASSUME NEW d \in Savers, CommitRow(d)
        PROVE  FALSE
    BY <1>1, <2>1, <2>2 DEF IInv, TypeOK, CommitRow
  <2>3. PICK s \in Syncers : DeleteRows(s)
    BY <1>1, <2>2 DEF Next, Syncing, Begin, Fetch, Reset, ResetDone, Clone, CloneDone, Fail, Settle,
       SettleFails, ListPlaybooks, RemoveJobs, ReapFails, Save, OpenRow, CommitFails, SetJob,
       JobVanishes, Push, ChangeSubdir, Crash, Restart, Schedule
  <2>4. sync[s].pc = "reaping" /\ p \in sync[s].gone /\ sync'[s] = Idle
    BY <1>1, <2>3 DEF IInv, TypeOK, DeleteRows, SyncStep
  <2>5. CASE s \in overtaken
    BY <2>4, <2>5 DEF Reaping, ReapedFor
  <2>6. CASE s \notin overtaken
    <3>1. s \in Steady
      BY <2>4, <2>6 DEF Steady
    <3>2. p \notin sync[s].within \/ p \in absent
      BY <1>1, <2>4, <3>1 DEF IInv, CheckoutInv
    <3>3. QED
      BY <2>4, <3>2 DEF Reaping, ReapedFor
  <2>7. QED
    BY <2>5, <2>6
<1>2. ASSUME IInv, [Next]_vars
      PROVE  [\A p \in Playbooks : row[p] # NoRow /\ row'[p] = NoRow =>
                 \E s \in Reaping(p) : sync'[s] = Idle /\ ReapedFor(s, p)]_vars
  BY <1>1, <1>2
<1>3. QED
  BY <1>2, Inductive, PTL DEF Spec, DropsOnlyTheGone
=============================================================================
