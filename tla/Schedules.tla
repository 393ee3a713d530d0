------------------------------- MODULE Schedules -------------------------------
(***************************************************************************)
(* Schedules: the Git checkout and what keeps to it                        *)
(* (app/services/git_sync.py, app/services/scheduler.py, the schedule form *)
(* of app/routers/settings.py, the sync button of                          *)
(* app/routers/playbooks.py and start-up in app/main.py).                  *)
(*                                                                         *)
(* A sync, from the page or from the scheduler, records a row, brings the  *)
(* checkout to the branch, settles the row and, if it succeeded, drops the *)
(* schedules of playbooks that are gone.  Several may run at once.  The    *)
(* schedule form commits a row and then sets the job that follows it; jobs *)
(* are in memory and made anew from the rows at start-up.                  *)
(*                                                                         *)
(* Git is external: a checkout takes away what is gone before it adds what *)
(* is new, two cannot write the work tree at once, nothing works in a      *)
(* repository that is still being cloned, and any command may fail.  What  *)
(* a job starts is in PlaybookRuns.  The job that syncs is not modelled: a *)
(* sync may begin at any time.  Which playbooks count as there is for the  *)
(* setting playbooks_subdir to say, which an admin may change at any time. *)
(* A value of it is, here, the playbooks that lie in the folder it names:  *)
(* none, if it names no folder or one outside the repository.              *)
(***************************************************************************)
EXTENDS Naturals

CONSTANTS
    Playbooks,      \* paths of playbooks
    Folders,        \* values of playbooks_subdir
    Crons,          \* valid cron expressions
    Off,            \* the empty one
    Syncers,        \* threads that sync
    Savers,         \* threads that serve the schedule form
    MaxPushes,      \* bound on the changes of the branch
    NoRow           \* no such row or job

ASSUME PushesAreCounted == MaxPushes \in Nat
ASSUME FoldersHavePlaybooks == Folders \subseteq SUBSET Playbooks
ASSUME OffIsNoCron == Off \notin Crons /\ NoRow \notin Crons \cup {Off}

VARIABLES
    branch,         \* the playbooks of the branch, where it is pushed to
    pushes,         \* changes of the branch so far
    repo,           \* REPO_DIR: none, a directory without .git, being cloned, cloned
    tracking,       \* origin/<branch>: the playbooks of what was fetched last
    files,          \* the playbooks in the work tree
    subdir,         \* the setting playbooks_subdir
    row,            \* PlaybookSchedule
    job,            \* the scheduler's jobs
    up,             \* the process runs
    history,        \* SyncHistory: the status of each thread's last sync
    sync,           \* the threads that sync
    saver,          \* the threads that save schedules
    absent,         \* auxiliary: playbooks some commit checked out since their schedule was saved lacks
    unwritten,      \* auxiliary: threads whose row could not be settled
    overtaken,      \* auxiliary: threads after whose checkout another sync's began or ended
    apart           \* auxiliary: playbooks whose row and job were changed by threads that crossed

vars == <<branch, pushes, repo, tracking, files, subdir, row, job, up, history, sync, saver,
          absent, unwritten, overtaken, apart>>

-----------------------------------------------------------------------------
Idle == [pc |-> "idle"]
SyncStates ==
    [pc : {"idle", "recorded", "fetched", "cloning", "synced", "failed", "succeeded"}]
    \cup [pc : {"resetting"}, to : SUBSET Playbooks]
    \cup [pc : {"listed"}, valid : SUBSET Playbooks, within : Folders]
    \cup [pc : {"reaping"}, gone : SUBSET Playbooks, within : Folders]
SaverStates ==
    [pc : {"idle"}]
    \cup [pc : {"opened"}, playbook : Playbooks, cron : Crons \cup {Off},
          found : Crons \cup {Off, NoRow}]
    \cup [pc : {"committed"}, playbook : Playbooks, cron : Crons \cup {Off}]

(* A fresh volume; the database may be older than the checkout. *)
Init ==
    /\ branch = Playbooks /\ pushes = 0
    /\ repo = "none" /\ tracking = {} /\ files = {}
    /\ subdir \in Folders
    /\ row = [p \in Playbooks |-> NoRow] /\ job = [p \in Playbooks |-> NoRow]
    /\ up = TRUE
    /\ history = [s \in Syncers |-> "none"]
    /\ sync = [s \in Syncers |-> Idle]
    /\ saver = [d \in Savers |-> Idle]
    /\ absent = Playbooks
    /\ unwritten = {} /\ overtaken = {} /\ apart = {}

-----------------------------------------------------------------------------
(* sync_now *)

Repository == <<repo, tracking, files, absent>>
Schedule == <<row, job, saver, apart>>

SyncStep(s, next) == /\ up /\ sync' = [sync EXCEPT ![s] = next]
                     /\ UNCHANGED <<branch, pushes, subdir, up>>

Begin(s) ==
    /\ sync[s] = Idle
    /\ history' = [history EXCEPT ![s] = "running"]
    /\ overtaken' = overtaken \ {s} /\ unwritten' = unwritten \ {s}
    /\ SyncStep(s, [pc |-> "recorded"])
    /\ UNCHANGED <<Repository, Schedule>>

Fetch(s) ==
    /\ sync[s].pc = "recorded" /\ repo = "cloned"
    /\ tracking' = branch
    /\ SyncStep(s, [pc |-> "fetched"])
    /\ UNCHANGED <<repo, files, absent, history, unwritten, Schedule, overtaken>>

(* Other threads, whose own checkout is done.                               *)
Done(s) == {t \in Syncers \ {s} : sync[t].pc \in {"synced", "succeeded", "listed", "reaping"}}
Writing == {t \in Syncers : sync[t].pc \in {"resetting", "cloning"}}

(* git checkout, git reset --hard: what is gone goes, then the rest is      *)
(* written.                                                                 *)
Reset(s) ==
    /\ sync[s].pc = "fetched" /\ repo = "cloned" /\ Writing = {}
    /\ files' = files \cap tracking
    /\ overtaken' = overtaken \cup Done(s)
    /\ SyncStep(s, [pc |-> "resetting", to |-> tracking])
    /\ UNCHANGED <<repo, tracking, absent, history, unwritten, Schedule>>

ResetDone(s) ==
    /\ sync[s].pc = "resetting"
    /\ files' = sync[s].to
    /\ absent' = absent \cup (Playbooks \ sync[s].to)
    /\ overtaken' = overtaken \cup Done(s)
    /\ SyncStep(s, [pc |-> "synced"])
    /\ UNCHANGED <<repo, tracking, history, unwritten, Schedule>>

(* A directory without .git is what a clone that was killed left: wiped,    *)
(* and with it the one of another sync, not yet that far, whose git fails.  *)
Clone(s) ==
    /\ up /\ sync[s].pc = "recorded" /\ repo # "cloned"
    /\ repo' = "cloning" /\ files' = {}
    /\ sync' = [t \in Syncers |-> CASE t = s -> [pc |-> "cloning"]
                                   [] t # s /\ sync[t].pc = "cloning" -> [pc |-> "failed"]
                                   [] OTHER -> sync[t]]
    /\ UNCHANGED <<branch, pushes, up, subdir, tracking, absent, overtaken, history, unwritten, Schedule>>

CloneDone(s) ==
    /\ sync[s].pc = "cloning"
    /\ repo' = "cloned" /\ tracking' = branch /\ files' = branch
    /\ absent' = absent \cup (Playbooks \ branch)
    /\ SyncStep(s, [pc |-> "synced"])
    /\ UNCHANGED <<history, unwritten, Schedule, overtaken>>

(* No URL, a command that fails or takes too long, or what follows it in    *)
(* the try: a clone takes its directory along, or leaves remains of it, and *)
(* a reset leaves the files as far as it came.                              *)
Fail(s) ==
    /\ sync[s].pc \in {"recorded", "fetched", "resetting", "cloning", "synced"}
    /\ IF sync[s].pc = "cloning" THEN repo' \in {"none", "remains"} ELSE repo' = repo
    /\ SyncStep(s, [pc |-> "failed"])
    /\ UNCHANGED <<tracking, files, absent, history, unwritten, Schedule, overtaken>>

(* The row cannot be written: the sync ends with an error, the row stays as  *)
(* it is until the next start.                                              *)
SettleFails(s) ==
    /\ sync[s].pc \in {"synced", "failed"}
    /\ unwritten' = unwritten \cup {s}
    /\ SyncStep(s, Idle)
    /\ UNCHANGED <<Repository, Schedule, history, overtaken>>

(* Mutant of Settle: schedules are reaped whatever came of the sync. *)
Settle_ReapsAnyway(s) ==
    /\ sync[s].pc \in {"synced", "failed"}
    /\ history' = [history EXCEPT ![s] = IF sync[s].pc = "synced" THEN "success" ELSE "failed"]
    /\ SyncStep(s, [pc |-> "succeeded"])
    /\ UNCHANGED <<Repository, Schedule, unwritten, overtaken>>

Settle(s) ==
    /\ sync[s].pc \in {"synced", "failed"}
    /\ history' = [history EXCEPT ![s] = IF sync[s].pc = "synced" THEN "success" ELSE "failed"]
    /\ SyncStep(s, IF sync[s].pc = "synced" THEN [pc |-> "succeeded"] ELSE Idle)
    /\ UNCHANGED <<Repository, Schedule, unwritten, overtaken>>

-----------------------------------------------------------------------------
(* reap_orphaned_schedules *)

(* The playbooks of the work tree that are in the folder of the setting, as  *)
(* it is by now: none if the folder is missing or not in the repository.    *)
(* within keeps, for the properties, which folder that was.                 *)
ListPlaybooks(s) ==
    /\ sync[s].pc = "succeeded"
    /\ SyncStep(s, [pc |-> "listed", valid |-> files \cap subdir, within |-> subdir])
    /\ UNCHANGED <<Repository, history, unwritten, Schedule, overtaken>>

Saving(p) == {d \in Savers : saver[d].pc = "committed" /\ saver[d].playbook = p}
Reaping(p) == {s \in Syncers : sync[s].pc = "reaping" /\ p \in sync[s].gone}

(* The rows are read and the jobs of those to go removed ... *)
RemoveJobs(s) ==
    /\ sync[s].pc = "listed"
    /\ LET gone == {p \in Playbooks \ sync[s].valid : row[p] # NoRow}
       IN  /\ job' = [p \in Playbooks |-> IF p \in gone THEN NoRow ELSE job[p]]
           /\ apart' = apart \cup {p \in gone : Saving(p) # {}}
           /\ SyncStep(s, [pc |-> "reaping", gone |-> gone, within |-> sync[s].within])
    /\ UNCHANGED <<Repository, row, saver, history, unwritten, overtaken>>

(* ... and then the rows. *)
DeleteRows(s) ==
    /\ sync[s].pc = "reaping"
    /\ row' = [p \in Playbooks |-> IF p \in sync[s].gone THEN NoRow ELSE row[p]]
    /\ SyncStep(s, Idle)
    /\ UNCHANGED <<Repository, job, saver, apart, history, unwritten, overtaken>>

(* Reading or deleting raises: the rows stay, those to go without their jobs. *)
ReapFails(s) ==
    /\ sync[s].pc \in {"succeeded", "listed", "reaping"}
    /\ apart' = IF sync[s].pc = "reaping" THEN apart \cup sync[s].gone ELSE apart
    /\ SyncStep(s, Idle)
    /\ UNCHANGED <<Repository, row, job, saver, history, unwritten, overtaken>>

Syncing(s) == \/ Fetch(s) \/ Reset(s) \/ ResetDone(s) \/ Clone(s) \/ CloneDone(s)
              \/ Fail(s) \/ Settle(s) \/ SettleFails(s)
              \/ ListPlaybooks(s) \/ RemoveJobs(s) \/ DeleteRows(s) \/ ReapFails(s)

-----------------------------------------------------------------------------
(* update_playbook_schedule, for any path the form was made with *)

SaverStep(d, next) ==
    /\ up /\ saver' = [saver EXCEPT ![d] = next]
    /\ UNCHANGED <<branch, pushes, repo, tracking, files, subdir, up, history, unwritten, sync,
                    overtaken>>

OpenRow(d, p, cron) ==
    /\ saver[d] = Idle
    /\ SaverStep(d, [pc |-> "opened", playbook |-> p, cron |-> cron, found |-> row[p]])
    /\ UNCHANGED <<row, job, absent, apart>>

(* An INSERT if no row was found, an UPDATE if one was, and nothing at all if *)
(* it said the same: then the row may have changed since, or be gone.        *)
CommitRow(d) ==
    /\ saver[d].pc = "opened"
    /\ LET p == saver[d].playbook  cron == saver[d].cron  found == saver[d].found
       IN  /\ found # cron => (found = NoRow) = (row[p] = NoRow)
           /\ row' = IF found = cron THEN row ELSE [row EXCEPT ![p] = cron]
           /\ absent' = IF p \in files THEN absent \ {p} ELSE absent \cup {p}
           /\ apart' = IF Saving(p) \cup Reaping(p) = {} /\ row'[p] = cron
                       THEN apart \ {p} ELSE apart \cup {p}
           /\ SaverStep(d, [pc |-> "committed", playbook |-> p, cron |-> cron])
    /\ UNCHANGED job

(* The row came or went since, or the database is locked. *)
CommitFails(d) ==
    /\ saver[d].pc = "opened"
    /\ SaverStep(d, Idle)
    /\ UNCHANGED <<row, job, absent, apart>>

JobFor(cron) == IF cron = Off THEN NoRow ELSE cron

(* Mutant of SetJob: the job that is there is left as it is. *)
SetJob_KeepsOld(d) ==
    /\ saver[d].pc = "committed"
    /\ job' = [job EXCEPT ![saver[d].playbook] = IF @ = NoRow THEN JobFor(saver[d].cron) ELSE @]
    /\ SaverStep(d, Idle)
    /\ UNCHANGED <<row, absent, apart>>

(* reschedule_playbook: the old job goes, and the new one comes if the cron  *)
(* expression is not empty.                                                 *)
SetJob(d) ==
    /\ saver[d].pc = "committed"
    /\ job' = [job EXCEPT ![saver[d].playbook] = JobFor(saver[d].cron)]
    /\ SaverStep(d, Idle)
    /\ UNCHANGED <<row, absent, apart>>

(* The old job goes between the look at it and its removal, which raises.   *)
JobVanishes(d) ==
    /\ saver[d].pc = "committed"
    /\ LET p == saver[d].playbook
       IN  /\ job[p] # NoRow /\ (Saving(p) \ {d}) \cup Reaping(p) # {}
           /\ job' = [job EXCEPT ![p] = NoRow]
           /\ apart' = apart \cup {p}
    /\ SaverStep(d, Idle)
    /\ UNCHANGED <<row, absent>>

Save(d) == CommitRow(d) \/ CommitFails(d) \/ SetJob(d) \/ JobVanishes(d)

-----------------------------------------------------------------------------
Push(playbooks) ==
    /\ pushes < MaxPushes /\ pushes' = pushes + 1
    /\ branch' = playbooks /\ playbooks # branch
    /\ UNCHANGED <<repo, tracking, files, subdir, row, job, up, history, unwritten, sync, saver,
                    absent, overtaken, apart>>

(* update_settings, or a backup that is restored: nothing is reaped by it,   *)
(* the next sync will.                                                      *)
ChangeSubdir(folder) ==
    /\ up /\ subdir' = folder /\ folder # subdir
    /\ UNCHANGED <<branch, pushes, repo, tracking, files, row, job, up, history, unwritten, sync, saver,
                    absent, overtaken, apart>>

(* Threads and jobs are gone; what git was writing may be incomplete. *)
Crash ==
    /\ up /\ up' = FALSE
    /\ repo' = IF repo = "cloning" THEN "remains" ELSE repo
    /\ job' = [p \in Playbooks |-> NoRow]
    /\ sync' = [s \in Syncers |-> Idle]
    /\ saver' = [d \in Savers |-> Idle]
    /\ overtaken' = {} /\ apart' = {}
    /\ UNCHANGED <<branch, pushes, tracking, files, subdir, row, history, unwritten, absent>>

(* Mutant of Reconciled: start-up leaves the rows of syncs as they are. *)
Reconciled_Not(status) == status

(* reconcile_orphaned_syncs *)
Reconciled(status) == IF status = "running" THEN "failed" ELSE status

(* lifespan: the rows of syncs are settled, and each schedule gets its job. *)
Restart ==
    /\ ~up /\ up' = TRUE
    /\ history' = [s \in Syncers |-> Reconciled(history[s])]
    /\ job' = [p \in Playbooks |-> IF row[p] = NoRow THEN NoRow ELSE JobFor(row[p])]
    /\ unwritten' = {}
    /\ UNCHANGED <<branch, pushes, repo, tracking, files, subdir, row, sync, saver, absent, overtaken,
                    apart>>

Next ==
    \/ \E s \in Syncers : Begin(s) \/ Syncing(s)
    \/ \E d \in Savers : \/ \E p \in Playbooks, c \in Crons \cup {Off} : OpenRow(d, p, c)
                         \/ Save(d)
    \/ \E playbooks \in SUBSET Playbooks : Push(playbooks)
    \/ \E folder \in Folders : ChangeSubdir(folder)
    \/ Crash \/ Restart

Spec == Init /\ [][Next]_vars

(* A sync goes on: git commands end or are stopped after 300 s.  The        *)
(* container restarts a process that died.                                  *)
FairSpec == /\ Spec
            /\ \A s \in Syncers : WF_vars(Syncing(s))
            /\ \A d \in Savers : WF_vars(Save(d))
            /\ WF_vars(Restart)

-----------------------------------------------------------------------------
(* Types, and that there is no job for an empty expression. *)
TypeOK ==
    /\ branch \subseteq Playbooks /\ pushes \in 0 .. MaxPushes
    /\ repo \in {"none", "remains", "cloning", "cloned"}
    /\ tracking \subseteq Playbooks /\ files \subseteq Playbooks
    /\ subdir \in Folders
    /\ row \in [Playbooks -> Crons \cup {Off, NoRow}]
    /\ job \in [Playbooks -> Crons \cup {NoRow}]
    /\ up \in BOOLEAN
    /\ history \in [Syncers -> {"none", "running", "success", "failed"}]
    /\ sync \in [Syncers -> SyncStates]
    /\ saver \in [Savers -> SaverStates]
    /\ absent \subseteq Playbooks /\ unwritten \cup overtaken \subseteq Syncers /\ apart \subseteq Playbooks

(* The scheduler runs exactly what the rows, and so the page, say: once no  *)
(* thread is between a row and its job, each enabled schedule has a job with *)
(* its expression and nothing else has one, through saves, reaping, crashes *)
(* and start-up.  Threads that changed the same schedule at once, or a       *)
(* failing delete, may leave the two apart until it is saved again or ulmo   *)
(* is restarted (apart).                                                    *)
JobsFollowRows ==
    up => \A p \in Playbooks :
        Saving(p) \cup Reaping(p) = {} /\ p \notin apart
            => job[p] = IF row[p] = NoRow THEN NoRow ELSE JobFor(row[p])

(* What a sync may drop the schedule of a playbook for.                      *)
ReapedFor(s, p) == p \in absent \/ p \notin sync[s].within \/ s \in overtaken

(* A schedule is dropped only by a sync that listed the playbooks after its  *)
(* checkout, and then for one of two reasons: the playbook was missing from *)
(* a commit that was checked out since the schedule was saved, or it lies   *)
(* outside the folder the setting named at that listing.  So not for a      *)
(* clone that failed, a wiped directory or a repository that is not there   *)
(* yet (the comment of reap_orphaned_schedules); but a change of the        *)
(* setting, or a slip in it, does drop schedules of playbooks the           *)
(* repository still has.  A sync whose checkout another one changes before  *)
(* it is done may err (overtaken).                                          *)
DropsOnlyTheGone ==
    [][\A p \in Playbooks : row[p] # NoRow /\ row'[p] = NoRow =>
          \E s \in Reaping(p) : sync'[s] = Idle /\ ReapedFor(s, p)]_vars

(* A sync that began is settled in the end, whatever git does and whenever   *)
(* the server dies; a row stays "running" only if it could not be written,   *)
(* and then until the next start.                                            *)
SyncSettles ==
    \A s \in Syncers : history[s] = "running" ~> (history[s] # "running" \/ s \in unwritten)

-----------------------------------------------------------------------------
(* The invariant the proofs of SchedulesProofs carry from step to step. *)

(* A process that is down has no threads. *)
DownInv == ~up => /\ \A s \in Syncers : sync[s] = Idle
                  /\ \A d \in Savers : saver[d] = Idle

(* Unless threads crossed, whoever is between a row and its job is the only  *)
(* one at that schedule, and the row says what the job will.                 *)
SavingInv ==
    \A d \in Savers : saver[d].pc = "committed" /\ saver[d].playbook \notin apart =>
        /\ row[saver[d].playbook] = saver[d].cron
        /\ Saving(saver[d].playbook) = {d}
        /\ Reaping(saver[d].playbook) = {}

(* Unless threads crossed, a schedule whose row is to go has no job. *)
ReapingInv ==
    \A p \in Playbooks \ apart : Reaping(p) # {} => job[p] = NoRow

(* One sync at a time clones; whoever is past it works in a whole clone.     *)
RepoInv ==
    /\ \A s \in Syncers : sync[s].pc = "cloning" =>
          repo = "cloning" /\ \A t \in Syncers : sync[t].pc = "cloning" => t = s
    /\ \A s \in Syncers :
          sync[s].pc \in {"fetched", "resetting", "synced", "succeeded", "listed", "reaping"} =>
              repo = "cloned"
    /\ \A s, t \in Syncers : sync[s].pc = "resetting" /\ sync[t].pc = "resetting" => s = t

(* After its checkout, and until another one's, a sync lists and drops by    *)
(* the commit it checked out and the folder it looked in.                   *)
Steady == {s \in Syncers \ overtaken : sync[s].pc \in {"synced", "succeeded", "listed", "reaping"}}
CheckoutInv ==
    \A s \in Steady :
        /\ Writing = {}
        /\ Playbooks \ files \subseteq absent
        /\ sync[s].pc = "listed" => sync[s].valid = files \cap sync[s].within
        /\ sync[s].pc = "reaping" => sync[s].gone \cap files \cap sync[s].within = {}

IInv == /\ TypeOK /\ DownInv /\ SavingInv /\ ReapingInv /\ JobsFollowRows
        /\ RepoInv /\ CheckoutInv
=============================================================================
