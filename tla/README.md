# A formal model of ulmo

ulmo is a small web application (FastAPI, SQLite, one process) that runs Ansible
playbooks from a Git checkout, runs single commands on hosts over SSH, and lets
software agents do both through a token API, within what their role grants and,
where the role says so, only after a person approved. This directory holds TLA+
models of its parts, the TLC configurations that check them on small instances,
and proofs of what matters most for every size of instance.

All paths below are under `src/app/`. The database is SQLite: each committed
transaction is atomic, and **the id of a deleted last row is given again**, which
the models keep because several parts of the code depend on it.

## The system

| part | state | operations | talks to |
|---|---|---|---|
| playbook runs (`services/runner.py`, `services/agent_runs.py`) | `RunHistory`, `AgentRun`; in memory the cancel events and progress of live runs, `_start_lock` | start (agent, page, schedule), execute, settle, cancel, reconcile at start-up | checkout, settings, notifier, log files |
| approvals (`services/approvals.py`) | `Approval`; `_create_lock` | ask, list, expire, approve/deny, start what was approved, prune | agent runs, commands, allowance |
| command runs (`services/commands.py`) | `CommandRun`; a thread per command | launch under `_start_lock`, execute over ssh, write the result in five attempts, settle lost rows, prune | library, host passwords |
| live log (`services/log_tail.py`, `routers/runs.py`, `run_detail.html`) | log file, the page's offset and text, a generator per connection | append, load, stream, lose and resume | runs, retention |
| agents, roles, grants (`services/agents.py`) | `Agent`, `Role`, `Grant`, `RoleCommand`, the kill switch | create, rename, delete; check a run, check a command | inventory, library |
| hourly allowance (`services/agents.py`) | `AgentRequest`; `_admit_lock` | admit, forget after an hour | approvals, agent runs |
| command library (`services/command_library.py`, `routers/command_admin.py`) | one YAML file and its versions; `_lock`, a cached parse | load, save, rename, delete, restore; validate values, build the command line | role rows, host passwords |
| Git sync and schedules (`services/git_sync.py`, `services/scheduler.py`) | the checkout, `SyncHistory`, `PlaybookSchedule`, the scheduler's jobs | sync, list playbooks, schedule, reap | runs, settings |
| inventory (`services/inventory.py`) | `inventory_hosts.json`, a listing in service for a minute | list hosts and groups, write the listing anew | grants, the pages of agents |
| host passwords (`services/host_secrets.py`, `routers/command_admin.py`) | `HostPassword`, a row beside a host of the library file | save, keep, clear, read for ssh | library, command runs |
| retention (`services/retention.py`) | `RunHistory`, `SyncHistory`, artifact directories | prune at start-up and every six hours | runs, log |
| settings, users, notifier, SSH keys, tags, pages | one table, file or cache each | read and write | as listed in PROJECT.json |

Every request runs in a thread of the server, a schedule in a thread of the
scheduler, and every run and command in a thread of its own. They meet in the
database and in four locks: `runner._lock` (handles of live runs),
`agent_runs._start_lock` (an agent's start: check, start, record),
`approvals._create_lock` and `agents._admit_lock`. The container restarts the
process when it dies; `main.lifespan` then settles what was left "running".

**What is hard here.** Checks are separated from what they allow by a commit, a
lock or a person's decision; starts from the page do not take the start lock; ids
come back after deletes; threads can die or fail to write with a row saying
"running"; a browser follows a file that grows by bytes. PROJECT.json lists each
hazard at its line with the properties that would catch it.

**What makes each part correct.** Runs: no two agents' runs of one playbook on a
common host, the cap, every running row settled in the end, a cancel honoured, a
settled row kept. Approvals: one decision and one start per request, nothing
started that was not approved, no copies waiting, every approval resolved.
Commands: the caps hold of what really goes, a result is kept, lost rows stop
counting. Log: each character once and in order, "done" means all of it.
Library: the file, its versions and the role rows agree after every edit and
crash; no value escapes its place on the command line. Schedules: a job for each
row and none other. Allowance: never more than the limit in any hour. Grants: what
starts was within what the agent may do while the call was served. Passwords: the
hosts that sign in with one have one, and no other has. Retention: running rows and
their files stay. These are the aims; where the code does not reach them is said under
"Where the documents and the code differ".

## Modules

| module | models |
|---|---|
| `RunLedger` | abstract: what the history of runs promises |
| `PlaybookRuns`, `MCPlaybookRuns` | runs from request to settled row; implements `RunLedger` |
| `ApprovalDesk` | abstract: what becomes of a request for approval |
| `Approvals` | requests and decisions as the code takes them; implements `ApprovalDesk` |
| `Admission`, `MCAdmission` | the hourly allowance, for calls that start at once and inside the making of a request |
| `PlaybookCalls`, `MCPlaybookCalls` | a call for a playbook run from token to start, direct or approved: grants, the kill switch, the inventory and its cache |
| `CommandRuns` | commands over SSH |
| `CommandLibrary`, `MCCommandLibrary` | the library file, its edits and the role entries that follow it |
| `Params` | what a command may say, the values it is given, the line they make (no state) |
| `CommandCalls`, `MCCommandCalls` | a call for a command from token to start; extends `Params` |
| `HostPasswords`, `MCHostPasswords` | a host of the library and its password, and who signs in with it |
| `LogStream`, `MCLogStream` | the live log |
| `Schedules` | syncs of the checkout, schedules and their jobs |
| `PlaybookRunsProofs`, `ApprovalsProofs`, `AdmissionProofs`, `PlaybookCallsProofs`, `CommandRunsProofs`, `SchedulesProofs` | proofs about the module each is named for |
| `CallsAndLogProofs` | proofs about `Params`, `CommandCalls` and `LogStream`, which share the lemmas about `FlattenSeq` |
| `LibraryAndPasswordsProofs` | proofs about the two modules of the library file, `CommandLibrary` and `HostPasswords` |

The modules divide an agent's call between them. `PlaybookCalls` and `CommandCalls`
say whether a run may start, `Admission` whether the hour allows it, `Approvals` what
happens to a request that must wait, `PlaybookRuns` and `CommandRuns` what is started.
What another module decides is a choice here: a step that may also refuse.

### PlaybookRuns

`history`, `agentRun`, `agentId`, `disabled` are tables and settings; `registered`
and `cancelSet` are `runner._cancel_events`; `request`, `exec` and `canceller` hold
where each thread is. A request goes `Precheck` (kill switch, grants) ->
`TakeStartLock` -> `NoConflict`/`RefuseConflict` -> `BelowCap`/`RefuseCap` ->
`InsertRun` (the commit of `runner.start_run`) -> `SpawnRun` -> `RecordAgentRun`;
`RequestRaises` is an exception anywhere inside the lock. `StaffInsert` and
`StaffSpawn` are the same `start_run` for the page and the scheduler, without the
lock. `Register`, `PlayEnds`, `PlayRaises`, `Decide`, `Unregister`, `FinishRun` and
`FinishRaises` are `_execute`. Cancelling is two steps (find the handle, set it), from
the page at once and from the API with retries. `Crash` loses all threads and
memory; `Restart` is `lifespan`. What `check_run` decides does not depend on runs, so
any playbook and non-empty set of hosts may pass it. Retention is left out.

### ApprovalDesk and Approvals

`ApprovalDesk` has requests by number, in the order they are entered: `Enter`,
`Approve`, `Deny`, `Expire`, `Start`, `Note` (the outcome), `LetGo` (there will be none)
and `Forget`. It promises that no agent has the same request waiting twice nor more
than the cap, that a request is decided once, that only an approved one is started and
once at most, and that no status goes back.

In `Approvals` an agent's thread goes `Ask` (expire, then) `LookFirst` or
`AnswerWithoutRow` under the lock, `Insert`, `Prune`; an admin's thread `ShowPage`,
`PressButton`, `Claim` or `TooLate` (the conditional UPDATE), `ReadRow` or `RowGone`,
`StartRun` or `StartRefused`, `RecordOutcome`. `Lapse` is fifteen minutes passing. What
is asked for is one value of `Asks`. `made`, `started`, `cut`, `outdated`, `mixed` and the
field `claim` are auxiliary: they number the requests so that a row can be told from a
later one with its id, count the runs started for each, and note the decisions that a
crash or a failing write cut short, the pages whose id was freed with their request, the
requests that took the id of one gone while its approval was in hand, and which request
a thread has claimed.

The desk is read off the table by number: `Requested` is the row that has the number,
`InDecision` the requests a thread has between the commit of "approved" and the record
of the outcome. A crash is `LetGo` of all in hand.

`DeleteAgent` may come at any moment, as in the code: nothing keeps it from an agent one of
whose requests is being decided. It deletes the requests of the agent and so may free
their ids. A thread that has claimed one knows it by the id alone, and reads, starts and
settles by that id: if the next request is recorded within these moments and gets the
id, the thread starts that one, or writes its outcome into that row, though nobody
approved it. The same may happen to a request pruned under its thread, after `KEEP` (500)
newer ones, once those have gone with their agents, too. `ApprovalDesk` has this in its promise, as `mixed`: of a request entered while
an approval in hand is of one already forgotten, it promises less, and of every other all
it says above. `outdated` is the same for a page: the id on it is given again only if its
request was the newest when it went with its agent.

### Admission

A call carries the limit that stood in the agent's row when it came in (`Call`), notes
the time before it waits for `_admit_lock` (`Note`), and then forgets what is older than
an hour, counts and records in one transaction (`Admit`). A call that must be approved
does this inside `approvals.create` and its lock, after the look at what is waiting.
`SetHourlyLimit`, `CreateAgent` and `DeleteAgent` may come between any two steps. `log`,
`limitOf` and `admitted` are auxiliary: all that was ever let through, which the table
forgets, and the limit each call carried.

### PlaybookCalls

A call goes `Authenticate` (or, for an approved request, `Approve` and `ReadAgent`) ->
`SwitchedOn` -> `Granted` -> the hosts -> the groups -> the grants again -> `Ask`, or
`GoOn` -> `Launch`, or `Refuse`. Hosts and groups come from `inventory_hosts.json`
(`FromCache`) or, when that is a minute old, from ansible-inventory (`AskAnsible`), whose
answer is written in a later step (`Keep`, which looks at nothing yet) and may by then be
out of date. Ansible may fail, and the empty listing of a failure is kept for a minute
like any other; only when the file cannot be written is a listing used and not kept. The
check of the names is a step of its own, after the write. Admins' threads edit grants,
marks, role and agent, each as the reads and writes the code has, and the role's id is given again.

`seen`, `blind` and `crossed` are auxiliary: which conditions held at some moment of a
call, which calls found the groups unreadable, and whether a row was written for a
role that had gone.

### HostPasswords

`OpenForm` -> `Submit` (the form is checked against the version the page had) ->
`WriteHost` (the library file) -> `SavePassword` (the row: set, kept or cleared);
`DeleteHost` -> `ClearPassword`. `GivesUp` is an exception between the two, `Crash` loses
the threads. `ChangeElsewhere` is a restore of an old copy or an edit by hand, which
leave the rows alone. A command reads its host in `Call` and its password in `Start`.

`paired`, `crossed` and `disturbed` are auxiliary: what admins last entered for the host
that is there, the admins another one got in the way of, and the hosts a change of
which was crossed, cut off or made without the form. Nothing in the code repairs those
but another save or deletion, and the properties leave them out.

### CommandRuns

`CountRuns` is both calls of `commands.running` with the settling they begin with;
`Insert` and `Spawn` are `commands.start`; `SshEnds`, `WriteResult`, `PruneOld`,
`TryAgain` and `LastTryFails` are `_execute` and `_finish`. "ended" stands for the
statuses success, failed and timeout, which nothing tells apart. Two assumptions
about time are named in the module: a row grows older than ten minutes only when
its thread is gone (`GrowOld`; the longest timeout is 300 s), and fewer than
`KEEP_RUNS` (500) commands start while one goes on (`SlowTurnover`).

### LogStream

A log is a sequence of bytes, each belonging to a character; what a decoder emits
depends on the offset it began at. The page loads (`LoadRow`, then `LoadLog`),
connects from its offset, receives events, loses the connection with what is on the
wire. The server's loop is `ReadRow` -> `ReadLog` -> `Round`. `ServerDies` includes the
restart that settles the row. `torn` is auxiliary: something began to decode inside a
character.

### CommandLibrary

`file` is commands.yml, whose version is its content; `stamp` is what stat says;
`memory` is `_state`; `copies` the history; `entries` the `RoleCommand` rows. A load is
`LoadCached`, or `LoadStat` and then `LoadText`, and knows where its caller goes on. An
admin's thread goes `ListCommands` -> `FillIn` -> (`LoadNames`, `CheckName` for a new
command) -> `Begin` or `Refuse` -> `MoveRoles` for a rename -> `KeepCopy` -> `Swap` ->
`LoadNew`, or `WriteFails` and, for a rename, `UndoMove` without the lock. `Outcomes` is
every `change()` with its refusals. A role is given commands by `ChooseCommands`,
`CheckKnown` and, without a lock in between, `ReplaceRows`. `HandEdit` breaks, mends,
adds to and removes from the file at any moment except while a page writes it; the
code cannot know of a hand edit in those milliseconds. After `Restart` the forms are still
in their browsers.

`line`, `seen` and `given` are auxiliary: they say which command a name stands for, so
that a command can be told from a later one of its name. A command is gone once a load
has seen it gone. `spoiled` notes the cases in which the code does lose or confuse role
entries, and which the two properties about roles leave out: a crash, or another
edit or load, between a rename's two halves or its failure and the clean-up; rows written
by `set_role_commands` after or during an edit it did not see; and a rename onto a
name that roles still hold because nothing has loaded the file since it was removed.
Passwords, and what a command or a host may say, are not in this module.

### Params and CommandCalls

`Params` has a text as a sequence of the few characters that matter ("-" in front,
NUL, a line end), a template as elements of characters and placeholders, and a pattern
as the set of texts it matches. `Accepts`, `ValidParams` and `BuildArgv` are
`parse_command`, `validate_params` and `build_argv`; `InPlace` says what may be expected
of the line without building it.

`CommandCalls` follows one call: `Authenticate` (or `Approve` and `ReadAgent`) ->
`RoleHolds` -> `HostOffers` -> `Validate` -> `Ask`, or `GoOn`, or for an approved call
`Compare` -> `Launch`. Each reads what the code reads there and nothing else, so an edit
may come before each: the library is loaded twice in one check, and the agent's row is
not read again. `Refuse` ends a call wherever a check fails; it also stands for the kill
switch, the allowance and the caps, which are in other modules. A library edit is one
step (how the file is written is in `CommandLibrary`), and so is a rename left to that
module. The two edits of a role are a step that reads and a step that writes, because
the code does not lock them against each other.

`seen`, `wanted`, `muddled` and `outdated` are auxiliary: which conditions held at some moment
while a call was served; which commands of the role admins last said must wait for
approval; those of them whose mark an outdated edit took away; and the edits of a role
whose rows were changed by another since they were read. `MarkedWaits` names the three
ways in which a command starts unapproved: the role held it and it need not wait, at one
moment of the call; the role lost it after `RoleHolds`, since `Ask` and `GoOn` look the mark
up last and it goes with the row; an outdated edit took the mark away. Only the first is
what `README.md:165-167` says; the other two are what the code does.

### Schedules

`files` are the playbooks in the work tree, `repo` is what `REPO_DIR` is, and `subdir` the
setting `playbooks_subdir`, as the set of playbooks its folder has: none if it is missing or
lies outside the repository. `list_playbooks` finds what is in both; `ChangeSubdir` is the
settings page, or a restored backup, and may come at any moment.
`Begin`, `Fetch`, `Reset`/`ResetDone` or `Clone`/`CloneDone`, `Fail`, `Settle` are
`sync_now`; `ListPlaybooks`, `RemoveJobs`, `DeleteRows` are `reap_orphaned_schedules`,
called after a sync that succeeded. `OpenRow`, `CommitRow`, `SetJob` are the schedule
form: a row that already says what the form says is not written, so nobody notices
when it was deleted meanwhile. `JobVanishes` is the exception of removing a job that
another thread removed. `Restart` settles sync rows and makes every job anew. Git is
external: it removes before it adds, one process at a time writes the work tree, and
any command may fail.

`absent`, `unwritten`, `overtaken` and `apart` are auxiliary. `absent` has the playbooks
missing from some commit checked out since their schedule was saved; `unwritten` the
syncs whose final write failed; `overtaken` the syncs whose checkout another one changed
before they were done; `apart` the playbooks whose schedule was changed by threads that
crossed. In the last two cases the code may drop a schedule that should stay, or leave
a row without its job, and the properties leave them out. A thread's `within` is the
folder its listing was of: `DropsOnlyTheGone` lets a sync drop what is missing from the
repository and what is outside that folder, which is what the code does.

## What the runs check

Bounds are in the `.cfg` files; each is the smallest at which the interesting case
happens, and where a larger one was tried it is said.

| run | question | bounds |
|---|---|---|
| `runs_safety` | agents' runs disjoint, cap, implements `RunLedger`, with failing writes and crashes | two runs, two requests, two hosts, cap one: two requests race for one host and for one place |
| `runs_live` | runs settle, cancels honoured, the kill switch drains | one run, two requests, one canceller, no failing writes |
| `runs_ui_overlap` | a disagreement, see below | two runs, one request |
| `approvals` | types, implements `ApprovalDesk`, approvals resolve, what starts was shown | two callers asking the same, two admins, two requests, room for two to wait, one row kept, an agent deleted at any moment, failing writes and crashes (453 thousand states). The desk is never full there: what the cap promises rests on the proofs `WaitsOnce` and `KeepsThePromise` |
| `admission` | the limit of each hour, no early refusal, free retries | two callers, two things to ask for, limits none, one and two, three admissions in three hours (3.3 million states) |
| `grants` | starts only what was granted, waits where it must, plain hosts, new roles are empty | one call, one request, one admin, two edits, two hosts, one of which turns into a group (2.9 million states) |
| `calls` | what starts was allowed while it was served, waits where it must, is what was approved, and no value leaves its place on the line | one command in five forms (two of them legal), two sets of values (one with a negative number and a leading dash), one call, one request, two admins, three edits (780 thousand states) |
| `commands` | caps of what really goes, lost rows, results, every command settles | three commands, two requests, two hosts, caps two and one, two attempts to write, two rows kept (240 thousand states) |
| `library` | roles hold and keep what they were given, nothing saved over a version the form did not carry, the file in service | two names, one host, one role, two admins, three writes (the hand-written file included), one copy kept |
| `passwords` | passwords follow hosts, commands sign in with what was saved | one host, two addresses, two passwords, two admins, one command, four saves (1.4 million states) |
| `logstream` | exact text, "done" means all, pages end | five bytes in three characters, two of them of two bytes, two losses |
| `schedules` | jobs follow the rows, only schedules of playbooks that went or are outside the folder are dropped, sync rows are settled | one playbook, two folders (one has it, one has nothing), two cron expressions, two syncs, one form, two changes of the branch (1.1 million states) |

Two of each thread suffice for the races here: each hazard is between one thread
that has checked and one that acts, or between one that reads and one that writes what
it read. Three are needed only where an id is given again (a row goes, another comes,
the first thread acts), and there the third is an action without a thread of its own.

`logstream` does not check deadlock: once the run is pruned and the page is done
nothing is left to happen.

**Where the documents and the code differ.** `runs_ui_overlap` shows the one that has a
run: a run from the page slips between an agent's conflict check and its row, and both
go on the same hosts. The others met while modelling are not held against
the code by any run: the properties leave them out, each by a named auxiliary variable, or
allow them in so many words, so none of them says that these cases are right.

- The server dies between an approval and the record of its run: the request stays
  "approved" without one (`README.md:171-173`; `cut`).
- A page whose request was the newest when it went with its agent approves the next
  request, which was given the id (`README.md:169-170`; `outdated`). A thread that has
  claimed such a request starts the next one, or writes its outcome into its row, with
  nobody having approved it (`agents.py:171-181`, `approvals.py:143` and `155`; `mixed`).
- A command that is marked starts without an approval when a save of the role takes it
  out after `check_command` let it pass, because `commands_needing` then finds no row for
  it (`README.md:165-167`; `api.py:239-240`, `agents.py:263-266`; "left the role" in
  `MarkedWaits`).
- The library's words say a value cannot start with "-" unless its parameter has
  `allow_leading_dash` (`command_library.py:26-27`); only patterns are checked for it, and
  the listed values of an enum and negative numbers may (`MayLead`).
- An optional placeholder within an element (`--filter`, `name={f}`) leaves its flag bare
  when it is left out: `parse_command` refuses only one that stands alone
  (`command_library.py:158-162`; `DropsOnlyTheOmitted`).
- A changed or mistyped `playbooks_subdir` makes the next sync drop the schedules of
  playbooks that are still in the repository, although `scheduler.py:92-95` speaks of
  those no longer in it (`git_sync.py:155-160`; `DropsOnlyTheGone` allows it).
- Syncs or saves of schedules across each other drop a schedule whose playbook is there,
  or leave a row without its job (`overtaken`, `apart`).
- With the hosts from the cache and no groups to be had, a host that is now a group
  passes, though `agents.py:387-388` says everything is then refused (`blind`).
- `add_grant`, `assign_role` and `create_agent` find a role, and write after it was
  deleted: the next role with its id has the row (`crossed`).
- A restored or hand-edited library leaves the passwords as they were
  (`README.md:118-119`; `disturbed`), as do two admins who save one host across each other or
  a failure between the file and the row; and a command whose host changes during its
  call signs in at the old address with the new password (`commands.py:72`;
  `SignsInAsSaved` speaks of hosts that still have their address).
- Roles lose or confuse commands in the cases of `spoiled` in `CommandLibrary`, and
  marks in those of `outdated` in `CommandCalls`.
- Deleting an agent drops the rows the cap is counted from while its runs go on
  (`WithinCap` counts as the code does).
- A page or stream that resumes inside a character starts a new decoder there and
  shows replacement characters (`torn`; `ShowsEachOnce` says nothing from then on).
- Two users who delete each other at once are both gone (`routers/auth.py:137-143`); users
  are in no module.

**Fairness.** Weak fairness per thread: a thread that can take a step takes one
(the operating system schedules it; locks are held for a few statements). A play ends
because ansible-runner enforces the run timeout, a command because a timer kills ssh,
a git command because `_run` stops it after its timeout, a dead server is started again
by the container, and a page reconnects from a timer.
No user, agent, admin, sync or crash is ever obliged to act. Weak fairness suffices:
the only contended guard is a free lock, and the properties checked do not promise
that one particular contender gets it, only that holders let it go, or speak of
threads that need no lock.

## What is proved

Eight modules hold the proofs, for every value of the constants, with failing writes
and crashes allowed, from the modules' ASSUMEs only: that model values stand apart, that
bounds are numbers, and that texts and logs are sequences of what they are made of. The
property is seldom inductive, and an invariant `IInv` is carried from step to step; each
was checked with TLC first.

**`PlaybookRunsProofs`**: `TypeCorrect`; `RowsCoverThreads`, a run that some thread drives
has a row that says "running"; `AgentRunsNeverOverlap`; `CapKept`; `LedgerImplemented`, and
from the ledger alone `SettledStays`. Nothing in `AgentRunsDisjoint` says that what the
conflict check found is still true when the row goes in. `IInv` adds `LockInv` (a
request is inside the lock iff it holds it), `ClearInv` (while a request is between
check and insert, no agents' run conflicts with it: others need the lock, and a run
that ends only frees hosts), `InsertedInv`, `DownInv` and `LiveRunHasRow`; `CapKept` adds
`RecordInv` and `CapInv` (a request past the count knows of a free place until it
records).

**`ApprovalsProofs`**: `TypeCorrect`; `KeepsThePromise`, `Approvals` implements
`ApprovalDesk`; `StartsAsShown`; `WaitsOnce`, the part of the promise that leaves nothing out:
no copies and no more than the cap wait, whenever an agent is deleted and whoever gets
its id. `LookInv`: what a caller found when it looked is so until it records, because
only the holder of the lock adds a request. `NumberInv`: a number is one request's,
whatever its row's id has stood for. `StartInv`: nothing that waits was started, unless it
is `mixed`. `ClaimInv`: an approved request is one thread's; what has the id the thread
knows it by is that request, or mixed up with it, and so is the row the thread has read.
`ShownInv`: the id on a page that is not outdated stands for what the page showed or for
nothing, and there is always a larger or equal one in use, so that it is not given again;
this is what makes a decision that names a row by its id safe, and what deleting the
agent of the newest request breaks. Each step is then one of the desk's; the cap carries
over because the waiting requests of the desk are an image of the waiting rows.

**`AdmissionProofs`**: `AllowanceKept`, `OnlyTheSpentRefused`, `RetriesCostNothing`,
`TypeCorrect`. `TableInv`: what the table lacks of the log is older than an hour by any
call's idea of the time, which is why a call that waited long for the lock may delete
others' rows without letting them do more; `LogInv` and `NotedInv`: nothing is from the
future. For retries, `LockInv` and `NewInv` as in `Approvals`.

**`PlaybookCallsProofs`**: `StartsGranted`, `RunsWait`, `PlainHosts`, `NewRoles`, `TypeCorrect`.
`StageInv` says what a call has seen by each stage, and that a listing not yet written is
as good as the inventory it was taken from; `GoneInv`, that a role that is gone left
nothing behind.

**`CallsAndLogProofs`**, of a call for a command: `OnlyWhatWasAllowed`, `MarkedCommandsWait`,
`ApprovedStartsAsShown`, `PlacesKept`, `TypeCorrect`. `StageInv` says what a call has seen by
each stage; `RequestInv`, that an approved request is one call's and stays as it was
approved. `MarkInv`: what admins said must wait is marked in the rows, unless an outdated
edit took the mark away (`muddled`), and an edit of the role that is not outdated knows of
it; so a call that finds no mark has seen the role without the command, or one of those.
It rests on `PlacesDiffer`, that the ids which begin
anew when rows are replaced are one for each command.
`PlacesKept`, no value leaves its place on the line, is of every template that
`parse_command` accepts and every set of values that `validate_params` lets pass, and needs
the line itself. The community modules define `FlattenSeq`, which makes it, by recursion
over a sequence; the lemmas `FlattensAll` to `FlattenFirst` say what it returns (a function
with the recursion's values exists and is the only one; each part is in the whole, in one
piece; the whole begins as its first part that is not empty does), by taking the least
length at which they would fail. From them `FilledHolds` and `FilledBegins` are about one
element, `ElementsAre` and `ArgvIs` about the list, and `KeepsPlace` joins them. Assumed,
as `TextsAreTyped`: texts are sequences of characters, bounds and numbers are integers,
and a number that is not negative is not written with "-" in front (`ToString` belongs to
TLC, and the prover knows nothing of it).

**`CallsAndLogProofs`**, of the live log: `EachCharacterOnce`, `DoneIsWhole`, `LogTypeCorrect`, for
every log and any number of lost connections. What a page shows is true by a chain that
goes over the wire. `WireInv`: each text on its way begins where the one before it, or the
page, stopped, and what the generator has read and not sent holds no complete character,
so that a lost connection loses nothing that the next one will not send again. `PosInv`:
nobody is past the end of the file; `StreamInv`: a page that does not follow has nothing on
the wire; `DoneInv`: who was told of the end was told after the log was whole, because the
status is read before the log and the row is settled after it. `DecodedAppend` is the lemma
all this rests on: what was decoded up to an offset and from there on is what is decoded
in one go, if the same decoder goes on; `DecodedSame` allows a new one between two
characters.

**`CommandRunsProofs`**: `CapsKept`, `LostSettled`, `ResultKept`, `TypeCorrect`. `CapsHold` is
about threads and the code counts rows: `RowInv` (every thread at work has a row that
counts) joins the two, `PlaceInv` is the free place a request has found, and `LockInv`,
`DownInv` and `RecordedInv` say who may record. Assumed in the model: `GrowOld` and
`SlowTurnover`.

**`LibraryAndPasswordsProofs`**, of the library: `RolesHold`, `RolesKeep`, `ServesTheFile`,
`ReplacesVersion`, `LibraryTypeCorrect`, for any number of commands, roles and admins. That a
role holds what it was given says nothing of why: it holds the *names*, and what a name
stands for changes with renames, deletions, restores and edits by hand.

- `LineInv`: a command has one name at a time, and one that a load has seen keeps it until
  a load sees it gone; all are numbered by the writes so far, so that a new one is new.
- `EditorsInv`, one part for each admin: until an edit swaps the file, it is
  the file the edit was checked against, or, for the delete button, which has no version, at
  least the new file is valid; who has swapped it is the next to load it. These need
  `LibraryLockInv`, and that a hand edit keeps away while a page writes.
- `ServiceInv`: a load that is not outdated has the library of the file, if that is valid.
- `RolesInv`: as long as nothing was spoiled, the entries of a role are the names of those
  commands it was given that were last seen; between the halves of a rename they are ahead
  of the file by that one name (`Ahead`), and while one is to be taken back no other edit
  is going on.

Assumed: `MaxWrites` is not zero (`WritesAreCounted`). The file may be there before the first
start, and counts as written once; with a bound of none there would be a write the bound
does not count.

The same module, of passwords: `PasswordsFollow`, `SignsIn`, `TypeCorrect`. `CrossInv`: an
admin nobody crossed is alone at a host, which is as he left it; `PairInv`: the stored
password is the one meant for the address in the file, wherever nobody is at work and
nothing disturbed the host; a command that still finds its address there is handed that.

**`SchedulesProofs`**: `JobsFollow`, `DropsTheGone`, `TypeCorrect`. `SavingInv` and `ReapingInv` say
what row and job are between the two halves of a save and of a reaping that nobody
crossed; `RepoInv` and `CheckoutInv`, that the work tree of a sync nobody overtook is a
whole commit, so that a playbook it lacks was gone from one, and that what it drops is
not in both that commit and the folder it listed.

Every safety and action property the passing runs check is a theorem. Only model-checked
is liveness, which needs ENABLED and is out of the prover's reach: `RunSettles`,
`CancelHonoured`, `KillSwitchDrains`, `ApprovalResolves`, `CommandSettles`, `PageEnds` and
`SyncSettles`; and so is the disagreement of `runs_ui_overlap`, a counterexample.

## What is not modelled

- Users and sign-in: each operation is one row, except the rule that one user stays,
  for which the code looks before it deletes. Nothing else reads more of it than whether
  somebody is signed in.
- Settings: one row per key. The kill switch, the schedules, the branch and the folder of
  the playbooks are in the modules that read them; the job that syncs itself and its rescheduling are not.
- Retention, but for the removal of a run under its reader (`LogStream`): it deletes
  settled rows beyond the newest 500 and then their files. The newest row stays, so no
  id comes again.
- The editor's text and version, which come from two reads of the file
  (`routers/command_admin.py:61`): `ReplacesItsVersion` speaks of the version.
- The progress board of a run, which is display only.
- The form checks of a host entry (`parse_host`).

Worth doing next: a composition in which the start of an approved request is the
`LaunchStep` of `PlaybookRuns`; the caps of commands with less assumed than `SlowTurnover`
says.

Left out for good: HTTP, rendering, notifications, SSH key files, the tag cache,
password hashing (a library), the SSH command
line and what ansible-runner does inside. They keep no state another part decides on.
