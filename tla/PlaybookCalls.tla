------------------------------ MODULE PlaybookCalls ------------------------------
(***************************************************************************)
(* PlaybookCalls: an agent asks for a playbook run on some hosts, at once  *)
(* or after an admin's approval, while admins edit the role, its grants    *)
(* and the agent, switch agent runs off, and the inventory changes         *)
(* (start_run of app/routers/api.py, the playbook half of                  *)
(* app/services/agent_runs.py, check_run and the grants of                 *)
(* app/services/agents.py, the cached listing of app/services/inventory.py)*)
(*                                                                         *)
(* A call reads the agent, the switch, the grants, the hosts, the groups   *)
(* and the grants again, each in a step of its own.  The hosts and the     *)
(* groups come from a file that is written anew when it is a minute old,   *)
(* by whoever finds it so: ansible-inventory is asked in one step and the  *)
(* file written in another.  There is one agent and one role.  How         *)
(* requests for approval are decided is in Approvals, what runs start in   *)
(* PlaybookRuns, the hourly allowance in Admission: each may refuse here.  *)
(***************************************************************************)
EXTENDS Naturals, FiniteSets

CONSTANTS
    Playbooks,      \* playbooks of the repository
    Hosts,          \* names agents and admins use
    Inventories,    \* what ansible-inventory may list: hosts and groups
    GrantIds,       \* bound on the grants: their ids
    Standing,       \* grants the role may have at first
    Requests,       \* bound on the requests for approval: their ids
    Calls,          \* threads that serve the agent, or start what was approved
    Admins,         \* threads that serve signed-in users
    MaxEdits,       \* bound on what admins and the repository change
    None            \* no such row, request or listing

Unreadable == [hosts |-> {}, groups |-> {}]
Wants == [playbook : Playbooks, hosts : (SUBSET Hosts) \ {{}}]

ASSUME InventoriesAreListings ==
    /\ \A i \in Inventories : i = [hosts |-> i.hosts, groups |-> i.groups] /\ i # Unreadable
    /\ None \notin Inventories \cup {Unreadable}
ASSUME GrantsAreNumbered == GrantIds = 1 .. Cardinality(GrantIds) /\ IsFiniteSet(GrantIds)
ASSUME ThreadsDiffer == Calls \cap Admins = {}
ASSUME EditsAreCounted == MaxEdits \in Nat

VARIABLES
    inventory,      \* what ansible-inventory lists now
    cache,          \* inventory_hosts.json, None unless it is less than a minute old
    enabled,        \* agent runs are switched on
    agent,          \* the agent's row: enabled, and whether it has the role
    role,           \* there is a role with that id
    grant,          \* Grant: the rows of the role's id
    approval,       \* Approval: what waits, or was just approved
    thread,         \* the threads
    edits,          \* changes so far
    seen,           \* auxiliary: what has been so at some moment of each call
    blind,          \* auxiliary: calls that read groups when none could be listed
    crossed         \* auxiliary: a row was written for a role that was gone by then

vars == <<inventory, cache, enabled, agent, role, grant, approval, thread, edits, seen, blind, crossed>>

-----------------------------------------------------------------------------
Threads == Calls \cup Admins
Listings == Inventories \cup {Unreadable}
Grants == [playbook : Playbooks, hosts : (SUBSET Hosts) \ {{}}, asks : BOOLEAN]
Present == {i \in GrantIds : grant[i] # None}

ASSUME StandingAreTables == Standing \subseteq [GrantIds -> Grants \cup {None}]
ASSUME NoneIsNoRow == None \notin Requests \cup Grants

For(playbook) == {i \in Present : grant[i].playbook = playbook}
Allowed(playbook) == UNION {grant[i].hosts : i \in For(playbook)}
Free(playbook) == UNION {grant[i].hosts : i \in {j \in For(playbook) : ~grant[j].asks}}

Idle == [pc |-> "idle"]

(* A call as it goes through precheck_run; "request" is the approval it      *)
(* comes from, None for a direct one; "got" is what ansible-inventory listed *)
(* for it, "kept" once that has been written.                                *)
CallStates ==
    {Idle} \cup
    [pc : {"approved", "called", "switched on", "hosts", "groups", "checked", "starting"},
     want : Wants, request : Requests \cup {None}, hasRole : BOOLEAN,
     got : Listings \cup {None}, kept : BOOLEAN]

AdminStates ==
    {Idle}
    \cup [pc : {"hosts", "groups", "checked", "found"}, want : Wants, asks : BOOLEAN,
          got : Listings \cup {None}, kept : BOOLEAN]
    \cup [pc : {"assigning"}]
    \cup [pc : {"flipping"}, grant : GrantIds, asks : BOOLEAN]
    \cup [pc : {"listing"}, got : Listings \cup {None}, kept : BOOLEAN]

Init ==
    /\ inventory \in Listings /\ cache = None
    /\ enabled = TRUE
    /\ agent = [enabled |-> TRUE, hasRole |-> TRUE] /\ role = TRUE
    /\ grant \in Standing
    /\ approval = [r \in Requests |-> None]
    /\ thread = [t \in Threads |-> Idle]
    /\ edits = 0
    /\ seen = [x \in Calls |-> {}] /\ blind = {} /\ crossed = FALSE

-----------------------------------------------------------------------------
(* What must have been so at some moment while a call is served for it to    *)
(* start something.  A listing that is kept for its minute stands for the    *)
(* inventory, as does what ansible-inventory would list now.                 *)
Conditions == {"enabled", "switched on", "has role", "granted", "free", "hosts", "no groups"}
InService == {inventory} \cup ({cache} \ {None})
Now(x) ==
    LET want == thread[x].want
    IN  {condition \in Conditions :
            CASE condition = "enabled" -> agent.enabled
              [] condition = "switched on" -> enabled
              [] condition = "has role" -> agent.hasRole
              [] condition = "granted" -> want.hosts \subseteq Allowed(want.playbook)
              [] condition = "free" -> want.hosts \subseteq Free(want.playbook)
              [] condition = "hosts" -> \E l \in InService : want.hosts \subseteq l.hosts
              [] condition = "no groups" ->
                    \E l \in InService \ {Unreadable} : want.hosts \cap l.groups = {}}

Observe ==
    /\ seen' = [x \in Calls |-> IF thread'[x] = Idle THEN {}
                                ELSE seen[x] \cup Now(x)']
    /\ blind' = {x \in blind : thread'[x] # Idle}
                \cup {x \in Calls : /\ thread[x] # Idle /\ thread'[x] # Idle
                                    /\ thread[x].pc = "groups" /\ thread'[x].pc = "checked"
                                    /\ IF thread[x].got # None THEN thread[x].got = Unreadable
                                                               ELSE cache = Unreadable}

Unedited == UNCHANGED <<inventory, enabled, agent, role, grant, edits, crossed>>
Goes(t, next) == thread' = [thread EXCEPT ![t] = next]
CallStep(x, next) == Goes(x, next) /\ Unedited /\ UNCHANGED cache

-----------------------------------------------------------------------------
(* The listing: list_hosts and list_groups each go through _data.            *)

Lists(t) == thread[t] # Idle /\ thread[t].pc \in {"hosts", "groups", "listing"}

(* Mutant of Passed: check_run does not look at the groups. *)
Passed_AnyName(t, listing) ==
    /\ thread[t].pc = "hosts" => thread[t].want.hosts \subseteq listing.hosts
    /\ Goes(t, IF thread[t].pc = "listing" THEN Idle
               ELSE [thread[t] EXCEPT !.got = None, !.kept = FALSE,
                                      !.pc = IF @ = "hosts" THEN "groups" ELSE "checked"])

(* Every name is a host; then none of them is a group.                       *)
Passed(t, listing) ==
    /\ thread[t].pc = "hosts" => thread[t].want.hosts \subseteq listing.hosts
    /\ thread[t].pc = "groups" => thread[t].want.hosts \cap listing.groups = {}
    /\ Goes(t, IF thread[t].pc = "listing" THEN Idle
               ELSE [thread[t] EXCEPT !.got = None, !.kept = FALSE,
                                      !.pc = IF @ = "hosts" THEN "groups" ELSE "checked"])

FromCache(t) ==
    /\ Lists(t) /\ thread[t].got = None
    /\ cache # None /\ Passed(t, cache)
    /\ UNCHANGED <<cache, approval>> /\ Unedited

(* A file that is being written does not parse.                              *)
Writing(u) == Lists(u) /\ thread[u].got # None /\ ~thread[u].kept
BeingWritten == \E u \in Threads : Writing(u)

(* refresh_hosts_cache: ansible-inventory lists what there is, or fails ...   *)
AskAnsible(t) ==
    /\ Lists(t) /\ thread[t].got = None
    /\ cache = None \/ BeingWritten \/ thread[t].pc = "listing"
    /\ \E listing \in {inventory, Unreadable} : Goes(t, [thread[t] EXCEPT !.got = listing])
    /\ UNCHANGED <<cache, approval>> /\ Unedited

(* ... and it is kept, an empty one too, unless the file cannot be written;  *)
Keep(t) ==
    /\ Writing(t)
    /\ cache' \in {cache, thread[t].got}
    /\ Goes(t, [thread[t] EXCEPT !.kept = TRUE])
    /\ UNCHANGED approval /\ Unedited

(* only then are the names looked up in it.                                  *)
FromAnsible(t) ==
    /\ Lists(t) /\ thread[t].got # None /\ ~Writing(t)
    /\ Passed(t, thread[t].got)
    /\ UNCHANGED <<cache, approval>> /\ Unedited

(* A request that was approved is closed.                                    *)
Finish(t) == IF t \in Calls /\ thread[t] # Idle /\ thread[t].request # None
             THEN approval' = [approval EXCEPT ![thread[t].request] = None]
             ELSE UNCHANGED approval

Reading(t) == FromCache(t) \/ AskAnsible(t) \/ Keep(t) \/ FromAnsible(t)

(* A page lists the hosts, or a sync, which does so anew.                    *)
List(d) ==
    /\ thread[d] = Idle /\ CallStep(d, [pc |-> "listing", got |-> None, kept |-> FALSE])
    /\ UNCHANGED approval

-----------------------------------------------------------------------------
(* A call *)

(* The token is an enabled agent's; its row is not read again. *)
Authenticate(x, want) ==
    /\ thread[x] = Idle /\ agent.enabled
    /\ CallStep(x, [pc |-> "called", want |-> want, request |-> None,
                    hasRole |-> agent.hasRole, got |-> None, kept |-> FALSE])
    /\ UNCHANGED approval

(* decide: an admin approves a request; start_approved goes on with its row. *)
Approve(x, r) ==
    /\ thread[x] = Idle
    /\ approval[r] # None /\ approval[r].status = "pending"
    /\ approval' = [approval EXCEPT ![r].status = "approved"]
    /\ CallStep(x, [pc |-> "approved", want |-> approval[r].want, request |-> r,
                    hasRole |-> FALSE, got |-> None, kept |-> FALSE])

ReadAgent(x) ==
    /\ thread[x] # Idle /\ thread[x].pc = "approved" /\ agent.enabled
    /\ CallStep(x, [thread[x] EXCEPT !.pc = "called", !.hasRole = agent.hasRole])
    /\ UNCHANGED approval

(* Mutant of SwitchedOn: an approved run does not ask for the switch. *)
SwitchedOn_Direct(x) ==
    /\ thread[x] # Idle /\ thread[x].pc = "called" /\ (enabled \/ thread[x].request # None)
    /\ CallStep(x, [thread[x] EXCEPT !.pc = "switched on"])
    /\ UNCHANGED approval

SwitchedOn(x) ==
    /\ thread[x] # Idle /\ thread[x].pc = "called" /\ enabled
    /\ CallStep(x, [thread[x] EXCEPT !.pc = "switched on"])
    /\ UNCHANGED approval

(* check_run: the grants of the role together name every host.               *)
Granted(x) ==
    /\ thread[x] # Idle /\ thread[x].pc = "switched on"
    /\ thread[x].hasRole
    /\ thread[x].want.hosts \subseteq Allowed(thread[x].want.playbook)
    /\ CallStep(x, [thread[x] EXCEPT !.pc = "hosts"])
    /\ UNCHANGED approval

(* Mutant of NeedsApproval: one grant that does not ask is enough. *)
NeedsApproval_AnyFree(want) == want.hosts \cap Free(want.playbook) = {}

(* playbook_needs *)
NeedsApproval(want) == ~(want.hosts \subseteq Free(want.playbook))

(* The request is recorded, or the same one already waiting is returned.     *)
Ask(x) ==
    /\ thread[x] # Idle /\ thread[x].pc = "checked" /\ thread[x].request = None
    /\ NeedsApproval(thread[x].want)
    /\ LET pending == [want |-> thread[x].want, status |-> "pending"]
       IN  IF \E r \in Requests : approval[r] = pending
           THEN UNCHANGED approval
           ELSE \E r \in Requests : /\ approval[r] = None
                                    /\ approval' = [approval EXCEPT ![r] = pending]
    /\ CallStep(x, Idle)

(* Nothing asks; or it was approved, and every check has been repeated.      *)
GoOn(x) ==
    /\ thread[x] # Idle /\ thread[x].pc = "checked"
    /\ thread[x].request # None \/ ~NeedsApproval(thread[x].want)
    /\ CallStep(x, [thread[x] EXCEPT !.pc = "starting"])
    /\ UNCHANGED approval

(* launch_run *)
Launch(x) ==
    /\ thread[x] # Idle /\ thread[x].pc = "starting"
    /\ Finish(x) /\ CallStep(x, Idle)

(* A check fails, or the allowance, a cap or a run in the way refuses it;    *)
(* what was listed for the check has been kept by then.                      *)
Refuse(x) == thread[x] # Idle /\ ~Writing(x) /\ Finish(x) /\ CallStep(x, Idle)

(* A request is denied or expires. *)
Drop(r) ==
    /\ approval[r] # None /\ approval[r].status = "pending"
    /\ approval' = [approval EXCEPT ![r] = None]
    /\ Unedited /\ UNCHANGED <<cache, thread>>

CallMoves(x) ==
    \/ \E want \in Wants : Authenticate(x, want)
    \/ \E r \in Requests : Approve(x, r)
    \/ ReadAgent(x) \/ SwitchedOn(x) \/ Granted(x)
    \/ Ask(x) \/ GoOn(x) \/ Launch(x) \/ Refuse(x)

-----------------------------------------------------------------------------
(* Edits of one step *)

Edit == edits < MaxEdits /\ edits' = edits + 1
EditStep == Edit /\ UNCHANGED <<cache, approval, thread, crossed>>

InventoryChanges(listing) ==
    /\ EditStep /\ inventory' = listing
    /\ UNCHANGED <<enabled, agent, role, grant>>

CacheAges ==
    /\ cache # None /\ cache' = None
    /\ Unedited /\ UNCHANGED <<approval, thread>>

SetRunsEnabled ==
    /\ EditStep /\ enabled' = ~enabled
    /\ UNCHANGED <<inventory, agent, role, grant>>

ToggleEnabled ==
    /\ EditStep /\ agent' = [agent EXCEPT !.enabled = ~@]
    /\ UNCHANGED <<inventory, enabled, role, grant>>

(* assign_role without a role *)
Unassign ==
    /\ EditStep /\ agent' = [agent EXCEPT !.hasRole = FALSE]
    /\ UNCHANGED <<inventory, enabled, role, grant>>

CreateRole ==
    /\ EditStep /\ ~role /\ role' = TRUE
    /\ UNCHANGED <<inventory, enabled, agent, grant>>

(* Mutant of DeleteRole: the agent stays on the role. *)
DeleteRole_KeepsAgents ==
    /\ EditStep /\ role /\ role' = FALSE
    /\ grant' = [i \in GrantIds |-> None]
    /\ UNCHANGED <<inventory, enabled, agent>>

(* delete_role: the agent loses it and the grants go, as its id comes again. *)
DeleteRole ==
    /\ EditStep /\ role /\ role' = FALSE
    /\ agent' = [agent EXCEPT !.hasRole = FALSE]
    /\ grant' = [i \in GrantIds |-> None]
    /\ UNCHANGED <<inventory, enabled>>

DeleteGrant(i) ==
    /\ EditStep /\ grant' = [grant EXCEPT ![i] = None]
    /\ UNCHANGED <<inventory, enabled, agent, role>>

-----------------------------------------------------------------------------
(* Edits that look and then write *)

Begins(d, next) ==
    /\ thread[d] = Idle /\ Goes(d, next)
    /\ Edit /\ UNCHANGED <<inventory, cache, enabled, agent, role, grant, approval, crossed>>

(* add_grant looks at the hosts, the groups (Reading) and the role ...       *)
AddGrant(d, want, asks) ==
    Begins(d, [pc |-> "hosts", want |-> want, asks |-> asks, got |-> None, kept |-> FALSE])

FindRole(d) ==
    /\ thread[d] # Idle /\ thread[d].pc = "checked" /\ role
    /\ CallStep(d, [thread[d] EXCEPT !.pc = "found"])
    /\ UNCHANGED approval

Ends(d) ==
    /\ Goes(d, Idle)
    /\ crossed' = (crossed \/ (thread[d].pc \in {"found", "assigning"} /\ ~role))
    /\ UNCHANGED <<inventory, cache, enabled, role, approval, edits>>

(* ... and inserts its row, with the id after the largest.                   *)
InsertGrant(d) ==
    /\ thread[d] # Idle /\ thread[d].pc = "found"
    /\ \E i \in GrantIds :
          /\ \A j \in Present : j < i
          /\ i = 1 \/ i - 1 \in Present
          /\ grant' = [grant EXCEPT ![i] = [playbook |-> thread[d].want.playbook,
                                            hosts |-> thread[d].want.hosts, asks |-> thread[d].asks]]
    /\ Ends(d) /\ UNCHANGED agent

(* assign_role, or create_agent: the role is there, and then the row of the  *)
(* agent is written.                                                         *)
Assign(d) == role /\ Begins(d, [pc |-> "assigning"])

WriteRole(d) ==
    /\ thread[d] # Idle /\ thread[d].pc = "assigning"
    /\ agent' = [agent EXCEPT !.hasRole = TRUE]
    /\ Ends(d) /\ UNCHANGED grant

(* toggle_grant_approval reads the row, and writes it by its id.             *)
Flip(d, i) ==
    /\ i \in Present
    /\ Begins(d, [pc |-> "flipping", grant |-> i, asks |-> ~grant[i].asks])

WriteFlip(d) ==
    /\ thread[d] # Idle /\ thread[d].pc = "flipping" /\ thread[d].grant \in Present
    /\ grant' = [grant EXCEPT ![thread[d].grant].asks = thread[d].asks]
    /\ Ends(d) /\ UNCHANGED agent

(* A check fails, the row is gone, or a write fails. *)
EditFails(t) ==
    /\ t \notin Calls /\ thread[t] # Idle /\ ~Writing(t)
    /\ CallStep(t, Idle) /\ UNCHANGED approval

AdminMoves(d) ==
    \/ \E want \in Wants, asks \in BOOLEAN : AddGrant(d, want, asks)
    \/ FindRole(d) \/ InsertGrant(d) \/ Assign(d) \/ WriteRole(d)
    \/ \E i \in GrantIds : Flip(d, i)
    \/ WriteFlip(d) \/ List(d)

-----------------------------------------------------------------------------
Step ==
    \/ \E x \in Calls : CallMoves(x)
    \/ \E t \in Threads : Reading(t) \/ EditFails(t)
    \/ \E r \in Requests : Drop(r)
    \/ \E listing \in Listings : InventoryChanges(listing)
    \/ CacheAges \/ SetRunsEnabled \/ ToggleEnabled \/ Unassign \/ CreateRole \/ DeleteRole
    \/ \E i \in GrantIds : DeleteGrant(i)
    \/ \E d \in Admins : AdminMoves(d)

Next == Step /\ Observe

Spec == Init /\ [][Next]_vars

-----------------------------------------------------------------------------
(* Types: rows have what their columns say, and threads carry what they read. *)
TypeOK ==
    /\ inventory \in Listings
    /\ cache \in Listings \cup {None}
    /\ enabled \in BOOLEAN
    /\ agent \in [enabled : BOOLEAN, hasRole : BOOLEAN]
    /\ role \in BOOLEAN
    /\ grant \in [GrantIds -> Grants \cup {None}]
    /\ approval \in [Requests -> [want : Wants, status : {"pending", "approved"}] \cup {None}]
    /\ \A x \in Calls : thread[x] \in CallStates
    /\ \A d \in Admins : thread[d] \in AdminStates
    /\ thread \in [Threads -> CallStates \cup AdminStates]
    /\ edits \in 0 .. MaxEdits
    /\ seen \in [Calls -> SUBSET Conditions]
    /\ blind \subseteq Calls
    /\ crossed \in BOOLEAN

Starting == {x \in Calls : thread[x] # Idle /\ thread[x].pc = "starting"}

(* Whatever run is started, directly or after an approval, was within what   *)
(* its agent may do while it was being served, or since it was approved: the *)
(* agent enabled and on the role, agent runs switched on, every host named   *)
(* by the role's grants for that playbook, each at some moment (agent_runs   *)
(* repeats every check).                                                     *)
StartsOnlyWhatWasGranted ==
    \A x \in Starting : {"enabled", "switched on", "has role", "granted"} \subseteq seen[x]

(* A run starts without an approval only if, while the call was served,      *)
(* grants that do not ask for one covered all its hosts at one moment.       *)
GrantedRunsWait ==
    \A x \in Starting : thread[x].request # None \/ "free" \in seen[x]

(* README.md:76-78: every name a run is limited to was a host and was no     *)
(* group, in the inventory or in a listing of it still in service while the  *)
(* call was served.  Left out: a call that could not have the groups listed  *)
(* although it had the hosts.                                                *)
NamesPlainHosts ==
    \A x \in Starting : "hosts" \in seen[x] /\ ("no groups" \in seen[x] \/ x \in blind)

(* A role begins with no grants and no agents, although it may have the id   *)
(* of one that was deleted.  Left out: a row that was written after its role *)
(* was deleted, by a thread that had found the role before.                  *)
NewRolesAreEmpty ==
    [][(~role /\ role' /\ ~crossed) => (Present' = {} /\ ~agent'.hasRole)]_vars

-----------------------------------------------------------------------------
(* The invariant the proofs of PlaybookCallsProofs carry from step to step. *)

(* How far a call has come, and what it has seen by then; "got" is as good   *)
(* as the inventory it was listed from.                                      *)
PastGroups == {"checked", "starting"}
PastHosts == {"groups"} \cup PastGroups
PastGrants == {"hosts"} \cup PastHosts
PastSwitch == {"switched on"} \cup PastGrants

Stage(x) ==
    thread[x] # Idle =>
        /\ thread[x].pc # "approved" =>
              "enabled" \in seen[x] /\ (thread[x].hasRole => "has role" \in seen[x])
        /\ thread[x].pc \in PastSwitch => "switched on" \in seen[x]
        /\ thread[x].pc \in PastGrants => thread[x].hasRole /\ "granted" \in seen[x]
        /\ thread[x].pc \in PastHosts => "hosts" \in seen[x]
        /\ thread[x].pc \in PastGroups => "no groups" \in seen[x] \/ x \in blind
        /\ thread[x].pc = "starting" => thread[x].request # None \/ "free" \in seen[x]
        /\ thread[x].got # None =>
              \/ /\ thread[x].pc = "hosts"
                 /\ thread[x].want.hosts \subseteq thread[x].got.hosts => "hosts" \in seen[x]
              \/ /\ thread[x].pc = "groups"
                 /\ thread[x].got # Unreadable /\ thread[x].want.hosts \cap thread[x].got.groups = {} =>
                       "no groups" \in seen[x]

StageInv == \A x \in Calls : Stage(x)

(* A role that is gone left nothing behind. *)
GoneInv == ~role /\ ~crossed => Present = {} /\ ~agent.hasRole

IInv == TypeOK /\ StageInv /\ GoneInv
=============================================================================
