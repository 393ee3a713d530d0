------------------------------ MODULE CommandCalls ------------------------------
(***************************************************************************)
(* CommandCalls: an agent calls a command of the library, at once or after *)
(* an admin's approval, while admins edit the command, the host, the role  *)
(* and the agent (start_command of app/routers/api.py, the command half of *)
(* app/services/agent_runs.py, check_command and the role commands of      *)
(* app/services/agents.py, Params).                                        *)
(*                                                                         *)
(* A call reads the agent, the role, the library (twice) and the role      *)
(* again, each in a step of its own; an approved call goes the same way    *)
(* once more.  There is one agent, one role it may have, and one host.     *)
(* How requests for approval are kept and decided is in Approvals, how     *)
(* runs are counted and end in CommandRuns, how the library file changes   *)
(* and renames in CommandLibrary; a change of the library is one step      *)
(* here.  The kill switch, the allowance and the caps may refuse a call.   *)
(***************************************************************************)
EXTENDS Params

CONSTANTS
    Commands,       \* names of commands: numbers, in alphabetical order
    Templates,      \* what the editor may submit for a command
    Givens,         \* parameters a call may carry
    Calls,          \* threads that serve the agent, or start what was approved
    Requests,       \* bound on the requests for approval: their ids
    Admins,         \* threads that serve signed-in users
    MaxEdits,       \* bound on the edits of the library and the agent
    NoRow           \* no such row, command, host or request

ASSUME TextsAreTyped ==
    /\ \A t \in Templates :
          /\ t.argv \in Seq(Seq(Symbols \cup Names))
          /\ \A p \in DOMAIN t.params : t.params[p].type = "int" =>
                t.params[p].min \in Int /\ t.params[p].max \in Int
    /\ \A given \in Givens : \A p \in DOMAIN given :
          /\ given[p].json = "string" => given[p].text \in Seq(Symbols)
          /\ given[p].json = "number" =>
                /\ given[p].number \in Int
                /\ given[p].number >= 0 => ~Dashed(Str(given[p].number))
ASSUME CommandsAreNumbered == Commands = 1 .. Cardinality(Commands) /\ IsFiniteSet(Commands)
ASSUME EditsAreCounted == MaxEdits \in Nat

VARIABLES
    template,       \* the library's commands
    offers,         \* the commands its host offers, NoRow without the host
    agent,          \* the agent's row: enabled, and whether it has the role
    entries,        \* RoleCommand: the rows of the role
    approval,       \* Approval
    call,           \* the agent's threads
    admin,          \* the admins' threads
    edits,          \* edits of the library and the agent so far
    seen,           \* auxiliary: what has been so at some moment of each call
    wanted,         \* auxiliary: the commands of the role admins said must wait for approval
    muddled,        \* auxiliary: those of them an outdated edit of the role took the mark from
    outdated        \* auxiliary: admins' threads whose rows changed since they read them

vars == <<template, offers, agent, entries, approval, call, admin, edits, seen, wanted, muddled,
          outdated>>

-----------------------------------------------------------------------------
Ids == Commands     \* a row gets the id after the largest in use
Rows == [command : Commands, asks : BOOLEAN]
Accepted == {t \in Templates : Accepts(t)}
Defined == {c \in Commands : template[c] # NoRow}
Offered == IF offers = NoRow THEN {} ELSE offers

Present == {i \in Ids : entries[i] # NoRow}
Held == {entries[i].command : i \in Present}
Needing == {entries[i].command : i \in {j \in Present : entries[j].asks}}

Line(t, given) == BuildArgv(t, Values(given))
Lines == {Line(t, given) : t \in Accepted, given \in Givens}
Asked == [command : Commands, given : Givens, line : Lines]
Approvals == [asked : Asked, status : {"pending", "approved"}]
ASSUME NoRowStandsApart == NoRow \notin Templates \cup Requests \cup Rows \cup Approvals

(* A call as it goes through precheck_command; "request" is the approval it *)
(* comes from, NoRow for a direct one.                                      *)
Idle == [pc |-> "idle"]
CallStates ==
    [pc : {"idle"}]
    \cup [pc : {"approved", "called", "held", "offered"}, command : Commands, given : Givens,
          request : Requests \cup {NoRow}, hasRole : BOOLEAN]
    \cup [pc : {"valid", "starting"}, command : Commands, given : Givens,
          request : Requests \cup {NoRow}, hasRole : BOOLEAN, template : Accepted]

AdminStates ==
    [pc : {"idle"}]
    \cup [pc : {"replacing"}, names : SUBSET Commands, asking : SUBSET Commands]
    \cup [pc : {"marking"}, names : SUBSET Commands, rows : [Ids -> Rows \cup {NoRow}]]

Init ==
    /\ template = [c \in Commands |-> NoRow]
    /\ offers = NoRow
    /\ agent = [enabled |-> TRUE, hasRole |-> TRUE]     \* created with the role
    /\ entries = [i \in Ids |-> NoRow]
    /\ approval = [r \in Requests |-> NoRow]
    /\ call = [x \in Calls |-> Idle]
    /\ admin = [d \in Admins |-> Idle]
    /\ edits = 0
    /\ seen = [x \in Calls |-> {}]
    /\ wanted = {} /\ muddled = {}
    /\ outdated = {}

-----------------------------------------------------------------------------
(* What may be so at some moment while a call is served: what it needs to    *)
(* start something, and what may let it start without an approval.  A       *)
(* command need not wait if the role holds it and admins said so last.      *)
Allowances == {"enabled", "has role", "role holds it", "host offers it"}
Conditions == Allowances \cup {"need not wait", "left the role", "mark lost"}
Now(x) ==
    LET command == call'[x].command
    IN  {condition \in Conditions :
            CASE condition = "enabled" -> agent'.enabled
              [] condition = "has role" -> agent'.hasRole
              [] condition = "role holds it" -> command \in Held'
              [] condition = "host offers it" -> command \in Offered'
              [] condition = "need not wait" -> command \in Held' \ wanted'
              [] condition = "left the role" -> "role holds it" \in seen[x] /\ command \notin Held'
              [] condition = "mark lost" -> command \in muddled'}

Observe ==
    seen' = [x \in Calls |-> IF call'[x] = Idle THEN {} ELSE seen[x] \cup Now(x)]

CallStep(x, next) ==
    /\ call' = [call EXCEPT ![x] = next]
    /\ UNCHANGED <<template, offers, agent, entries, admin, edits, wanted, muddled, outdated>>

-----------------------------------------------------------------------------
(* A call *)

(* The token is an enabled agent's; its row is not read again. *)
Authenticate(x, c, given) ==
    /\ call[x] = Idle /\ agent.enabled
    /\ CallStep(x, [pc |-> "called", command |-> c, given |-> given,
                    request |-> NoRow, hasRole |-> agent.hasRole])
    /\ UNCHANGED approval

(* decide: an admin approves a request; start_approved goes on with its row. *)
Approve(x, r) ==
    /\ call[x] = Idle
    /\ approval[r] # NoRow /\ approval[r].status = "pending"
    /\ approval' = [approval EXCEPT ![r].status = "approved"]
    /\ CallStep(x, [pc |-> "approved", command |-> approval[r].asked.command,
                    given |-> approval[r].asked.given, request |-> r, hasRole |-> FALSE])

(* Mutant of ReadAgent: an approved call is not checked again. *)
ReadAgent_Unchecked(x) ==
    /\ call[x].pc = "approved" /\ template[call[x].command] # NoRow
    /\ ValidParams(template[call[x].command], call[x].given)
    /\ CallStep(x, [pc |-> "valid", command |-> call[x].command, given |-> call[x].given,
                    request |-> call[x].request, hasRole |-> TRUE,
                    template |-> template[call[x].command]])
    /\ UNCHANGED approval

ReadAgent(x) ==
    /\ call[x].pc = "approved" /\ agent.enabled
    /\ CallStep(x, [call[x] EXCEPT !.pc = "called", !.hasRole = agent.hasRole])
    /\ UNCHANGED approval

(* check_command reads the role, and then the library. *)
RoleHolds(x) ==
    /\ call[x].pc = "called"
    /\ call[x].hasRole /\ call[x].command \in Held
    /\ CallStep(x, [call[x] EXCEPT !.pc = "held"])
    /\ UNCHANGED approval

HostOffers(x) ==
    /\ call[x].pc = "held"
    /\ call[x].command \in Defined \cap Offered
    /\ CallStep(x, [call[x] EXCEPT !.pc = "offered"])
    /\ UNCHANGED approval

(* The library may have changed since. *)
Validate(x) ==
    /\ call[x].pc = "offered"
    /\ offers # NoRow /\ call[x].command \in Defined
    /\ ValidParams(template[call[x].command], call[x].given)
    /\ CallStep(x, [pc |-> "valid", command |-> call[x].command, given |-> call[x].given,
                    request |-> call[x].request, hasRole |-> call[x].hasRole,
                    template |-> template[call[x].command]])
    /\ UNCHANGED approval

(* The role says the command waits for an admin: the request is recorded,    *)
(* or the same one already waiting is returned.                             *)
Ask(x) ==
    /\ call[x].pc = "valid" /\ call[x].request = NoRow
    /\ call[x].command \in Needing
    /\ LET asked == [command |-> call[x].command, given |-> call[x].given,
                     line |-> Line(call[x].template, call[x].given)]
           Same(r) == /\ approval[r] # NoRow /\ approval[r].status = "pending"
                      /\ approval[r].asked.command = asked.command
                      /\ approval[r].asked.given = asked.given
       IN  \/ (\E r \in Requests : Same(r)) /\ UNCHANGED approval
           \/ /\ ~\E r \in Requests : Same(r)
              /\ \E r \in Requests :
                    /\ approval[r] = NoRow
                    /\ approval' = [approval EXCEPT ![r] = [asked |-> asked, status |-> "pending"]]
    /\ CallStep(x, Idle)

(* The role says it need not wait. *)
GoOn(x) ==
    /\ call[x].pc = "valid" /\ call[x].request = NoRow
    /\ call[x].command \notin Needing
    /\ CallStep(x, [call[x] EXCEPT !.pc = "starting"])
    /\ UNCHANGED approval

(* Mutant of Compare: what was approved is started as it is now. *)
Compare_NotShown(x) ==
    /\ call[x].pc = "valid" /\ call[x].request # NoRow
    /\ CallStep(x, [call[x] EXCEPT !.pc = "starting"])
    /\ UNCHANGED approval

(* An approved call starts only what the request showed. *)
Compare(x) ==
    /\ call[x].pc = "valid" /\ call[x].request # NoRow
    /\ Line(call[x].template, call[x].given) = approval[call[x].request].asked.line
    /\ CallStep(x, [call[x] EXCEPT !.pc = "starting"])
    /\ UNCHANGED approval

(* commands.start; a request that was approved is closed. *)
Finish(x) == IF call[x].pc # "idle" /\ call[x].request # NoRow
             THEN approval' = [approval EXCEPT ![call[x].request] = NoRow]
             ELSE UNCHANGED approval

Launch(x) == call[x].pc = "starting" /\ Finish(x) /\ CallStep(x, Idle)

(* A check fails, the switch is off, or a cap or the allowance is reached. *)
Refuse(x) == call[x] # Idle /\ Finish(x) /\ CallStep(x, Idle)

(* A request is denied or expires. *)
Drop(r) == /\ approval[r] # NoRow /\ approval[r].status = "pending"
           /\ approval' = [approval EXCEPT ![r] = NoRow]
           /\ UNCHANGED <<template, offers, agent, entries, call, admin, edits, wanted, muddled, outdated>>

CallMoves(x) ==
    \/ \E c \in Commands, given \in Givens : Authenticate(x, c, given)
    \/ \E r \in Requests : Approve(x, r)
    \/ ReadAgent(x) \/ RoleHolds(x) \/ HostOffers(x) \/ Validate(x)
    \/ Ask(x) \/ GoOn(x) \/ Compare(x) \/ Launch(x) \/ Refuse(x)

-----------------------------------------------------------------------------
(* Edits of the library and the agent *)

Edit == /\ edits < MaxEdits /\ edits' = edits + 1
        /\ UNCHANGED <<approval, call, admin>>

Editing == {d \in Admins : admin[d] # Idle}

SaveCommand(c, t) ==
    /\ Edit /\ Accepts(t)
    /\ template' = [template EXCEPT ![c] = t]
    /\ UNCHANGED <<offers, agent, entries, wanted, muddled, outdated>>

(* Mutant of DeleteCommand: the host goes on offering it. *)
DeleteCommand_Offered(c) ==
    /\ Edit /\ c \in Defined
    /\ template' = [template EXCEPT ![c] = NoRow]
    /\ entries' = [i \in Ids |-> IF i \in Present /\ entries[i].command = c THEN NoRow ELSE entries[i]]
    /\ wanted' = wanted \ {c} /\ muddled' = muddled \ {c}
    /\ outdated' = Editing
    /\ UNCHANGED <<offers, agent>>

(* delete_command: no host may offer it still; the role loses it. *)
DeleteCommand(c) ==
    /\ Edit /\ c \in Defined
    /\ c \notin Offered
    /\ template' = [template EXCEPT ![c] = NoRow]
    /\ entries' = [i \in Ids |-> IF i \in Present /\ entries[i].command = c THEN NoRow ELSE entries[i]]
    /\ wanted' = wanted \ {c} /\ muddled' = muddled \ {c}
    /\ outdated' = Editing
    /\ UNCHANGED <<offers, agent>>

SaveHost(names) ==
    /\ Edit /\ names \subseteq Defined
    /\ offers' = names
    /\ UNCHANGED <<template, agent, entries, wanted, muddled, outdated>>

DeleteHost ==
    /\ Edit /\ offers # NoRow
    /\ offers' = NoRow
    /\ UNCHANGED <<template, agent, entries, wanted, muddled, outdated>>

ToggleEnabled ==
    /\ Edit
    /\ agent' = [agent EXCEPT !.enabled = ~@]
    /\ UNCHANGED <<template, offers, entries, wanted, muddled, outdated>>

AssignRole ==
    /\ Edit
    /\ agent' = [agent EXCEPT !.hasRole = ~@]
    /\ UNCHANGED <<template, offers, entries, wanted, muddled, outdated>>

-----------------------------------------------------------------------------
(* Edits of the role: rows are read in one step and written in another.      *)

AdminStep(d, next) ==
    /\ admin' = [admin EXCEPT ![d] = next]
    /\ UNCHANGED <<template, offers, agent, approval, call, edits>>

(* The rows are written: other threads hold what they were.  A thread whose  *)
(* own rows were outdated may take away marks that were to stay.            *)
Written(d, marks) ==
    /\ wanted' = marks
    /\ muddled' = (IF d \in outdated THEN marks ELSE muddled \cap marks) \ Needing'
    /\ outdated' = Editing \ {d}

(* set_role_commands reads which commands need approval ... *)
ReadMarks(d, names) ==
    /\ admin[d] = Idle /\ names \subseteq Defined
    /\ AdminStep(d, [pc |-> "replacing", names |-> names, asking |-> Needing])
    /\ UNCHANGED <<entries, wanted, muddled, outdated>>

(* ... and replaces the rows.  Ids begin anew: the old rows are gone first.  *)
RowsFor(names, asking) ==
    [i \in Ids |-> IF \E c \in names : Cardinality({n \in names : n <= c}) = i
                   THEN LET c == CHOOSE c \in names : Cardinality({n \in names : n <= c}) = i
                        IN  [command |-> c, asks |-> c \in asking]
                   ELSE NoRow]

(* Mutant of ReplaceRows: saving the list drops "needs approval". *)
ReplaceRows_Unmarked(d) ==
    /\ admin[d].pc = "replacing"
    /\ entries' = RowsFor(admin[d].names, {})
    /\ Written(d, wanted \cap admin[d].names)
    /\ AdminStep(d, Idle)

ReplaceRows(d) ==
    /\ admin[d].pc = "replacing"
    /\ entries' = RowsFor(admin[d].names, admin[d].asking)
    /\ Written(d, wanted \cap admin[d].names)
    /\ AdminStep(d, Idle)

(* set_commands_needing_approval reads the rows ... *)
ReadRows(d, names) ==
    /\ admin[d] = Idle /\ names \subseteq Held
    /\ AdminStep(d, [pc |-> "marking", names |-> names, rows |-> entries])
    /\ UNCHANGED <<entries, wanted, muddled, outdated>>

(* ... and writes those that change, by their ids: a row that is gone fails  *)
(* the whole of it, and one that was replaced is taken for the one it read.  *)
Changes(d) == {i \in Ids : /\ admin[d].rows[i] # NoRow
                           /\ admin[d].rows[i].asks # (admin[d].rows[i].command \in admin[d].names)}

MarkRows(d) ==
    /\ admin[d].pc = "marking"
    /\ Changes(d) \subseteq Present
    /\ entries' = [i \in Ids |-> IF i \in Changes(d)
                                 THEN [entries[i] EXCEPT !.asks = ~admin[d].rows[i].asks]
                                 ELSE entries[i]]
    /\ Written(d, admin[d].names \cap Held')
    /\ AdminStep(d, Idle)

(* A row that is gone, or a write that fails. *)
EditFails(d) ==
    /\ admin[d] # Idle
    /\ AdminStep(d, Idle)
    /\ outdated' = outdated \ {d}
    /\ UNCHANGED <<entries, wanted, muddled>>

RoleMoves(d) ==
    \/ \E names \in SUBSET Commands : ReadMarks(d, names) \/ ReadRows(d, names)
    \/ ReplaceRows(d) \/ MarkRows(d) \/ EditFails(d)

-----------------------------------------------------------------------------
Step ==
    \/ \E x \in Calls : CallMoves(x)
    \/ \E r \in Requests : Drop(r)
    \/ \E c \in Commands, t \in Templates : SaveCommand(c, t)
    \/ \E c \in Commands : DeleteCommand(c)
    \/ \E names \in SUBSET Commands : SaveHost(names)
    \/ DeleteHost \/ ToggleEnabled \/ AssignRole
    \/ \E d \in Admins : RoleMoves(d)

Next == Step /\ Observe

Spec == Init /\ [][Next]_vars

-----------------------------------------------------------------------------
(* Types: rows have what their columns say, and threads carry what they read. *)
TypeOK ==
    /\ template \in [Commands -> Accepted \cup {NoRow}]
    /\ Offered \subseteq Defined
    /\ agent \in [enabled : BOOLEAN, hasRole : BOOLEAN]
    /\ entries \in [Ids -> Rows \cup {NoRow}]
    /\ approval \in [Requests -> Approvals \cup {NoRow}]
    /\ call \in [Calls -> CallStates]
    /\ admin \in [Admins -> AdminStates]
    /\ edits \in 0 .. MaxEdits
    /\ seen \in [Calls -> SUBSET Conditions]
    /\ wanted \subseteq Commands /\ muddled \subseteq wanted
    /\ outdated \subseteq Editing

Starting == {x \in Calls : call[x].pc = "starting"}

(* Whatever is started, directly or after an approval, was within what its  *)
(* agent may do while it was being served, or since it was approved: the    *)
(* agent enabled and in the role, the command in the role, the host         *)
(* offering it, each at some moment (agent_runs repeats every check).       *)
StartsOnlyWhatWasAllowed ==
    \A x \in Starting : Allowances \subseteq seen[x]

(* A command starts without an approval only if, while its call was served, *)
(* it need not wait: the role held it and admins had last said so, or not    *)
(* yet said anything.  Saving the list of commands again drops no mark.     *)
(* There are two ways round it: the role lost the command after the call    *)
(* was checked against it, for the mark is looked up last and goes with the *)
(* row (api.py:239, agents.py:263); and an edit of the role that wrote from  *)
(* rows another had changed since took the mark away.                       *)
MarkedWaits ==
    \A x \in Starting : call[x].request = NoRow =>
        {"need not wait", "left the role", "mark lost"} \cap seen[x] # {}

(* An approved command starts with the line its request showed, made from   *)
(* the values the agent sent and valid for the command as it is now.        *)
StartsAsShown ==
    \A x \in Starting : call[x].request # NoRow =>
        LET asked == approval[call[x].request].asked
        IN  /\ asked.command = call[x].command
            /\ Line(call[x].template, asked.given) = asked.line
            /\ ValidParams(call[x].template, asked.given)

(* In what is started every value given is whole and within one element; an *)
(* element begins with "-" only if the template or a value its parameter    *)
(* may have so makes it; and what is dropped is the element of one optional  *)
(* parameter that was left out, never the lone value of a flag              *)
(* (command_library.py, parse_command, validate_params and build_argv).     *)
ValuesKeepTheirPlace ==
    \A x \in Starting : InPlace(call[x].template, Values(call[x].given))

-----------------------------------------------------------------------------
(* The invariant the proofs of CallsAndLogProofs carry from step to step. *)

(* How far a call has come, and what it has seen by then. *)
PastLibrary == {"valid", "starting"}
PastHost == {"offered"} \cup PastLibrary
PastRole == {"held"} \cup PastHost
Stage(x) ==
    call[x].pc # "idle" =>
        /\ call[x].pc # "approved" =>
              "enabled" \in seen[x] /\ (call[x].hasRole => "has role" \in seen[x])
        /\ call[x].pc \in PastRole => call[x].hasRole /\ "role holds it" \in seen[x]
        /\ call[x].pc \in PastHost => "host offers it" \in seen[x]
        /\ call[x].pc \in PastLibrary => ValidParams(call[x].template, call[x].given)
        /\ call[x].pc = "starting" /\ call[x].request = NoRow =>
              {"need not wait", "left the role", "mark lost"} \cap seen[x] # {}
StageInv == \A x \in Calls : Stage(x)

(* An approved request is one call's, and stays as it was approved. *)
Serves(x, r) == call[x].pc # "idle" /\ call[x].request = r
ServedWell(x, r) ==
    /\ approval[r] # NoRow /\ approval[r].status = "approved"
    /\ approval[r].asked.command = call[x].command /\ approval[r].asked.given = call[x].given
    /\ call[x].pc = "starting" => Line(call[x].template, call[x].given) = approval[r].asked.line
    /\ \A y \in Calls : Serves(y, r) => x = y
RequestInv == \A r \in Requests, x \in Calls : Serves(x, r) => ServedWell(x, r)

(* What must wait is marked, unless an outdated edit took the mark away, and *)
(* an edit that is not outdated knows of it.                                *)
MarkInv ==
    /\ wanted \ muddled \subseteq Needing
    /\ \A d \in Admins :
          /\ admin[d].pc = "replacing" /\ d \notin outdated =>
                wanted \ muddled \subseteq admin[d].asking
          /\ admin[d].pc = "marking" =>
                /\ \A c \in admin[d].names : \E i \in Ids : admin[d].rows[i] # NoRow
                                                          /\ admin[d].rows[i].command = c
                /\ d \notin outdated => admin[d].rows = entries

IInv == TypeOK /\ StageInv /\ RequestInv /\ MarkInv
=============================================================================
