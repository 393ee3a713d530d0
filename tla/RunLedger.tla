------------------------------ MODULE RunLedger ------------------------------
(***************************************************************************)
(* What ulmo promises about the history of playbook runs, with nothing of  *)
(* how it keeps the promise: a row is entered once, as running; it is      *)
(* settled once, and keeps that status for ever; and no run that an agent  *)
(* asked for is entered while another agent's run of the same playbook is  *)
(* going on any of its hosts.  PlaybookRuns implements this.               *)
(***************************************************************************)

CONSTANTS
    RunIds,     \* the ids a run can get
    Agents,     \* who may ask for a run over the API
    Staff,      \* everybody else: a signed-in user, or the scheduler
    Playbooks,
    Hosts,
    NoRun       \* stands in the ledger where no run has that id yet

VARIABLE ledger \* the RunHistory table: a row or NoRun for each id

Settled == {"success", "failed", "timeout", "cancelled"}

Rows == [playbook : Playbooks, limit : SUBSET Hosts,
         by : Agents \cup {Staff}, status : {"running"} \cup Settled]

Running == {r \in RunIds : ledger[r] # NoRun /\ ledger[r].status = "running"}

(* The empty limit is a run with no --limit: it covers every host. *)
Overlap(l1, l2) == l1 = {} \/ l2 = {} \/ l1 \cap l2 # {}

(* The agents' runs of playbook p that are going on some host of limit l. *)
AgentConflicts(p, l) ==
    {r \in Running : /\ ledger[r].by \in Agents
                     /\ ledger[r].playbook = p
                     /\ Overlap(ledger[r].limit, l)}

Init == ledger = [r \in RunIds |-> NoRun]

Enter(r, row) ==
    /\ ledger[r] = NoRun
    /\ row.status = "running"
    /\ row.by \in Agents => AgentConflicts(row.playbook, row.limit) = {}
    /\ ledger' = [ledger EXCEPT ![r] = row]

(* One run settles, or, when a dead server comes back, all that were left. *)
Settle(S) ==
    /\ S \subseteq Running
    /\ \E s \in [S -> Settled] :
         ledger' = [r \in RunIds |-> IF r \in S
                                     THEN [ledger[r] EXCEPT !.status = s[r]]
                                     ELSE ledger[r]]

Next ==
    \/ \E S \in SUBSET RunIds : Settle(S)
    \/ \E r \in RunIds : ledger[r] = NoRun /\ \E row \in Rows : Enter(r, row)

Spec == Init /\ [][Next]_ledger
=============================================================================
