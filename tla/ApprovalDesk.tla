------------------------------ MODULE ApprovalDesk ------------------------------
(***************************************************************************)
(* What ulmo promises about requests for approval, with nothing of ids,    *)
(* locks or threads.  A request is entered once and waits; no agent has    *)
(* the same one waiting twice, nor more of them than the cap.  It is       *)
(* decided once, or expires, and never waits again.  Only for an approved  *)
(* one a run is started, one at most; its outcome is noted while it is in  *)
(* hand.  Requests may be forgotten at any time.  What is entered while    *)
(* one in hand has been forgotten may be mixed up with that: started, or   *)
(* given its outcome, in its place.  Approvals implements it.              *)
(***************************************************************************)
EXTENDS Naturals, FiniteSets

CONSTANTS
    Numbers,        \* the requests, in the order they are entered
    AgentIds,       \* who asks
    Asks,           \* what for
    Cap,            \* how many may wait for one agent
    NoRow           \* not entered yet, or forgotten

VARIABLES
    desk,           \* the requests
    entered,        \* how many there have been
    hand,           \* those approved whose start is under way
    runs,           \* how many runs were started for each
    mixed           \* those that may be taken for one in hand that is forgotten

Statuses == {"pending", "approved", "denied", "expired", "failed"}
Requests == [agent : AgentIds, ask : Asks, status : Statuses, run : BOOLEAN]

On == {n \in Numbers : desk[n] # NoRow}
Pending == {n \in On : desk[n].status = "pending"}
Waiting(agent) == {n \in Pending : desk[n].agent = agent}

Init == desk = [n \in Numbers |-> NoRow] /\ entered = 0 /\ hand = {}
        /\ runs = [n \in Numbers |-> 0] /\ mixed = {}

(* An approval is under way for a request that is no longer known. *)
Astray == hand \ On # {}

Enter(agent, ask) ==
    /\ entered + 1 \in Numbers
    /\ \A n \in Waiting(agent) : desk[n].ask # ask
    /\ Cardinality(Waiting(agent)) < Cap
    /\ entered' = entered + 1
    /\ desk' = [desk EXCEPT ![entered + 1] =
                  [agent |-> agent, ask |-> ask, status |-> "pending", run |-> FALSE]]
    /\ \/ UNCHANGED mixed
       \/ Astray /\ mixed' = mixed \cup {entered + 1}
    /\ UNCHANGED <<hand, runs>>

Approve(n) ==
    /\ n \in Pending
    /\ desk' = [desk EXCEPT ![n].status = "approved"]
    /\ hand' = hand \cup {n}
    /\ UNCHANGED <<entered, runs, mixed>>

Deny(n) ==
    /\ n \in Pending
    /\ desk' = [desk EXCEPT ![n].status = "denied"]
    /\ UNCHANGED <<entered, hand, runs, mixed>>

Expire(some) ==
    /\ some \subseteq Pending
    /\ desk' = [n \in Numbers |-> IF n \in some THEN [desk[n] EXCEPT !.status = "expired"] ELSE desk[n]]
    /\ UNCHANGED <<entered, hand, runs, mixed>>

Start(n) ==
    /\ \/ n \in hand /\ (runs[n] = 0 \/ n \in mixed)
       \/ n \in mixed /\ Astray
    /\ runs' = [runs EXCEPT ![n] = @ + 1]
    /\ UNCHANGED <<desk, entered, hand, mixed>>

(* What came of it is noted, if the request is still there.                  *)
Noted(n) == desk' \in {[desk EXCEPT ![n].run = TRUE], [desk EXCEPT ![n].status = "failed"]}
Note(n) ==
    /\ n \in hand /\ hand' = hand \ {n}
    /\ \/ n \in On /\ Noted(n) /\ (desk'[n].run => desk[n].run \/ runs[n] > 0)
       \/ n \notin On /\ (UNCHANGED desk \/ \E m \in mixed \cap On : Noted(m))
    /\ UNCHANGED <<entered, runs, mixed>>

(* It never is: the server dies, the note cannot be written, or the request  *)
(* is gone before it was started.                                            *)
LetGo(some) ==
    /\ some \subseteq hand /\ hand' = hand \ some
    /\ UNCHANGED <<desk, entered, runs, mixed>>

Forget(some) ==
    /\ some \subseteq On
    /\ desk' = [n \in Numbers |-> IF n \in some THEN NoRow ELSE desk[n]]
    /\ UNCHANGED <<entered, hand, runs, mixed>>

Next ==
    \/ \E some \in SUBSET Numbers : Expire(some) \/ LetGo(some) \/ Forget(some)
    \/ \E agent \in AgentIds, ask \in Asks : Enter(agent, ask)
    \/ \E n \in Numbers : Approve(n) \/ Deny(n) \/ Start(n) \/ Note(n)

vars == <<desk, entered, hand, runs, mixed>>
Spec == Init /\ [][Next]_vars
=============================================================================
