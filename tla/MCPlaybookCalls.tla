--------------------------- MODULE MCPlaybookCalls ---------------------------
(* A small instance of PlaybookCalls for TLC. *)
EXTENDS PlaybookCalls

CONSTANTS p, a, b

(* Two hosts; then one of them is gone and the other is also a group. *)
MCInventories == {[hosts |-> {a, b}, groups |-> {}], [hosts |-> {b}, groups |-> {b}]}

Row(hosts, asks) == [playbook |-> p, hosts |-> hosts, asks |-> asks]
MCStanding == {<<Row({a}, FALSE), Row({b}, TRUE)>>, <<Row({a, b}, TRUE), None>>}
=============================================================================
