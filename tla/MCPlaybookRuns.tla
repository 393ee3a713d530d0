--------------------------- MODULE MCPlaybookRuns ---------------------------
(* Small instances of PlaybookRuns for TLC. *)
EXTENDS PlaybookRuns, TLC

(* Ids of runs, request threads, agents and hosts are interchangeable. *)
Symmetry == Permutations(RunIds) \cup Permutations(Requests)
            \cup Permutations(Agents) \cup Permutations(Hosts)
=============================================================================
