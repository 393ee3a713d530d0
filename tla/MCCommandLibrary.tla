--------------------------- MODULE MCCommandLibrary ---------------------------
(* Small instances of CommandLibrary for TLC. *)
EXTENDS CommandLibrary, TLC

(* Names, hosts, roles and threads are interchangeable. *)
Symmetry == Permutations(CommandNames) \cup Permutations(Hosts)
            \cup Permutations(Roles) \cup Permutations(Editors)
=============================================================================
