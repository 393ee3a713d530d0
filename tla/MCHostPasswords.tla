---------------------------- MODULE MCHostPasswords ----------------------------
(* A small instance of HostPasswords for TLC. *)
EXTENDS HostPasswords, TLC

(* Admins, addresses and passwords are interchangeable. *)
Symmetry == Permutations(Admins) \cup Permutations(Addresses) \cup Permutations(Passwords)
=============================================================================
