------------------------------ MODULE MCAdmission ------------------------------
(* Small instances of Admission for TLC. *)
EXTENDS Admission, TLC

(* The threads, and what they ask for, are interchangeable. *)
Symmetry == Permutations(Callers) \cup Permutations(Asks)
=============================================================================
