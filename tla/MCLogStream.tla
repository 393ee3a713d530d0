----------------------------- MODULE MCLogStream -----------------------------
(* A small log for TLC: characters of one, two and two bytes. *)
EXTENDS LogStream

MCBytes == <<1, 2, 2, 3, 3>>
=============================================================================
