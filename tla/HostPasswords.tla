------------------------------ MODULE HostPasswords ------------------------------
(***************************************************************************)
(* HostPasswords: a command host is an entry of the library file, and the  *)
(* password it signs in with a row of the database (save_host and          *)
(* delete_host of app/routers/command_admin.py, app/services/              *)
(* host_secrets.py, ssh_env of app/services/commands.py).                  *)
(*                                                                         *)
(* The two are written one after the other, by several admins at once; the *)
(* process may die in between; saved copies of the file are restored, and  *)
(* the file is edited by hand, without the database.  A command reads the  *)
(* host when it is called and the password when it starts.  The rest of    *)
(* the file, and what a command is, are in CommandLibrary and CommandRuns. *)
(***************************************************************************)
EXTENDS Naturals

CONSTANTS
    Names,          \* names of hosts
    Addresses,
    Passwords,
    Admins,         \* threads that serve signed-in users
    Runs,           \* commands, or the test of a connection
    MaxSaves,       \* bound on the changes of the library
    None            \* no host, no password, or a blank field

ASSUME NoneIsNothing == None \notin Passwords
ASSUME SavesAreCounted == MaxSaves \in Nat

VARIABLES
    library,        \* the hosts of commands.yml
    stored,         \* HostPassword
    admin,          \* the admins' threads
    run,            \* the commands
    saves,          \* changes of the library so far
    paired,         \* auxiliary: what admins last entered for the host that is there
    crossed,        \* auxiliary: admins another one got in the way of, at one host
    disturbed       \* auxiliary: hosts a save of which was crossed or cut, or which
                    \* came or went without the form

vars == <<library, stored, admin, run, saves, paired, crossed, disturbed>>

-----------------------------------------------------------------------------
Host == [address : Addresses, auth : {"key", "password"}]
ASSUME NoneIsNoHost == None \notin Host
Typed == Passwords \cup {None}
ASSUME NoneIsNoPair == None \notin Addresses \X Typed

Idle == [pc |-> "idle"]

(* The page has the library's version; the form has passed its checks; its   *)
(* host is written, or deleted, and the password is not.                     *)
AdminStates ==
    {Idle}
    \cup [pc : {"form"}, name : Names, base : [Names -> Host \cup {None}]]
    \cup [pc : {"checked"}, name : Names, base : [Names -> Host \cup {None}], host : Host, typed : Typed]
    \cup [pc : {"written"}, name : Names, host : Host, typed : Typed]
    \cup [pc : {"deleted"}, name : Names]

RunStates ==
    {Idle}
    \cup [pc : {"called"}, name : Names, host : Host]
    \cup [pc : {"signing in"}, name : Names, host : Host, password : Typed]

Init ==
    /\ library = [n \in Names |-> None]
    /\ stored = [n \in Names |-> None]
    /\ admin = [d \in Admins |-> Idle]
    /\ run = [r \in Runs |-> Idle]
    /\ saves = 0
    /\ paired = [n \in Names |-> None]
    /\ crossed = {} /\ disturbed = {}

-----------------------------------------------------------------------------
At(d, pcs, n) == admin[d] # Idle /\ admin[d].pc \in pcs /\ admin[d].name = n
HalfDone(n) == {d \in Admins : At(d, {"written", "deleted"}, n)}
Under(n) == {d \in Admins : At(d, {"checked", "written", "deleted"}, n)}

(* Whoever is at the same host is crossed by a write of it.                  *)
Crosses(d, n) == crossed' = crossed \cup (Under(n) \ {d})

Goes(d, next) == admin' = [admin EXCEPT ![d] = next]
Change == saves < MaxSaves /\ saves' = saves + 1

-----------------------------------------------------------------------------
(* save_host *)

OpenForm(d, n) ==
    /\ admin[d] = Idle
    /\ Goes(d, [pc |-> "form", name |-> n, base |-> library])
    /\ UNCHANGED <<library, stored, run, saves, paired, crossed, disturbed>>

(* A blank field keeps the password that is saved, if one is.                *)
MayStayBlank(d) == stored[admin[d].name] # None

Submit(d, host, typed) ==
    /\ admin[d] # Idle /\ admin[d].pc = "form"
    /\ admin[d].base[admin[d].name] = None => library[admin[d].name] = None
    /\ host.auth = "password" => typed # None \/ MayStayBlank(d)
    /\ Goes(d, [pc |-> "checked", name |-> admin[d].name, base |-> admin[d].base,
                host |-> host, typed |-> typed])
    /\ crossed' = IF HalfDone(admin[d].name) = {} THEN crossed \ {d} ELSE crossed \cup {d}
    /\ UNCHANGED <<library, stored, run, saves, paired, disturbed>>

(* command_library.save_host: not over a version the page has not seen ...   *)
WriteHost(d) ==
    /\ admin[d] # Idle /\ admin[d].pc = "checked"
    /\ library = admin[d].base
    /\ Change
    /\ library' = [library EXCEPT ![admin[d].name] = admin[d].host]
    /\ Goes(d, [pc |-> "written", name |-> admin[d].name, host |-> admin[d].host,
                typed |-> admin[d].typed])
    /\ Crosses(d, admin[d].name)
    /\ UNCHANGED <<stored, run, paired, disturbed>>

(* ... then the password: set, kept, or cleared for a host with a key.       *)
Secret(d) ==
    IF admin[d].host.auth = "key" THEN None
    ELSE IF admin[d].typed # None THEN admin[d].typed
    ELSE stored[admin[d].name]

(* What the admins meant by it: a kept password is the one entered last for  *)
(* this host, not for an earlier one of its name.                            *)
Meant(d) ==
    IF admin[d].host.auth = "key" THEN None
    ELSE IF admin[d].typed # None THEN admin[d].typed
    ELSE IF paired[admin[d].name] = None THEN None
    ELSE paired[admin[d].name][2]

(* A save undisturbed by another leaves the two in step, unless it keeps a   *)
(* password that was not.                                                    *)
Settles(d, n, renewed) ==
    disturbed' = IF d \in crossed THEN disturbed \cup {n}
                 ELSE IF renewed THEN disturbed \ {n}
                 ELSE disturbed

(* Mutant of SavePassword: a host that is given a key keeps its password.    *)
SavePassword_NeverClears(d) ==
    /\ admin[d] # Idle /\ admin[d].pc = "written"
    /\ LET n == admin[d].name
       IN  /\ stored' = [stored EXCEPT ![n] = IF admin[d].host.auth = "key" THEN @ ELSE Secret(d)]
           /\ paired' = [paired EXCEPT ![n] = <<admin[d].host.address, Meant(d)>>]
           /\ Settles(d, n, admin[d].host.auth = "key" \/ admin[d].typed # None)
           /\ Crosses(d, n)
    /\ Goes(d, Idle)
    /\ UNCHANGED <<library, run, saves>>

SavePassword(d) ==
    /\ admin[d] # Idle /\ admin[d].pc = "written"
    /\ LET n == admin[d].name
       IN  /\ stored' = [stored EXCEPT ![n] = Secret(d)]
           /\ paired' = [paired EXCEPT ![n] = <<admin[d].host.address, Meant(d)>>]
           /\ Settles(d, n, admin[d].host.auth = "key" \/ admin[d].typed # None)
           /\ Crosses(d, n)
    /\ Goes(d, Idle)
    /\ UNCHANGED <<library, run, saves>>

-----------------------------------------------------------------------------
(* delete_host: the entry, and then the password.                            *)

DeleteHost(d, n) ==
    /\ admin[d] = Idle /\ library[n] # None
    /\ Change
    /\ library' = [library EXCEPT ![n] = None]
    /\ Goes(d, [pc |-> "deleted", name |-> n])
    /\ crossed' = (crossed \ {d}) \cup Under(n) \cup (IF HalfDone(n) = {} THEN {} ELSE {d})
    /\ UNCHANGED <<stored, run, paired, disturbed>>

(* Mutant of ClearPassword: the password of a deleted host stays. *)
ClearPassword_Keeps(d) ==
    /\ admin[d] # Idle /\ admin[d].pc = "deleted"
    /\ LET n == admin[d].name
       IN  /\ paired' = [paired EXCEPT ![n] = None]
           /\ Settles(d, n, TRUE)
           /\ Crosses(d, n)
    /\ Goes(d, Idle)
    /\ UNCHANGED <<library, stored, run, saves>>

ClearPassword(d) ==
    /\ admin[d] # Idle /\ admin[d].pc = "deleted"
    /\ LET n == admin[d].name
       IN  /\ stored' = [stored EXCEPT ![n] = None]
           /\ paired' = [paired EXCEPT ![n] = None]
           /\ Settles(d, n, TRUE)
           /\ Crosses(d, n)
    /\ Goes(d, Idle)
    /\ UNCHANGED <<library, run, saves>>

(* The form is refused or left, or a write fails: what was written stays.    *)
GivesUp(d) ==
    /\ admin[d] # Idle
    /\ Goes(d, Idle)
    /\ disturbed' = IF admin[d].pc \in {"written", "deleted"}
                    THEN disturbed \cup {admin[d].name} ELSE disturbed
    /\ crossed' = crossed \ {d}
    /\ UNCHANGED <<library, stored, run, saves, paired>>

AdminMoves(d) ==
    \/ \E n \in Names : OpenForm(d, n) \/ DeleteHost(d, n)
    \/ \E host \in Host, typed \in Typed : Submit(d, host, typed)
    \/ WriteHost(d) \/ SavePassword(d) \/ ClearPassword(d) \/ GivesUp(d)

(* A saved copy is restored or uploaded, or the file is edited by hand.      *)
ChangeElsewhere(n, host) ==
    /\ Change /\ library[n] # host
    /\ library' = [library EXCEPT ![n] = host]
    /\ crossed' = crossed \cup Under(n)
    /\ disturbed' = disturbed \cup {n}
    /\ UNCHANGED <<stored, admin, run, paired>>

-----------------------------------------------------------------------------
(* A command *)

(* precheck_command has loaded the host ...                                  *)
Call(r, n) ==
    /\ run[r] = Idle /\ library[n] # None
    /\ run' = [run EXCEPT ![r] = [pc |-> "called", name |-> n, host |-> library[n]]]
    /\ UNCHANGED <<library, stored, admin, saves, paired, crossed, disturbed>>

(* ... and ssh_env reads the password of a host that signs in with one.      *)
HandedOver(r) == IF run[r].host.auth = "password" THEN stored[run[r].name] ELSE None

Start(r) ==
    /\ run[r] # Idle /\ run[r].pc = "called"
    /\ run[r].host.auth = "password" => stored[run[r].name] # None
    /\ run' = [run EXCEPT ![r] = [pc |-> "signing in", name |-> run[r].name, host |-> run[r].host,
                                  password |-> HandedOver(r)]]
    /\ UNCHANGED <<library, stored, admin, saves, paired, crossed, disturbed>>

(* It is refused, or ends. *)
Leave(r) ==
    /\ run[r] # Idle
    /\ run' = [run EXCEPT ![r] = Idle]
    /\ UNCHANGED <<library, stored, admin, saves, paired, crossed, disturbed>>

(* The process dies and is started again. *)
Crash ==
    /\ disturbed' = disturbed \cup {n \in Names : HalfDone(n) # {}}
    /\ admin' = [d \in Admins |-> Idle]
    /\ run' = [r \in Runs |-> Idle]
    /\ crossed' = {}
    /\ UNCHANGED <<library, stored, saves, paired>>

-----------------------------------------------------------------------------
Next ==
    \/ \E d \in Admins : AdminMoves(d)
    \/ \E n \in Names, host \in Host \cup {None} : ChangeElsewhere(n, host)
    \/ \E r \in Runs, n \in Names : Call(r, n)
    \/ \E r \in Runs : Start(r) \/ Leave(r)
    \/ Crash

Spec == Init /\ [][Next]_vars

-----------------------------------------------------------------------------
(* Types: rows and entries have what they say, threads carry what they read. *)
TypeOK ==
    /\ library \in [Names -> Host \cup {None}]
    /\ stored \in [Names -> Typed]
    /\ admin \in [Admins -> AdminStates]
    /\ run \in [Runs -> RunStates]
    /\ saves \in 0 .. MaxSaves
    /\ paired \in [Names -> (Addresses \X Typed) \cup {None}]
    /\ crossed \subseteq Admins
    /\ disturbed \subseteq Names

(* README.md:118-119: a password is kept for the hosts that sign in with one *)
(* and for no other, and every such host has one, as soon as whoever changes *)
(* it is done: switching a host to a key, or deleting it, removes it.  Left  *)
(* out: a host that two admins saved or deleted across each other, or whose  *)
(* save was cut off, or that came or went without the form, until it is next *)
(* deleted, or saved with a key or a password that is typed in.              *)
PasswordsFollowHosts ==
    \A n \in Names \ disturbed : HalfDone(n) = {} =>
        ((stored[n] # None) <=> (library[n] # None /\ library[n].auth = "password"))

(* The file still has this address for the name, and nobody is at work there. *)
StillThere(n, host) ==
    /\ n \notin disturbed /\ HalfDone(n) = {}
    /\ library[n] # None /\ library[n].address = host.address

(* A command is handed a password only for a host that signs in with one, and *)
(* then signs in at its address with the password that an admin saved, or    *)
(* kept, with it: never with that of an earlier host of the name.  Left out  *)
(* is a command whose host has another address by the time it starts, or is  *)
(* just being saved or deleted, or is disturbed as above: a password it is   *)
(* handed then may be another's.                                             *)
SignsInAsSaved ==
    [][\A r \in Runs :
          (run'[r] # run[r] /\ run'[r] # Idle /\ run'[r].pc = "signing in"
                                         /\ run'[r].password # None) =>
              /\ run'[r].host.auth = "password"
              /\ StillThere(run'[r].name, run'[r].host) =>
                    paired[run'[r].name] = <<run'[r].host.address, run'[r].password>>]_vars

-----------------------------------------------------------------------------
(* The invariant the proofs of LibraryAndPasswordsProofs carry from step to step. *)

(* An admin is alone at a host, which is as he left it; the password a blank *)
(* field keeps is still there.                                               *)
Alone(d, n) ==
    /\ At(d, {"checked"}, n) => HalfDone(n) = {}
    /\ At(d, {"written"}, n) => HalfDone(n) = {d} /\ library[n] = admin[d].host
    /\ At(d, {"deleted"}, n) => HalfDone(n) = {d} /\ library[n] = None
    /\ At(d, {"checked", "written"}, n) /\ admin[d].host.auth = "password" =>
          admin[d].typed # None \/ stored[n] # None

CrossInv == \A d \in Admins \ crossed, n \in Names : Alone(d, n)

(* The password that is saved is the one that was meant, and goes with the   *)
(* address that is in the file.                                              *)
PairInv ==
    \A n \in Names \ disturbed :
        /\ HalfDone(n) \cap crossed = {} /\ stored[n] # None =>
              paired[n] # None /\ paired[n][2] = stored[n]
        /\ HalfDone(n) = {} /\ library[n] # None =>
              paired[n] # None /\ paired[n][1] = library[n].address

IInv == TypeOK /\ CrossInv /\ PasswordsFollowHosts /\ PairInv
=============================================================================
