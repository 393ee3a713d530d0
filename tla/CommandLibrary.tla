---------------------------- MODULE CommandLibrary ----------------------------
(***************************************************************************)
(* CommandLibrary: app/services/command_library.py, the edits of           *)
(* app/routers/command_admin.py and the role entries of                    *)
(* app/services/agents.py that follow the library.                         *)
(*                                                                         *)
(* The library is one file.  Threads that serve admins change it in steps  *)
(* under one lock (check the version, move the role entries, keep a copy,  *)
(* swap the file, load it); it is also edited by hand, and the process may *)
(* die between two steps.  The role entries are rows of the database and   *)
(* change in transactions of their own.                                    *)
(*                                                                         *)
(* The text of a command is the number of the write that made it; a        *)
(* version (a hash of the file) is the content itself.  A host that is not *)
(* in the file is one that offers nothing.  What a command says is         *)
(* checked before all this: here only what is valid is submitted.          *)
(***************************************************************************)
EXTENDS Naturals, Sequences

CONSTANTS
    CommandNames,          \* names of commands
    Hosts,          \* hosts that may offer them
    Roles,          \* roles that may hold them
    Editors,         \* threads that serve signed-in users
    MaxWrites,      \* bound on the writes of the file
    Keep,           \* command_history_keep
    Nobody          \* the lock is free

ASSUME WritesAreCounted == MaxWrites \in Nat \ {0}     \* one may come before the first start
ASSUME SomeCopyIsKept == Keep \in Nat \ {0}     \* max(1, ...)
ASSUME NobodyIsNoAdmin == Nobody \notin Editors

VARIABLES
    file,           \* commands.yml
    stamp,          \* what stat says of it: the number of its last write, 0 if there is none
    memory,         \* _state: the fingerprint of the last load and the library in service
    copies,         \* HISTORY_DIR, oldest first
    entries,        \* RoleCommand: the commands each role holds
    lock,           \* _lock
    editor,         \* the admins' threads and forms
    line,           \* auxiliary: which command each name of the file stands for
    seen,           \* auxiliary: the same, as of the last load that parsed
    given,          \* auxiliary: the commands an admin gave each role
    spoiled         \* auxiliary: an edit was cut short or crossed by another

libraryVars == <<file, stamp, memory, copies, entries, lock, editor, line, seen, given, spoiled>>

-----------------------------------------------------------------------------
Writes == 0 .. MaxWrites
Contents == [text : [CommandNames -> Writes], offers : [Hosts -> SUBSET CommandNames],
             readable : BOOLEAN]
Blank == [text |-> [n \in CommandNames |-> 0], offers |-> [h \in Hosts |-> {}], readable |-> TRUE]
Has(content) == {n \in CommandNames : content.text[n] # 0}

(* validate: the file parses, and hosts offer only commands it has. *)
Valid(content) == content.readable /\ \A h \in Hosts : content.offers[h] \subseteq Has(content)

(* A command is <<name, number>>: the name it was made under and the write   *)
(* that made it; <<name, 0>> stands for none.                                *)
Commands == CommandNames \X Writes
Exists(command) == command[2] # 0

(* What a name put into the file stands for.  Only what a load has seen to   *)
(* be gone is gone: a name put back before that is the same command.         *)
LineOf(n) == IF Exists(line[n]) THEN line[n]
             ELSE IF Exists(seen[n]) THEN seen[n] ELSE <<n, stamp + 1>>

AtRest == [pc |-> "idle"]
Page == [pc |-> "page"]

(* What an admin fills in, with the version of the page it is filled in on.  *)
(* A delete button has no version.                                           *)
Forms == [kind : {"save"}, name : CommandNames, base : Contents]
         \cup [kind : {"rename"}, name : CommandNames, to : CommandNames, base : Contents]
         \cup [kind : {"new"}, to : CommandNames, base : Contents]
         \cup [kind : {"host"}, host : Hosts, set : SUBSET CommandNames, base : Contents]
         \cup [kind : {"restore"}, base : Contents]
         \cup [kind : {"delete"}, name : CommandNames]

(* An admin's thread, or page: nothing going; the Commands page; a form; a   *)
(* form whose name is not taken; an edit under the lock, up to the swap and  *)
(* after it; one that failed after it moved the entries; a role's commands,  *)
(* to be checked and checked.  A load that is going leads to `then`.         *)
Settled ==
    [pc : {"idle", "page"}]
    \cup [pc : {"form", "free"}, form : Forms]
    \cup [pc : {"valid", "moved", "copied", "swapped"}, form : Forms, new : Contents]
    \cup [pc : {"undo"}, form : Forms]
    \cup [pc : {"grant"}, role : Roles, set : SUBSET CommandNames]
    \cup [pc : {"granted"}, role : Roles, set : SUBSET CommandNames, means : SUBSET Commands]
EditorStates == Settled \cup [pc : {"loading"}, print : Writes, then : Settled]

(* No file, or one written by hand before the first start; nothing loaded. *)
LibraryInit ==
    /\ \E first \in SUBSET CommandNames :
          /\ stamp = IF first = {} THEN 0 ELSE 1
          /\ file = [text |-> [n \in CommandNames |-> IF n \in first THEN 1 ELSE 0],
                     offers |-> [h \in Hosts |-> first], readable |-> TRUE]
          /\ line = [n \in CommandNames |-> <<n, file.text[n]>>]
    /\ memory = [print |-> 0, library |-> Blank]
    /\ copies = <<>>
    /\ entries = [r \in Roles |-> {}]
    /\ lock = Nobody
    /\ editor = [d \in Editors |-> AtRest]
    /\ seen = [n \in CommandNames |-> <<n, 0>>]
    /\ given = [r \in Roles |-> {}]
    /\ spoiled = FALSE

-----------------------------------------------------------------------------
Files == <<file, stamp, copies, line>>
Becomes(d, next) == editor' = [editor EXCEPT ![d] = next]
Undoing == \E d \in Editors : editor[d].pc = "undo"

-----------------------------------------------------------------------------
(* load(), called on the way to `then`.  It holds the lock, or is called by  *)
(* the edit that does.                                                       *)

(* stat says that nothing was written since the last load. *)
LoadCached(d, then) ==
    /\ lock \in {Nobody, d} /\ stamp = memory.print
    /\ lock' = Nobody /\ Becomes(d, then)
    /\ UNCHANGED <<Files, memory, entries, seen, given, spoiled>>

(* Something was: the text is read after the stat. *)
LoadStat(d, then) ==
    /\ lock \in {Nobody, d} /\ stamp # memory.print
    /\ lock' = d /\ Becomes(d, [pc |-> "loading", print |-> stamp, then |-> then])
    /\ UNCHANGED <<Files, memory, entries, seen, given, spoiled>>

Load(d, then) == LoadCached(d, then) \/ LoadStat(d, then)
Loaded == lock = Nobody /\ stamp = memory.print

(* Mutant of Purged: nothing is purged. *)
Purged_Nothing == entries

(* purge_missing_commands: the entries without a command go. *)
Purged == [r \in Roles |-> entries[r] \cap Has(file)]

(* Mutant of Serviced: a file that does not parse replaces the library. *)
Serviced_Anyway == file

(* Mutant of Serviced: the hosts of the last library stay. *)
Serviced_CommandsOnly == IF Valid(file) THEN [file EXCEPT !.offers = memory.library.offers]
                         ELSE memory.library

(* A file that does not parse leaves the last good library in service. *)
Serviced == IF Valid(file) THEN file ELSE memory.library

(* It also leaves every entry. *)
LoadText(d) ==
    /\ editor[d].pc = "loading"
    /\ memory' = [print |-> editor[d].print, library |-> Serviced]
    /\ entries' = IF Valid(file) THEN Purged ELSE entries
    /\ seen' = IF Valid(file) THEN line ELSE seen
    /\ spoiled' = (spoiled \/ Undoing)
    /\ lock' = Nobody /\ Becomes(d, editor[d].then)
    /\ UNCHANGED <<Files, given>>

-----------------------------------------------------------------------------
(* The pages. *)

(* GET /commands. *)
ListCommands(d) == editor[d].pc \in {"idle", "page"} /\ Load(d, Page)

(* The forms of the page, and of those it links to.  The editor reads the    *)
(* command from the file; the hosts and the buttons are those in service.    *)
Offered ==
    [kind : {"save"}, name : {n \in Has(file) : file.readable}, base : {file}]
    \cup {f \in [kind : {"rename"}, name : Has(file), to : CommandNames, base : {file}] :
             file.readable /\ f.to # f.name}
    \cup [kind : {"new"}, to : CommandNames, base : {file}]
    \cup [kind : {"host"}, host : Hosts, set : SUBSET Has(memory.library), base : {file}]
    \cup [kind : {"restore"}, base : {file}]
    \cup [kind : {"delete"}, name : Has(memory.library)]
FillIn(d, form) ==
    /\ editor[d].pc = "page" /\ stamp < MaxWrites
    /\ Becomes(d, [pc |-> "form", form |-> form])
    /\ UNCHANGED <<Files, memory, entries, lock, seen, given, spoiled>>

-----------------------------------------------------------------------------
(* An edit: _modify and _write. *)

(* A new command must have a name that is not in the library. *)
LoadNames(d) ==
    /\ editor[d].pc = "form" /\ editor[d].form.kind = "new"
    /\ LoadStat(d, editor[d])
CheckName(d) ==
    /\ editor[d].pc = "form" /\ editor[d].form.kind = "new" /\ Loaded
    /\ Becomes(d, IF editor[d].form.to \in Has(memory.library)
                  THEN [editor[d] EXCEPT !.form.base = file]
                  ELSE [editor[d] EXCEPT !.pc = "free"])
    /\ UNCHANGED <<Files, memory, entries, lock, seen, given, spoiled>>

(* It is submitted and reaches the lock. *)
Submitted(d) ==
    /\ \/ editor[d].pc = "form" /\ editor[d].form.kind # "new"
       \/ editor[d].pc = "free"
    /\ lock = Nobody /\ stamp < MaxWrites

(* Mutant of Stale: the version is compared with the library in service. *)
Stale_InMemory(form) == form.kind # "delete" /\ form.base # memory.library

Stale(form) == form.kind # "delete" /\ form.base # file

(* What the file would be; nothing where change() refuses. *)
Renamed(set, name, to) == IF name \in set THEN (set \ {name}) \cup {to} ELSE set
Outcomes(form) ==
    CASE form.kind = "save" -> {[file EXCEPT !.text[form.name] = stamp + 1]}
      [] form.kind = "new" -> {[file EXCEPT !.text[form.to] = stamp + 1]}
      [] form.kind = "rename" ->
           IF form.name \in Has(file) /\ form.to \notin Has(file)
           THEN {[file EXCEPT !.text = [@ EXCEPT ![form.name] = 0, ![form.to] = stamp + 1],
                              !.offers = [h \in Hosts |-> Renamed(@[h], form.name, form.to)]]}
           ELSE {}
      [] form.kind = "delete" ->
           {[file EXCEPT !.text[n] = 0] :
              n \in {form.name} \cap (Has(file) \ UNION {file.offers[h] : h \in Hosts})}
      [] form.kind = "host" -> {[file EXCEPT !.offers[form.host] = form.set]}
      [] form.kind = "restore" -> {copies[i] : i \in DOMAIN copies}
Accepted(form) ==
    {new \in Outcomes(form) : Valid(new) /\ (form.kind = "restore" \/ file.readable)}

Begin(d, new) ==
    /\ Submitted(d) /\ ~Stale(editor[d].form) /\ new \in Accepted(editor[d].form)
    /\ lock' = d
    /\ Becomes(d, [pc |-> "valid", form |-> editor[d].form, new |-> new])
    /\ spoiled' = (spoiled \/ Undoing)
    /\ UNCHANGED <<Files, memory, entries, seen, given>>

(* Refused: the editor comes back with what was filled in and with the       *)
(* version of now; the other forms start afresh.                             *)
Refuse(d) ==
    /\ Submitted(d)
    /\ Stale(editor[d].form) \/ Accepted(editor[d].form) = {}
    /\ IF editor[d].form.kind \in {"save", "rename", "new"}
       THEN Becomes(d, [pc |-> "form", form |-> [editor[d].form EXCEPT !.base = file]])
       ELSE Becomes(d, Page)
    /\ UNCHANGED <<Files, memory, entries, lock, seen, given, spoiled>>

(* before_write: the entries of a renamed command move. *)
Moved(from, to) == [r \in Roles |-> Renamed(entries[r], from, to)]
MoveRoles(d) ==
    /\ editor[d].pc = "valid" /\ editor[d].form.kind = "rename"
    /\ entries' = Moved(editor[d].form.name, editor[d].form.to)
    /\ spoiled' = (spoiled \/ \E r \in Roles : editor[d].form.to \in entries[r])
    /\ Becomes(d, [editor[d] EXCEPT !.pc = "moved"])
    /\ UNCHANGED <<Files, memory, lock, seen, given>>

(* The text that is replaced goes to the history, which is then pruned. *)
Newest(s) == SubSeq(s, IF Len(s) > Keep THEN Len(s) - Keep + 1 ELSE 1, Len(s))
KeepCopy(d) ==
    /\ \/ editor[d].pc = "valid" /\ editor[d].form.kind # "rename"
       \/ editor[d].pc = "moved"
    /\ copies' = IF stamp # 0 /\ file # editor[d].new THEN Newest(Append(copies, file)) ELSE copies
    /\ Becomes(d, [editor[d] EXCEPT !.pc = "copied"])
    /\ UNCHANGED <<file, stamp, line, memory, entries, lock, seen, given, spoiled>>

(* os.replace. *)
LinesOf(content) == [n \in CommandNames |-> IF n \in Has(content) THEN LineOf(n) ELSE <<n, 0>>]
Swap(d) ==
    /\ editor[d].pc = "copied"
    /\ file' = editor[d].new /\ stamp' = stamp + 1
    /\ LET form == editor[d].form
       IN IF form.kind = "rename"
          THEN /\ line' = [line EXCEPT ![form.to] = line[form.name], ![form.name] = <<form.name, 0>>]
               /\ seen' = [seen EXCEPT ![form.to] = line[form.name], ![form.name] = <<form.name, 0>>]
          ELSE line' = LinesOf(editor[d].new) /\ UNCHANGED seen
    /\ Becomes(d, [editor[d] EXCEPT !.pc = "swapped"])
    /\ UNCHANGED <<copies, memory, entries, lock, given, spoiled>>

(* The new file is loaded before the lock is free. *)
LoadNew(d) == editor[d].pc = "swapped" /\ Load(d, AtRest)

(* Keeping the copy or writing the file raises.  Entries that were moved are *)
(* moved back, without the lock.                                             *)
WriteFails(d) ==
    /\ editor[d].pc \in {"valid", "moved", "copied"}
    /\ editor[d].pc = "valid" => editor[d].form.kind # "rename"
    /\ lock' = Nobody
    /\ Becomes(d, IF editor[d].form.kind = "rename" THEN [pc |-> "undo", form |-> editor[d].form]
                  ELSE Page)
    /\ UNCHANGED <<Files, memory, entries, seen, given, spoiled>>
(* Mutant of UndoMove: the entries stay where they were moved. *)
UndoMove_Forgotten(d) ==
    /\ editor[d].pc = "undo"
    /\ Becomes(d, Page)
    /\ UNCHANGED <<Files, memory, entries, lock, seen, given, spoiled>>

UndoMove(d) ==
    /\ editor[d].pc = "undo"
    /\ entries' = Moved(editor[d].form.to, editor[d].form.name)
    /\ Becomes(d, Page)
    /\ UNCHANGED <<Files, memory, lock, seen, given, spoiled>>

-----------------------------------------------------------------------------
(* agents.set_role_commands: the names are checked, then the rows are        *)
(* replaced in one transaction, with no lock in between.                     *)

ChooseCommands(d, r, set) ==
    /\ editor[d].pc = "page" /\ set \subseteq Has(memory.library)
    /\ Becomes(d, [pc |-> "grant", role |-> r, set |-> set])
    /\ UNCHANGED <<Files, memory, entries, lock, seen, given, spoiled>>

LoadKnown(d) == editor[d].pc = "grant" /\ LoadStat(d, editor[d])

CheckKnown(d) ==
    /\ editor[d].pc = "grant" /\ Loaded
    /\ Becomes(d, IF editor[d].set \subseteq Has(memory.library)
                  THEN [pc |-> "granted", role |-> editor[d].role, set |-> editor[d].set,
                        means |-> {seen[n] : n \in editor[d].set}]
                  ELSE Page)
    /\ UNCHANGED <<Files, memory, entries, lock, seen, given, spoiled>>

(* A rename is between its two halves. *)
Renaming == \E d \in Editors : /\ editor[d].pc \in {"moved", "copied", "swapped"}
                               /\ editor[d].form.kind = "rename"
ReplaceRows(d) ==
    /\ editor[d].pc = "granted"
    /\ entries' = [entries EXCEPT ![editor[d].role] = editor[d].set]
    /\ given' = [given EXCEPT ![editor[d].role] = editor[d].means]
    /\ spoiled' = (spoiled \/ Undoing \/ lock # Nobody
                           \/ {seen[n] : n \in editor[d].set} # editor[d].means)
    /\ Becomes(d, Page)
    /\ UNCHANGED <<Files, memory, lock, seen>>

-----------------------------------------------------------------------------
(* The file is edited by hand, but not while a page writes and loads it. *)
Writing == \E d \in Editors : \/ editor[d].pc \in {"valid", "moved", "copied", "swapped"}
                              \/ editor[d].pc = "loading" /\ editor[d].then = AtRest
HandEdit(content) ==
    /\ ~Writing /\ stamp < MaxWrites
    /\ file' = content /\ stamp' = stamp + 1
    /\ line' = LinesOf(content)
    /\ UNCHANGED <<copies, memory, entries, lock, editor, seen, given, spoiled>>
HandEdits ==
    IF file.readable
    THEN {[file EXCEPT !.readable = FALSE]}
         \cup {[file EXCEPT !.text[n] = 0] : n \in Has(file)}
         \cup {[file EXCEPT !.text[n] = stamp + 1] : n \in CommandNames \ Has(file)}
    ELSE {[file EXCEPT !.readable = TRUE]}

(* The process dies and starts again.  Forms stay in their browsers; the     *)
(* memory is that of a process that has loaded nothing.                      *)
Restart ==
    /\ editor' = [d \in Editors |-> IF editor[d].pc = "form" THEN editor[d] ELSE AtRest]
    /\ lock' = Nobody
    /\ memory' = [print |-> 0, library |-> Blank]
    /\ spoiled' = (spoiled \/ Undoing \/ Renaming)
    /\ UNCHANGED <<Files, entries, seen, given>>

-----------------------------------------------------------------------------
Edit(d) == \/ LoadNames(d) \/ CheckName(d)
           \/ (\E new \in Accepted(editor[d].form) : Begin(d, new))
           \/ Refuse(d)
Step(d) ==
    \/ LoadText(d) \/ MoveRoles(d) \/ KeepCopy(d) \/ Swap(d) \/ LoadNew(d)
    \/ WriteFails(d) \/ UndoMove(d) \/ LoadKnown(d) \/ CheckKnown(d) \/ ReplaceRows(d)

LibraryNext ==
    \/ \E d \in Editors : ListCommands(d) \/ Step(d)
    \/ \E d \in Editors, form \in Offered : FillIn(d, form)
    \/ \E d \in Editors : editor[d].pc \in {"form", "free"} /\ Edit(d)
    \/ \E d \in Editors, r \in Roles, set \in SUBSET CommandNames : ChooseCommands(d, r, set)
    \/ \E content \in HandEdits : HandEdit(content)
    \/ Restart

LibrarySpec == LibraryInit /\ [][LibraryNext]_libraryVars

-----------------------------------------------------------------------------
LibraryTypeOK ==
    /\ file \in Contents /\ stamp \in Writes
    /\ memory \in [print : Writes, library : {c \in Contents : Valid(c)}]
    /\ copies \in Seq(Contents) /\ Len(copies) <= Keep
    /\ entries \in [Roles -> SUBSET CommandNames]
    /\ lock \in Editors \cup {Nobody}
    /\ editor \in [Editors -> EditorStates]
    /\ {line, seen} \subseteq [CommandNames -> Commands]
    /\ given \in [Roles -> SUBSET Commands]
    /\ spoiled \in BOOLEAN

(* No edit is going, and none was cut short or crossed. *)
Quiet == lock = Nobody /\ ~spoiled /\ ~Undoing

(* agents.purge_missing_commands: what a role may call is what an admin gave *)
(* it, never another command that has the name by now.                       *)
RolesHoldWhatTheyWereGiven ==
    Quiet => \A r \in Roles : \A n \in entries[r] \cap Has(memory.library) : seen[n] \in given[r]

(* rename_role_command, README.md:136-138: a role keeps a command through    *)
(* renames, broken files, restarts and everything but the loss of it.        *)
RolesKeepWhatTheyWereGiven ==
    Quiet => \A r \in Roles : \A n \in Has(file) : line[n] \in given[r] => n \in entries[r]

(* load: what is in service is the file, once a load has seen its last       *)
(* write and it parses.                                                      *)
InServiceIsTheFile ==
    (lock = Nobody /\ memory.print = stamp /\ Valid(file)) => memory.library = file

(* _modify: what an edit replaces is the version its form was opened on, or  *)
(* was sent back with.                                                       *)
Swapping(d) == editor[d].pc = "copied" /\ editor'[d].pc = "swapped"
ReplacesItsVersion ==
    [][\A d \in Editors : (Swapping(d) /\ editor[d].form.kind # "delete") =>
          file = editor[d].form.base]_libraryVars

-----------------------------------------------------------------------------
(* The invariant the proofs of LibraryAndPasswordsProofs carry from step to step. *)

(* Who has the lock. *)
LibraryLockInv ==
    \A d \in Editors : lock = d <=>
        editor[d].pc \in {"loading", "valid", "moved", "copied", "swapped"}

(* Until an edit swaps the file, it is the one the edit was checked against. *)
Pending(d) == editor[d].pc \in {"valid", "moved", "copied"}
EditOK(d) ==
    /\ Pending(d) => stamp < MaxWrites /\ Valid(editor[d].new)
    /\ Pending(d) /\ editor[d].form.kind # "delete" => file = editor[d].form.base
    /\ Pending(d) /\ editor[d].form.kind = "rename" =>
          /\ editor[d].form.name \in Has(file) /\ editor[d].form.to \notin Has(file)
          /\ Has(editor[d].new) = (Has(file) \ {editor[d].form.name}) \cup {editor[d].form.to}
    /\ editor[d].pc \in {"moved", "undo"} => editor[d].form.kind = "rename"
    /\ editor[d].pc = "undo" => editor[d].form.name # editor[d].form.to

(* An edit that has swapped the file loads it, and nobody else does before.  *)
Landing(d) == \/ editor[d].pc = "swapped"
              \/ editor[d].pc = "loading" /\ editor[d].then = AtRest
LoadOK(d) ==
    /\ editor[d].pc = "loading" => /\ editor[d].print <= stamp
                                   /\ editor[d].then.pc \in {"idle", "page", "form", "grant"}
    /\ editor[d].pc = "swapped" => memory.print < stamp
    /\ Landing(d) => Valid(file)

ServiceInv ==
    /\ memory.print <= stamp
    /\ stamp = 0 => file = Blank
    /\ memory.print = stamp /\ Valid(file) => memory.library = file

(* A role is given commands that were seen, numbered like the writes so far. *)
GrantOK(d) ==
    editor[d].pc = "granted" =>
        \A command \in editor[d].means : Exists(command) /\ command[2] <= stamp

EditorsInv == \A d \in Editors : EditOK(d) /\ LoadOK(d) /\ GrantOK(d)

(* What names stand for: each command has one name at a time, and one that   *)
(* was seen keeps it until it is seen to be gone.                            *)
LineInv ==
    /\ \A n \in CommandNames : n \in Has(file) <=> Exists(line[n])
    /\ \A n \in CommandNames : Exists(line[n]) /\ Exists(seen[n]) => line[n] = seen[n]
    /\ \A m, n \in CommandNames :
          /\ Exists(line[m]) /\ line[m] \in {line[n], seen[n]} => m = n
          /\ Exists(seen[m]) /\ seen[m] = seen[n] => m = n
    /\ \A n \in CommandNames : line[n][2] <= stamp /\ seen[n][2] <= stamp
    /\ \A r \in Roles : \A command \in given[r] : command[2] <= stamp
    /\ (\A d \in Editors : ~Landing(d)) => \A n \in Has(memory.library) : Exists(seen[n])

(* The entries of a role are the commands it was given, of those last seen;  *)
(* between the halves of a rename, under the name that one of them will have.*)
Holds(r, n) == Exists(seen[n]) /\ seen[n] \in given[r]
Moving(d) == \/ editor[d].pc \in {"moved", "copied"} /\ editor[d].form.kind = "rename"
             \/ editor[d].pc = "undo"
InStep == \A r \in Roles, n \in CommandNames : n \in entries[r] <=> Holds(r, n)
Ahead(d) ==
    \A r \in Roles, n \in CommandNames :
        /\ n = editor[d].form.name => n \notin entries[r] /\ (editor[d].form.to \in entries[r] <=> Holds(r, n))
        /\ n = editor[d].form.to => ~Holds(r, n)
        /\ n \notin {editor[d].form.name, editor[d].form.to} => (n \in entries[r] <=> Holds(r, n))
RolesInv ==
    ~spoiled =>
        /\ \A d \in Editors : Moving(d) => Ahead(d)
        /\ (\A d \in Editors : ~Moving(d)) => InStep
        /\ \A d, e \in Editors : editor[d].pc = "undo" /\ d # e =>
              editor[e].pc \notin {"undo", "valid", "moved", "copied", "swapped"}
        /\ \A r \in Roles, n \in CommandNames :
              Exists(line[n]) /\ line[n] \in given[r] => line[n] = seen[n]

LibraryIInv == LibraryTypeOK /\ LibraryLockInv /\ EditorsInv /\ ServiceInv /\ LineInv /\ RolesInv
=============================================================================
