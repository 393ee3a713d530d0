-------------------------- MODULE LibraryAndPasswordsProofs --------------------------
(***************************************************************************)
(* Proofs about the file of commands and hosts: CommandLibrary, for any    *)
(* number of commands, hosts, roles, admins, writes and copies, and        *)
(* HostPasswords, for any number of names, addresses, passwords, admins,   *)
(* commands and changes of the library.                                    *)
(***************************************************************************)
EXTENDS CommandLibrary, HostPasswords, TLAPS

-----------------------------------------------------------------------------
(* CommandLibrary: shapes of forms, threads and files. *)

LEMMA FormShape ==
  ASSUME NEW form \in Forms
  PROVE  /\ form.kind \in {"save", "rename", "new", "host", "restore", "delete"}
         /\ form.kind \in {"save", "rename", "delete"} => form.name \in CommandNames
         /\ form.kind \in {"rename", "new"} => form.to \in CommandNames
         /\ form.kind = "host" => form.host \in Hosts /\ form.set \in SUBSET CommandNames
         /\ form.kind # "delete" => form.base \in Contents
         /\ \A base \in Contents : form.kind # "delete" => [form EXCEPT !.base = base] \in Forms
BY DEF Forms

LEMMA StateShape ==
  ASSUME NEW s \in EditorStates
  PROVE  /\ s.pc \in {"idle", "page", "form", "free", "valid", "moved", "copied", "swapped",
                      "undo", "grant", "granted", "loading"}
         /\ s.pc \in {"form", "free", "valid", "moved", "copied", "swapped", "undo"} => s.form \in Forms
         /\ s.pc \in {"valid", "moved", "copied", "swapped"} => s.new \in Contents
         /\ s.pc \in {"grant", "granted"} => s.role \in Roles /\ s.set \in SUBSET CommandNames
         /\ s.pc = "granted" => s.means \in SUBSET Commands
         /\ s.pc = "loading" => s.print \in Writes /\ s.then \in Settled
         /\ s.pc # "loading" => s \in Settled
         /\ s.pc \in {"form", "free"} => s = [pc |-> s.pc, form |-> s.form]
         /\ s.pc \in {"valid", "moved", "copied", "swapped"} =>
               s = [pc |-> s.pc, form |-> s.form, new |-> s.new]
BY DEF EditorStates, Settled

LEMMA StatesBuilt ==
  /\ AtRest \in EditorStates /\ Page \in EditorStates
  /\ \A form \in Forms : /\ [pc |-> "form", form |-> form] \in EditorStates
                         /\ [pc |-> "free", form |-> form] \in EditorStates
                         /\ [pc |-> "undo", form |-> form] \in EditorStates
  /\ \A form \in Forms, new \in Contents : 
        \A pc \in {"valid", "moved", "copied", "swapped"} :
           [pc |-> pc, form |-> form, new |-> new] \in EditorStates
  /\ \A r \in Roles, set \in SUBSET CommandNames :
        [pc |-> "grant", role |-> r, set |-> set] \in EditorStates
  /\ \A r \in Roles, set \in SUBSET CommandNames, means \in SUBSET Commands :
        [pc |-> "granted", role |-> r, set |-> set, means |-> means] \in EditorStates
  /\ \A print \in Writes, then \in Settled :
        [pc |-> "loading", print |-> print, then |-> then] \in EditorStates
BY DEF EditorStates, Settled, AtRest, Page

LEMMA WritesFacts ==
  /\ MaxWrites \in Nat /\ \A w \in Writes : w \in Nat /\ w <= MaxWrites
  /\ \A w \in Writes : w < MaxWrites => w + 1 \in Writes
  /\ 0 \in Writes /\ 1 \in Writes
BY WritesAreCounted DEF Writes

LEMMA OutcomesTyped ==
  ASSUME LibraryTypeOK, stamp < MaxWrites, NEW form \in Forms, NEW new \in Outcomes(form)
  PROVE  new \in Contents
<1>1. stamp + 1 \in Writes /\ 0 \in Writes
  BY WritesFacts DEF LibraryTypeOK
<1>2. file = [text |-> file.text, offers |-> file.offers, readable |-> file.readable]
      /\ file.text \in [CommandNames -> Writes] /\ file.offers \in [Hosts -> SUBSET CommandNames]
      /\ file.readable \in BOOLEAN
  BY DEF LibraryTypeOK, Contents
<1>3. CASE form.kind = "save"
  <2>1. form.name \in CommandNames /\ new = [file EXCEPT !.text[form.name] = stamp + 1]
    BY <1>3, FormShape DEF Outcomes
  <2>2. QED
    BY <1>1, <1>2, <2>1 DEF Contents
<1>4. CASE form.kind = "new"
  <2>1. form.to \in CommandNames /\ new = [file EXCEPT !.text[form.to] = stamp + 1]
    BY <1>4, FormShape DEF Outcomes
  <2>2. QED
    BY <1>1, <1>2, <2>1 DEF Contents
<1>5. CASE form.kind = "rename"
  <2>1. /\ form.to \in CommandNames /\ form.name \in CommandNames
        /\ new = [file EXCEPT !.text = [@ EXCEPT ![form.name] = 0, ![form.to] = stamp + 1],
                              !.offers = [h \in Hosts |-> Renamed(@[h], form.name, form.to)]]
    BY <1>5, FormShape DEF Outcomes
  <2>2. \A h \in Hosts : Renamed(file.offers[h], form.name, form.to) \in SUBSET CommandNames
    BY <1>2, <2>1 DEF Renamed
  <2>3. QED
    BY <1>1, <1>2, <2>1, <2>2 DEF Contents
<1>6. CASE form.kind = "delete"
  <2>1. PICK n \in CommandNames : new = [file EXCEPT !.text[n] = 0]
    BY <1>6, FormShape DEF Outcomes
  <2>2. QED
    BY <1>1, <1>2, <2>1 DEF Contents
<1>7. CASE form.kind = "host"
  <2>1. /\ form.host \in Hosts /\ form.set \in SUBSET CommandNames
        /\ new = [file EXCEPT !.offers[form.host] = form.set]
    BY <1>7, FormShape DEF Outcomes
  <2>2. QED
    BY <1>2, <2>1 DEF Contents
<1>8. CASE form.kind = "restore"
  BY <1>8 DEF Outcomes, LibraryTypeOK
<1>9. QED
  BY <1>3, <1>4, <1>5, <1>6, <1>7, <1>8, FormShape

(* A rename puts one name in the place of the other. *)
LEMMA RenameHas ==
  ASSUME LibraryTypeOK, NEW form \in Forms, form.kind = "rename", NEW new \in Outcomes(form)
  PROVE  /\ form.name \in Has(file) /\ form.to \in CommandNames \ Has(file)
         /\ Has(new) = (Has(file) \ {form.name}) \cup {form.to}
<1>1. /\ form.name \in Has(file) /\ form.to \in CommandNames \ Has(file)
      /\ new = [file EXCEPT !.text = [@ EXCEPT ![form.name] = 0, ![form.to] = stamp + 1],
                            !.offers = [h \in Hosts |-> Renamed(@[h], form.name, form.to)]]
  BY FormShape DEF Outcomes
<1>2. file \in Contents /\ stamp + 1 # 0
  BY WritesFacts DEF LibraryTypeOK
<1>3. file.text \in [CommandNames -> Writes]
  BY <1>2 DEF Contents
<1>4. new.text = [file.text EXCEPT ![form.name] = 0, ![form.to] = stamp + 1]
  BY <1>1, <1>2 DEF Contents
<1>5. QED
  BY <1>1, <1>2, <1>3, <1>4 DEF Has

LEMMA HandEditsTyped ==
  ASSUME LibraryTypeOK, stamp < MaxWrites, NEW content \in HandEdits
  PROVE  content \in Contents
<1>1. stamp + 1 \in Writes /\ 0 \in Writes
  BY WritesFacts DEF LibraryTypeOK
<1>2. file = [text |-> file.text, offers |-> file.offers, readable |-> file.readable]
      /\ file.text \in [CommandNames -> Writes] /\ file.offers \in [Hosts -> SUBSET CommandNames]
      /\ file.readable \in BOOLEAN
  BY DEF LibraryTypeOK, Contents
<1>3. \/ content = [file EXCEPT !.readable = FALSE]
      \/ content = [file EXCEPT !.readable = TRUE]
      \/ \E n \in CommandNames, w \in Writes : content = [file EXCEPT !.text[n] = w]
  BY <1>1 DEF HandEdits, Has
<1>4. QED
  BY <1>2, <1>3 DEF Contents

LEMMA LinesTyped ==
  ASSUME LibraryTypeOK, stamp < MaxWrites, NEW content
  PROVE  LinesOf(content) \in [CommandNames -> Commands]
<1>1. stamp + 1 \in Writes /\ 0 \in Writes
  BY WritesFacts DEF LibraryTypeOK
<1>2. \A n \in CommandNames : line[n] \in Commands /\ seen[n] \in Commands
  BY DEF LibraryTypeOK
<1>3. QED
  BY <1>1, <1>2 DEF LinesOf, LineOf, Commands

LEMMA NewestTyped ==
  ASSUME NEW s \in Seq(Contents)
  PROVE  Newest(s) \in Seq(Contents) /\ Len(Newest(s)) <= Keep
<1>1. Keep \in Nat \ {0} /\ Len(s) \in Nat
  BY SomeCopyIsKept
<1>2. CASE Len(s) > Keep
  <2>1. Len(s) - Keep + 1 \in 1 .. Len(s) /\ Newest(s) = SubSeq(s, Len(s) - Keep + 1, Len(s))
    BY <1>1, <1>2 DEF Newest
  <2>2. Newest(s) \in Seq(Contents) /\ Len(Newest(s)) = Len(s) - (Len(s) - Keep + 1) + 1
    BY <1>1, <2>1
  <2>3. QED
    BY <1>1, <2>2
<1>3. CASE ~(Len(s) > Keep)
  BY <1>1, <1>3 DEF Newest
<1>4. QED
  BY <1>2, <1>3

LEMMA Becoming ==
  ASSUME LibraryTypeOK, NEW d \in Editors, NEW next, Becomes(d, next)
  PROVE  /\ editor'[d] = next
         /\ \A e \in Editors \ {d} : editor'[e] = editor[e]
         /\ next \in EditorStates => editor' \in [Editors -> EditorStates]
BY DEF LibraryTypeOK, Becomes

-----------------------------------------------------------------------------
(* Steps that change no more than one admin's thread, the lock and copies.   *)

LEMMA EditorStep ==
  ASSUME LibraryIInv, NEW d \in Editors, NEW next \in EditorStates, Becomes(d, next),
         UNCHANGED <<file, stamp, line, memory, entries, seen, given>>,
         copies' \in Seq(Contents), Len(copies') <= Keep,
         lock' = lock \/ (lock \in {Nobody, d} /\ lock' \in {Nobody, d}),
         lock' = d <=> next.pc \in {"loading", "valid", "moved", "copied", "swapped"},
         spoiled' \in BOOLEAN, spoiled => spoiled',
         EditOK(d)', LoadOK(d)', GrantOK(d)',
         Landing(d) => Landing(d)',
         ~spoiled' => /\ Moving(d)' <=> Moving(d)
                      /\ Moving(d) => next.form = editor[d].form
                      /\ next.pc = "undo" => Pending(d)
                      /\ next.pc \in {"valid", "moved", "copied", "swapped"} => Pending(d) \/ ~Undoing
  PROVE  LibraryIInv'
<1>1. LibraryTypeOK /\ LibraryLockInv /\ EditorsInv /\ ServiceInv /\ LineInv /\ RolesInv
  BY DEF LibraryIInv
<1>2. /\ editor'[d] = next
      /\ \A e \in Editors \ {d} : editor'[e] = editor[e]
      /\ editor' \in [Editors -> EditorStates]
  BY <1>1, Becoming
<1>3. LibraryTypeOK'
  BY <1>1, <1>2 DEF LibraryTypeOK
<1>4. LibraryLockInv'
  BY <1>1, <1>2, NobodyIsNoAdmin DEF LibraryLockInv
<1>5. EditorsInv'
  <2>1. ASSUME NEW e \in Editors \ {d}
        PROVE  EditOK(e)' /\ LoadOK(e)' /\ GrantOK(e)'
    <3>1. EditOK(e) /\ LoadOK(e) /\ GrantOK(e) /\ editor'[e] = editor[e]
      BY <1>1, <1>2 DEF EditorsInv
    <3>2. EditOK(e)'
      BY <3>1 DEF EditOK, Pending, Has, Valid
    <3>3. LoadOK(e)'
      BY <3>1 DEF LoadOK, Landing, Valid, Has
    <3>4. GrantOK(e)'
      BY <3>1 DEF GrantOK
    <3>5. QED
      BY <3>2, <3>3, <3>4
  <2>2. QED
    BY <2>1 DEF EditorsInv
<1>6. ServiceInv'
  BY <1>1 DEF ServiceInv, Valid, Has
<1>7. LineInv'
  <2>1. (\A e \in Editors : ~Landing(e)') => \A e \in Editors : ~Landing(e)
    BY <1>2 DEF Landing
  <2>2. QED
    BY <1>1, <2>1 DEF LineInv, Has
<1>8. RolesInv'
  <2>1. SUFFICES ASSUME ~spoiled'
                 PROVE  RolesInv'
    BY DEF RolesInv
  <2>2. ~spoiled
    BY <2>1
  <2>3. ASSUME NEW e \in Editors
        PROVE  (Moving(e)' <=> Moving(e)) /\ (Moving(e) => editor'[e].form = editor[e].form)
    BY <1>2, <2>1 DEF Moving
  <2>4. ASSUME NEW e \in Editors, Moving(e)'
        PROVE  Ahead(e)'
    <3>1. Ahead(e) /\ editor'[e].form = editor[e].form
      BY <1>1, <2>2, <2>3, <2>4 DEF RolesInv
    <3>2. QED
      BY <3>1 DEF Ahead, Holds
  <2>5. (\A e \in Editors : ~Moving(e)') => InStep'
    BY <1>1, <2>2, <2>3 DEF RolesInv, InStep, Holds
  <2>6. ASSUME NEW e \in Editors, NEW f \in Editors, e # f, editor'[e].pc = "undo"
        PROVE  editor'[f].pc \notin {"undo", "valid", "moved", "copied", "swapped"}
    <3>1. \A g, h \in Editors : editor[g].pc = "undo" /\ g # h =>
              editor[h].pc \notin {"undo", "valid", "moved", "copied", "swapped"}
      BY <1>1, <2>2 DEF RolesInv
    <3>2. CASE e = d
      <4>1. Pending(d) /\ lock = d
        BY <1>1, <1>2, <2>1, <2>6, <3>2 DEF LibraryLockInv, Pending
      <4>2. editor[f].pc \notin {"valid", "moved", "copied", "swapped"}
        BY <1>1, <2>6, <3>2, <4>1 DEF LibraryLockInv
      <4>3. editor[f].pc # "undo"
        BY <2>6, <3>1, <3>2, <4>1 DEF Pending
      <4>4. QED
        BY <1>2, <2>6, <3>2, <4>2, <4>3
    <3>3. CASE f = d
      <4>1. editor[e].pc = "undo"
        BY <1>2, <2>6, <3>3
      <4>2. ~Pending(d) /\ Undoing
        BY <2>6, <3>1, <3>3, <4>1 DEF Pending, Undoing
      <4>3. QED
        BY <1>2, <2>1, <3>3, <4>2
    <3>4. CASE e # d /\ f # d
      BY <1>2, <2>6, <3>1, <3>4
    <3>5. QED
      BY <3>2, <3>3, <3>4
  <2>7. \A r \in Roles, n \in CommandNames :
            Exists(line'[n]) /\ line'[n] \in given'[r] => line'[n] = seen'[n]
    BY <1>1, <2>2 DEF RolesInv
  <2>8. QED
    BY <2>4, <2>5, <2>6, <2>7 DEF RolesInv
<1>9. QED
  BY <1>3, <1>4, <1>5, <1>6, <1>7, <1>8 DEF LibraryIInv

(* Pages, forms and choices that need no lock. *)
LEMMA PageStep ==
  ASSUME LibraryIInv, NEW d \in Editors, NEW next \in EditorStates, Becomes(d, next),
         UNCHANGED <<Files, memory, entries, seen, given, spoiled, lock>>,
         editor[d].pc \in {"idle", "page", "form", "free", "grant"},
         next.pc \in {"idle", "page", "form", "free", "grant"}
  PROVE  LibraryIInv'
<1>1. LibraryTypeOK /\ LibraryLockInv
  BY DEF LibraryIInv
<1>2. editor'[d] = next
  BY <1>1, Becoming
<1>3. lock' = lock /\ lock # d /\ copies' \in Seq(Contents) /\ Len(copies') <= Keep
      /\ spoiled' \in BOOLEAN /\ spoiled' = spoiled
      /\ UNCHANGED <<file, stamp, line, memory, entries, seen, given>>
  BY <1>1 DEF LibraryTypeOK, LibraryLockInv, Files
<1>4. EditOK(d)' /\ LoadOK(d)' /\ GrantOK(d)'
  BY <1>2 DEF EditOK, LoadOK, GrantOK, Pending, Landing
<1>5. ~Landing(d) /\ ~Moving(d) /\ ~Moving(d)'
  BY <1>2 DEF Landing, Moving
<1>6. QED
  BY <1>3, <1>4, <1>5, EditorStep

LEMMA OfferedForms ==
  ASSUME LibraryTypeOK
  PROVE  Offered \subseteq Forms
<1>1. file \in Contents /\ Has(file) \subseteq CommandNames /\ Has(memory.library) \subseteq CommandNames
  BY DEF LibraryTypeOK, Has
<1>2. QED
  BY <1>1 DEF Offered, Forms

LEMMA FillInStep ==
  ASSUME LibraryIInv, NEW d \in Editors, NEW form \in Offered, FillIn(d, form)
  PROVE  LibraryIInv'
<1>1. [pc |-> "form", form |-> form] \in EditorStates
  BY OfferedForms, StatesBuilt DEF LibraryIInv
<1>2. QED
  BY <1>1, PageStep DEF FillIn

LEMMA CheckNameStep ==
  ASSUME LibraryIInv, NEW d \in Editors, CheckName(d)
  PROVE  LibraryIInv'
<1>1. LibraryTypeOK /\ file \in Contents /\ editor[d] \in EditorStates
  BY DEF LibraryIInv, LibraryTypeOK
<1>2. editor[d].form \in Forms /\ editor[d].form.kind = "new"
      /\ editor[d] = [pc |-> "form", form |-> editor[d].form]
  BY <1>1, StateShape DEF CheckName
<1>3. [editor[d].form EXCEPT !.base = file] \in Forms
  BY <1>1, <1>2, FormShape
<1>4. ASSUME Becomes(d, [editor[d] EXCEPT !.form.base = file])
      PROVE  LibraryIInv'
  <2>1. [editor[d] EXCEPT !.form.base = file] = [pc |-> "form", form |-> [editor[d].form EXCEPT !.base = file]]
    BY <1>2
  <2>2. [editor[d] EXCEPT !.form.base = file] \in EditorStates
    BY <1>3, <2>1, StatesBuilt
  <2>3. QED
    BY <1>4, <2>1, <2>2, PageStep DEF CheckName
<1>5. ASSUME Becomes(d, [editor[d] EXCEPT !.pc = "free"])
      PROVE  LibraryIInv'
  <2>1. [editor[d] EXCEPT !.pc = "free"] = [pc |-> "free", form |-> editor[d].form]
    BY <1>2
  <2>2. [editor[d] EXCEPT !.pc = "free"] \in EditorStates
    BY <1>2, <2>1, StatesBuilt
  <2>3. QED
    BY <1>5, <2>1, <2>2, PageStep DEF CheckName
<1>6. QED
  BY <1>4, <1>5 DEF CheckName

LEMMA RefuseStep ==
  ASSUME LibraryIInv, NEW d \in Editors, Refuse(d)
  PROVE  LibraryIInv'
<1>1. LibraryTypeOK /\ file \in Contents /\ editor[d] \in EditorStates
  BY DEF LibraryIInv, LibraryTypeOK
<1>2. editor[d].pc \in {"form", "free"} /\ editor[d].form \in Forms
  BY <1>1, StateShape DEF Refuse, Submitted
<1>3. ASSUME editor[d].form.kind \in {"save", "rename", "new"},
             Becomes(d, [pc |-> "form", form |-> [editor[d].form EXCEPT !.base = file]])
      PROVE  LibraryIInv'
  <2>1. [pc |-> "form", form |-> [editor[d].form EXCEPT !.base = file]] \in EditorStates
    BY <1>1, <1>2, <1>3, FormShape, StatesBuilt
  <2>2. QED
    BY <1>2, <1>3, <2>1, PageStep DEF Refuse
<1>4. ASSUME Becomes(d, Page)
      PROVE  LibraryIInv'
  <2>1. Page \in EditorStates /\ Page.pc = "page"
    BY StatesBuilt DEF Page
  <2>2. QED
    BY <1>2, <1>4, <2>1, PageStep DEF Refuse
<1>5. QED
  BY <1>3, <1>4 DEF Refuse

LEMMA ChooseStep ==
  ASSUME LibraryIInv, NEW d \in Editors, NEW r \in Roles, NEW set \in SUBSET CommandNames,
         ChooseCommands(d, r, set)
  PROVE  LibraryIInv'
<1>1. [pc |-> "grant", role |-> r, set |-> set] \in EditorStates
  BY StatesBuilt
<1>2. QED
  BY <1>1, PageStep DEF ChooseCommands

-----------------------------------------------------------------------------
(* Loads, up to the read of the text. *)

LEMMA LoadStatStep ==
  ASSUME LibraryIInv, NEW d \in Editors, NEW then \in Settled, LoadStat(d, then),
         then.pc \in {"idle", "page", "form", "grant"},
         editor[d].pc \in {"idle", "page", "form", "grant", "swapped"},
         then = AtRest <=> editor[d].pc = "swapped"
  PROVE  LibraryIInv'
<1> DEFINE next == [pc |-> "loading", print |-> stamp, then |-> then]
<1>1. LibraryTypeOK /\ LibraryLockInv /\ LoadOK(d) /\ stamp \in Writes
  BY DEF LibraryIInv, EditorsInv, LibraryTypeOK
<1>2. next \in EditorStates
  BY <1>1, StatesBuilt
<1>3. editor'[d] = next /\ Becomes(d, next)
  BY <1>1, Becoming DEF LoadStat
<1>4. lock \in {Nobody, d} /\ lock' = d /\ copies' \in Seq(Contents) /\ Len(copies') <= Keep
      /\ spoiled' \in BOOLEAN /\ spoiled' = spoiled
      /\ UNCHANGED <<file, stamp, line, memory, entries, seen, given>>
  BY <1>1 DEF LoadStat, LibraryTypeOK, Files
<1>5. EditOK(d)' /\ GrantOK(d)'
  BY <1>3 DEF EditOK, GrantOK, Pending
<1>6. LoadOK(d)' /\ (Landing(d)' <=> Landing(d))
  <2>1. stamp' <= stamp'
    BY <1>1, <1>4, WritesFacts
  <2>2. Landing(d)' <=> Landing(d)
    BY <1>3 DEF Landing
  <2>3. Landing(d)' => Valid(file)'
    BY <1>1, <1>4, <2>2 DEF LoadOK, Valid, Has
  <2>4. LoadOK(d)'
    BY <1>3, <1>4, <2>1, <2>3 DEF LoadOK
  <2>5. QED
    BY <2>2, <2>4
<1>7. ~Moving(d) /\ ~Moving(d)'
  BY <1>3 DEF Moving
<1>8. QED
  BY <1>2, <1>3, <1>4, <1>5, <1>6, <1>7, EditorStep

LEMMA ListStep ==
  ASSUME LibraryIInv, NEW d \in Editors, ListCommands(d)
  PROVE  LibraryIInv'
<1>1. Page \in Settled /\ Page \in EditorStates /\ Page.pc = "page" /\ Page # AtRest
  BY StatesBuilt DEF Page, AtRest, Settled
<1>2. CASE LoadStat(d, Page)
  BY <1>1, <1>2, LoadStatStep DEF ListCommands
<1>3. CASE LoadCached(d, Page)
  <2>1. lock' = lock
    BY <1>3 DEF ListCommands, LoadCached, LibraryIInv, LibraryLockInv
  <2>2. QED
    BY <1>1, <1>3, <2>1, PageStep DEF ListCommands, LoadCached
<1>4. QED
  BY <1>2, <1>3 DEF ListCommands, Load

LEMMA LoadOnTheWayStep ==
  ASSUME LibraryIInv, NEW d \in Editors, LoadNames(d) \/ LoadKnown(d)
  PROVE  LibraryIInv'
<1>1. editor[d] \in EditorStates /\ editor[d].pc \in {"form", "grant"}
  BY DEF LibraryIInv, LibraryTypeOK, LoadNames, LoadKnown
<1>2. editor[d] \in Settled /\ editor[d] # AtRest /\ LoadStat(d, editor[d])
  BY <1>1, StateShape DEF AtRest, LoadNames, LoadKnown
<1>3. QED
  BY <1>1, <1>2, LoadStatStep

(* What an edit has written is loaded: stat has seen no write like it.       *)
LEMMA LoadNewStep ==
  ASSUME LibraryIInv, NEW d \in Editors, LoadNew(d)
  PROVE  LibraryIInv'
<1>1. memory.print < stamp /\ memory.print \in Nat /\ stamp \in Nat
  BY WritesFacts DEF LibraryIInv, EditorsInv, LoadOK, LoadNew, LibraryTypeOK
<1>2. AtRest \in Settled /\ AtRest.pc = "idle"
  BY DEF AtRest, Settled
<1>3. LoadStat(d, AtRest)
  BY <1>1 DEF LoadNew, Load, LoadCached
<1>4. QED
  BY <1>2, <1>3, LoadStatStep DEF LoadNew

LEMMA CheckKnownStep ==
  ASSUME LibraryIInv, NEW d \in Editors, CheckKnown(d)
  PROVE  LibraryIInv'
<1>1. /\ LibraryTypeOK /\ LibraryLockInv /\ LineInv /\ EditorsInv
      /\ editor[d].role \in Roles /\ editor[d].set \in SUBSET CommandNames
  BY StateShape DEF LibraryIInv, LibraryTypeOK, CheckKnown
<1>2. CASE editor[d].set \subseteq Has(memory.library)
  <2> DEFINE means == {seen[n] : n \in editor[d].set}
             next == [pc |-> "granted", role |-> editor[d].role, set |-> editor[d].set, means |-> means]
  <2>1. Becomes(d, next) /\ UNCHANGED <<Files, memory, entries, lock, seen, given, spoiled>>
        /\ editor[d].pc = "grant" /\ lock = Nobody
    BY <1>2 DEF CheckKnown, Loaded
  <2>2. \A e \in Editors : ~Landing(e)
    BY <1>1, <2>1, NobodyIsNoAdmin DEF LibraryLockInv, Landing
  <2>3. \A n \in editor[d].set : seen[n] \in Commands /\ Exists(seen[n]) /\ seen[n][2] <= stamp
    BY <1>1, <1>2, <2>2 DEF LineInv, LibraryTypeOK
  <2>4. means \in SUBSET Commands /\ \A command \in means : Exists(command) /\ command[2] <= stamp
    BY <2>3
  <2> HIDE DEF means
  <2>5. next \in EditorStates
    BY <1>1, <2>4, StatesBuilt
  <2>6. editor'[d] = next
    BY <1>1, <2>1, Becoming
  <2>7. lock' = lock /\ lock # d /\ copies' \in Seq(Contents) /\ Len(copies') <= Keep
        /\ spoiled' \in BOOLEAN /\ spoiled' = spoiled
        /\ UNCHANGED <<file, stamp, line, memory, entries, seen, given>>
    BY <1>1, <2>1 DEF LibraryTypeOK, LibraryLockInv, Files
  <2>8. EditOK(d)' /\ LoadOK(d)'
    BY <2>6 DEF EditOK, LoadOK, Pending, Landing
  <2>9. GrantOK(d)'
    BY <2>4, <2>6, <2>7 DEF GrantOK, Exists
  <2>10. ~Landing(d) /\ ~Moving(d) /\ ~Moving(d)'
    BY <2>1, <2>6 DEF Landing, Moving
  <2>11. next.pc = "granted"
    OBVIOUS
  <2> HIDE DEF next
  <2>12. QED
    BY <2>1, <2>5, <2>6, <2>7, <2>8, <2>9, <2>10, <2>11, EditorStep
<1>3. CASE ~(editor[d].set \subseteq Has(memory.library))
  <2>1. Page \in EditorStates /\ Page.pc = "page"
    BY StatesBuilt DEF Page
  <2>2. QED
    BY <1>3, <2>1, PageStep DEF CheckKnown
<1>4. QED
  BY <1>2, <1>3

-----------------------------------------------------------------------------
(* Edits, up to the swap. *)

LEMMA BeginStep ==
  ASSUME LibraryIInv, NEW d \in Editors, NEW new \in Accepted(editor[d].form), Begin(d, new)
  PROVE  LibraryIInv'
<1> DEFINE form == editor[d].form
           next == [pc |-> "valid", form |-> form, new |-> new]
<1>1. /\ LibraryTypeOK /\ LibraryLockInv /\ EditorsInv
      /\ editor[d].pc \in {"form", "free"} /\ form \in Forms /\ stamp < MaxWrites /\ lock = Nobody
  BY StateShape DEF LibraryIInv, LibraryTypeOK, Begin, Submitted
<1>2. new \in Outcomes(form) /\ Valid(new) /\ new \in Contents
  BY <1>1, OutcomesTyped DEF Accepted
<1>3. next \in EditorStates
  BY <1>1, <1>2, StatesBuilt
<1>4. Becomes(d, next) /\ editor'[d] = next
  BY <1>1, Becoming DEF Begin
<1>5. lock' = d /\ copies' \in Seq(Contents) /\ Len(copies') <= Keep
      /\ spoiled' \in BOOLEAN /\ (spoiled => spoiled') /\ (~spoiled' => ~Undoing)
      /\ UNCHANGED <<file, stamp, line, memory, entries, seen, given>>
  BY <1>1 DEF Begin, LibraryTypeOK, Files
<1>6. EditOK(d)'
  <2>1. form.kind # "delete" => file = form.base
    BY DEF Begin, Stale
  <2>2. form.kind = "rename" => /\ form.name \in Has(file) /\ form.to \notin Has(file)
                                /\ Has(new) = (Has(file) \ {form.name}) \cup {form.to}
    BY <1>1, <1>2, RenameHas
  <2>3. Has(new)' = Has(new) /\ Has(file)' = Has(file) /\ Valid(new)' = Valid(new)
    BY <1>5 DEF Has, Valid
  <2> HIDE DEF form
  <2>4. editor'[d].pc = "valid" /\ editor'[d].form = form /\ editor'[d].new = new
    BY <1>4
  <2>5. Has(editor[d].new)' = Has(new)
    BY <2>4 DEF Has
  <2>6. Valid(editor[d].new)'
    BY <1>2, <2>4 DEF Valid, Has
  <2>7. QED
    BY <1>1, <1>5, <2>1, <2>2, <2>3, <2>4, <2>5, <2>6 DEF EditOK, Pending
<1>7. LoadOK(d)' /\ GrantOK(d)' /\ ~Landing(d) /\ ~Moving(d) /\ ~Moving(d)'
  BY <1>1, <1>4 DEF LoadOK, GrantOK, Landing, Moving
<1>8. next.pc = "valid"
  OBVIOUS
<1> HIDE DEF next
<1>9. QED
  BY <1>1, <1>3, <1>4, <1>5, <1>6, <1>7, <1>8, EditorStep

LEMMA KeepCopyStep ==
  ASSUME LibraryIInv, NEW d \in Editors, KeepCopy(d)
  PROVE  LibraryIInv'
<1> DEFINE form == editor[d].form
           new == editor[d].new
           next == [pc |-> "copied", form |-> form, new |-> new]
<1>1. /\ LibraryTypeOK /\ LibraryLockInv /\ EditOK(d) /\ Pending(d) /\ lock = d
      /\ form \in Forms /\ new \in Contents
      /\ editor[d] = [pc |-> editor[d].pc, form |-> form, new |-> new]
      /\ editor[d].pc # "copied" /\ (editor[d].pc = "moved" <=> form.kind = "rename")
  BY StateShape DEF LibraryIInv, LibraryTypeOK, LibraryLockInv, EditorsInv, EditOK, KeepCopy, Pending
<1>2. next \in EditorStates
  BY <1>1, StatesBuilt
<1>3. Becomes(d, next) /\ editor'[d] = next
  <2>1. [editor[d] EXCEPT !.pc = "copied"] = next
    BY <1>1
  <2>2. QED
    BY <1>1, <2>1, Becoming DEF KeepCopy
<1>4. copies' \in Seq(Contents) /\ Len(copies') <= Keep
  <2>1. file \in Contents /\ copies \in Seq(Contents) /\ Len(copies) <= Keep
    BY <1>1 DEF LibraryTypeOK
  <2>2. Append(copies, file) \in Seq(Contents)
    BY <2>1
  <2>3. copies' = Newest(Append(copies, file)) \/ copies' = copies
    BY DEF KeepCopy
  <2>4. QED
    BY <2>1, <2>2, <2>3, NewestTyped
<1>5. lock' = lock /\ spoiled' = spoiled /\ spoiled' \in BOOLEAN
      /\ UNCHANGED <<file, stamp, line, memory, entries, seen, given>>
  BY <1>1 DEF KeepCopy, LibraryTypeOK
<1>6. EditOK(d)'
  BY <1>1, <1>3, <1>5 DEF EditOK, Pending, Has, Valid
<1>7. LoadOK(d)' /\ GrantOK(d)' /\ ~Landing(d)
  BY <1>1, <1>3 DEF LoadOK, GrantOK, Landing, Pending
<1>8. (Moving(d)' <=> Moving(d)) /\ next.form = editor[d].form /\ next.pc = "copied"
  BY <1>1, <1>3 DEF Moving, Pending
<1> HIDE DEF next
<1>9. QED
  BY <1>1, <1>2, <1>3, <1>4, <1>5, <1>6, <1>7, <1>8, EditorStep

LEMMA WriteFailsStep ==
  ASSUME LibraryIInv, NEW d \in Editors, WriteFails(d)
  PROVE  LibraryIInv'
<1> DEFINE form == editor[d].form
           next == IF form.kind = "rename" THEN [pc |-> "undo", form |-> form] ELSE Page
<1>1. /\ LibraryTypeOK /\ LibraryLockInv /\ EditOK(d) /\ Pending(d) /\ lock = d /\ form \in Forms
      /\ editor[d].pc = "valid" => form.kind # "rename"
  BY StateShape DEF LibraryIInv, LibraryTypeOK, LibraryLockInv, EditorsInv, WriteFails, Pending
<1>2. next \in EditorStates
  BY <1>1, StatesBuilt
<1>3. Becomes(d, next) /\ editor'[d] = next
  BY <1>1, <1>2, Becoming DEF WriteFails
<1>4. lock' = Nobody /\ spoiled' = spoiled /\ spoiled' \in BOOLEAN
      /\ copies' \in Seq(Contents) /\ Len(copies') <= Keep
      /\ UNCHANGED <<file, stamp, line, memory, entries, seen, given>>
  BY <1>1 DEF WriteFails, LibraryTypeOK, Files
<1>5. next.pc \in {"undo", "page"} /\ (next.pc = "undo" <=> form.kind = "rename")
      /\ (next.pc = "undo" => next.form = form)
  BY DEF Page
<1> HIDE DEF next
<1>6. EditOK(d)'
  BY <1>1, <1>3, <1>5 DEF EditOK, Pending
<1>7. LoadOK(d)' /\ GrantOK(d)' /\ ~Landing(d)
  BY <1>1, <1>3, <1>5 DEF LoadOK, GrantOK, Landing, Pending
<1>8. (Moving(d)' <=> Moving(d)) /\ (Moving(d) => next.form = editor[d].form)
  BY <1>1, <1>3, <1>5 DEF Moving, Pending, EditOK
<1>9. QED
  BY <1>1, <1>2, <1>3, <1>4, <1>5, <1>6, <1>7, <1>8, NobodyIsNoAdmin, EditorStep

-----------------------------------------------------------------------------
(* The two halves of a rename, and its clean-up. *)

LEMMA RenamedHas ==
  ASSUME NEW set, NEW name, NEW to, name # to, NEW n
  PROVE  n \in Renamed(set, name, to) <=>
            IF n = to THEN to \in set \/ name \in set ELSE n # name /\ n \in set
BY DEF Renamed

LEMMA MovedTyped ==
  ASSUME LibraryTypeOK, NEW name \in CommandNames, NEW to \in CommandNames
  PROVE  /\ Moved(name, to) \in [Roles -> SUBSET CommandNames]
         /\ \A r \in Roles : Moved(name, to)[r] = Renamed(entries[r], name, to)
BY DEF LibraryTypeOK, Moved, Renamed

LEMMA MoveRolesStep ==
  ASSUME LibraryIInv, NEW d \in Editors, MoveRoles(d)
  PROVE  LibraryIInv'
<1> DEFINE form == editor[d].form
           next == [pc |-> "moved", form |-> form, new |-> editor[d].new]
<1>1. LibraryTypeOK /\ LibraryLockInv /\ EditorsInv /\ ServiceInv /\ LineInv /\ RolesInv
  BY DEF LibraryIInv
<1>2. /\ editor[d].pc = "valid" /\ form.kind = "rename" /\ form \in Forms /\ Pending(d) /\ lock = d
      /\ form.name \in CommandNames /\ form.to \in CommandNames /\ form.name # form.to
      /\ editor[d].new \in Contents /\ editor[d] = [pc |-> "valid", form |-> form, new |-> editor[d].new]
  <2>1. editor[d].pc = "valid" /\ form.kind = "rename" /\ editor[d] \in EditorStates /\ EditOK(d)
        /\ Pending(d) /\ lock = d
    BY <1>1 DEF MoveRoles, LibraryTypeOK, EditorsInv, Pending, LibraryLockInv
  <2>2. form \in Forms /\ editor[d].new \in Contents
        /\ editor[d] = [pc |-> "valid", form |-> form, new |-> editor[d].new]
    BY <2>1, StateShape
  <2>3. form.name \in CommandNames /\ form.to \in CommandNames
    BY <2>1, <2>2, FormShape
  <2>4. form.name # form.to
    BY <2>1 DEF EditOK
  <2>5. QED
    BY <2>1, <2>2, <2>3, <2>4
<1>3. next \in EditorStates /\ Becomes(d, next)
  <2>1. [editor[d] EXCEPT !.pc = "moved"] = next
    BY <1>2
  <2>2. QED
    BY <1>2, <2>1, StatesBuilt DEF MoveRoles
<1>4. /\ editor'[d] = next /\ editor' \in [Editors -> EditorStates]
      /\ \A e \in Editors \ {d} : editor'[e] = editor[e]
  BY <1>1, <1>3, Becoming
<1>5. /\ UNCHANGED <<file, stamp, line, copies, memory, lock, seen, given>>
      /\ entries' = Moved(form.name, form.to)
      /\ spoiled' = (spoiled \/ \E r \in Roles : form.to \in entries[r])
  BY DEF MoveRoles, Files
<1>6. next.pc = "moved" /\ next.form = form /\ next.new = editor[d].new
  OBVIOUS
<1> HIDE DEF next
<1>7. LibraryTypeOK'
  BY <1>1, <1>2, <1>4, <1>5, MovedTyped DEF LibraryTypeOK
<1>8. LibraryLockInv'
  BY <1>1, <1>2, <1>4, <1>5, <1>6 DEF LibraryLockInv
<1>9. EditorsInv'
  <2>1. ASSUME NEW e \in Editors
        PROVE  EditOK(e)' /\ LoadOK(e)' /\ GrantOK(e)'
    <3>1. EditOK(e) /\ LoadOK(e) /\ GrantOK(e)
      BY <1>1 DEF EditorsInv
    <3>2. CASE e = d
      BY <1>2, <1>4, <1>5, <1>6, <3>1, <3>2 DEF EditOK, LoadOK, GrantOK, Pending, Landing, Has, Valid
    <3>3. CASE e # d
      <4>1. editor'[e] = editor[e]
        BY <1>4, <3>3
      <4>2. EditOK(e)'
        BY <1>5, <3>1, <4>1 DEF EditOK, Pending, Has, Valid
      <4>3. LoadOK(e)'
        BY <1>5, <3>1, <4>1 DEF LoadOK, Landing, Has, Valid
      <4>4. GrantOK(e)'
        BY <1>5, <3>1, <4>1 DEF GrantOK
      <4>5. QED
        BY <4>2, <4>3, <4>4
    <3>4. QED
      BY <3>2, <3>3
  <2>2. QED
    BY <2>1 DEF EditorsInv
<1>10. ServiceInv'
  BY <1>1, <1>5 DEF ServiceInv, Valid, Has
<1>11. LineInv'
  <2>1. (\A e \in Editors : ~Landing(e)') => \A e \in Editors : ~Landing(e)
    BY <1>2, <1>4 DEF Landing
  <2>2. QED
    BY <1>1, <1>5, <2>1 DEF LineInv, Has
<1>12. RolesInv'
  <2>1. SUFFICES ASSUME ~spoiled'
                 PROVE  RolesInv'
    BY DEF RolesInv
  <2>2. ~spoiled /\ \A r \in Roles : form.to \notin entries[r]
    BY <1>5, <2>1
  <2>3. ASSUME NEW e \in Editors \ {d}
        PROVE  editor[e].pc \notin {"undo", "valid", "moved", "copied", "swapped"}
    BY <1>1, <1>2, <2>2, <2>3 DEF RolesInv, LibraryLockInv
  <2>4. \A e \in Editors : ~Moving(e) /\ (e # d => ~Moving(e)')
    BY <1>2, <1>4, <2>3 DEF Moving
  <2>5. InStep
    BY <1>1, <2>2, <2>4 DEF RolesInv
  <2>6. Ahead(d)'
    <3>1. ASSUME NEW r \in Roles, NEW n \in CommandNames
          PROVE  /\ n \in entries'[r] <=> IF n = form.to THEN form.name \in entries[r]
                                           ELSE n # form.name /\ n \in entries[r]
                 /\ Holds(r, n)' <=> n \in entries[r]
      <4>1. entries'[r] = Renamed(entries[r], form.name, form.to)
        BY <1>1, <1>2, <1>5, MovedTyped
      <4>2. n \in entries'[r] <=> IF n = form.to THEN form.name \in entries[r]
                                  ELSE n # form.name /\ n \in entries[r]
        BY <1>2, <2>2, <4>1, RenamedHas
      <4>3. Holds(r, n)' <=> n \in entries[r]
        BY <1>5, <2>5 DEF InStep, Holds
      <4>4. QED
        BY <4>2, <4>3
    <3> HIDE DEF form
    <3>2. editor'[d].form = form
      BY <1>4, <1>6
    <3>3. \A r \in Roles : form.to \in entries'[r] <=> form.name \in entries[r]
      BY <1>2, <3>1
    <3>4. QED
      BY <1>2, <2>2, <3>1, <3>2, <3>3 DEF Ahead
  <2>7. Moving(d)'
    BY <1>2, <1>4, <1>6 DEF Moving
  <2>8. \A e, f \in Editors : editor'[e].pc = "undo" /\ e # f =>
            editor'[f].pc \notin {"undo", "valid", "moved", "copied", "swapped"}
    BY <1>4, <1>6, <2>3
  <2>9. \A r \in Roles, n \in CommandNames :
            Exists(line'[n]) /\ line'[n] \in given'[r] => line'[n] = seen'[n]
    BY <1>1, <1>5, <2>2 DEF RolesInv
  <2>10. QED
    BY <2>4, <2>6, <2>7, <2>8, <2>9 DEF RolesInv
<1>13. QED
  BY <1>7, <1>8, <1>9, <1>10, <1>11, <1>12 DEF LibraryIInv

LEMMA UndoMoveStep ==
  ASSUME LibraryIInv, NEW d \in Editors, UndoMove(d)
  PROVE  LibraryIInv'
<1> DEFINE form == editor[d].form
<1>1. LibraryTypeOK /\ LibraryLockInv /\ EditorsInv /\ ServiceInv /\ LineInv /\ RolesInv
  BY DEF LibraryIInv
<1>2. /\ editor[d].pc = "undo" /\ form.kind = "rename" /\ lock # d
      /\ form.name \in CommandNames /\ form.to \in CommandNames /\ form.name # form.to
  <2>1. editor[d].pc = "undo" /\ editor[d] \in EditorStates /\ EditOK(d) /\ lock # d
    BY <1>1 DEF UndoMove, LibraryTypeOK, EditorsInv, LibraryLockInv
  <2>2. form \in Forms /\ form.kind = "rename" /\ form.name # form.to
    BY <2>1, StateShape DEF EditOK
  <2>3. QED
    BY <2>1, <2>2, FormShape
<1>3. Page \in EditorStates /\ Becomes(d, Page) /\ Page.pc = "page"
  BY StatesBuilt DEF UndoMove, Page
<1>4. /\ editor'[d] = Page /\ editor' \in [Editors -> EditorStates]
      /\ \A e \in Editors \ {d} : editor'[e] = editor[e]
  BY <1>1, <1>3, Becoming
<1>5. /\ UNCHANGED <<file, stamp, line, copies, memory, lock, seen, given, spoiled>>
      /\ entries' = Moved(form.to, form.name)
  BY DEF UndoMove, Files
<1>6. LibraryTypeOK'
  BY <1>1, <1>2, <1>4, <1>5, MovedTyped DEF LibraryTypeOK
<1>7. LibraryLockInv'
  BY <1>1, <1>2, <1>3, <1>4, <1>5 DEF LibraryLockInv
<1>8. EditorsInv'
  <2>1. ASSUME NEW e \in Editors
        PROVE  EditOK(e)' /\ LoadOK(e)' /\ GrantOK(e)'
    <3>1. EditOK(e) /\ LoadOK(e) /\ GrantOK(e)
      BY <1>1 DEF EditorsInv
    <3>2. CASE e = d
      BY <1>3, <1>4, <3>2 DEF EditOK, LoadOK, GrantOK, Pending, Landing
    <3>3. CASE e # d
      <4>1. editor'[e] = editor[e]
        BY <1>4, <3>3
      <4>2. EditOK(e)'
        BY <1>5, <3>1, <4>1 DEF EditOK, Pending, Has, Valid
      <4>3. LoadOK(e)'
        BY <1>5, <3>1, <4>1 DEF LoadOK, Landing, Has, Valid
      <4>4. GrantOK(e)'
        BY <1>5, <3>1, <4>1 DEF GrantOK
      <4>5. QED
        BY <4>2, <4>3, <4>4
    <3>4. QED
      BY <3>2, <3>3
  <2>2. QED
    BY <2>1 DEF EditorsInv
<1>9. ServiceInv'
  BY <1>1, <1>5 DEF ServiceInv, Valid, Has
<1>10. LineInv'
  <2>1. (\A e \in Editors : ~Landing(e)') => \A e \in Editors : ~Landing(e)
    BY <1>2, <1>4 DEF Landing
  <2>2. QED
    BY <1>1, <1>5, <2>1 DEF LineInv, Has
<1>11. RolesInv'
  <2>1. SUFFICES ASSUME ~spoiled'
                 PROVE  RolesInv'
    BY DEF RolesInv
  <2>2. ~spoiled
    BY <1>5, <2>1
  <2>3. ASSUME NEW e \in Editors \ {d}
        PROVE  editor[e].pc \notin {"undo", "valid", "moved", "copied", "swapped"}
    BY <1>1, <1>2, <2>2, <2>3 DEF RolesInv
  <2>4. \A e \in Editors : ~Moving(e)'
    BY <1>3, <1>4, <2>3 DEF Moving
  <2>5. Ahead(d)
    BY <1>1, <1>2, <2>2 DEF RolesInv, Moving
  <2>6. InStep'
    <3>1. ASSUME NEW r \in Roles, NEW n \in CommandNames
          PROVE  n \in entries'[r] <=> Holds(r, n)'
      <4>1. entries'[r] = Renamed(entries[r], form.to, form.name)
        BY <1>1, <1>2, <1>5, MovedTyped
      <4>2. n \in entries'[r] <=> IF n = form.name THEN form.name \in entries[r] \/ form.to \in entries[r]
                                  ELSE n # form.to /\ n \in entries[r]
        BY <1>2, <4>1, RenamedHas
      <4>3. Holds(r, n)' <=> Holds(r, n)
        BY <1>5 DEF Holds
      <4>4. QED
        BY <1>2, <2>5, <4>2, <4>3 DEF Ahead
    <3>2. QED
      BY <3>1 DEF InStep
  <2>7. \A e, f \in Editors : editor'[e].pc = "undo" /\ e # f =>
            editor'[f].pc \notin {"undo", "valid", "moved", "copied", "swapped"}
    BY <1>3, <1>4, <2>3
  <2>8. \A r \in Roles, n \in CommandNames :
            Exists(line'[n]) /\ line'[n] \in given'[r] => line'[n] = seen'[n]
    BY <1>1, <1>5, <2>2 DEF RolesInv
  <2>9. QED
    BY <2>4, <2>6, <2>7, <2>8 DEF RolesInv
<1>12. QED
  BY <1>6, <1>7, <1>8, <1>9, <1>10, <1>11 DEF LibraryIInv

-----------------------------------------------------------------------------
(* Writes of the file. *)

LEMMA PairParts ==
  ASSUME NEW a, NEW b
  PROVE  <<a, b>>[1] = a /\ <<a, b>>[2] = b
OBVIOUS

LEMMA LinesAfter ==
  ASSUME LibraryTypeOK, LineInv, NEW content
  PROVE  /\ \A n \in CommandNames : n \in Has(content) <=> Exists(LinesOf(content)[n])
         /\ \A n \in CommandNames : Exists(LinesOf(content)[n]) =>
               \/ LinesOf(content)[n] = seen[n]
               \/ LinesOf(content)[n] = line[n]
               \/ LinesOf(content)[n] = <<n, stamp + 1>> /\ ~Exists(seen[n])
         /\ \A n \in CommandNames : Exists(LinesOf(content)[n]) /\ Exists(seen[n]) =>
               LinesOf(content)[n] = seen[n]
         /\ \A m, n \in CommandNames :
               Exists(LinesOf(content)[m]) /\ LinesOf(content)[m] \in {LinesOf(content)[n], seen[n]} => m = n
         /\ \A n \in CommandNames : LinesOf(content)[n][2] <= stamp + 1
<1>1. stamp \in Nat /\ \A n \in CommandNames : line[n] \in Commands /\ seen[n] \in Commands
  BY WritesFacts DEF LibraryTypeOK
<1>2. \A n \in CommandNames : line[n][2] \in Nat /\ seen[n][2] \in Nat
  BY <1>1, WritesFacts DEF Commands
<1> DEFINE new(n) == IF n \in Has(content) THEN LineOf(n) ELSE <<n, 0>>
<1>3. \A n \in CommandNames : LinesOf(content)[n] = new(n)
  BY DEF LinesOf
<1> DEFINE fresh(n) == <<n, stamp + 1>>
<1>0. \A n \in CommandNames : /\ fresh(n)[1] = n /\ fresh(n)[2] = stamp + 1 /\ Exists(fresh(n))
                             /\ <<n, 0>>[2] = 0 /\ ~Exists(<<n, 0>>)
  <2>1. stamp + 1 # 0
    BY <1>1
  <2>2. ASSUME NEW n \in CommandNames
        PROVE  /\ fresh(n)[1] = n /\ fresh(n)[2] = stamp + 1 /\ Exists(fresh(n))
               /\ <<n, 0>>[2] = 0 /\ ~Exists(<<n, 0>>)
    <3>1. fresh(n)[1] = n /\ fresh(n)[2] = stamp + 1 /\ <<n, 0>>[2] = 0
      BY PairParts
    <3> HIDE DEF fresh
    <3>2. QED
      BY <2>1, <3>1 DEF Exists
  <2> HIDE DEF fresh
  <2>3. QED
    BY <2>2
<1>4. \A n \in CommandNames :
          /\ n \in Has(content) => new(n) = LineOf(n)
          /\ n \notin Has(content) => new(n) = <<n, 0>>
          /\ LineOf(n) = IF Exists(line[n]) THEN line[n] ELSE IF Exists(seen[n]) THEN seen[n] ELSE fresh(n)
  BY DEF LineOf
<1> HIDE DEF new, fresh
<1>10. \A n \in CommandNames : n \in Has(content) <=> Exists(new(n))
  <2>1. ASSUME NEW n \in CommandNames
        PROVE  n \in Has(content) <=> Exists(new(n))
    <3>1. CASE n \in Has(content)
      <4>1. Exists(LineOf(n))
        BY <1>0, <1>4
      <4>2. QED
        BY <1>4, <3>1, <4>1
    <3>2. CASE n \notin Has(content)
      <4>1. new(n) = <<n, 0>> /\ ~Exists(<<n, 0>>)
        BY <1>0, <1>4, <3>2
      <4>2. QED
        BY <3>2, <4>1
    <3>3. QED
      BY <3>1, <3>2
  <2>2. QED
    BY <2>1
<1>5. \A n \in CommandNames : Exists(new(n)) =>
               \/ Exists(seen[n]) /\ new(n) = seen[n]
               \/ Exists(line[n]) /\ new(n) = line[n]
               \/ new(n) = fresh(n) /\ ~Exists(seen[n])
  BY <1>0, <1>4
<1>6. \A n \in CommandNames : Exists(new(n)) /\ Exists(seen[n]) => new(n) = seen[n]
  BY <1>0, <1>4 DEF LineInv
<1>7. \A n \in CommandNames : new(n)[2] <= stamp + 1
  <2>1. \A n \in CommandNames : new(n) \in {line[n], seen[n], fresh(n), <<n, 0>>}
    BY <1>4
  <2>2. \A n \in CommandNames : /\ line[n][2] <= stamp + 1 /\ seen[n][2] <= stamp + 1
                               /\ fresh(n)[2] <= stamp + 1 /\ <<n, 0>>[2] <= stamp + 1
    <3>1. ASSUME NEW n \in CommandNames
          PROVE  line[n][2] <= stamp + 1 /\ seen[n][2] <= stamp + 1
      <4>1. line[n][2] <= stamp /\ seen[n][2] <= stamp /\ line[n][2] \in Nat /\ seen[n][2] \in Nat
        BY <1>2 DEF LineInv
      <4>2. QED
        BY <1>1, <4>1
    <3>2. 0 <= stamp + 1 /\ stamp + 1 <= stamp + 1
      BY <1>1
    <3>3. QED
      BY <1>0, <3>1, <3>2
  <2>3. QED
    BY <2>1, <2>2
<1>8. \A m, n \in CommandNames : Exists(new(m)) /\ new(m) \in {new(n), seen[n]} => m = n
  <2>1. SUFFICES ASSUME NEW m \in CommandNames, NEW n \in CommandNames, Exists(new(m)),
                        new(m) \in {new(n), seen[n]}
                 PROVE  m = n
    OBVIOUS
  <2>2. \A k, l \in CommandNames : fresh(k) # line[l] /\ fresh(k) # seen[l] /\ (fresh(k) = fresh(l) => k = l)
    <3>1. \A k \in CommandNames : line[k][2] # stamp + 1 /\ seen[k][2] # stamp + 1
      BY <1>1, <1>2 DEF LineInv
    <3>2. QED
      BY <1>0, <3>1
  <2>3. CASE new(m) = seen[n]
    BY <1>5, <2>1, <2>2, <2>3 DEF LineInv
  <2>4. CASE new(m) = new(n)
    BY <1>5, <2>1, <2>2, <2>4 DEF LineInv
  <2>5. QED
    BY <2>1, <2>3, <2>4
<1>9. \A n \in CommandNames : Exists(new(n)) =>
               new(n) = seen[n] \/ new(n) = line[n] \/ (new(n) = <<n, stamp + 1>> /\ ~Exists(seen[n]))
  BY <1>5 DEF fresh
<1>11. QED
  BY <1>3, <1>6, <1>7, <1>8, <1>9, <1>10

LEMMA StillNumbered ==
  ASSUME LibraryTypeOK, stamp' = stamp + 1
  PROVE  \A command \in Commands : command[2] <= stamp => command[2] <= stamp'
<1>1. stamp \in Nat /\ \A command \in Commands : command[2] \in Nat
  BY WritesFacts DEF LibraryTypeOK, Commands
<1>2. QED
  BY <1>1

(* A write that is no rename: who was seen keeps its name, the others are new. *)
LEMMA WriteLines ==
  ASSUME LibraryTypeOK, LineInv, NEW content,
         line' = LinesOf(content), UNCHANGED <<seen, given>>, stamp' = stamp + 1, file' = content
  PROVE  /\ \A n \in CommandNames : n \in Has(file)' <=> Exists(line'[n])
         /\ \A n \in CommandNames : Exists(line'[n]) /\ Exists(seen'[n]) => line'[n] = seen'[n]
         /\ \A m, n \in CommandNames :
               /\ Exists(line'[m]) /\ line'[m] \in {line'[n], seen'[n]} => m = n
               /\ Exists(seen'[m]) /\ seen'[m] = seen'[n] => m = n
         /\ \A n \in CommandNames : line'[n][2] <= stamp' /\ seen'[n][2] <= stamp'
         /\ \A r \in Roles : \A command \in given'[r] : command[2] <= stamp'
         /\ (\A r \in Roles, n \in CommandNames :
                Exists(line[n]) /\ line[n] \in given[r] => line[n] = seen[n]) =>
            \A r \in Roles, n \in CommandNames :
                Exists(line'[n]) /\ line'[n] \in given'[r] => line'[n] = seen'[n]
<1>1. /\ \A n \in CommandNames : seen[n] \in Commands /\ seen[n][2] <= stamp
      /\ \A r \in Roles : \A command \in given[r] : command \in Commands /\ command[2] <= stamp
      /\ stamp \in Nat
  BY WritesFacts DEF LibraryTypeOK, LineInv
<1>2. Has(file)' = Has(content)
  BY DEF Has
<1>3. /\ \A n \in CommandNames : n \in Has(file)' <=> Exists(line'[n])
      /\ \A n \in CommandNames : Exists(line'[n]) /\ Exists(seen'[n]) => line'[n] = seen'[n]
      /\ \A m, n \in CommandNames : Exists(line'[m]) /\ line'[m] \in {line'[n], seen'[n]} => m = n
  BY <1>2, LinesAfter
<1>4. \A m, n \in CommandNames : Exists(seen'[m]) /\ seen'[m] = seen'[n] => m = n
  BY DEF LineInv
<1>5. \A n \in CommandNames : line'[n][2] <= stamp' /\ seen'[n][2] <= stamp'
  BY <1>1, LinesAfter, StillNumbered
<1>6. \A r \in Roles : \A command \in given'[r] : command[2] <= stamp'
  BY <1>1, StillNumbered
<1>7. ASSUME \A r \in Roles, n \in CommandNames :
                Exists(line[n]) /\ line[n] \in given[r] => line[n] = seen[n],
             NEW r \in Roles, NEW n \in CommandNames, Exists(line'[n]), line'[n] \in given'[r]
      PROVE  line'[n] = seen'[n]
  <2>1. line'[n] # <<n, stamp + 1>>
    <3>1. line'[n][2] <= stamp
      BY <1>1, <1>7
    <3>2. <<n, stamp + 1>>[2] = stamp + 1
      BY PairParts
    <3>3. ~(stamp + 1 <= stamp)
      BY <1>1
    <3>4. QED
      BY <3>1, <3>2, <3>3
  <2>2. line'[n] = seen[n] \/ line'[n] = line[n]
    BY <1>7, <2>1, LinesAfter
  <2>3. QED
    BY <1>7, <2>2
<1>8. QED
  BY <1>3, <1>4, <1>5, <1>6, <1>7

(* A renamed command is the one it was, under the other name. *)
LEMMA RenameLines ==
  ASSUME LibraryTypeOK, LineInv, NEW name \in Has(file), NEW to \in CommandNames \ Has(file),
         line' = [line EXCEPT ![to] = line[name], ![name] = <<name, 0>>],
         seen' = [seen EXCEPT ![to] = line[name], ![name] = <<name, 0>>]
  PROVE  /\ name \in CommandNames /\ name # to /\ Exists(line[name])
         /\ line' \in [CommandNames -> Commands] /\ seen' \in [CommandNames -> Commands]
         /\ \A n \in CommandNames :
               /\ n = to => line'[n] = line[name] /\ seen'[n] = line[name]
               /\ n = name => ~Exists(line'[n]) /\ ~Exists(seen'[n]) /\ line'[n][2] = 0 /\ seen'[n][2] = 0
               /\ n \notin {name, to} => line'[n] = line[n] /\ seen'[n] = seen[n]
<1>1. name \in CommandNames /\ name # to /\ Exists(line[name])
  BY DEF Has, LineInv
<1>2. line \in [CommandNames -> Commands] /\ seen \in [CommandNames -> Commands] /\ <<name, 0>> \in Commands
  BY <1>1, WritesFacts DEF LibraryTypeOK, Commands
<1>3. line' \in [CommandNames -> Commands] /\ seen' \in [CommandNames -> Commands]
  BY <1>1, <1>2
<1>4. /\ line'[to] = line[name] /\ seen'[to] = line[name]
      /\ line'[name] = <<name, 0>> /\ seen'[name] = <<name, 0>>
      /\ \A n \in CommandNames \ {name, to} : line'[n] = line[n] /\ seen'[n] = seen[n]
  BY <1>1, <1>2
<1>5. <<name, 0>>[2] = 0 /\ ~Exists(<<name, 0>>)
  BY PairParts DEF Exists
<1>6. QED
  BY <1>1, <1>3, <1>4, <1>5

LEMMA SwapStep ==
  ASSUME LibraryIInv, NEW d \in Editors, Swap(d)
  PROVE  LibraryIInv'
<1> DEFINE form == editor[d].form
           new == editor[d].new
           next == [pc |-> "swapped", form |-> form, new |-> new]
<1>1. LibraryTypeOK /\ LibraryLockInv /\ EditorsInv /\ ServiceInv /\ LineInv /\ RolesInv
  BY DEF LibraryIInv
<1>2. /\ editor[d].pc = "copied" /\ Pending(d) /\ lock = d /\ EditOK(d)
      /\ form \in Forms /\ new \in Contents
      /\ editor[d] = [pc |-> "copied", form |-> form, new |-> new]
      /\ stamp \in Nat /\ memory.print \in Nat /\ stamp < MaxWrites /\ Valid(new)
  BY <1>1, StateShape, WritesFacts DEF LibraryTypeOK, LibraryLockInv, EditorsInv, EditOK, Swap, Pending
<1>3. next \in EditorStates /\ Becomes(d, next)
  <2>1. [editor[d] EXCEPT !.pc = "swapped"] = next
    BY <1>2
  <2>2. QED
    BY <1>2, <2>1, StatesBuilt DEF Swap
<1>4. /\ editor'[d] = next /\ editor' \in [Editors -> EditorStates]
      /\ \A e \in Editors \ {d} : editor'[e] = editor[e]
  BY <1>1, <1>3, Becoming
<1>5. /\ UNCHANGED <<copies, memory, lock, entries, given, spoiled>>
      /\ file' = new /\ stamp' = stamp + 1 /\ stamp' # 0 /\ stamp < stamp' /\ memory.print < stamp'
  BY <1>1, <1>2 DEF Swap, ServiceInv
<1>6. next.pc = "swapped" /\ next.form = form /\ next.new = new
  OBVIOUS
<1>7. ASSUME form.kind = "rename"
      PROVE  /\ form.name \in Has(file) /\ form.to \in CommandNames \ Has(file)
             /\ Has(file)' = (Has(file) \ {form.name}) \cup {form.to}
             /\ line' = [line EXCEPT ![form.to] = line[form.name], ![form.name] = <<form.name, 0>>]
             /\ seen' = [seen EXCEPT ![form.to] = line[form.name], ![form.name] = <<form.name, 0>>]
  <2>1. /\ form.name \in Has(file) /\ form.to \notin Has(file)
        /\ Has(new) = (Has(file) \ {form.name}) \cup {form.to}
    BY <1>2, <1>7 DEF EditOK
  <2>2. form.to \in CommandNames
    BY <1>2, <1>7, FormShape
  <2>3. Has(file)' = Has(new)
    BY <1>5 DEF Has
  <2>4. QED
    BY <1>7, <2>1, <2>2, <2>3 DEF Swap
<1>8. ASSUME form.kind # "rename"
      PROVE  line' = LinesOf(new) /\ seen' = seen
  BY <1>8 DEF Swap
<1>9. line' \in [CommandNames -> Commands] /\ seen' \in [CommandNames -> Commands]
  <2>1. CASE form.kind = "rename"
    BY <1>1, <1>7, <2>1, RenameLines
  <2>2. CASE form.kind # "rename"
    BY <1>1, <1>2, <1>8, <2>2, LinesTyped DEF LibraryTypeOK
  <2>3. QED
    BY <2>1, <2>2
<1>10. Valid(file)' /\ Has(file)' = Has(new)
  BY <1>2, <1>5 DEF Valid, Has
<1> HIDE DEF next, new, form
<1>11. LibraryTypeOK'
  BY <1>1, <1>2, <1>4, <1>5, <1>9, WritesFacts DEF LibraryTypeOK
<1>12. LibraryLockInv'
  BY <1>1, <1>2, <1>4, <1>5, <1>6 DEF LibraryLockInv
<1>13. EditorsInv'
  <2>1. ASSUME NEW e \in Editors
        PROVE  EditOK(e)' /\ LoadOK(e)' /\ GrantOK(e)'
    <3>1. CASE e = d
      BY <1>4, <1>5, <1>6, <1>10, <3>1 DEF EditOK, LoadOK, GrantOK, Pending
    <3>2. CASE e # d
      <4>1. editor'[e] = editor[e] /\ EditOK(e) /\ GrantOK(e)
        BY <1>1, <1>4, <3>2 DEF EditorsInv
      <4>2. editor[e].pc \notin {"loading", "valid", "moved", "copied", "swapped"}
        BY <1>1, <1>2, <3>2 DEF LibraryLockInv
      <4>3. EditOK(e)' /\ LoadOK(e)'
        BY <4>1, <4>2 DEF EditOK, LoadOK, Landing, Pending
      <4>4. GrantOK(e)'
        <5>1. SUFFICES ASSUME editor[e].pc = "granted", NEW command \in editor[e].means
                       PROVE  Exists(command) /\ command[2] <= stamp'
          BY <4>1 DEF GrantOK
        <5>2. command \in Commands
          BY <1>1, <5>1, StateShape DEF LibraryTypeOK
        <5>3. command[2] <= stamp /\ Exists(command)
          BY <4>1, <5>1 DEF GrantOK
        <5>4. QED
          BY <1>1, <1>5, <5>2, <5>3, StillNumbered
      <4>5. QED
        BY <4>3, <4>4
    <3>3. QED
      BY <3>1, <3>2
  <2>2. QED
    BY <2>1 DEF EditorsInv
<1>14. ServiceInv'
  <2>1. memory.print <= stamp' /\ memory.print # stamp' /\ stamp' # 0
    BY <1>2, <1>5
  <2>2. QED
    BY <1>5, <2>1 DEF ServiceInv
<1>15. \A r \in Roles : \A command \in given[r] : command[2] <= stamp'
  BY <1>1, <1>5, StillNumbered DEF LibraryTypeOK, LineInv
<1>16. \A n \in CommandNames : line[n][2] <= stamp' /\ seen[n][2] <= stamp'
  BY <1>1, <1>5, StillNumbered DEF LibraryTypeOK, LineInv
<1>17. Landing(d)' /\ ~Moving(d)'
  BY <1>4, <1>6 DEF Landing, Moving
<1>18. CASE form.kind = "rename"
  <2>1. /\ form.name \in CommandNames /\ form.name # form.to /\ Exists(line[form.name])
        /\ form.to \in CommandNames
        /\ \A n \in CommandNames :
              /\ n = form.to => line'[n] = line[form.name] /\ seen'[n] = line[form.name]
              /\ n = form.name => ~Exists(line'[n]) /\ ~Exists(seen'[n]) /\ line'[n][2] = 0 /\ seen'[n][2] = 0
              /\ n \notin {form.name, form.to} => line'[n] = line[n] /\ seen'[n] = seen[n]
    BY <1>1, <1>7, <1>18, RenameLines
  <2>2. LineInv'
    <3>1. \A n \in CommandNames : n \in Has(file)' <=> Exists(line'[n])
      BY <1>1, <1>7, <1>18, <2>1 DEF LineInv
    <3>2. \A n \in CommandNames : Exists(line'[n]) /\ Exists(seen'[n]) => line'[n] = seen'[n]
      BY <1>1, <2>1 DEF LineInv
    <3>3. \A m, n \in CommandNames :
              /\ Exists(line'[m]) /\ line'[m] \in {line'[n], seen'[n]} => m = n
              /\ Exists(seen'[m]) /\ seen'[m] = seen'[n] => m = n
      <4>1. ASSUME NEW m \in CommandNames, NEW n \in CommandNames, Exists(line'[m]),
                   line'[m] \in {line'[n], seen'[n]}
            PROVE  m = n
        BY <1>1, <2>1, <4>1 DEF LineInv
      <4>2. ASSUME NEW m \in CommandNames, NEW n \in CommandNames, Exists(seen'[m]), seen'[m] = seen'[n]
            PROVE  m = n
        BY <1>1, <2>1, <4>2 DEF LineInv
      <4>3. QED
        BY <4>1, <4>2
    <3>4. \A n \in CommandNames : line'[n][2] <= stamp' /\ seen'[n][2] <= stamp'
      <4>1. 0 <= stamp'
        BY <1>2, <1>5
      <4>2. QED
        BY <1>16, <2>1, <4>1
    <3>5. QED
      BY <1>5, <1>15, <1>17, <3>1, <3>2, <3>3, <3>4 DEF LineInv
  <2>3. RolesInv'
    <3>1. SUFFICES ASSUME ~spoiled'
                   PROVE  RolesInv'
      BY DEF RolesInv
    <3>2. Moving(d) /\ Ahead(d) /\ ~spoiled
      BY <1>1, <1>2, <1>5, <1>18, <3>1 DEF RolesInv, Moving, form
    <3>3. InStep'
      <4>1. ASSUME NEW r \in Roles, NEW n \in CommandNames
            PROVE  n \in entries'[r] <=> Holds(r, n)'
        <5>1. Holds(r, form.name) <=> line[form.name] \in given[r]
          BY <1>1, <2>1, <3>2 DEF RolesInv, LineInv, Holds
        <5>2. Holds(r, n)' <=> Exists(seen'[n]) /\ seen'[n] \in given[r]
          BY <1>5 DEF Holds
        <5>3. CASE n = form.name
          BY <1>5, <2>1, <3>2, <5>2, <5>3 DEF Ahead, form
        <5>4. CASE n = form.to
          <6>1. form.to \in entries[r] <=> Holds(r, form.name)
            BY <2>1, <3>2 DEF Ahead, form
          <6>2. QED
            BY <1>5, <2>1, <5>1, <5>2, <5>4, <6>1
        <5>5. CASE n \notin {form.name, form.to}
          BY <1>5, <2>1, <3>2, <5>2, <5>5 DEF Ahead, Holds, form
        <5>6. QED
          BY <5>3, <5>4, <5>5
      <4>2. QED
        BY <4>1 DEF InStep
    <3>4. \A e \in Editors \ {d} : editor'[e].pc \notin {"undo", "valid", "moved", "copied", "swapped"}
      BY <1>1, <1>2, <1>4, <3>2 DEF RolesInv, LibraryLockInv
    <3>5. \A r \in Roles, n \in CommandNames :
              Exists(line'[n]) /\ line'[n] \in given'[r] => line'[n] = seen'[n]
      BY <1>1, <1>5, <2>1, <3>2 DEF RolesInv
    <3>6. \A e \in Editors : ~Moving(e)'
      BY <1>17, <3>4 DEF Moving
    <3>7. \A e, f \in Editors : editor'[e].pc = "undo" /\ e # f =>
              editor'[f].pc \notin {"undo", "valid", "moved", "copied", "swapped"}
      BY <1>4, <1>6, <3>4
    <3>8. QED
      BY <3>3, <3>5, <3>6, <3>7 DEF RolesInv
  <2>4. QED
    BY <1>11, <1>12, <1>13, <1>14, <2>2, <2>3 DEF LibraryIInv
<1>19. CASE form.kind # "rename"
  <2>1. line' = LinesOf(new) /\ seen' = seen
    BY <1>8, <1>19
  <2>2. LineInv'
    BY <1>1, <1>5, <1>17, <2>1, WriteLines DEF LineInv
  <2>3. RolesInv'
    <3>1. SUFFICES ASSUME ~spoiled'
                   PROVE  RolesInv'
      BY DEF RolesInv
    <3>2. ~spoiled /\ ~Moving(d)
      BY <1>2, <1>5, <1>19, <3>1 DEF Moving, form
    <3>3. \A e \in Editors \ {d} : editor[e].pc \notin {"undo", "valid", "moved", "copied", "swapped"}
      BY <1>1, <1>2, <3>2 DEF RolesInv, LibraryLockInv
    <3>4. InStep
      BY <1>1, <3>2, <3>3 DEF RolesInv, Moving
    <3>5. InStep'
      BY <1>5, <2>1, <3>4 DEF InStep, Holds
    <3>6. \A e \in Editors : ~Moving(e)'
      BY <1>4, <1>17, <3>3 DEF Moving
    <3>7. \A e, f \in Editors : editor'[e].pc = "undo" /\ e # f =>
              editor'[f].pc \notin {"undo", "valid", "moved", "copied", "swapped"}
      BY <1>4, <1>6, <3>3
    <3>8. \A r \in Roles, n \in CommandNames :
              Exists(line'[n]) /\ line'[n] \in given'[r] => line'[n] = seen'[n]
      BY <1>1, <1>5, <2>1, <3>2, WriteLines DEF RolesInv
    <3>9. QED
      BY <3>5, <3>6, <3>7, <3>8 DEF RolesInv
  <2>4. QED
    BY <1>11, <1>12, <1>13, <1>14, <2>2, <2>3 DEF LibraryIInv
<1>20. QED
  BY <1>18, <1>19

LEMMA HandEditStep ==
  ASSUME LibraryIInv, NEW content \in HandEdits, HandEdit(content)
  PROVE  LibraryIInv'
<1>1. LibraryTypeOK /\ LibraryLockInv /\ EditorsInv /\ ServiceInv /\ LineInv /\ RolesInv
  BY DEF LibraryIInv
<1>2. /\ file' = content /\ stamp' = stamp + 1 /\ line' = LinesOf(content) /\ stamp < MaxWrites
      /\ UNCHANGED <<copies, memory, entries, lock, editor, seen, given, spoiled>>
      /\ \A e \in Editors : ~Pending(e) /\ ~Landing(e)
  BY DEF HandEdit, Writing, Pending, Landing
<1>3. /\ stamp \in Nat /\ memory.print \in Nat /\ memory.print < stamp' /\ stamp' # 0 /\ stamp <= stamp'
      /\ \A e \in Editors : editor[e].pc = "loading" /\ editor[e].print <= stamp => editor[e].print <= stamp'
  <2>1. stamp \in Nat /\ memory.print \in Nat /\ memory.print <= stamp
    BY <1>1, WritesFacts DEF LibraryTypeOK, ServiceInv
  <2>2. \A e \in Editors : editor[e].pc = "loading" => editor[e].print \in Nat
    BY <1>1, StateShape, WritesFacts DEF LibraryTypeOK
  <2>3. QED
    BY <1>2, <2>1, <2>2
<1>4. LibraryTypeOK'
  BY <1>1, <1>2, HandEditsTyped, LinesTyped, WritesFacts DEF LibraryTypeOK
<1>5. LibraryLockInv'
  BY <1>1, <1>2 DEF LibraryLockInv
<1>6. EditorsInv'
  <2>1. ASSUME NEW e \in Editors
        PROVE  EditOK(e)' /\ LoadOK(e)' /\ GrantOK(e)'
    <3>1. EditOK(e) /\ LoadOK(e) /\ GrantOK(e) /\ editor'[e] = editor[e] /\ ~Pending(e) /\ ~Landing(e)
      BY <1>1, <1>2 DEF EditorsInv
    <3>2. EditOK(e)'
      BY <3>1 DEF EditOK, Pending
    <3>3. LoadOK(e)'
      BY <1>3, <3>1 DEF LoadOK, Landing
    <3>4. GrantOK(e)'
      <4>1. SUFFICES ASSUME editor[e].pc = "granted", NEW command \in editor[e].means
                     PROVE  Exists(command) /\ command[2] <= stamp'
        BY <3>1 DEF GrantOK
      <4>2. command \in Commands
        BY <1>1, <4>1, StateShape DEF LibraryTypeOK
      <4>3. QED
        BY <1>1, <1>2, <3>1, <4>1, <4>2, StillNumbered DEF GrantOK
    <3>5. QED
      BY <3>2, <3>3, <3>4
  <2>2. QED
    BY <2>1 DEF EditorsInv
<1>7. ServiceInv'
  <2>1. memory.print <= stamp' /\ memory.print # stamp' /\ stamp' # 0
    BY <1>2, <1>3
  <2>2. QED
    BY <1>2, <2>1 DEF ServiceInv
<1>8. LineInv'
  <2>1. \A n \in Has(memory.library) : Exists(seen[n])
    BY <1>1, <1>2 DEF LineInv
  <2>2. (\A e \in Editors : ~Landing(e))' => \A n \in Has(memory.library)' : Exists(seen'[n])
    BY <1>2, <2>1 DEF Has
  <2>3. QED
    BY <1>1, <1>2, <2>2, WriteLines DEF LineInv
<1>9. RolesInv'
  <2>1. SUFFICES ASSUME ~spoiled'
                 PROVE  RolesInv'
    BY DEF RolesInv
  <2>2. ~spoiled /\ \A e \in Editors : (Moving(e)' <=> Moving(e))
    BY <1>2, <2>1 DEF Moving
  <2>3. \A e \in Editors : Moving(e)' => Ahead(e)'
    BY <1>1, <1>2, <2>2 DEF RolesInv, Ahead, Holds
  <2>4. (\A e \in Editors : ~Moving(e)') => InStep'
    BY <1>1, <1>2, <2>2 DEF RolesInv, InStep, Holds
  <2>5. \A r \in Roles, n \in CommandNames :
            Exists(line'[n]) /\ line'[n] \in given'[r] => line'[n] = seen'[n]
    BY <1>1, <1>2, <2>2, WriteLines DEF RolesInv
  <2>6. QED
    BY <1>1, <1>2, <2>2, <2>3, <2>4, <2>5 DEF RolesInv
<1>10. QED
  BY <1>4, <1>5, <1>6, <1>7, <1>8, <1>9 DEF LibraryIInv

-----------------------------------------------------------------------------
(* What a load has read replaces the library, purges the entries and is seen. *)

LEMMA LoadTextStep ==
  ASSUME LibraryIInv, NEW d \in Editors, LoadText(d)
  PROVE  LibraryIInv'
<1> DEFINE then == editor[d].then
<1>1. LibraryTypeOK /\ LibraryLockInv /\ EditorsInv /\ ServiceInv /\ LineInv /\ RolesInv
  BY DEF LibraryIInv
<1>2. /\ editor[d].pc = "loading" /\ lock = d /\ LoadOK(d) /\ editor[d].print \in Writes
      /\ then \in Settled /\ then \in EditorStates /\ then.pc \in {"idle", "page", "form", "grant"}
      /\ editor[d].print <= stamp
  BY <1>1, StateShape DEF LoadText, LibraryTypeOK, LibraryLockInv, EditorsInv, LoadOK, EditorStates
<1>3. /\ editor'[d] = then /\ editor' \in [Editors -> EditorStates]
      /\ \A e \in Editors \ {d} : editor'[e] = editor[e]
  BY <1>1, <1>2, Becoming DEF LoadText
<1> HIDE DEF then
<1>4. /\ UNCHANGED <<file, stamp, copies, line, given>> /\ lock' = Nobody
      /\ memory' = [print |-> editor[d].print, library |-> IF Valid(file) THEN file ELSE memory.library]
      /\ spoiled' = (spoiled \/ Undoing)
      /\ Valid(file) => seen' = line /\ entries' = [r \in Roles |-> entries[r] \cap Has(file)]
      /\ ~Valid(file) => seen' = seen /\ entries' = entries
  BY DEF LoadText, Files, Serviced, Purged
<1>5. memory'.print = editor[d].print /\ memory'.library = IF Valid(file) THEN file ELSE memory.library
  BY <1>4
<1>6. \A e \in Editors \ {d} : editor[e].pc \notin {"loading", "valid", "moved", "copied", "swapped"}
  BY <1>1, <1>2 DEF LibraryLockInv
<1>7. LibraryTypeOK'
  <2>1. memory' \in [print : Writes, library : {c \in Contents : Valid(c)}]
    BY <1>1, <1>2, <1>4 DEF LibraryTypeOK
  <2>2. entries' \in [Roles -> SUBSET CommandNames] /\ {line', seen'} \subseteq [CommandNames -> Commands]
    BY <1>1, <1>4 DEF LibraryTypeOK
  <2>3. {c \in Contents : Valid(c)}' = {c \in Contents : Valid(c)}
    BY DEF Valid, Has
  <2>4. QED
    BY <1>1, <1>3, <1>4, <2>1, <2>2, <2>3 DEF LibraryTypeOK
<1>8. LibraryLockInv'
  BY <1>2, <1>3, <1>4, <1>6, NobodyIsNoAdmin DEF LibraryLockInv
<1>9. EditorsInv'
  <2>1. ASSUME NEW e \in Editors
        PROVE  EditOK(e)' /\ LoadOK(e)' /\ GrantOK(e)'
    <3>1. CASE e = d
      BY <1>2, <1>3, <3>1 DEF EditOK, LoadOK, GrantOK, Pending, Landing
    <3>2. CASE e # d
      <4>1. editor'[e] = editor[e] /\ EditOK(e) /\ GrantOK(e)
        BY <1>1, <1>3, <3>2 DEF EditorsInv
      <4>2. EditOK(e)' /\ LoadOK(e)'
        BY <1>6, <3>2, <4>1 DEF EditOK, LoadOK, Pending, Landing
      <4>3. GrantOK(e)'
        BY <1>4, <4>1 DEF GrantOK
      <4>4. QED
        BY <4>2, <4>3
    <3>3. QED
      BY <3>1, <3>2
  <2>2. QED
    BY <2>1 DEF EditorsInv
<1>10. ServiceInv'
  BY <1>1, <1>2, <1>4, <1>5 DEF ServiceInv, Valid, Has
<1>11. LineInv'
  <2>1. CASE Valid(file)
    <3>1. seen' = line /\ memory'.library = file
      BY <1>4, <1>5, <2>1
    <3>2. \A n \in Has(memory.library)' : Exists(seen'[n])
      BY <1>1, <3>1 DEF LineInv, Has
    <3>3. QED
      BY <1>1, <1>4, <3>1, <3>2 DEF LineInv, Has
  <2>2. CASE ~Valid(file)
    <3>1. seen' = seen /\ memory'.library = memory.library /\ \A e \in Editors : ~Landing(e)
      BY <1>1, <1>4, <1>5, <2>2 DEF EditorsInv, LoadOK
    <3>2. \A n \in Has(memory.library)' : Exists(seen'[n])
      BY <1>1, <3>1 DEF LineInv, Has
    <3>3. QED
      BY <1>1, <1>4, <3>1, <3>2 DEF LineInv, Has
  <2>3. QED
    BY <2>1, <2>2
<1>12. RolesInv'
  <2>1. SUFFICES ASSUME ~spoiled'
                 PROVE  RolesInv'
    BY DEF RolesInv
  <2>2. ~spoiled /\ \A e \in Editors : editor[e].pc # "undo"
    BY <1>4, <2>1 DEF Undoing
  <2>3. \A e \in Editors : ~Moving(e)
    BY <1>2, <1>6, <2>2 DEF Moving
  <2>4. InStep /\ \A r \in Roles, n \in CommandNames :
            Exists(line[n]) /\ line[n] \in given[r] => line[n] = seen[n]
    BY <1>1, <2>2, <2>3 DEF RolesInv
  <2>5. \A e \in Editors : ~Moving(e)' /\ editor'[e].pc # "undo"
    BY <1>2, <1>3, <2>2, <2>3 DEF Moving
  <2>6. InStep' /\ \A r \in Roles, n \in CommandNames :
            Exists(line'[n]) /\ line'[n] \in given'[r] => line'[n] = seen'[n]
    <3>1. CASE Valid(file)
      <4>1. ASSUME NEW r \in Roles, NEW n \in CommandNames
            PROVE  n \in entries'[r] <=> Holds(r, n)'
        <5>1. n \in entries'[r] <=> n \in entries[r] /\ Exists(line[n])
          BY <1>1, <1>4, <3>1 DEF LineInv
        <5>2. Holds(r, n)' <=> Exists(line[n]) /\ line[n] \in given[r]
          BY <1>4, <3>1 DEF Holds
        <5>3. n \in entries[r] <=> Holds(r, n)
          BY <2>4 DEF InStep
        <5>4. QED
          BY <1>1, <2>4, <5>1, <5>2, <5>3 DEF LineInv, Holds
      <4>2. QED
        BY <1>4, <3>1, <4>1 DEF InStep
    <3>2. CASE ~Valid(file)
      BY <1>4, <2>4, <3>2 DEF InStep, Holds
    <3>3. QED
      BY <3>1, <3>2
  <2>7. QED
    BY <2>5, <2>6 DEF RolesInv
<1>13. QED
  BY <1>7, <1>8, <1>9, <1>10, <1>11, <1>12 DEF LibraryIInv

-----------------------------------------------------------------------------
(* A role's rows are replaced, and the process starts again. *)

LEMMA ReplaceRowsStep ==
  ASSUME LibraryIInv, NEW d \in Editors, ReplaceRows(d)
  PROVE  LibraryIInv'
<1> DEFINE role == editor[d].role
           set == editor[d].set
           means == editor[d].means
<1>1. LibraryTypeOK /\ LibraryLockInv /\ EditorsInv /\ ServiceInv /\ LineInv /\ RolesInv
  BY DEF LibraryIInv
<1>2. /\ editor[d].pc = "granted" /\ role \in Roles /\ set \in SUBSET CommandNames
      /\ means \in SUBSET Commands /\ GrantOK(d)
  BY <1>1, StateShape DEF ReplaceRows, LibraryTypeOK, EditorsInv
<1>3. /\ editor'[d] = Page /\ editor' \in [Editors -> EditorStates] /\ Page.pc = "page"
      /\ \A e \in Editors \ {d} : editor'[e] = editor[e]
  <2>1. Page \in EditorStates /\ Page.pc = "page" /\ Becomes(d, Page)
    BY StatesBuilt DEF Page, ReplaceRows
  <2>2. QED
    BY <1>1, <2>1, Becoming
<1>4. /\ UNCHANGED <<file, stamp, copies, line, memory, lock, seen>>
      /\ entries' = [entries EXCEPT ![role] = set] /\ given' = [given EXCEPT ![role] = means]
      /\ spoiled' \in BOOLEAN
      /\ ~spoiled' => ~spoiled /\ ~Undoing /\ lock = Nobody /\ {seen[n] : n \in set} = means
  BY <1>1 DEF ReplaceRows, Files, LibraryTypeOK
<1>5. \A command \in means : Exists(command) /\ command[2] <= stamp
  BY <1>2 DEF GrantOK
<1> HIDE DEF role, set, means
<1>6. /\ \A r \in Roles : /\ r = role => entries'[r] = set /\ given'[r] = means
                          /\ r # role => entries'[r] = entries[r] /\ given'[r] = given[r]
      /\ entries' \in [Roles -> SUBSET CommandNames] /\ given' \in [Roles -> SUBSET Commands]
  BY <1>1, <1>2, <1>4 DEF LibraryTypeOK
<1>7. LibraryTypeOK'
  BY <1>1, <1>3, <1>4, <1>6 DEF LibraryTypeOK
<1>8. LibraryLockInv'
  BY <1>1, <1>2, <1>3, <1>4 DEF LibraryLockInv
<1>9. EditorsInv'
  <2>1. ASSUME NEW e \in Editors
        PROVE  EditOK(e)' /\ LoadOK(e)' /\ GrantOK(e)'
    <3>1. CASE e = d
      BY <1>3, <3>1 DEF EditOK, LoadOK, GrantOK, Pending, Landing
    <3>2. CASE e # d
      <4>1. editor'[e] = editor[e] /\ EditOK(e) /\ LoadOK(e) /\ GrantOK(e)
        BY <1>1, <1>3, <3>2 DEF EditorsInv
      <4>2. EditOK(e)'
        BY <1>4, <4>1 DEF EditOK, Pending, Has, Valid
      <4>3. LoadOK(e)'
        BY <1>4, <4>1 DEF LoadOK, Landing, Has, Valid
      <4>4. GrantOK(e)'
        BY <1>4, <4>1 DEF GrantOK
      <4>5. QED
        BY <4>2, <4>3, <4>4
    <3>3. QED
      BY <3>1, <3>2
  <2>2. QED
    BY <2>1 DEF EditorsInv
<1>10. ServiceInv'
  BY <1>1, <1>4 DEF ServiceInv, Valid, Has
<1>11. LineInv'
  <2>1. (\A e \in Editors : ~Landing(e)') => \A e \in Editors : ~Landing(e)
    BY <1>2, <1>3 DEF Landing
  <2>2. \A r \in Roles : \A command \in given'[r] : command[2] <= stamp'
    BY <1>1, <1>4, <1>5, <1>6 DEF LineInv
  <2>3. QED
    BY <1>1, <1>4, <2>1, <2>2 DEF LineInv, Has
<1>12. RolesInv'
  <2>1. SUFFICES ASSUME ~spoiled'
                 PROVE  RolesInv'
    BY DEF RolesInv
  <2>2. ~spoiled /\ ~Undoing /\ lock = Nobody /\ {seen[n] : n \in set} = means
    BY <1>4, <2>1
  <2>3. \A e \in Editors : editor[e].pc \notin {"loading", "valid", "moved", "copied", "swapped", "undo"}
    BY <1>1, <2>2, NobodyIsNoAdmin DEF LibraryLockInv, Undoing
  <2>4. \A e \in Editors : ~Moving(e)
    BY <2>3 DEF Moving
  <2>5. InStep /\ \A r \in Roles, n \in CommandNames :
            Exists(line[n]) /\ line[n] \in given[r] => line[n] = seen[n]
    BY <1>1, <2>2, <2>4 DEF RolesInv
  <2>6. \A e \in Editors : ~Moving(e)' /\ editor'[e].pc # "undo"
    BY <1>3, <2>3 DEF Moving
  <2>7. ASSUME NEW n \in CommandNames
        PROVE  /\ n \in set <=> Exists(seen[n]) /\ seen[n] \in means
               /\ Exists(line[n]) /\ line[n] \in means => line[n] = seen[n]
    <3>1. \A m \in set : m \in CommandNames /\ seen[m] \in means /\ Exists(seen[m])
      BY <1>2, <1>5, <2>2 DEF set
    <3>2. \A command \in means : \E m \in set : command = seen[m]
      BY <2>2
    <3>3. QED
      BY <1>1, <3>1, <3>2 DEF LineInv
  <2>8. InStep'
    <3>1. ASSUME NEW r \in Roles, NEW n \in CommandNames
          PROVE  n \in entries'[r] <=> Holds(r, n)'
      <4>1. Holds(r, n)' <=> Exists(seen[n]) /\ seen[n] \in given'[r]
        BY <1>4 DEF Holds
      <4>2. CASE r = role
        BY <1>6, <2>7, <4>1, <4>2
      <4>3. CASE r # role
        BY <1>6, <2>5, <4>1, <4>3 DEF InStep, Holds
      <4>4. QED
        BY <4>2, <4>3
    <3>2. QED
      BY <3>1 DEF InStep
  <2>9. \A r \in Roles, n \in CommandNames :
            Exists(line'[n]) /\ line'[n] \in given'[r] => line'[n] = seen'[n]
    <3>1. ASSUME NEW r \in Roles, NEW n \in CommandNames, Exists(line[n]), line[n] \in given'[r]
          PROVE  line[n] = seen[n]
      <4>1. CASE r = role
        BY <1>6, <2>7, <3>1, <4>1
      <4>2. CASE r # role
        BY <1>6, <2>5, <3>1, <4>2
      <4>3. QED
        BY <4>1, <4>2
    <3>2. QED
      BY <1>4, <3>1
  <2>10. QED
    BY <2>6, <2>8, <2>9 DEF RolesInv
<1>13. QED
  BY <1>7, <1>8, <1>9, <1>10, <1>11, <1>12 DEF LibraryIInv

LEMMA BlankTyped == Blank \in Contents /\ Valid(Blank) /\ Has(Blank) = {}
BY WritesFacts DEF Blank, Contents, Valid, Has

LEMMA RestartStep ==
  ASSUME LibraryIInv, Restart
  PROVE  LibraryIInv'
<1>1. LibraryTypeOK /\ LibraryLockInv /\ EditorsInv /\ ServiceInv /\ LineInv /\ RolesInv
  BY DEF LibraryIInv
<1>2. /\ UNCHANGED <<file, stamp, copies, line, entries, seen, given>> /\ lock' = Nobody
      /\ memory' = [print |-> 0, library |-> Blank]
      /\ spoiled' = (spoiled \/ Undoing \/ Renaming)
      /\ memory'.print = 0 /\ memory'.library = Blank
  BY DEF Restart, Files
<1>3. /\ editor' \in [Editors -> EditorStates]
      /\ \A e \in Editors : editor'[e].pc \in {"form", "idle"}
  BY <1>1, StatesBuilt DEF Restart, AtRest, LibraryTypeOK
<1>4. LibraryTypeOK'
  <2>1. {c \in Contents : Valid(c)}' = {c \in Contents : Valid(c)}
    BY DEF Valid, Has
  <2>2. memory' \in [print : Writes, library : {c \in Contents : Valid(c)}]
    BY <1>2, BlankTyped, WritesFacts
  <2>3. QED
    BY <1>1, <1>2, <1>3, <2>1, <2>2 DEF LibraryTypeOK
<1>5. LibraryLockInv'
  BY <1>2, <1>3, NobodyIsNoAdmin DEF LibraryLockInv
<1>6. EditorsInv'
  BY <1>3 DEF EditorsInv, EditOK, LoadOK, GrantOK, Pending, Landing
<1>7. ServiceInv'
  <2>1. 0 <= stamp
    BY <1>1, WritesFacts DEF LibraryTypeOK
  <2>2. QED
    BY <1>1, <1>2, <2>1 DEF ServiceInv
<1>8. LineInv'
  <2>1. Has(memory.library)' = {}
    BY <1>2, BlankTyped DEF Has
  <2>2. QED
    BY <1>1, <1>2, <2>1 DEF LineInv, Has
<1>9. RolesInv'
  <2>1. SUFFICES ASSUME ~spoiled'
                 PROVE  RolesInv'
    BY DEF RolesInv
  <2>2. ~spoiled /\ \A e \in Editors : ~Moving(e)
    BY <1>2, <2>1 DEF Undoing, Renaming, Moving
  <2>3. InStep /\ \A r \in Roles, n \in CommandNames :
            Exists(line[n]) /\ line[n] \in given[r] => line[n] = seen[n]
    BY <1>1, <2>2 DEF RolesInv
  <2>4. \A e \in Editors : ~Moving(e)' /\ editor'[e].pc # "undo"
    BY <1>3 DEF Moving
  <2>5. QED
    BY <1>2, <2>3, <2>4 DEF RolesInv, InStep, Holds
<1>10. QED
  BY <1>4, <1>5, <1>6, <1>7, <1>8, <1>9 DEF LibraryIInv

-----------------------------------------------------------------------------
(* The theorems about CommandLibrary. *)

LEMMA LibraryIInvInit == LibraryInit => LibraryIInv
<1> SUFFICES ASSUME LibraryInit
             PROVE  LibraryIInv
  OBVIOUS
<1>1. PICK first \in SUBSET CommandNames :
        /\ stamp = IF first = {} THEN 0 ELSE 1
        /\ file = [text |-> [n \in CommandNames |-> IF n \in first THEN 1 ELSE 0],
                   offers |-> [h \in Hosts |-> first], readable |-> TRUE]
        /\ line = [n \in CommandNames |-> <<n, file.text[n]>>]
  BY DEF LibraryInit
<1>2. /\ memory = [print |-> 0, library |-> Blank] /\ memory.print = 0 /\ memory.library = Blank
      /\ copies = << >> /\ entries = [r \in Roles |-> {}] /\ lock = Nobody
      /\ editor = [d \in Editors |-> AtRest] /\ \A d \in Editors : editor[d].pc = "idle"
      /\ seen = [n \in CommandNames |-> <<n, 0>>] /\ given = [r \in Roles |-> {}] /\ spoiled = FALSE
  BY DEF LibraryInit, AtRest
<1>3. /\ file.text \in [CommandNames -> Writes] /\ stamp \in Writes /\ file \in Contents
      /\ \A n \in CommandNames : file.text[n] <= stamp
  <2>1. file.text = [n \in CommandNames |-> IF n \in first THEN 1 ELSE 0]
        /\ file.offers = [h \in Hosts |-> first] /\ file.readable = TRUE
    BY <1>1
  <2>2. file.text \in [CommandNames -> Writes] /\ stamp \in Writes
    BY <1>1, <2>1, WritesFacts
  <2>3. file \in Contents
    BY <1>1, <2>1, <2>2 DEF Contents
  <2>4. ASSUME NEW n \in CommandNames
        PROVE  file.text[n] <= stamp
    <3>1. CASE n \in first
      BY <1>1, <2>1, <3>1
    <3>2. CASE n \notin first
      BY <1>1, <2>1, <3>2
    <3>3. QED
      BY <3>1, <3>2
  <2>5. QED
    BY <2>2, <2>3, <2>4
<1>4. \A n \in CommandNames : /\ line[n] = <<n, file.text[n]>> /\ seen[n] = <<n, 0>>
                             /\ line[n][1] = n /\ line[n][2] = file.text[n] /\ seen[n][2] = 0
                             /\ ~Exists(seen[n]) /\ (Exists(line[n]) <=> n \in Has(file))
  <2>1. ASSUME NEW n \in CommandNames
        PROVE  /\ line[n] = <<n, file.text[n]>> /\ seen[n] = <<n, 0>>
               /\ line[n][1] = n /\ line[n][2] = file.text[n] /\ seen[n][2] = 0
    <3>1. line[n] = <<n, file.text[n]>> /\ seen[n] = <<n, 0>>
      BY <1>1, <1>2
    <3>2. QED
      BY <3>1, PairParts
  <2>2. QED
    BY <2>1 DEF Exists, Has
<1>5. LibraryTypeOK
  <2>1. memory \in [print : Writes, library : {c \in Contents : Valid(c)}]
    BY <1>2, BlankTyped, WritesFacts
  <2>2. copies \in Seq(Contents) /\ Len(copies) <= Keep
    BY <1>2, SomeCopyIsKept
  <2>3. editor \in [Editors -> EditorStates]
    BY <1>2, StatesBuilt
  <2>4. line \in [CommandNames -> Commands] /\ seen \in [CommandNames -> Commands]
    BY <1>1, <1>2, <1>3, WritesFacts DEF Commands
  <2>5. QED
    BY <1>2, <1>3, <2>1, <2>2, <2>3, <2>4 DEF LibraryTypeOK
<1>6. LibraryLockInv
  BY <1>2, NobodyIsNoAdmin DEF LibraryLockInv
<1>7. EditorsInv
  BY <1>2 DEF EditorsInv, EditOK, LoadOK, GrantOK, Pending, Landing
<1>8. ServiceInv
  <2>1. 0 <= stamp /\ (stamp = 0 => first = {})
    BY <1>1
  <2>2. stamp = 0 => file = Blank
    BY <1>1, <2>1 DEF Blank
  <2>3. QED
    BY <1>2, <2>1, <2>2 DEF ServiceInv
<1>9. LineInv
  <2>1. \A n \in CommandNames : line[n][2] <= stamp /\ seen[n][2] <= stamp
    <3>1. 0 <= stamp
      BY <1>3, WritesFacts
    <3>2. ASSUME NEW n \in CommandNames
          PROVE  line[n][2] <= stamp /\ seen[n][2] <= stamp
      <4>1. line[n][2] = file.text[n] /\ seen[n][2] = 0 /\ file.text[n] <= stamp
        BY <1>3, <1>4
      <4>2. QED
        BY <3>1, <4>1
    <3>3. QED
      BY <3>2
  <2>2. \A m, n \in CommandNames : Exists(line[m]) /\ line[m] \in {line[n], seen[n]} => m = n
    BY <1>4
  <2>3. Has(memory.library) = {}
    BY <1>2, BlankTyped
  <2>4. QED
    BY <1>2, <1>4, <2>1, <2>2, <2>3 DEF LineInv
<1>10. RolesInv
  BY <1>2, <1>4 DEF RolesInv, Moving, InStep, Holds
<1>11. QED
  BY <1>5, <1>6, <1>7, <1>8, <1>9, <1>10 DEF LibraryIInv

LEMMA LibraryIInvStep == LibraryIInv /\ [LibraryNext]_libraryVars => LibraryIInv'
<1> SUFFICES ASSUME LibraryIInv, [LibraryNext]_libraryVars
             PROVE  LibraryIInv'
  OBVIOUS
<1>1. ASSUME NEW d \in Editors, ListCommands(d) \/ Step(d)
      PROVE  LibraryIInv'
  BY <1>1, ListStep, LoadTextStep, MoveRolesStep, KeepCopyStep, SwapStep, LoadNewStep, WriteFailsStep,
     UndoMoveStep, LoadOnTheWayStep, CheckKnownStep, ReplaceRowsStep DEF Step
<1>2. ASSUME NEW d \in Editors, Edit(d)
      PROVE  LibraryIInv'
  BY <1>2, LoadOnTheWayStep, CheckNameStep, BeginStep, RefuseStep DEF Edit
<1>3. CASE UNCHANGED libraryVars
  BY <1>3 DEF libraryVars, LibraryIInv, LibraryTypeOK, LibraryLockInv, EditorsInv, EditOK, LoadOK, GrantOK,
     Pending, Landing, ServiceInv, LineInv, RolesInv, Moving, InStep, Ahead, Holds, Has, Valid
<1>4. QED
  BY <1>1, <1>2, <1>3, FillInStep, ChooseStep, HandEditStep, RestartStep DEF LibraryNext

(* What every thread, the file and the roles rest on holds at every step. *)
THEOREM LibraryInductive == LibrarySpec => []LibraryIInv
BY LibraryIInvInit, LibraryIInvStep, PTL DEF LibrarySpec

(* The file, its copies, the library in service and the rows keep their      *)
(* types; what is in service has always passed validate().                   *)
THEOREM LibraryTypeCorrect == LibrarySpec => []LibraryTypeOK
<1>1. LibraryIInv => LibraryTypeOK
  BY DEF LibraryIInv
<1>2. QED
  BY <1>1, LibraryInductive, PTL

LEMMA QuietFollows ==
  ASSUME LibraryIInv, Quiet
  PROVE  /\ InStep
         /\ \A r \in Roles, n \in CommandNames :
               Exists(line[n]) /\ line[n] \in given[r] => line[n] = seen[n]
<1>1. \A d \in Editors : ~Moving(d)
  BY NobodyIsNoAdmin DEF Quiet, Undoing, Moving, LibraryIInv, LibraryLockInv
<1>2. QED
  BY <1>1 DEF Quiet, LibraryIInv, RolesInv

(* purge_missing_commands, rename_role_command: through renames, hand edits, *)
(* broken files, loads and restarts a role's entries are commands it was     *)
(* given, unless a rename or its clean-up was crossed or cut short.          *)
THEOREM RolesHold == LibrarySpec => []RolesHoldWhatTheyWereGiven
<1>1. LibraryIInv => RolesHoldWhatTheyWereGiven
  BY QuietFollows DEF RolesHoldWhatTheyWereGiven, InStep, Holds, Has
<1>2. QED
  BY <1>1, LibraryInductive, PTL

(* rename_role_command, README.md:136-138: and it keeps every command it was *)
(* given for as long as the file has it.                                     *)
THEOREM RolesKeep == LibrarySpec => []RolesKeepWhatTheyWereGiven
<1>1. ASSUME LibraryIInv, Quiet, NEW r \in Roles, NEW n \in Has(file), line[n] \in given[r]
      PROVE  n \in entries[r]
  <2>1. n \in CommandNames /\ Exists(line[n])
    BY <1>1 DEF LibraryIInv, LineInv, Has
  <2>2. line[n] = seen[n]
    BY <1>1, <2>1, QuietFollows
  <2>3. QED
    BY <1>1, <2>1, <2>2, QuietFollows DEF InStep, Holds
<1>2. LibraryIInv => RolesKeepWhatTheyWereGiven
  BY <1>1 DEF RolesKeepWhatTheyWereGiven
<1>3. QED
  BY <1>2, LibraryInductive, PTL

(* load(): a library whose fingerprint is that of the file is the file.      *)
THEOREM ServesTheFile == LibrarySpec => []InServiceIsTheFile
<1>1. LibraryIInv => InServiceIsTheFile
  BY DEF LibraryIInv, ServiceInv, InServiceIsTheFile
<1>2. QED
  BY <1>1, LibraryInductive, PTL

(* _modify: no save, rename, restore or change of a host replaces a version  *)
(* of the file other than the one its form carries.                          *)
THEOREM ReplacesVersion == LibrarySpec => ReplacesItsVersion
<1>1. ASSUME LibraryIInv, NEW d \in Editors, Swapping(d), editor[d].form.kind # "delete"
      PROVE  file = editor[d].form.base
  BY <1>1 DEF LibraryIInv, EditorsInv, EditOK, Pending, Swapping
<1>2. ASSUME LibraryIInv, [LibraryNext]_libraryVars
      PROVE  [\A d \in Editors : (Swapping(d) /\ editor[d].form.kind # "delete") =>
                 file = editor[d].form.base]_libraryVars
  BY <1>1, <1>2
<1>3. QED
  BY <1>2, LibraryInductive, PTL DEF LibrarySpec, ReplacesItsVersion

-----------------------------------------------------------------------------
(* HostPasswords: type correctness. *)

LEMMA TypeInit == Init => TypeOK
BY SavesAreCounted DEF Init, TypeOK, Idle, AdminStates, RunStates, Typed

LEMMA TypeAdmin ==
  ASSUME TypeOK, NEW d \in Admins, AdminMoves(d)
  PROVE  TypeOK'
<1> USE SavesAreCounted
<1>1. Idle \in AdminStates
  BY DEF AdminStates
<1>2. ASSUME NEW n \in Names, OpenForm(d, n)
      PROVE  TypeOK'
  <2>1. [pc |-> "form", name |-> n, base |-> library] \in AdminStates
    BY DEF TypeOK, AdminStates
  <2>2. QED
    BY <1>2, <2>1 DEF TypeOK, OpenForm, Goes
<1>3. ASSUME NEW n \in Names, DeleteHost(d, n)
      PROVE  TypeOK'
  <2>1. [pc |-> "deleted", name |-> n] \in AdminStates
    BY DEF AdminStates
  <2>2. crossed' \subseteq Admins
    BY <1>3 DEF TypeOK, DeleteHost, Under
  <2>3. QED
    BY <1>3, <2>1, <2>2 DEF TypeOK, DeleteHost, Goes, Change
<1>4. ASSUME NEW host \in Host, NEW typed \in Typed, Submit(d, host, typed)
      PROVE  TypeOK'
  <2>1. admin[d] \in [pc : {"form"}, name : Names, base : [Names -> Host \cup {None}]]
    BY <1>4 DEF TypeOK, Submit, AdminStates, Idle
  <2>2. [pc |-> "checked", name |-> admin[d].name, base |-> admin[d].base, host |-> host,
         typed |-> typed] \in AdminStates
    BY <2>1 DEF AdminStates
  <2>3. QED
    BY <1>4, <2>2 DEF TypeOK, Submit, Goes
<1>5. CASE WriteHost(d)
  <2>1. /\ admin[d].name \in Names /\ admin[d].host \in Host /\ admin[d].typed \in Typed
    BY <1>5 DEF TypeOK, WriteHost, AdminStates, Idle
  <2>2. [pc |-> "written", name |-> admin[d].name, host |-> admin[d].host,
         typed |-> admin[d].typed] \in AdminStates
    BY <2>1 DEF AdminStates
  <2>3. crossed' \subseteq Admins
    BY <1>5 DEF TypeOK, WriteHost, Crosses, Under
  <2>4. QED
    BY <1>5, <2>1, <2>2, <2>3 DEF TypeOK, WriteHost, Goes, Change
<1>6. CASE SavePassword(d)
  <2>1. /\ admin[d].name \in Names /\ admin[d].host \in Host /\ admin[d].typed \in Typed
    BY <1>6 DEF TypeOK, SavePassword, AdminStates, Idle
  <2>2. Secret(d) \in Typed
    BY <2>1 DEF TypeOK, Secret, Typed
  <2>3. Meant(d) \in Typed
    <3>1. paired[admin[d].name] = None \/ paired[admin[d].name][2] \in Typed
      BY <2>1 DEF TypeOK
    <3>2. QED
      BY <2>1, <3>1 DEF Meant, Typed
  <2>4. <<admin[d].host.address, Meant(d)>> \in Addresses \X Typed
    BY <2>1, <2>3 DEF Host
  <2>5. crossed' \subseteq Admins /\ disturbed' \subseteq Names
    BY <1>6, <2>1 DEF TypeOK, SavePassword, Crosses, Settles, Under
  <2>6. QED
    BY <1>1, <1>6, <2>1, <2>2, <2>4, <2>5 DEF TypeOK, SavePassword, Goes
<1>7. CASE ClearPassword(d)
  <2>1. admin[d].name \in Names
    BY <1>7 DEF TypeOK, ClearPassword, AdminStates, Idle
  <2>2. crossed' \subseteq Admins /\ disturbed' \subseteq Names
    BY <1>7, <2>1 DEF TypeOK, ClearPassword, Crosses, Settles, Under
  <2>3. QED
    BY <1>1, <1>7, <2>1, <2>2 DEF TypeOK, ClearPassword, Goes, Typed
<1>8. CASE GivesUp(d)
  <2>1. admin[d].name \in Names
    BY <1>8 DEF TypeOK, GivesUp, AdminStates, Idle
  <2>2. QED
    BY <1>1, <1>8, <2>1 DEF TypeOK, GivesUp, Goes
<1>9. QED
  BY <1>2, <1>3, <1>4, <1>5, <1>6, <1>7, <1>8 DEF AdminMoves

LEMMA TypeRun ==
  ASSUME TypeOK, NEW r \in Runs, (\E n \in Names : Call(r, n)) \/ Start(r) \/ Leave(r)
  PROVE  TypeOK'
<1>1. ASSUME NEW n \in Names, Call(r, n)
      PROVE  TypeOK'
  <2>1. library[n] \in Host
    BY <1>1 DEF TypeOK, Call
  <2>2. [pc |-> "called", name |-> n, host |-> library[n]] \in RunStates
    BY <2>1 DEF RunStates
  <2>3. QED
    BY <1>1, <2>2 DEF TypeOK, Call
<1>2. CASE Start(r)
  <2>1. run[r] \in [pc : {"called"}, name : Names, host : Host]
    BY <1>2 DEF TypeOK, Start, RunStates, Idle
  <2>2. HandedOver(r) \in Typed
    BY <2>1 DEF TypeOK, HandedOver, Typed
  <2>3. [pc |-> "signing in", name |-> run[r].name, host |-> run[r].host,
         password |-> HandedOver(r)] \in RunStates
    BY <2>1, <2>2 DEF RunStates
  <2>4. QED
    BY <1>2, <2>3 DEF TypeOK, Start
<1>3. CASE Leave(r)
  BY <1>3 DEF TypeOK, Leave, RunStates
<1>4. QED
  BY <1>1, <1>2, <1>3

LEMMA TypeStep ==
  ASSUME TypeOK, [Next]_vars
  PROVE  TypeOK'
<1>1. ASSUME NEW n \in Names, NEW host \in Host \cup {None}, ChangeElsewhere(n, host)
      PROVE  TypeOK'
  BY <1>1, SavesAreCounted DEF TypeOK, ChangeElsewhere, Change, Under
<1>2. CASE Crash
  BY <1>2 DEF TypeOK, Crash, AdminStates, RunStates
<1>3. CASE UNCHANGED vars
  BY <1>3 DEF TypeOK, vars
<1>4. QED
  BY <1>1, <1>2, <1>3, TypeAdmin, TypeRun DEF Next

-----------------------------------------------------------------------------
(* Hosts and passwords. *)

PairsInv == CrossInv /\ PasswordsFollowHosts /\ PairInv

(* Only the admin who moves comes to be, or ceases to be, between the file   *)
(* and the database.                                                         *)
LEMMA HalfDoneAfter ==
  ASSUME TypeOK, NEW d \in Admins, NEW next, Goes(d, next), NEW n \in Names
  PROVE  HalfDone(n)' = IF next # Idle /\ next.pc \in {"written", "deleted"} /\ next.name = n
                        THEN HalfDone(n) \cup {d} ELSE HalfDone(n) \ {d}
BY DEF TypeOK, Goes, HalfDone, At

(* Whoever is at another host than one that is written is left alone, and    *)
(* whoever is at that one is crossed.                                        *)
LEMMA OthersAlone ==
  ASSUME TypeOK, CrossInv, NEW d \in Admins, NEW next, Goes(d, next), NEW n \in Names,
         (crossed \ {d}) \cup (Under(n) \ {d}) \subseteq crossed',
         \A m \in Names \ {n} :
             HalfDone(m)' = HalfDone(m) /\ library'[m] = library[m] /\ stored'[m] = stored[m]
  PROVE  \A e \in Admins \ (crossed' \cup {d}), m \in Names : Alone(e, m)'
<1>1. SUFFICES ASSUME NEW e \in Admins \ (crossed' \cup {d}), NEW m \in Names,
                      At(e, {"checked", "written", "deleted"}, m)'
               PROVE  Alone(e, m)'
  BY DEF Alone, At
<1>2. admin'[e] = admin[e] /\ e \notin crossed /\ At(e, {"checked", "written", "deleted"}, m)
  BY <1>1 DEF TypeOK, Goes, At
<1>3. m # n
  BY <1>1, <1>2 DEF Under
<1>4. Alone(e, m)
  BY <1>2 DEF CrossInv
<1>5. QED
  BY <1>2, <1>3, <1>4 DEF Alone, At

LEMMA WriteHostStep ==
  ASSUME TypeOK, PairsInv, NEW d \in Admins, WriteHost(d)
  PROVE  PairsInv'
<1>1. PICK n \in Names, host \in Host, typed \in Typed :
        /\ n = admin[d].name /\ host = admin[d].host /\ typed = admin[d].typed
        /\ At(d, {"checked"}, n)
  BY DEF TypeOK, WriteHost, AdminStates, Idle, At
<1> DEFINE next == [pc |-> "written", name |-> n, host |-> host, typed |-> typed]
<1>2. /\ Goes(d, next) /\ library' = [library EXCEPT ![n] = host]
      /\ crossed' = crossed \cup (Under(n) \ {d})
      /\ stored' = stored /\ paired' = paired /\ disturbed' = disturbed
  BY <1>1 DEF WriteHost, Crosses
<1>3. next # Idle
  BY DEF Idle
<1>4. /\ HalfDone(n)' = HalfDone(n) \cup {d} /\ d \notin HalfDone(n)
      /\ \A m \in Names \ {n} : HalfDone(m)' = HalfDone(m)
  <2>1. \A m \in Names : d \notin HalfDone(m)
    BY <1>1 DEF HalfDone, At
  <2>2. QED
    BY <1>2, <1>3, <2>1, HalfDoneAfter
<1>5. CrossInv'
  <2>1. \A e \in Admins \ (crossed' \cup {d}), m \in Names : Alone(e, m)'
    BY <1>2, <1>4, OthersAlone DEF TypeOK, PairsInv
  <2>2. ASSUME d \notin crossed', NEW m \in Names
        PROVE  Alone(d, m)'
    <3>1. admin'[d] = next
      BY <1>2 DEF TypeOK, Goes
    <3>2. HalfDone(n) = {} /\ (host.auth = "password" => typed # None \/ stored[n] # None)
      BY <1>1, <1>2, <2>2 DEF PairsInv, CrossInv, Alone, At
    <3>3. HalfDone(n)' = {d} /\ library'[n] = host
      BY <1>2, <1>4, <3>2 DEF TypeOK
    <3>4. QED
      BY <1>2, <3>1, <3>2, <3>3 DEF Alone, At
  <2>3. QED
    BY <2>1, <2>2 DEF CrossInv
<1>6. PasswordsFollowHosts'
  BY <1>2, <1>4 DEF TypeOK, PairsInv, PasswordsFollowHosts
<1>7. PairInv'
  <2>1. HalfDone(n)' \cap crossed' = {} => HalfDone(n) \cap crossed = {}
    BY <1>2, <1>4
  <2>2. \A m \in Names \ {n} :
            /\ library'[m] = library[m]
            /\ HalfDone(m)' \cap crossed' = {} => HalfDone(m) \cap crossed = {}
    BY <1>2, <1>4 DEF TypeOK
  <2>3. QED
    BY <1>2, <1>4, <2>1, <2>2 DEF PairsInv, PairInv
<1>8. QED
  BY <1>5, <1>6, <1>7 DEF PairsInv

LEMMA DeleteHostStep ==
  ASSUME TypeOK, PairsInv, NEW d \in Admins, NEW n \in Names, DeleteHost(d, n)
  PROVE  PairsInv'
<1> DEFINE next == [pc |-> "deleted", name |-> n]
<1>1. /\ Goes(d, next) /\ library' = [library EXCEPT ![n] = None]
      /\ crossed' = (crossed \ {d}) \cup Under(n) \cup (IF HalfDone(n) = {} THEN {} ELSE {d})
      /\ stored' = stored /\ paired' = paired /\ disturbed' = disturbed /\ admin[d] = Idle
  BY DEF DeleteHost
<1>2. next # Idle
  BY DEF Idle
<1>3. /\ HalfDone(n)' = HalfDone(n) \cup {d}
      /\ \A m \in Names \ {n} : HalfDone(m)' = HalfDone(m) /\ d \notin HalfDone(m)
  <2>1. \A m \in Names : d \notin HalfDone(m)
    BY <1>1 DEF HalfDone, At
  <2>2. QED
    BY <1>1, <1>2, <2>1, HalfDoneAfter
<1>4. CrossInv'
  <2>1. \A e \in Admins \ (crossed' \cup {d}), m \in Names : Alone(e, m)'
    BY <1>1, <1>3, OthersAlone DEF TypeOK, PairsInv
  <2>2. ASSUME d \notin crossed', NEW m \in Names
        PROVE  Alone(d, m)'
    <3>1. admin'[d] = next
      BY <1>1 DEF TypeOK, Goes
    <3>2. HalfDone(n)' = {d} /\ library'[n] = None
      BY <1>1, <1>3, <2>2 DEF TypeOK
    <3>3. QED
      BY <3>1, <3>2 DEF Alone, At
  <2>3. QED
    BY <2>1, <2>2 DEF CrossInv
<1>5. PasswordsFollowHosts'
  BY <1>1, <1>3 DEF TypeOK, PairsInv, PasswordsFollowHosts
<1>6. PairInv'
  <2>1. HalfDone(n)' \cap crossed' = {} => HalfDone(n) \cap crossed = {}
    BY <1>1, <1>3 DEF HalfDone, Under, At
  <2>2. \A m \in Names \ {n} :
            /\ library'[m] = library[m]
            /\ HalfDone(m)' \cap crossed' = {} => HalfDone(m) \cap crossed = {}
    BY <1>1, <1>3 DEF TypeOK
  <2>3. QED
    BY <1>1, <1>3, <2>1, <2>2 DEF PairsInv, PairInv
<1>7. QED
  BY <1>4, <1>5, <1>6 DEF PairsInv

LEMMA SavePasswordStep ==
  ASSUME TypeOK, PairsInv, NEW d \in Admins, SavePassword(d)
  PROVE  PairsInv'
<1>1. PICK n \in Names, host \in Host, typed \in Typed :
        /\ n = admin[d].name /\ host = admin[d].host /\ typed = admin[d].typed
        /\ At(d, {"written"}, n)
  BY DEF TypeOK, SavePassword, AdminStates, Idle, At
<1>2. /\ Goes(d, Idle) /\ library' = library
      /\ stored' = [stored EXCEPT ![n] = Secret(d)]
      /\ paired' = [paired EXCEPT ![n] = <<host.address, Meant(d)>>]
      /\ crossed' = crossed \cup (Under(n) \ {d})
      /\ Settles(d, n, host.auth = "key" \/ typed # None)
  BY <1>1 DEF SavePassword, Crosses
<1>3. /\ HalfDone(n)' = HalfDone(n) \ {d}
      /\ \A m \in Names \ {n} : HalfDone(m)' = HalfDone(m) /\ d \notin HalfDone(m)
  <2>1. \A m \in Names : HalfDone(m)' = HalfDone(m) \ {d}
    BY <1>2, HalfDoneAfter
  <2>2. \A m \in Names \ {n} : d \notin HalfDone(m)
    BY <1>1 DEF HalfDone, At
  <2>3. QED
    BY <2>1, <2>2
<1>4. \A m \in Names \ {n} :
          /\ library'[m] = library[m] /\ stored'[m] = stored[m] /\ paired'[m] = paired[m]
          /\ m \in disturbed' <=> m \in disturbed
          /\ HalfDone(m)' \cap crossed' = {} => HalfDone(m) \cap crossed = {}
  BY <1>2, <1>3 DEF TypeOK, Settles
<1>5. CrossInv'
  <2>1. \A e \in Admins \ (crossed' \cup {d}), m \in Names : Alone(e, m)'
    BY <1>2, <1>3, <1>4, OthersAlone DEF PairsInv
  <2>2. \A m \in Names : Alone(d, m)'
    BY <1>2 DEF TypeOK, Goes, Alone, At
  <2>3. QED
    BY <2>1, <2>2 DEF CrossInv
(* What is saved for this host, if nobody crossed this save and the host was *)
(* not left disturbed.                                                       *)
<1>6. ASSUME n \notin disturbed'
      PROVE  /\ library[n] = host
             /\ stored'[n] # None <=> host.auth = "password"
             /\ paired'[n] = <<host.address, stored'[n]>>
  <2>1. d \notin crossed
    BY <1>2, <1>6 DEF Settles
  <2>2. /\ HalfDone(n) = {d} /\ library[n] = host
        /\ host.auth = "password" => typed # None \/ stored[n] # None
    BY <1>1, <2>1 DEF PairsInv, CrossInv, Alone, At
  <2>3. stored'[n] = Secret(d) /\ paired'[n] = <<host.address, Meant(d)>>
    BY <1>2 DEF TypeOK
  <2>4. CASE host.auth = "key"
    BY <1>1, <2>2, <2>3, <2>4 DEF Secret, Meant
  <2>5. CASE host.auth = "password" /\ typed # None
    BY <1>1, <2>2, <2>3, <2>5 DEF Secret, Meant
  <2>6. CASE host.auth = "password" /\ typed = None
    <3>1. n \notin disturbed
      BY <1>2, <1>6, <2>1, <2>6 DEF Settles
    <3>2. stored[n] # None /\ paired[n] # None /\ paired[n][2] = stored[n]
      BY <2>1, <2>2, <2>6, <3>1 DEF PairsInv, PairInv
    <3>3. QED
      BY <1>1, <2>2, <2>3, <2>6, <3>2 DEF Secret, Meant
  <2>7. QED
    BY <2>4, <2>5, <2>6 DEF Host
<1>7. <<host.address, stored'[n]>> # None
  <2>1. Secret(d) \in Typed
    BY <1>1 DEF TypeOK, Secret, Typed
  <2>2. stored'[n] \in Typed /\ host.address \in Addresses
    BY <1>2, <2>1 DEF TypeOK, Host
  <2>3. QED
    BY <2>2, NoneIsNoPair
<1>8. library[n] = host => library[n] # None
  BY NoneIsNoHost
<1>9. PasswordsFollowHosts'
  BY <1>2, <1>3, <1>4, <1>6, <1>8 DEF PairsInv, PasswordsFollowHosts
<1>10. PairInv'
  BY <1>2, <1>3, <1>4, <1>6, <1>7 DEF PairsInv, PairInv
<1>11. QED
  BY <1>5, <1>9, <1>10 DEF PairsInv

LEMMA ClearPasswordStep ==
  ASSUME TypeOK, PairsInv, NEW d \in Admins, ClearPassword(d)
  PROVE  PairsInv'
<1>1. PICK n \in Names : n = admin[d].name /\ At(d, {"deleted"}, n)
  BY DEF TypeOK, ClearPassword, AdminStates, Idle, At
<1>2. /\ Goes(d, Idle) /\ library' = library
      /\ stored' = [stored EXCEPT ![n] = None] /\ paired' = [paired EXCEPT ![n] = None]
      /\ crossed' = crossed \cup (Under(n) \ {d})
      /\ Settles(d, n, TRUE)
  BY <1>1 DEF ClearPassword, Crosses
<1>3. /\ HalfDone(n)' = HalfDone(n) \ {d}
      /\ \A m \in Names \ {n} : HalfDone(m)' = HalfDone(m) /\ d \notin HalfDone(m)
  <2>1. \A m \in Names : HalfDone(m)' = HalfDone(m) \ {d}
    BY <1>2, HalfDoneAfter
  <2>2. \A m \in Names \ {n} : d \notin HalfDone(m)
    BY <1>1 DEF HalfDone, At
  <2>3. QED
    BY <2>1, <2>2
<1>4. \A m \in Names \ {n} :
          /\ library'[m] = library[m] /\ stored'[m] = stored[m] /\ paired'[m] = paired[m]
          /\ m \in disturbed' <=> m \in disturbed
          /\ HalfDone(m)' \cap crossed' = {} => HalfDone(m) \cap crossed = {}
  BY <1>2, <1>3 DEF TypeOK, Settles
<1>5. CrossInv'
  <2>1. \A e \in Admins \ (crossed' \cup {d}), m \in Names : Alone(e, m)'
    BY <1>2, <1>3, <1>4, OthersAlone DEF PairsInv
  <2>2. \A m \in Names : Alone(d, m)'
    BY <1>2 DEF TypeOK, Goes, Alone, At
  <2>3. QED
    BY <2>1, <2>2 DEF CrossInv
<1>6. n \notin disturbed' => library[n] = None
  BY <1>1, <1>2 DEF Settles, PairsInv, CrossInv, Alone, At
<1>7. stored'[n] = None
  BY <1>2 DEF TypeOK
<1>8. PasswordsFollowHosts'
  BY <1>2, <1>3, <1>4, <1>6, <1>7 DEF PairsInv, PasswordsFollowHosts
<1>9. PairInv'
  BY <1>2, <1>3, <1>4, <1>6, <1>7 DEF PairsInv, PairInv
<1>10. QED
  BY <1>5, <1>8, <1>9 DEF PairsInv

(* The steps before anything is written: the form, and its checks.           *)
LEMMA FormStep ==
  ASSUME TypeOK, PairsInv, NEW d \in Admins,
         \/ \E n \in Names : OpenForm(d, n)
         \/ \E host \in Host, typed \in Typed : Submit(d, host, typed)
  PROVE  PairsInv'
<1>1. UNCHANGED <<library, stored, paired, disturbed, run>>
  BY DEF OpenForm, Submit
<1>2. PICK next : /\ Goes(d, next) /\ next.pc \in {"form", "checked"}
                  /\ admin[d].pc \in {"idle", "form"}
                  /\ crossed \ {d} \subseteq crossed'
                  /\ crossed' \subseteq crossed \cup {d}
                  /\ \A n \in Names : d \notin crossed' /\ next.pc = "checked" /\ next.name = n =>
                        /\ HalfDone(n) = {}
                        /\ next.host.auth = "password" => next.typed # None \/ stored[n] # None
  <2>1. ASSUME NEW n \in Names, OpenForm(d, n)
        PROVE  \E next : /\ Goes(d, next) /\ next.pc = "form"
                         /\ admin[d].pc = "idle" /\ crossed' = crossed
    BY <2>1 DEF OpenForm, Idle
  <2>2. ASSUME NEW host \in Host, NEW typed \in Typed, Submit(d, host, typed)
        PROVE  \E next : /\ Goes(d, next) /\ next.pc = "checked" /\ admin[d].pc = "form"
                         /\ next.name = admin[d].name /\ next.host = host /\ next.typed = typed
                         /\ crossed' = IF HalfDone(next.name) = {} THEN crossed \ {d} ELSE crossed \cup {d}
                         /\ host.auth = "password" => typed # None \/ stored[next.name] # None
    BY <2>2 DEF Submit, MayStayBlank
  <2>3. QED
    BY <2>1, <2>2
<1>3. \A n \in Names : HalfDone(n)' = HalfDone(n) /\ d \notin HalfDone(n)
  BY <1>2 DEF TypeOK, Goes, HalfDone, At, Idle
<1>4. CrossInv'
  <2>1. ASSUME NEW e \in Admins \ (crossed' \cup {d}), NEW n \in Names
        PROVE  Alone(e, n)'
    <3>1. admin'[e] = admin[e] /\ Alone(e, n)
      BY <1>2, <2>1 DEF TypeOK, Goes, PairsInv, CrossInv
    <3>2. QED
      BY <1>1, <1>3, <3>1 DEF Alone, At
  <2>2. ASSUME d \notin crossed', NEW n \in Names
        PROVE  Alone(d, n)'
    <3>1. admin'[d] = next
      BY <1>2 DEF TypeOK, Goes
    <3>2. QED
      BY <1>1, <1>2, <1>3, <2>2, <3>1 DEF Alone, At
  <2>3. QED
    BY <2>1, <2>2 DEF CrossInv
<1>5. PasswordsFollowHosts'
  BY <1>1, <1>3 DEF PairsInv, PasswordsFollowHosts
<1>6. PairInv'
  <2>1. \A n \in Names : HalfDone(n)' \cap crossed' = HalfDone(n) \cap crossed
    BY <1>2, <1>3
  <2>2. QED
    BY <1>1, <1>3, <2>1 DEF PairsInv, PairInv
<1>7. QED
  BY <1>4, <1>5, <1>6 DEF PairsInv

(* Whatever was left half done is disturbed. *)
LEMMA GivesUpStep ==
  ASSUME TypeOK, PairsInv, NEW d \in Admins, GivesUp(d)
  PROVE  PairsInv'
<1>1. /\ Goes(d, Idle) /\ crossed' = crossed \ {d}
      /\ library' = library /\ stored' = stored /\ paired' = paired /\ run' = run
  BY DEF GivesUp
<1>2. \A n \in Names : HalfDone(n)' = HalfDone(n) \ {d}
  BY <1>1, HalfDoneAfter
<1>3. \A n \in Names \ disturbed' : n \notin disturbed /\ d \notin HalfDone(n)
  BY DEF TypeOK, GivesUp, HalfDone, At
<1>4. CrossInv'
  <2>1. ASSUME NEW e \in Admins \ (crossed' \cup {d}), NEW n \in Names
        PROVE  Alone(e, n)'
    <3>1. admin'[e] = admin[e] /\ Alone(e, n)
      BY <1>1, <2>1 DEF TypeOK, Goes, PairsInv, CrossInv
    <3>2. QED
      BY <1>1, <1>2, <2>1, <3>1 DEF Alone, At
  <2>2. \A n \in Names : Alone(d, n)'
    BY <1>1 DEF TypeOK, Goes, Alone, At
  <2>3. QED
    BY <2>1, <2>2 DEF CrossInv
<1>5. PasswordsFollowHosts'
  BY <1>1, <1>2, <1>3 DEF PairsInv, PasswordsFollowHosts
<1>6. PairInv'
  <2>1. \A n \in Names \ disturbed' :
            HalfDone(n)' = HalfDone(n) /\ HalfDone(n)' \cap crossed' = HalfDone(n) \cap crossed
    BY <1>1, <1>2, <1>3
  <2>2. QED
    BY <1>1, <1>3, <2>1 DEF PairsInv, PairInv
<1>7. QED
  BY <1>4, <1>5, <1>6 DEF PairsInv

LEMMA ElsewhereStep ==
  ASSUME TypeOK, PairsInv, NEW n \in Names, NEW host \in Host \cup {None}, ChangeElsewhere(n, host)
  PROVE  PairsInv'
<1>1. /\ library' = [library EXCEPT ![n] = host] /\ crossed' = crossed \cup Under(n)
      /\ disturbed' = disturbed \cup {n}
      /\ stored' = stored /\ admin' = admin /\ paired' = paired
  BY DEF ChangeElsewhere
<1>2. \A m \in Names : HalfDone(m)' = HalfDone(m)
  BY <1>1 DEF HalfDone, At
<1>3. \A m \in Names \ {n} : library'[m] = library[m] /\ (m \in disturbed' <=> m \in disturbed)
  BY <1>1 DEF TypeOK
<1>4. CrossInv'
  <2>1. SUFFICES ASSUME NEW e \in Admins \ crossed', NEW m \in Names,
                        At(e, {"checked", "written", "deleted"}, m)
                 PROVE  Alone(e, m)'
    BY <1>1 DEF CrossInv, Alone, At
  <2>2. m # n /\ Alone(e, m)
    BY <1>1, <2>1 DEF PairsInv, CrossInv, Under
  <2>3. QED
    BY <1>1, <1>2, <1>3, <2>2 DEF Alone, At
<1>5. PasswordsFollowHosts'
  BY <1>1, <1>2, <1>3 DEF PairsInv, PasswordsFollowHosts
<1>6. PairInv'
  BY <1>1, <1>2, <1>3 DEF PairsInv, PairInv
<1>7. QED
  BY <1>4, <1>5, <1>6 DEF PairsInv

LEMMA RunStep ==
  ASSUME TypeOK, PairsInv, NEW r \in Runs, (\E n \in Names : Call(r, n)) \/ Start(r) \/ Leave(r)
  PROVE  PairsInv'
<1>1. UNCHANGED <<library, stored, admin, paired, crossed, disturbed>>
  BY DEF Call, Start, Leave
<1>2. \A n \in Names : HalfDone(n)' = HalfDone(n)
  BY <1>1 DEF HalfDone, At
<1>3. QED
  BY <1>1, <1>2 DEF PairsInv, CrossInv, Alone, At, PasswordsFollowHosts, PairInv

LEMMA PairsStep ==
  ASSUME TypeOK, PairsInv, [Next]_vars
  PROVE  PairsInv'
<1>1. ASSUME NEW d \in Admins, AdminMoves(d)
      PROVE  PairsInv'
  BY <1>1, FormStep, WriteHostStep, SavePasswordStep, DeleteHostStep, ClearPasswordStep,
     GivesUpStep DEF AdminMoves
<1>2. CASE Crash
  <2>1. \A n \in Names : HalfDone(n)' = {}
    BY <1>2 DEF Crash, HalfDone, At
  <2>2. \A n \in Names \ disturbed' : n \notin disturbed /\ HalfDone(n) = {}
    BY <1>2 DEF Crash
  <2>3. CrossInv'
    BY <1>2 DEF Crash, CrossInv, Alone, At
  <2>4. PasswordsFollowHosts' /\ PairInv'
    BY <1>2, <2>1, <2>2 DEF Crash, PairsInv, PasswordsFollowHosts, PairInv
  <2>5. QED
    BY <2>3, <2>4 DEF PairsInv
<1>3. CASE UNCHANGED vars
  <2>1. \A n \in Names : HalfDone(n)' = HalfDone(n)
    BY <1>3 DEF vars, HalfDone, At
  <2>2. QED
    BY <1>3, <2>1 DEF vars, PairsInv, CrossInv, Alone, At, PasswordsFollowHosts, PairInv
<1>4. QED
  BY <1>1, <1>2, <1>3, ElsewhereStep, RunStep DEF Next

-----------------------------------------------------------------------------
(* The theorems about HostPasswords. *)

LEMMA IInvInit == Init => IInv
<1>1. Init => CrossInv /\ PasswordsFollowHosts /\ PairInv
  BY DEF Init, CrossInv, Alone, At, PasswordsFollowHosts, PairInv
<1>2. QED
  BY <1>1, TypeInit DEF IInv

LEMMA IInvStep == IInv /\ [Next]_vars => IInv'
BY TypeStep, PairsStep DEF IInv, PairsInv

THEOREM Inductive == Spec => []IInv
BY IInvInit, IInvStep, PTL DEF Spec

(* The file, the table and every thread keep their types. *)
THEOREM TypeCorrect == Spec => []TypeOK
<1>1. IInv => TypeOK
  BY DEF IInv
<1>2. QED
  BY <1>1, Inductive, PTL

(* README.md:118-119: where nobody crossed or cut off a change of a host,    *)
(* nor changed the file without the form, the hosts that sign in with a      *)
(* password, and no others, have one.                                        *)
THEOREM PasswordsFollow == Spec => []PasswordsFollowHosts
<1>1. IInv => PasswordsFollowHosts
  BY DEF IInv
<1>2. QED
  BY <1>1, Inductive, PTL

(* A password goes only to a host that signs in with one; and where the host *)
(* still has the address the command goes to, nobody is at work on it and    *)
(* its saves were not disturbed, it is the one saved, or kept, with that.    *)
THEOREM SignsIn == Spec => SignsInAsSaved
<1>1. ASSUME IInv, Next, NEW r \in Runs, run'[r] # run[r], run'[r] # Idle,
             run'[r].pc = "signing in", run'[r].password # None
      PROVE  /\ run'[r].host.auth = "password"
             /\ StillThere(run'[r].name, run'[r].host) =>
                   paired[run'[r].name] = <<run'[r].host.address, run'[r].password>>
  <2>1. Start(r)
    <3>1. ASSUME NEW q \in Runs, NEW n \in Names, Call(q, n)
          PROVE  FALSE
      BY <1>1, <3>1 DEF IInv, TypeOK, Call
    <3>2. ASSUME NEW q \in Runs, Leave(q)
          PROVE  FALSE
      BY <1>1, <3>2 DEF IInv, TypeOK, Leave
    <3>3. ASSUME NEW d \in Admins, AdminMoves(d)
          PROVE  FALSE
      BY <1>1, <3>3 DEF AdminMoves, OpenForm, DeleteHost, Submit, WriteHost, SavePassword, ClearPassword,
                        GivesUp
    <3>4. ASSUME NEW q \in Runs, Start(q)
          PROVE  q = r
      BY <1>1, <3>4 DEF IInv, TypeOK, Start
    <3>5. ~Crash
      BY <1>1 DEF Crash
    <3>6. QED
      BY <1>1, <3>1, <3>2, <3>3, <3>4, <3>5 DEF Next, ChangeElsewhere
  <2>2. run[r] \in [pc : {"called"}, name : Names, host : Host]
    BY <1>1, <2>1 DEF IInv, TypeOK, Start, RunStates, Idle
  <2>3. PICK n \in Names, host \in Host : n = run[r].name /\ host = run[r].host
    BY <2>2
  <2>4. run'[r].host = host /\ run'[r].name = n /\ run'[r].password = HandedOver(r)
    BY <1>1, <2>1, <2>3 DEF IInv, TypeOK, Start
  <2>5. host.auth = "password" /\ run'[r].password = stored[n] /\ stored[n] # None
    BY <1>1, <2>3, <2>4 DEF HandedOver
  <2>6. ASSUME StillThere(n, host)
        PROVE  paired[n] = <<host.address, stored[n]>>
    <3>1. /\ paired[n] # None /\ paired[n][2] = stored[n]
          /\ paired[n][1] = host.address
      BY <1>1, <2>5, <2>6 DEF IInv, PairInv, StillThere
    <3>2. paired[n] \in Addresses \X Typed
      BY <1>1, <3>1 DEF IInv, TypeOK
    <3>3. QED
      BY <3>1, <3>2
  <2>7. QED
    BY <2>4, <2>5, <2>6
<1>2. ASSUME IInv, [Next]_vars
      PROVE  [\A r \in Runs :
                (run'[r] # run[r] /\ run'[r] # Idle /\ run'[r].pc = "signing in"
                                               /\ run'[r].password # None) =>
                    /\ run'[r].host.auth = "password"
                    /\ StillThere(run'[r].name, run'[r].host) =>
                          paired[run'[r].name] = <<run'[r].host.address, run'[r].password>>]_vars
  BY <1>1, <1>2
<1>3. QED
  BY <1>2, Inductive, PTL DEF Spec, SignsInAsSaved
========================================
