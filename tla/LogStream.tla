------------------------------- MODULE LogStream -------------------------------
(***************************************************************************)
(* The live log of a run: app/services/log_tail.py, run_detail and         *)
(* run_stream of app/routers/runs.py, read_log of app/services/runner.py,  *)
(* and the script of app/templates/run_detail.html.                        *)
(*                                                                         *)
(* ansible-runner appends to a file, the executor settles the row after    *)
(* it, a page that was loaded meanwhile follows the file through a stream  *)
(* of events, the connection is lost and made again from the byte offset   *)
(* last consumed, and retention may remove the run.                        *)
(*                                                                         *)
(* A log is a sequence of characters of one or two bytes.  What is decoded *)
(* is a sequence of their numbers, with Bad for U+FFFD.                    *)
(***************************************************************************)
EXTENDS Naturals, Sequences, SequencesExt

CONSTANTS
    Bytes,          \* Bytes[i]: the number of the character that byte i belongs to
    MaxDrops        \* bound on the connections lost

ASSUME BytesOfCharacters ==
    /\ Bytes \in Seq(Nat \ {0})
    /\ \A i \in 2 .. Len(Bytes) : Bytes[i] - Bytes[i-1] \in {0, 1}
ASSUME MaxDropsIsNumber == MaxDrops \in Nat

VARIABLES
    written,        \* how many bytes the log file holds
    row,            \* the run's row: running, settled or gone
    file,           \* whether the log file is there
    page,           \* the page in the browser
    server,         \* the stream's generator on the server
    wire,           \* events sent and not yet received
    drops,          \* auxiliary: connections lost so far
    torn            \* auxiliary: something began to decode inside a character

logVars == <<written, row, file, page, server, wire, drops, torn>>

-----------------------------------------------------------------------------
Size == Len(Bytes)
Bad == 0

(* Byte i is the last of its character; offset p lies between two characters. *)
Ends(i) == i = Size \/ Bytes[i+1] # Bytes[i]
Boundary(p) == p = 0 \/ Ends(p)

(* What a decoder that began at offset s emits for byte i: nothing inside a  *)
(* character, the character at its end, and U+FFFD for a byte whose          *)
(* character began before s.                                                 *)
EmitAt(s, i) ==
    IF s > 0 /\ Bytes[s] = Bytes[i] THEN <<Bad>>
    ELSE IF Ends(i) THEN <<Bytes[i]>> ELSE << >>

(* LogTailer: the text for the bytes after p up to t, decoding since s. *)
Decoded(s, p, t) == FlattenSeq([k \in 1 .. t - p |-> EmitAt(s, p + k)])

(* read_log: everything at once; a character cut off at the end is U+FFFD. *)
DecodedOnce(t) == Decoded(0, 0, t) \o (IF Boundary(t) THEN << >> ELSE <<Bad>>)

(* The characters that are complete in the first t bytes. *)
Characters(t) == Decoded(0, 0, t)

NoPage == [at |-> "none"]
NoStream == [at |-> "none"]
Texts == Seq({Bad} \cup ToSet(Bytes))
Pages == [at : {"none"}]
         \cup [at : {"loading"}, seen : {"running", "settled"}]
         \cup [at : {"live", "waiting", "done", "not found"}, pos : 0 .. Size, text : Texts]
Streams == [at : {"none"}]
           \cup [at : {"row", "ended"}, start : 0 .. Size, pos : 0 .. Size]
           \cup [at : {"log", "status"}, start : 0 .. Size, pos : 0 .. Size,
                 seen : {"running", "settled"}]
Events == [kind : {"text"}, pos : 0 .. Size, text : Texts] \cup [kind : {"done", "not found"}]

LogInit ==
    /\ written = 0
    /\ row = "running" /\ file = TRUE
    /\ page = NoPage
    /\ server = NoStream
    /\ wire = << >>
    /\ drops = 0 /\ torn = FALSE

Browser == <<page, wire, drops, torn>>

-----------------------------------------------------------------------------
(* The run: its log grows, and its row is settled after that. *)

AppendLog(n) ==
    /\ row = "running"
    /\ n \in written + 1 .. Size /\ written' = n
    /\ UNCHANGED <<row, file, server, Browser>>

SettleRun ==
    /\ row = "running" /\ row' = "settled"
    /\ UNCHANGED <<written, file, server, Browser>>

(* prune_runs: the row goes, and after the commit the files. *)
PruneRow ==
    /\ row = "settled" /\ row' = "gone"
    /\ UNCHANGED <<written, file, server, Browser>>
PruneFile ==
    /\ row = "gone" /\ file /\ file' = FALSE
    /\ UNCHANGED <<written, row, server, Browser>>

-----------------------------------------------------------------------------
(* The page: run_detail reads the row, then the log. *)

LoadRow ==
    /\ page = NoPage /\ row # "gone"
    /\ page' = [at |-> "loading", seen |-> row]
    /\ UNCHANGED <<written, row, file, server, wire, drops, torn>>

InLog == IF file THEN written ELSE 0

(* Mutant of PageOffset: the page counts the bytes of the text it was given, *)
(* where U+FFFD has three.                                                   *)
PageOffset_OfText == IF Boundary(InLog) THEN InLog ELSE InLog + 2

(* The offset the page goes on from: the bytes on disk, as the server says. *)
PageOffset == InLog

(* A settled run needs no stream. *)
LoadLog ==
    /\ page.at = "loading"
    /\ page' = [at |-> IF page.seen = "running" THEN "waiting" ELSE "done",
                pos |-> PageOffset, text |-> DecodedOnce(InLog)]
    /\ torn' = (torn \/ ~Boundary(InLog))
    /\ UNCHANGED <<written, row, file, server, wire, drops>>

(* Mutant of Connect: a run that has ended needs no new stream. *)
Connect_WhileRunning ==
    /\ page.at = "waiting" /\ row = "running"
    /\ page' = [page EXCEPT !.at = "live"]
    /\ server' = [at |-> "row", start |-> page.pos, pos |-> page.pos]
    /\ torn' = (torn \/ ~Boundary(page.pos))
    /\ UNCHANGED <<written, row, file, wire, drops>>

(* openStream: from the offset consumed so far, at first and after a loss. *)
Connect ==
    /\ page.at = "waiting"
    /\ page' = [page EXCEPT !.at = "live"]
    /\ server' = [at |-> "row", start |-> page.pos, pos |-> page.pos]
    /\ torn' = (torn \/ ~Boundary(page.pos))
    /\ UNCHANGED <<written, row, file, wire, drops>>

(* onmessage, "done", and the error the server sends for a run that is gone. *)
Receive ==
    /\ page.at = "live" /\ wire # << >>
    /\ LET e == Head(wire) IN
         page' = CASE e.kind = "text" -> [page EXCEPT !.pos = e.pos, !.text = @ \o e.text]
                   [] e.kind = "done" -> [page EXCEPT !.at = "done"]
                   [] e.kind = "not found" -> [page EXCEPT !.at = "not found"]
    /\ wire' = Tail(wire)
    /\ UNCHANGED <<written, row, file, server, drops, torn>>

(* The connection is lost with whatever is on its way. *)
LoseConnection ==
    /\ page.at = "live" /\ drops < MaxDrops
    /\ page' = [page EXCEPT !.at = "waiting"]
    /\ server' = NoStream /\ wire' = << >>
    /\ drops' = drops + 1
    /\ UNCHANGED <<written, row, file, torn>>

(* The server dies with the run: its log stays as it is, and the restart     *)
(* settles the row (runner.reconcile_orphaned_runs).                         *)
ServerDies ==
    /\ row = "running" /\ row' = "settled"
    /\ drops < MaxDrops /\ drops' = drops + 1
    /\ page' = IF page.at = "live" THEN [page EXCEPT !.at = "waiting"]
               ELSE IF page.at = "loading" THEN NoPage ELSE page
    /\ server' = NoStream /\ wire' = << >>
    /\ UNCHANGED <<written, file, torn>>

-----------------------------------------------------------------------------
(* The stream's loop: the row, then the log, then whether that was the end.  *)

Send(e) == wire' = Append(wire, e)

ReadRow ==
    /\ server.at = "row" /\ row # "gone"
    /\ server' = [at |-> "log", start |-> server.start, pos |-> server.pos, seen |-> row]
    /\ UNCHANGED <<written, row, file, Browser>>

RowNotFound ==
    /\ server.at = "row" /\ row = "gone"
    /\ server' = [server EXCEPT !.at = "ended"]
    /\ Send([kind |-> "not found"])
    /\ UNCHANGED <<written, row, file, page, drops, torn>>

(* Mutant of Chunk: each read has a decoder of its own. *)
Chunk_NewDecoder == Decoded(server.pos, server.pos, written)
                    \o (IF Boundary(written) THEN << >> ELSE <<Bad>>)

(* The decoder lives as long as the connection. *)
Chunk == Decoded(server.start, server.pos, written)

(* LogTailer.read: nothing when the file is gone or has not grown; and a     *)
(* chunk with no character in it is not sent.                                *)
ReadLog ==
    /\ server.at = "log"
    /\ IF file /\ written > server.pos
       THEN /\ server' = [server EXCEPT !.at = "status", !.pos = written]
            /\ IF Chunk # << >> THEN Send([kind |-> "text", pos |-> written, text |-> Chunk])
                                ELSE UNCHANGED wire
       ELSE server' = [server EXCEPT !.at = "status"] /\ UNCHANGED wire
    /\ UNCHANGED <<written, row, file, page, drops, torn>>

(* Mutant of AtEnd: the status is read when it is asked for. *)
AtEnd_ReadNow == row # "running"

(* Whether the run had ended before its log was read. *)
AtEnd == server.seen # "running"

Round ==
    /\ server.at = "status"
    /\ IF AtEnd
       THEN server' = [at |-> "ended", start |-> server.start, pos |-> server.pos]
            /\ Send([kind |-> "done"])
       ELSE server' = [at |-> "row", start |-> server.start, pos |-> server.pos]
            /\ UNCHANGED wire
    /\ UNCHANGED <<written, row, file, page, drops, torn>>

-----------------------------------------------------------------------------
Serve == ReadRow \/ RowNotFound \/ ReadLog \/ Round

LogNext ==
    \/ \E n \in 1 .. Size : AppendLog(n)
    \/ SettleRun \/ PruneRow \/ PruneFile
    \/ LoadRow \/ LoadLog \/ Connect \/ Receive \/ LoseConnection \/ ServerDies
    \/ Serve

LogSpec == LogInit /\ [][LogNext]_logVars

(* A run ends, the loop goes round, events arrive unless the connection is   *)
(* lost, and the page connects again after its back-off.                     *)
FairSpec == /\ LogSpec
            /\ WF_logVars(SettleRun) /\ WF_logVars(Serve)
            /\ WF_logVars(LoadLog) /\ WF_logVars(Connect) /\ WF_logVars(Receive)

-----------------------------------------------------------------------------
(* Properties. *)

(* The page's offset is never past the end of the file: a stream opened      *)
(* there would skip what is written next (runner.py:243-248).                *)
LogTypeOK ==
    /\ written \in 0 .. Size
    /\ row \in {"running", "settled", "gone"} /\ file \in BOOLEAN
    /\ page \in Pages /\ server \in Streams /\ wire \in Seq(Events)
    /\ drops \in 0 .. MaxDrops /\ torn \in BOOLEAN
    /\ "pos" \in DOMAIN page => page.pos <= written

(* The page shows every complete character up to its offset, once and in     *)
(* order, whatever was lost and sent again, as long as no decoding had to    *)
(* begin inside a character.                                                 *)
ShowsEachOnce ==
    ("pos" \in DOMAIN page /\ ~torn) => page.text = Characters(page.pos)

(* A page that was told "done" has the whole log: the status is read before  *)
(* the log, and the row is settled after the log was written.  (A run pruned *)
(* in that very moment has no log left to send.)                             *)
DoneHasAll ==
    (page.at = "done" /\ file) =>
        (page.pos = written \/ Characters(page.pos) = Characters(written))

(* A page that follows a run gets to its end, when the connection is not     *)
(* lost for ever: also when the run ended while there was none.              *)
PageEnds == (page.at \in {"loading", "live", "waiting"})
            ~> (page.at \in {"none", "done", "not found"})

-----------------------------------------------------------------------------
(* The invariant the proofs carry from step to step. *)

(* There is a stream exactly while a page follows one. *)
StreamInv ==
    /\ page.at \in {"none", "loading", "waiting"} => server = NoStream /\ wire = << >>
    /\ page.at = "live" => server.at # "none"

(* Nobody is past the end of the file. *)
PosInv ==
    /\ server.at # "none" => server.start <= server.pos /\ server.pos <= written
    /\ \A k \in DOMAIN wire : wire[k].kind = "text" => wire[k].pos <= written

(* Where a page is that has received the first k texts on their way to it;   *)
(* what ends the stream comes after them.                                    *)
After(k) == IF k = 0 THEN page.pos ELSE wire[k].pos
Sent == IF server.at = "ended" THEN Len(wire) - 1 ELSE Len(wire)

(* Each text on its way continues the one before it; what the stream has     *)
(* read and not sent holds no character.                                     *)
WireInv == page.at = "live" =>
    /\ server.at = "ended" => wire # << >>
    /\ \A k \in DOMAIN wire : wire[k].kind = "text" <=> k <= Sent
    /\ Characters(After(Sent)) = Characters(server.pos)
    /\ ~torn => /\ Boundary(server.start)
                /\ \A k \in 1 .. Sent :
                      Characters(After(k)) = Characters(After(k - 1)) \o wire[k].text

(* Who was told of the end was told when the log was whole. *)
DoneInv ==
    /\ page.at = "loading" /\ page.seen = "settled" => row # "running"
    /\ server.at \in {"log", "status"} /\ server.seen = "settled" => row # "running"
    /\ server.at = "status" /\ server.seen = "settled" /\ file => server.pos = written
    /\ page.at = "live" => \A k \in DOMAIN wire : wire[k].kind = "done" =>
                              row # "running" /\ (file => server.pos = written)
    /\ page.at = "done" => row # "running"

LogIInv == LogTypeOK /\ StreamInv /\ PosInv /\ WireInv /\ DoneInv /\ ShowsEachOnce /\ DoneHasAll
=============================================================================
