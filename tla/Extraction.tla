------------------------------------ MODULE Extraction ------------------------------------
(***************************************************************************)
(* Office files and PDFs as text.  A conversion is expensive, so two run   *)
(* at most, each in a process of its own that the server ends when its     *)
(* time is up or its caller has gone; the slot is taken before the bytes   *)
(* of the file are.  The converters cut what is too long, and say so.      *)
(***************************************************************************)
EXTENDS Integers, FiniteSets, Sequences

CONSTANTS
  Request,           \* calls of files_read_as_markdown
  Documents,         \* the files there are, see Document
  MAX_CONCURRENT,    \* conversions that may run together
  MAX_SOURCE_BYTES,  \* the largest file that is fetched
  MAX_PAGES,         \* pages of a PDF, and sheets of a workbook
  MAX_ROWS, MAX_COLS,  \* of one table or sheet
  MAX_OUTPUT_CHARS,  \* the longest text
  None

VARIABLES
  call,    \* what each request is doing, the file it named, its outcome
  queue,   \* the requests that wait for a slot, first come first served
  body,    \* whether a request holds the bytes of its file
  process  \* the conversion process of each request

vars == <<call, queue, body, process>>

(* A file: its format (None when nothing here reads it), the size that is   *)
(* announced and the one that is sent, what is wrong with it, and its pages, *)
(* sheets, blocks or slides, each with characters of text and one table.    *)
Unit == [text : Nat, rows : Nat, cols : Nat]
Document == [format : {"pdf", "docx", "xlsx", "pptx", None}, size : Nat, sent : Nat,
             fault : {"none", "nozip", "bomb", "noextra", "damaged", "encrypted",
                      "memory", "endless"},
             units : Seq(Unit)]

ExtractionAssumption ==
  /\ \A n \in {MAX_CONCURRENT, MAX_SOURCE_BYTES, MAX_PAGES, MAX_ROWS, MAX_COLS, MAX_OUTPUT_CHARS} :
       n \in Nat \ {0}
  /\ None \notin Documents /\ \A d \in Documents : d \in Document

TypeOK ==
  /\ \A r \in Request :
       /\ call[r].at \in {"free", "stat", "wait", "fetch", "start", "convert", "kill", "done"}
       /\ call[r].doc \in Documents \cup {None}
       /\ call[r].out.kind \in {"none", "text", "refused", "guard", "gone"}
  /\ \A i \in DOMAIN queue : queue[i] \in Request
  /\ body \subseteq Request
  /\ process \in [Request -> {"none", "running", "answered", "failed", "killed"}]

Nothing == [kind |-> "none"]
Idle == [at |-> "free", doc |-> None, out |-> Nothing]

Init ==
  /\ call = [r \in Request |-> Idle]
  /\ queue = <<>> /\ body = {}
  /\ process = [r \in Request |-> "none"]

-----------------------------------------------------------------------------
(* The text.  A line is what it takes and what of the document is in it; the *)
(* text so far is its length, whether it is full, what it shows of the       *)
(* document, and which cuts it names.                                        *)
Line(size, own) == [size |-> size, own |-> own, says |-> {}]
Note(cut) == [size |-> 1, own |-> 0, says |-> {cut}]
Blank == Line(0, 0)
Heading == Line(1, 0)
Empty == [length |-> 0, full |-> FALSE, shows |-> 0, says |-> {}]

Less(a, b) == IF a < b THEN a ELSE b

AddLine(out, line) ==
  LET room == IF out.length < MAX_OUTPUT_CHARS THEN MAX_OUTPUT_CHARS - out.length ELSE 0 IN
  IF out.full THEN out
  ELSE IF line.size > room
       THEN [out EXCEPT !.full = TRUE, !.shows = @ + Less(line.own, room),
                        !.says = @ \cup {"truncated"}]
       ELSE [out EXCEPT !.length = @ + line.size + 1, !.shows = @ + line.own,
                        !.says = @ \cup line.says]

(* A table of Word: its rows, a rule under the first, and what was cut.      *)
TableLines(rows, cols) ==
  IF rows = 0 THEN <<>>
  ELSE <<Line(cols, cols), Heading>> \o [i \in 1..rows - 1 |-> Line(cols, cols)]
OfTheTable(u) == TableLines(Less(u.rows, MAX_ROWS), Less(u.cols, MAX_COLS))
CutWithoutAWord(u) == OfTheTable(u)
CappedTable(u) ==
  OfTheTable(u)
    \o (IF u.rows > MAX_ROWS THEN <<Note("rows")>> ELSE <<>>)
    \o (IF u.cols > MAX_COLS THEN <<Note("columns")>> ELSE <<>>)

(* A sheet is cut at both limits and names its rows only.                    *)
SheetLines(u) ==
  <<Heading, Blank>>
    \o TableLines(Less(u.rows, MAX_ROWS), Less(u.cols, MAX_COLS))
    \o (IF u.rows > MAX_ROWS THEN <<Note("rows")>> ELSE <<>>)
    \o <<Blank>>

Paragraph(u) == IF u.text = 0 THEN <<>> ELSE <<Line(u.text, u.text), Blank>>
PageLines(u) == <<Heading, Blank>> \o Paragraph(u)
BlockLines(u) == Paragraph(u) \o (IF u.rows > 0 THEN CappedTable(u) \o <<Blank>> ELSE <<>>)
SlideLines(u) ==
  <<Heading, Blank>> \o Paragraph(u)
    \o (IF u.rows > 0 THEN TableLines(u.rows, u.cols) \o <<Blank>> ELSE <<>>)

Lines(format, u) ==
  CASE format = "pdf" -> PageLines(u) [] format = "docx" -> BlockLines(u)
    [] format = "xlsx" -> SheetLines(u) [] format = "pptx" -> SlideLines(u)

(* Output.extend, and a document unit by unit until the text is full.        *)
Written(out, lines) ==
  LET text[n \in 0..Len(lines)] == IF n = 0 THEN out ELSE AddLine(text[n - 1], lines[n])
  IN  text[Len(lines)]

Markdown(d) ==
  LET AddUnit(out, u) == IF out.full THEN out ELSE Written(out, Lines(d.format, u))
      text[n \in 0..Len(d.units)] == IF n = 0 THEN Empty ELSE AddUnit(text[n - 1], d.units[n])
      silent == d.format = "pdf" /\ \A i \in DOMAIN d.units : d.units[i].text = 0
  IN  [text[Len(d.units)] EXCEPT !.says = @ \cup (IF silent THEN {"scan"} ELSE {})]

-----------------------------------------------------------------------------
(* convert_sync, in the process: the archive first, then the library, then   *)
(* what the parser says.  A refusal by a guard is told from any other.       *)
Office == {"docx", "xlsx", "pptx"}
Refused == [kind |-> "refused"]
Guarded == [kind |-> "guard"]

ZipGuard(d) ==
  CASE d.format \in Office /\ d.fault = "nozip" -> Refused
    [] d.format \in Office /\ d.fault = "bomb" -> Guarded
    [] OTHER -> Nothing

ConvertSync(d) ==
  LET counted == d.format \in {"pdf", "xlsx"} /\ Len(d.units) > MAX_PAGES IN
  IF ZipGuard(d) # Nothing THEN ZipGuard(d)
  ELSE CASE d.fault \in {"noextra", "damaged", "nozip", "encrypted"} -> Refused
         [] d.fault \in {"memory", "bomb"} -> Guarded
         [] d.fault \in {"none", "endless"} /\ counted -> Guarded
         [] OTHER -> [kind |-> "text", text |-> Markdown(d)]

-----------------------------------------------------------------------------
Goto(r, step) == call' = [call EXCEPT ![r].at = step]
End(r, out) == call' = [call EXCEPT ![r].at = "done", ![r].out = out]
At(r, step) == call[r].at = step
Holds(r) == call[r].at \in {"fetch", "start", "convert", "kill"}
Taken == Cardinality({r \in Request : Holds(r)})

Ask(r, d) ==
  /\ At(r, "free")
  /\ call' = [call EXCEPT ![r].at = "stat", ![r].doc = d]
  /\ UNCHANGED <<queue, body, process>>

(* What the listing announces decides what is refused without a slot.        *)
Stat(r) ==
  LET d == call[r].doc IN
  /\ At(r, "stat")
  /\ IF d.format = None THEN End(r, Refused) /\ UNCHANGED queue
     ELSE IF d.size > MAX_SOURCE_BYTES THEN End(r, Guarded) /\ UNCHANGED queue
     ELSE Goto(r, "wait") /\ queue' = Append(queue, r)
  /\ UNCHANGED <<body, process>>

Slot(r) ==
  /\ At(r, "wait") /\ queue # <<>> /\ Head(queue) = r /\ Taken < MAX_CONCURRENT
  /\ Goto(r, "fetch") /\ queue' = Tail(queue)
  /\ UNCHANGED <<body, process>>

(* One byte more than the limit is asked for, and what came is measured.     *)
Fetch(r) ==
  /\ At(r, "fetch")
  /\ \/ /\ End(r, Refused) /\ UNCHANGED body
     \/ /\ call[r].doc.sent > MAX_SOURCE_BYTES /\ End(r, Guarded) /\ UNCHANGED body
     \/ /\ call[r].doc.sent <= MAX_SOURCE_BYTES /\ Goto(r, "start") /\ body' = body \cup {r}
  /\ UNCHANGED <<queue, process>>

StartWorker(r) ==
  /\ At(r, "start") /\ Goto(r, "convert")
  /\ process' = [process EXCEPT ![r] = "running"]
  /\ UNCHANGED <<queue, body>>

(* The process answers, or exits without an answer, even after its caller    *)
(* has gone; an endless conversion does neither.                             *)
WorkerMain(r) ==
  /\ process[r] = "running"
  /\ \/ /\ call[r].doc.fault # "endless" /\ process' = [process EXCEPT ![r] = "answered"]
     \/ process' = [process EXCEPT ![r] = "failed"]
  /\ UNCHANGED <<call, queue, body>>

Answer(r) ==
  /\ At(r, "convert") /\ process[r] \in {"answered", "failed"}
  /\ End(r, IF process[r] = "answered" THEN ConvertSync(call[r].doc) ELSE Refused)
  /\ body' = body \ {r}
  /\ UNCHANGED <<queue, process>>

(* The deadline, and the caller that hangs up, both end the process before   *)
(* the slot is free.                                                         *)
LeaveIt(r, out) ==
  call' = [call EXCEPT ![r].at = "kill", ![r].out = out] /\ UNCHANGED process
Kill(r, out) ==
  /\ call' = [call EXCEPT ![r].at = "kill", ![r].out = out]
  /\ process' = [process EXCEPT ![r] = IF @ = "running" THEN "killed" ELSE @]

Gone == [kind |-> "gone"]

Timeout(r) ==
  /\ At(r, "convert") /\ Kill(r, Guarded)
  /\ UNCHANGED <<queue, body>>

HangUp(r) ==
  \/ /\ At(r, "convert") /\ Kill(r, Gone) /\ UNCHANGED <<queue, body>>
  \/ /\ call[r].at \in {"stat", "wait", "fetch", "start", "kill"}
     /\ End(r, Gone) /\ queue' = SelectSeq(queue, LAMBDA q : q # r) /\ body' = body \ {r}
     /\ UNCHANGED process

(* process.wait returns.                                                     *)
Reaped(r) ==
  /\ At(r, "kill")
  /\ Goto(r, "done") /\ body' = body \ {r}
  /\ UNCHANGED <<queue, process>>

(* The next call of the same caller.                                         *)
Again(r) ==
  /\ At(r, "done") /\ process[r] # "running"
  /\ call' = [call EXCEPT ![r] = Idle]
  /\ process' = [process EXCEPT ![r] = "none"]
  /\ UNCHANGED <<queue, body>>

Next ==
  \E r \in Request :
    \/ \E d \in Documents : Ask(r, d)
    \/ Stat(r) \/ Slot(r) \/ Fetch(r) \/ StartWorker(r) \/ WorkerMain(r) \/ Answer(r)
    \/ Timeout(r) \/ Reaped(r) \/ HangUp(r) \/ Again(r)

Spec == Init /\ [][Next]_vars

-----------------------------------------------------------------------------
(* However calls overlap, time out and hang up, no more than the allowed     *)
(* number of conversions is alive and no more files than that are in memory. *)
TwoAtOnce ==
  /\ Cardinality({r \in Request : process[r] = "running"}) <= MAX_CONCURRENT
  /\ Cardinality(body) <= MAX_CONCURRENT

(* A text that lacks some of its document says so.  The one cut the code     *)
(* makes without a word is the columns of a sheet past its limit.            *)
Counted(d, u) ==
  CASE d.format = "pdf" -> u.text
    [] d.format = "xlsx" -> u.rows * Less(u.cols, MAX_COLS)
    [] OTHER -> u.text + u.rows * u.cols
Whole(d) ==
  LET whole[n \in 0..Len(d.units)] ==
        IF n = 0 THEN 0 ELSE whole[n - 1] + Counted(d, d.units[n])
  IN  whole[Len(d.units)]

CutIsSaid ==
  \A r \in Request :
    call[r].out.kind = "text" /\ call[r].out.text.shows < Whole(call[r].doc)
      => call[r].out.text.says # {}

ConversionsAreHonest == TwoAtOnce /\ CutIsSaid
=====================================================================================
