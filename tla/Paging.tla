---------------------------------- MODULE Paging ----------------------------------
(***************************************************************************)
(* Every tool that answers in windows, and a caller that follows next (or  *)
(* next_offset) until an answer has none.  The tools find their place in   *)
(* five different ways: by bytes, by characters, by the position among     *)
(* what may be shown, by the id of a message, by a timestamp.  What is     *)
(* read does not change meanwhile: none of the handles promises anything   *)
(* about a list that does.                                                 *)
(***************************************************************************)
EXTENDS Integers, Sequences, FiniteSets, SequencesExt, FiniteSetsExt

CONSTANTS
  Kinds,             \* the tools that are asked
  MaxSize,           \* bound of what there is: bytes, characters, entries, messages
  MaxLimit,          \* bound of the window a caller asks for
  MaxSecond,         \* bound of the timestamps of mails
  MAX_SEARCH_FETCH   \* how many hits files_search takes from Nextcloud at most

VARIABLES
  world,   \* what the tool answers about
  at,      \* the position in the handle of the last answer; 0 before the first
  told,    \* what the last answer said about the rest
  got,     \* what the caller has been given, in order
  asked    \* history: the positions it has asked from

vars == <<world, at, told, got, asked>>

PagingAssumption ==
  /\ Kinds \subseteq {"list", "search", "read", "markdown", "download", "rows", "talk", "mail"}
  /\ {MaxSize, MaxSecond} \subseteq Nat
  /\ {MaxLimit, MAX_SEARCH_FETCH} \subseteq Nat \ {0}

Items(w) == 1..w.size
All == [i \in Items(world) |-> i]

(* hidden: entries the tag guard withholds, messages of a type nobody reads,  *)
(* envelopes without an id.  inner: bytes that continue a character, three at *)
(* most in a row.  sent: the seconds of mails, newest first, 0 for a mail     *)
(* whose date is missing.  count: rowsCount of a table, -1 when there is      *)
(* none; it drifts, and reports rows that are gone.                           *)
Plain(kind, n) ==
  [kind |-> kind, size |-> n, hidden |-> {}, inner |-> {},
   sent |-> [i \in 1..n |-> 0], count |-> -1]

WorldsOf(n) ==
  {Plain(kind, n) : kind \in Kinds \cap {"markdown", "download"}}
  \cup {[Plain(kind, n) EXCEPT !.hidden = hidden] :
          kind \in Kinds \cap {"list", "search", "talk"}, hidden \in SUBSET (1..n)}
  \cup {[Plain("read", n) EXCEPT !.inner = inner] :
          inner \in {bytes \in SUBSET (2..n) :
                      \A i \in bytes : ~ ({i + 1, i + 2, i + 3} \subseteq bytes)}}
  \cup {[Plain("rows", n) EXCEPT !.count = count] : count \in {-1, n, n + 1}}
  \cup {[Plain("mail", n) EXCEPT !.hidden = hidden, !.sent = sent] :
          hidden \in SUBSET (1..n),
          sent \in {s \in [1..n -> 0..MaxSecond] : \A i, j \in 1..n : i < j => s[i] >= s[j]}}

Worlds == {w \in UNION {WorldsOf(n) : n \in 0..MaxSize} : w.kind \in Kinds}

TypeOK ==
  /\ at \in 0..(MaxSize + MaxSecond)
  /\ told \in {"start", "more", "cut", "end"}
  /\ got \in Seq(Items(world))

Init == world \in Worlds /\ at = 0 /\ told = "start" /\ got = <<>> /\ asked = {}

-----------------------------------------------------------------------------
Asked(kind) == world.kind = kind /\ told \in {"start", "more"}
Least(a, b) == IF a < b THEN a ELSE b
Shown(items) == SelectSeq(items, LAMBDA i : i \notin world.hidden)
Window(items, offset, limit) == SubSeq(items, offset + 1, Least(offset + limit, Len(items)))
Give(items) == got' = got \o items /\ asked' = asked \cup {at} /\ UNCHANGED world

Continue(next) == told' = "more" /\ at' = next
Stop(how) == told' = how /\ UNCHANGED at

(* Both byte windows and the window of the converted text end the same way. *)
Until(position) == IF position < world.size THEN Continue(position) ELSE Stop("end")

-----------------------------------------------------------------------------
(* files_list: the guard goes over the whole listing before the window is cut. *)
ListDir(limit) ==
  LET children == Shown(All) IN
  /\ Asked("list")
  /\ Give(Window(children, at, limit))
  /\ IF Len(children) > at + limit THEN Continue(at + limit) ELSE Stop("end")

(* files_search: one hit more than the window needs shows whether there is a   *)
(* next one.  What the guard takes away is made good by asking for twice as    *)
(* much, up to the ceiling.                                                    *)
NeededForTheWindow(offset, limit) == offset + limit
Needed(offset, limit) == offset + limit + 1

VisibleHits(needed) ==
  LET raw(fetch) == SubSeq(All, 1, Least(fetch, world.size))
      enough(fetch) == \/ Len(Shown(raw(fetch))) >= needed
                       \/ Len(raw(fetch)) < fetch
                       \/ fetch >= MAX_SEARCH_FETCH
      settled[fetch \in 1..MAX_SEARCH_FETCH] ==
        IF enough(fetch) THEN fetch ELSE settled[Least(2 * fetch, MAX_SEARCH_FETCH)]
      last == settled[Least(needed, MAX_SEARCH_FETCH)]
  IN [hits |-> Shown(raw(last)),
      atCeiling |-> last >= MAX_SEARCH_FETCH /\ Len(raw(last)) >= MAX_SEARCH_FETCH]

Search(limit) ==
  LET found == VisibleHits(Needed(at, limit)) IN
  /\ Asked("search")
  /\ Give(Window(found.hits, at, limit))
  /\ IF Len(found.hits) > at + limit THEN Continue(at + limit)
     ELSE Stop(IF found.atCeiling THEN "cut" ELSE "end")

(* get_range may answer with less than it was asked for, never with nothing *)
(* while something is left.                                                 *)
Ranges(offset, limit) == 1..Least(limit, world.size - offset)

(* _decode: a character that is cut off at the end of the window waits for the *)
(* next one.  A window that holds no whole character is refused, and leaves    *)
(* the caller where it is.                                                     *)
Decoded(offset, bytes) ==
  CHOOSE used \in 0..bytes :
    /\ offset + used + 1 \notin world.inner
    /\ \A more \in (used + 1)..bytes : offset + more + 1 \in world.inner

BehindTheRange(offset, used, bytes) == offset + bytes
Behind(offset, used, bytes) == offset + used

Read(limit, bytes) ==
  LET used == Decoded(at, bytes) IN
  /\ Asked("read")
  /\ IF world.size = at
     THEN Give(<<>>) /\ Stop("end")
     ELSE /\ bytes \in Ranges(at, limit)
          /\ used > 0
          /\ Give(Window(All, at, used)) /\ Until(Behind(at, used, bytes))

Download(limit, bytes) ==
  /\ Asked("download")
  /\ IF world.size = 0
     THEN Give(<<>>) /\ Stop("end")
     ELSE bytes \in Ranges(at, limit) /\ Give(Window(All, at, bytes)) /\ Until(at + bytes)

(* files_read_as_markdown: the document is fetched and converted anew for    *)
(* every window.                                                             *)
ReadAsMarkdown(limit) ==
  LET content == Window(All, at, limit) IN
  /\ Asked("markdown") /\ Give(content) /\ Until(at + Len(content))

(* tables_browse: a window that came back empty has nothing behind it, *)
(* whatever the counter says.                                          *)
MoreByTheCounter(results, offset, limit) ==
  IF world.count # -1 THEN world.count > offset + Len(results) ELSE Len(results) = limit
More(results, offset, limit) ==
  /\ results # <<>>
  /\ IF world.count # -1 THEN world.count > offset + Len(results) ELSE Len(results) = limit

Rows(limit) ==
  LET results == Window(All, at, limit) IN
  /\ Asked("rows") /\ Give(results)
  /\ IF More(results, at, limit) THEN Continue(at + Len(results)) ELSE Stop("end")

(* talk_browse: the app takes what is older than the handle, and the handle of *)
(* the next window from the oldest it took, before it drops anything.          *)
IdOf(i) == world.size + 1 - i
Taken(limit) ==
  Window(SelectSeq(All, LAMBDA i : at = 0 \/ IdOf(i) < at), 0, limit)

TalkMessages(limit) ==
  /\ Asked("talk") /\ Give(Shown(Taken(limit)))
  /\ IF Taken(limit) = <<>> THEN Stop("end") ELSE Continue(IdOf(Last(Taken(limit))))

(* mail_browse: a full page goes on at the second of its oldest mail that has *)
(* a date; the app answers with what is older than that second.               *)
Dated(raw) == {world.sent[i] : i \in ToSet(raw)} \ {0}

MailMessages(limit) ==
  LET raw == Window(SelectSeq(All, LAMBDA i : at = 0 \/ world.sent[i] < at), 0, limit) IN
  /\ Asked("mail") /\ Give(Shown(raw))
  /\ CASE Len(raw) < limit -> Stop("end")
       [] Len(raw) >= limit /\ Dated(raw) = {} -> Stop("cut")
       [] OTHER -> Continue(Min(Dated(raw)))

Next ==
  \E limit \in 1..MaxLimit :
    \/ ListDir(limit) \/ Search(limit) \/ ReadAsMarkdown(limit)
    \/ \E bytes \in 1..MaxLimit : Read(limit, bytes) \/ Download(limit, bytes)
    \/ Rows(limit) \/ TalkMessages(limit) \/ MailMessages(limit)

Spec == Init /\ [][Next]_vars

-----------------------------------------------------------------------------
(* What a caller who follows every handle is due: everything that may be     *)
(* shown.  Of mails only those with a date that no other mail shares: two    *)
(* mails of one second on both sides of a page border are a documented limit *)
(* of mail_browse, because the app continues strictly before that second.    *)
Due ==
  SelectSeq(Shown(All),
            LAMBDA i : world.kind = "mail" =>
                         /\ world.sent[i] > 0
                         /\ \A j \in Items(world) : world.sent[j] = world.sent[i] => j = i)
Received == SelectSeq(got, LAMBDA i : i \in ToSet(Due))

(* Whatever windows a caller asks for, and however short the answers are, it  *)
(* gets what is due in order, each once, and no character is torn or lost     *)
(* between two of them.                                                       *)
EachOnce == IsPrefix(Received, Due)

(* An answer that offers no way on and does not say that it was cut is the    *)
(* last one of a complete list: nothing ends silently, neither behind a run   *)
(* of withheld hits or unread messages nor at a border of two windows.        *)
CompleteOrSaysSo == told = "end" => Received = Due

(* No handle leads back to a window that was read already: a caller who goes *)
(* on while there is a handle comes to an end.                               *)
NeverCircles == told = "more" => at \notin asked
===================================================================================
