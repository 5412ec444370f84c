------------------------------------ MODULE ToolWrites ------------------------------------
(***************************************************************************)
(* The tools that make something new outside the files: a row in a table,  *)
(* a message in a conversation, an event in a calendar.  Each looks first  *)
(* whether it may and what exactly is meant, and then asks Nextcloud once. *)
(* People rename, share and remove things between the two, an answer may   *)
(* be lost, and nothing here is ever sent twice by the tool itself.        *)
(***************************************************************************)
EXTENDS Integers, FiniteSets

CONSTANTS
  Call,        \* tool calls
  Does,        \* which tool each is: "row", "message" or "event"
  Wants,       \* the titles of columns, the token, or the calendar that it names
  Title,       \* titles of columns and of calendars
  Column, Mandatory,  \* columns of the table, and those it needs
  Room,        \* tokens of conversations
  Calendar,    \* addresses of calendars
  Default,     \* the calendar that is meant when none is named
  MaxChanges,  \* changes people make
  None

VARIABLES
  titles,   \* the title of each column, None for one that is gone
  create,   \* whether this account may add rows
  rooms,    \* what each conversation allows
  names,    \* the display name of each calendar, None for one that is gone
  calls,    \* what each call is doing and what it answered
  made,     \* the objects Nextcloud made, each with the call it came from and where it is
  meant,    \* history: what the words of each call meant, and meant alone, since it began
  changes

world == <<titles, create, rooms, names>>
vars == <<world, calls, made, meant, changes>>

ToolWritesAssumption ==
  /\ Does \in [Call -> {"row", "message", "event"}] /\ MaxChanges \in Nat
  /\ Mandatory \subseteq Column /\ Default \in Calendar
  /\ \A c \in Call : /\ Does[c] = "row" => Wants[c] \subseteq Title /\ Wants[c] # {}
                     /\ Does[c] = "message" => Wants[c] \in Room
  /\ None \notin {"refused", "failed", "created", "probably"}

RoomState == {"open", "read only", "changelog", "no permission", "withheld", "gone"}
Place == Column \cup Room \cup Calendar

TypeOK ==
  /\ titles \in [Column -> Title \cup {None}] /\ create \in BOOLEAN
  /\ rooms \in [Room -> RoomState] /\ names \in [Calendar -> Title \cup {None}]
  /\ \A c \in Call : /\ calls[c].at \in {"start", "table", "look", "write", "back", "done"}
                     /\ calls[c].to \subseteq Place
                     /\ calls[c].said \in {None, "refused", "failed", "created", "probably"}
                     /\ meant[c] \subseteq Place
  /\ \A m \in made : m.call \in Call /\ m.at \subseteq Place
  /\ changes \in 0..MaxChanges

-----------------------------------------------------------------------------
(* What the words of a call mean: the one column of each title, ignoring     *)
(* case; the conversation of that token; the calendar of that address or     *)
(* that name.  Words that two things answer to mean neither.                 *)
Titled(w) == {col \in Column : titles[col] = w}
FirstOfTitle(w) == IF Titled(w) = {} THEN {} ELSE {CHOOSE col \in Titled(w) : TRUE}
ByTitle(w) == IF Cardinality(Titled(w)) = 1 THEN Titled(w) ELSE {}
Select(w) == {cal \in Calendar : names[cal] # None /\ (cal = w \/ names[cal] = w)}
Existing == {cal \in Calendar : names[cal] # None}

PickTarget(w) ==
  IF w # None THEN IF Cardinality(Select(w)) = 1 THEN Select(w) ELSE {}
  ELSE IF Default \in Existing THEN {Default}
  ELSE IF Cardinality(Existing) = 1 THEN Existing ELSE {}

ByColumnId(c) == UNION {ByTitle(w) : w \in Wants[c]}
Resolves(c) == \A w \in Wants[c] : ByTitle(w) # {}
Filled(c) == \A col \in Mandatory : titles[col] = None \/ titles[col] \in Wants[c]

(* The same, said of the world and not of the code.                          *)
Alone(S) == IF Cardinality(S) = 1 THEN S ELSE {}
MeantBy(c, ts, ns) ==
  CASE Does[c] = "row" -> UNION {Alone({col \in Column : ts[col] = w}) : w \in Wants[c]}
    [] Does[c] = "message" -> {Wants[c]}
    [] OTHER -> IF Wants[c] = None
                THEN {Default} \cup Alone({cal \in Calendar : ns[cal] # None})
                ELSE Alone({cal \in Calendar : ns[cal] # None /\ Wants[c] \in {cal, ns[cal]}})

Begun(c) == [at |-> "start", to |-> {}, said |-> None]

Init ==
  /\ titles \in [Column -> Title]
  /\ create = TRUE
  /\ rooms = [r \in Room |-> "open"]
  /\ names \in [Calendar -> Title]
  /\ calls = [c \in Call |-> Begun(c)]
  /\ made = {} /\ changes = 0
  /\ meant = [c \in Call |-> MeantBy(c, titles, names)]

-----------------------------------------------------------------------------
(* People, between any two requests.                                         *)
Watch == meant' = [c \in Call |-> meant[c] \cup MeantBy(c, titles', names')]

People ==
  /\ changes < MaxChanges /\ changes' = changes + 1
  /\ \/ \E col \in Column, t \in Title \cup {None} :
          /\ titles' = [titles EXCEPT ![col] = t] /\ UNCHANGED <<create, rooms, names>>
     \/ \E r \in Room, s \in RoomState :
          /\ rooms' = [rooms EXCEPT ![r] = s] /\ UNCHANGED <<titles, create, names>>
     \/ \E cal \in Calendar, t \in Title \cup {None} :
          /\ names' = [names EXCEPT ![cal] = t] /\ UNCHANGED <<titles, create, rooms>>
     \/ create' = ~ create /\ UNCHANGED <<titles, rooms, names>>
  /\ Watch
  /\ UNCHANGED <<calls, made>>

-----------------------------------------------------------------------------
At(c, tool, step) == Does[c] = tool /\ calls[c].at = step
Goto(c, step) == calls' = [calls EXCEPT ![c].at = step]
Say(c, word) == calls' = [calls EXCEPT ![c].at = "done", ![c].said = word]
Writing(c, places) == calls' = [calls EXCEPT ![c].at = "write", ![c].to = places]

(* Input that cannot be read, a switched off tool and an app that is not     *)
(* there are refused before anything is asked; and any request may fail.     *)
Start(c) ==
  /\ calls[c].at = "start"
  /\ Goto(c, IF Does[c] = "row" THEN "table" ELSE "look") \/ Say(c, "refused")
  /\ UNCHANGED <<world, made, meant, changes>>

Fail(c) ==
  /\ calls[c].at \in {"table", "look", "write"} /\ Say(c, "failed")
  /\ UNCHANGED <<world, made, meant, changes>>

(* create_row: the permission, then the columns, then one row.               *)
GetTable(c) ==
  /\ At(c, "row", "table")
  /\ IF create THEN Goto(c, "look") ELSE Say(c, "refused")
  /\ UNCHANGED <<world, made, meant, changes>>

GetColumns(c) ==
  /\ At(c, "row", "look")
  /\ IF Resolves(c) /\ Filled(c) THEN Writing(c, ByColumnId(c)) ELSE Say(c, "refused")
  /\ UNCHANGED <<world, made, meant, changes>>

(* send: the conversation out of the list of this account, and what it       *)
(* allows; a conversation about a withheld file is not in that list.         *)
MaySend(r) == rooms[r] = "open"
OneRoom(c) ==
  /\ At(c, "message", "look")
  /\ IF MaySend(Wants[c]) THEN Writing(c, {Wants[c]}) ELSE Say(c, "refused")
  /\ UNCHANGED <<world, made, meant, changes>>

(* create_event: the calendars of this account, of which one is meant.       *)
DiscoverCalendars(c) ==
  /\ At(c, "event", "look")
  /\ IF PickTarget(Wants[c]) # {} THEN Writing(c, PickTarget(Wants[c])) ELSE Say(c, "refused")
  /\ UNCHANGED <<world, made, meant, changes>>

-----------------------------------------------------------------------------
(* The one request that writes.  Nextcloud refuses what it does not allow by *)
(* then; what it made may come back without an id, or not come back.         *)
Accepts(c) ==
  CASE Does[c] = "row" -> create /\ \A col \in calls[c].to : titles[col] # None
    [] Does[c] = "message" -> rooms[Wants[c]] \in {"open", "withheld"}
    [] OTHER -> \A cal \in calls[c].to : names[cal] # None

Made(c) == made \cup {[call |-> c, at |-> calls[c].to,
                       nr |-> Cardinality({m \in made : m.call = c})]}

Write(c) ==
  /\ calls[c].at = "write" /\ Accepts(c)
  /\ made' = Made(c)
  /\ \/ Say(c, "failed")
     \/ IF Does[c] = "event" THEN Goto(c, "back") ELSE Say(c, "created") \/ Say(c, "probably")
  /\ UNCHANGED <<world, meant, changes>>

WriteRefused(c) ==
  /\ calls[c].at = "write" /\ ~ Accepts(c) /\ Say(c, "refused")
  /\ UNCHANGED <<world, made, meant, changes>>

(* The event is read back, and what was written is answered if that fails.   *)
ReadBack(c) ==
  /\ At(c, "event", "back") /\ Say(c, "created")
  /\ UNCHANGED <<world, made, meant, changes>>

Next ==
  \/ People
  \/ \E c \in Call :
       \/ Start(c) \/ Fail(c) \/ GetTable(c) \/ GetColumns(c) \/ OneRoom(c)
       \/ DiscoverCalendars(c) \/ Write(c) \/ WriteRefused(c) \/ ReadBack(c)

Spec == Init /\ [][Next]_vars

-----------------------------------------------------------------------------
(* A tool that says created made exactly one thing, one that refuses made    *)
(* nothing, and one that does not know made one at most; and whatever was    *)
(* made is where the words of the call pointed, and pointed alone, at some   *)
(* moment of the call: never under one of two columns of one title, never    *)
(* in one of two calendars of one name.                                      *)
Of(c) == {m \in made : m.call = c}
WritesWhatWasMeant ==
  \A c \in Call :
    /\ calls[c].said \in {"created", "probably"} => Cardinality(Of(c)) = 1
    /\ calls[c].said = "refused" => Of(c) = {}
    /\ Cardinality(Of(c)) <= 1
    /\ \A m \in Of(c) : m.at # {} /\ m.at \subseteq meant[c]
=====================================================================================
