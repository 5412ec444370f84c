---------------------------- MODULE AccountPage ----------------------------
(* The page on which an account sees its connections, ends one of them and   *)
(* pauses or resumes its access (oauth/connections.py).  Every form carries  *)
(* a value that binds it to one purpose, one handle and two hours            *)
(* (oauth/crypto.form_token); a connection has the id of the flow it was     *)
(* born in, so its consent form (oauth/consent.py) is about the same handle. *)
(* Several tabs post at once, and a connection may end elsewhere meanwhile.  *)
EXTENDS Naturals, FiniteSets

CONSTANTS
  None,    \* no value
  Account, \* Nextcloud accounts
  Conn,    \* connections, under the ids of their flows
  Owner,   \* the account each of them is for
  Tab,     \* requests in flight
  MaxHour  \* bound: hours

VARIABLES
  hour,    \* the window of the form values
  state,   \* "flow", "live" or "ended", per connection
  paused,  \* the accounts whose access is switched off
  held,    \* the form values each browser has seen
  offered, \* the last hour this page offered the action on a handle, None if never
  tab      \* the requests

vars == <<hour, state, paused, held, offered, tab>>

Handle == Conn \cup Account
Purpose == {"consent", "disconnect", "switch"}
Value == [purpose : Purpose, handle : Handle, hour : 0..MaxHour]
NoValue == [purpose |-> "none", handle |-> None, hour |-> 0]

AccountPageAssumption ==
  /\ MaxHour \in Nat /\ Owner \in [Conn -> Account]
  /\ Conn \cap Account = {} /\ None \notin Handle /\ None \notin 0..MaxHour

Serving(at, who, act, c, value) ==
  [at |-> at, who |-> who, act |-> act, conn |-> c, value |-> value,
   result |-> "", rows |-> {}, paused |-> FALSE, checked |-> None]
Free == Serving("free", None, "list", None, NoValue)

TypeOK ==
  /\ hour \in 0..MaxHour /\ state \in [Conn -> {"flow", "live", "ended"}]
  /\ paused \subseteq Account /\ held \in [Account -> SUBSET Value]
  /\ offered \in [Handle -> 0..MaxHour \cup {None}]
  /\ \A t \in Tab :
       /\ tab[t].at \in {"free", "owned", "end", "revoke", "flip", "rows", "switch", "render",
                         "page", "failed"}
       /\ tab[t].who \in Account \cup {None} /\ tab[t].conn \in Conn \cup {None}
       /\ tab[t].act \in {"list", "confirm", "disconnect", "pause", "resume"}
       /\ tab[t].value \in Value \cup {NoValue} /\ tab[t].result \in {"", "done", "gone"}
       /\ tab[t].rows \subseteq Conn /\ tab[t].paused \in BOOLEAN

Init ==
  /\ hour = 0 /\ state = [c \in Conn |-> "flow"] /\ paused = {}
  /\ held = [a \in Account |-> {}] /\ offered = [h \in Handle |-> None]
  /\ tab = [t \in Tab |-> Free]

-----------------------------------------------------------------------------
(* A value holds in the hour it was rendered in and in the next one, for its *)
(* purpose and its handle.                                                   *)
ForTheHandle(value, purpose, handle) ==
  value.handle = handle /\ value.hour \in {hour, hour - 1}
FormTokenValid(value, purpose, handle) ==
  value.purpose = purpose /\ value.handle = handle /\ value.hour \in {hour, hour - 1}
FormToken(purpose, handle) == [purpose |-> purpose, handle |-> handle, hour |-> hour]

(* What a page that offers these handles leaves in the browser it goes to.   *)
Offer(who, values) ==
  /\ held' = [held EXCEPT ![who] = @ \cup values]
  /\ offered' = [h \in Handle |-> IF \E v \in values : v.handle = h THEN hour ELSE offered[h]]

-----------------------------------------------------------------------------
(* Outside this page: a flow shows its consent page to whoever opens it and  *)
(* becomes a connection of its owner; a client ends its own connection.      *)
ShowConsent(c, who) ==
  /\ state[c] = "flow" /\ held' = [held EXCEPT ![who] = @ \cup {FormToken("consent", c)}]
  /\ UNCHANGED <<hour, state, paused, offered, tab>>
Connect(c) ==
  /\ state[c] = "flow" /\ state' = [state EXCEPT ![c] = "live"]
  /\ UNCHANGED <<hour, paused, held, offered, tab>>
EndElsewhere(c) ==
  /\ state[c] = "live" /\ state' = [state EXCEPT ![c] = "ended"]
  /\ UNCHANGED <<hour, paused, held, offered, tab>>
Tick ==
  /\ hour < MaxHour /\ hour' = hour + 1
  /\ UNCHANGED <<state, paused, held, offered, tab>>

-----------------------------------------------------------------------------
Put(t, row) == tab' = [tab EXCEPT ![t] = row]
Goto(t, step) == Put(t, [tab[t] EXCEPT !.at = step])
Answer(t, result) ==
  Put(t, [tab[t] EXCEPT !.at = "rows", !.result = result, !.value = NoValue, !.checked = None])
Shared == <<hour, state, paused, held, offered>>

(* connections and _act: a form nobody understands, and the safe button, are *)
(* the list again.                                                           *)
Act(t, who, act, c, value) ==
  /\ tab[t].at = "free"
  /\ LET to == CASE act \in {"confirm", "disconnect"} -> "owned"
                 [] act \in {"pause", "resume"} -> "flip" [] OTHER -> "rows"
     IN  Put(t, Serving(to, who, act, c, value))
  /\ UNCHANGED Shared

(* _owned: another account's connection and an ended one are as if they were *)
(* not there.                                                                *)
Owned(t) == tab[t].conn # None /\ state[tab[t].conn] = "live" /\ Owner[tab[t].conn] = tab[t].who

Confirm(t) ==
  /\ tab[t].at = "owned" /\ tab[t].act = "confirm"
  /\ IF Owned(t) /\ FormTokenValid(tab[t].value, "disconnect", tab[t].conn)
     THEN Offer(tab[t].who, {FormToken("disconnect", tab[t].conn)}) /\ Put(t, [Free EXCEPT !.at = "page", !.who = tab[t].who])
     ELSE Answer(t, "gone") /\ UNCHANGED <<held, offered>>
  /\ UNCHANGED <<hour, state, paused>>

Disconnect(t) ==
  /\ tab[t].at = "owned" /\ tab[t].act = "disconnect"
  /\ IF Owned(t) /\ FormTokenValid(tab[t].value, "disconnect", tab[t].conn)
     THEN Put(t, [tab[t] EXCEPT !.at = "end", !.value = NoValue, !.checked = hour]) ELSE Answer(t, "gone")
  /\ UNCHANGED Shared

(* end_connection reads the row and its account again before it writes.      *)
EndConnection(t) ==
  /\ tab[t].at = "end"
  /\ IF Owned(t) THEN Goto(t, "revoke") ELSE Answer(t, "gone")
  /\ UNCHANGED Shared

Revoke(t) ==
  /\ tab[t].at = "revoke"
  /\ state' = [state EXCEPT ![tab[t].conn] = "ended"]
  /\ Answer(t, "done") \/ Put(t, [Free EXCEPT !.at = "failed"])
  /\ UNCHANGED <<hour, paused, held, offered>>

(* A named state and never a toggle; the value is for the account that asks. *)
Switch(t) ==
  /\ tab[t].at = "flip"
  /\ IF FormTokenValid(tab[t].value, "switch", tab[t].who)
     THEN Put(t, [tab[t] EXCEPT !.at = "switch", !.value = NoValue, !.checked = hour]) ELSE Answer(t, "")
  /\ UNCHANGED Shared

SetAccess(t) ==
  /\ tab[t].at = "switch"
  /\ paused' = IF tab[t].act = "pause" THEN paused \cup {tab[t].who} ELSE paused \ {tab[t].who}
  /\ Answer(t, "")
  /\ UNCHANGED <<hour, state, held, offered>>

(* Any step that reads or writes the store may fail, and the page says so.   *)
Fail(t) ==
  /\ tab[t].at \in {"owned", "end", "revoke", "switch", "rows"} /\ Put(t, [Free EXCEPT !.at = "failed"])
  /\ UNCHANGED Shared

-----------------------------------------------------------------------------
(* _list: the rows first, then the switch, then the names, with a value on   *)
(* every row and one for the switch.                                         *)
ReadRows(t) ==
  /\ tab[t].at = "rows"
  /\ Put(t, [tab[t] EXCEPT !.at = "render",
                           !.rows = {c \in Conn : state[c] = "live" /\ Owner[c] = tab[t].who}])
  /\ UNCHANGED Shared

Render(t) ==
  /\ tab[t].at = "render"
  /\ Put(t, [tab[t] EXCEPT !.at = "page", !.paused = tab[t].who \in paused])
  /\ Offer(tab[t].who, {FormToken("disconnect", c) : c \in tab[t].rows}
                         \cup {FormToken("switch", tab[t].who)})
  /\ UNCHANGED <<hour, state, paused>>

Leave(t) ==
  /\ tab[t].at \in {"page", "failed"} /\ Put(t, Free)
  /\ UNCHANGED Shared

Next ==
  \/ \E c \in Conn : Connect(c) \/ EndElsewhere(c) \/ \E who \in Account : ShowConsent(c, who)
  \/ Tick
  \/ \E t \in Tab :
       \/ \E who \in Account :
            \/ Act(t, who, "list", None, NoValue)
            \/ \E value \in held[who] \cup {NoValue} :
                 \/ \E act \in {"confirm", "disconnect"}, c \in Conn : Act(t, who, act, c, value)
                 \/ \E act \in {"pause", "resume"} : Act(t, who, act, None, value)
       \/ Confirm(t) \/ Disconnect(t) \/ EndConnection(t) \/ Revoke(t) \/ Switch(t)
       \/ SetAccess(t) \/ Fail(t) \/ ReadRows(t) \/ Render(t) \/ Leave(t)

Spec == Init /\ [][Next]_vars

-----------------------------------------------------------------------------
(* What is about to be done through this page was offered by this page to    *)
(* the account it is done for, not more than one window before the form was  *)
(* looked at: no form of another purpose and no page of long ago ends a      *)
(* connection or moves the switch.                                           *)
Offered(t, handle) == offered[handle] # None /\ tab[t].checked <= offered[handle] + 1

OnlyWhatWasOffered ==
  \A t \in Tab :
    /\ tab[t].at \in {"end", "revoke"} =>
         Owner[tab[t].conn] = tab[t].who /\ Offered(t, tab[t].conn)
    /\ tab[t].at = "switch" => Offered(t, tab[t].who)

(* A page that says a connection was ended is right, however many tabs ended *)
(* it at once, and does not list it; and it lists nothing of anybody else.   *)
DoneIsDone ==
  \A t \in Tab : tab[t].at = "page" =>
    /\ tab[t].result = "done" => state[tab[t].conn] = "ended" /\ tab[t].conn \notin tab[t].rows
    /\ \A c \in tab[t].rows : Owner[c] = tab[t].who
=============================================================================
