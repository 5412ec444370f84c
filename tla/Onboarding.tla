--------------------------------- MODULE Onboarding ---------------------------------
(***************************************************************************)
(* An app password for a client that cannot sign in itself: a person       *)
(* starts a login flow, grants it in Nextcloud, and the waiting page of    *)
(* their browser collects the password and shows it once.  The waiting     *)
(* page asks again and again and may be open twice; the flow is cancelled, *)
(* expires, or the process stops between two calls of one wait.            *)
(***************************************************************************)
EXTENDS Integers, FiniteSets

CONSTANTS
  Flow,       \* login flows
  Wait,       \* requests of waiting pages that may run at the same time
  Account,
  FLOW_TTL,   \* how long a flow record lives
  MaxClock,   \* bound of the clock
  None

VARIABLES
  clock,
  record,     \* record[f]: when the flow record expires, None without one
  login,      \* login[f]: what Nextcloud has of the flow
  owner,      \* owner[f]: the account that granted it
  password,   \* password[f]: "none", "alive" or "returned", in Nextcloud
  paused,     \* the accounts that have switched the access off
  wait,       \* the step each waiting request is at
  shown,      \* history: who was shown the password of a flow
  mishap      \* history: the flows whose password a failure nobody could answer lost

vars == <<clock, record, login, owner, password, paused, wait, shown, mishap>>

OnboardingAssumption == FLOW_TTL \in Nat /\ MaxClock \in Nat

Steps == {"idle", "poll", "account", "identify", "switch", "delete", "revoke", "forget"}
Idle == [at |-> "idle", flow |-> None, as |-> None]

TypeOK ==
  /\ clock \in 0..MaxClock
  /\ record \in [Flow -> Nat \cup {None}]
  /\ login \in [Flow -> {"none", "open", "granted", "collected"}]
  /\ owner \in [Flow -> Account \cup {None}]
  /\ password \in [Flow -> {"none", "alive", "returned"}]
  /\ paused \subseteq Account
  /\ wait \in [Wait -> [at : Steps, flow : Flow \cup {None}, as : Account \cup {None}]]
  /\ shown \subseteq Flow \X Account /\ mishap \subseteq Flow

Init ==
  /\ clock = 0
  /\ record = [f \in Flow |-> None]
  /\ login = [f \in Flow |-> "none"]
  /\ owner = [f \in Flow |-> None]
  /\ password = [f \in Flow |-> "none"]
  /\ paused \in SUBSET Account
  /\ wait = [w \in Wait |-> Idle]
  /\ shown = {} /\ mishap = {}

-----------------------------------------------------------------------------
At(w, step) == wait[w].at = step
Goto(w, step) == wait' = [wait EXCEPT ![w].at = step]
Leave(w) == wait' = [wait EXCEPT ![w] = Idle]
Nextcloud == <<login, owner, password>>
History == <<shown, mishap>>

(* The flow is opened in Nextcloud first; a record that cannot be written     *)
(* leaves a flow nobody is sent to.                                           *)
Start(f) ==
  /\ login[f] = "none"
  /\ login' = [login EXCEPT ![f] = "open"]
  /\ (record' = [record EXCEPT ![f] = clock + FLOW_TTL] \/ UNCHANGED record)
  /\ UNCHANGED <<clock, owner, password, paused, wait, History>>

Cancel(f) ==
  /\ record[f] # None
  /\ record' = [record EXCEPT ![f] = None]
  /\ UNCHANGED <<clock, Nextcloud, paused, wait, History>>

Load(w, f, as) ==
  /\ At(w, "idle") /\ record[f] # None
  /\ IF record[f] <= clock
     THEN record' = [record EXCEPT ![f] = None] /\ UNCHANGED wait
     ELSE wait' = [wait EXCEPT ![w] = [at |-> "poll", flow |-> f, as |-> as]]
          /\ UNCHANGED record
  /\ UNCHANGED <<clock, Nextcloud, paused, History>>

(* Nextcloud hands the password out once; before and after that a poll finds  *)
(* nothing.  An answer that is lost takes the password with it.               *)
Poll(w) ==
  LET f == wait[w].flow IN
  /\ At(w, "poll")
  /\ \/ login[f] # "granted" /\ Leave(w) /\ UNCHANGED <<login, mishap>>
     \/ /\ login[f] = "granted"
        /\ login' = [login EXCEPT ![f] = "collected"]
        /\ \/ Goto(w, "account") /\ UNCHANGED mishap
           \/ Leave(w) /\ mishap' = mishap \cup {f}
  /\ UNCHANGED <<clock, record, owner, password, paused, shown>>

(* Who the password belongs to, whether this browser is theirs, and whether   *)
(* they have paused the access: one answer that is missing or wrong, and the  *)
(* password goes back.                                                        *)
Resolve(w) ==
  /\ At(w, "account")
  /\ (Goto(w, "identify") \/ Goto(w, "revoke"))
  /\ UNCHANGED <<clock, record, Nextcloud, paused, History>>

Identified(w) == wait[w].as = owner[wait[w].flow]
RefusedOutright(w) == Leave(w)
Refused(w) == Goto(w, "revoke")

Identify(w) ==
  /\ At(w, "identify")
  /\ \/ Identified(w) /\ Goto(w, "switch")
     \/ Refused(w)      \* another account's browser, or nobody can tell
  /\ UNCHANGED <<clock, record, Nextcloud, paused, History>>

Switch(w) ==
  /\ At(w, "switch")
  /\ \/ owner[wait[w].flow] \notin paused /\ Goto(w, "delete")
     \/ Refused(w)      \* paused, or the switch cannot be read
  /\ UNCHANGED <<clock, record, Nextcloud, paused, History>>

(* The record goes before the page is written, and the password is shown only *)
(* where it went.                                                             *)
Show(w) ==
  LET f == wait[w].flow IN
  /\ At(w, "delete")
  /\ \/ /\ record' = [record EXCEPT ![f] = None]
        /\ shown' = shown \cup {<<f, wait[w].as>>}
        /\ Leave(w)
     \/ Refused(w) /\ UNCHANGED <<record, shown>>
  /\ UNCHANGED <<clock, Nextcloud, paused, mishap>>

(* revoke_app_password tries once and is believed.                            *)
Revoke(w) ==
  LET f == wait[w].flow IN
  /\ At(w, "revoke")
  /\ \/ password' = [password EXCEPT ![f] = "returned"] /\ UNCHANGED mishap
     \/ mishap' = mishap \cup {f} /\ UNCHANGED password
  /\ Goto(w, "forget")
  /\ UNCHANGED <<clock, record, login, owner, paused, shown>>

Forget(w) ==
  /\ At(w, "forget")
  /\ (record' = [record EXCEPT ![wait[w].flow] = None] \/ UNCHANGED record)
  /\ Leave(w)
  /\ UNCHANGED <<clock, Nextcloud, paused, History>>

-----------------------------------------------------------------------------
Holding == {"account", "identify", "switch", "delete", "revoke"}
Held(f) == \E w \in Wait : wait[w].flow = f /\ wait[w].at \in Holding

Grant(f, a) ==
  /\ login[f] = "open"
  /\ login' = [login EXCEPT ![f] = "granted"]
  /\ owner' = [owner EXCEPT ![f] = a]
  /\ password' = [password EXCEPT ![f] = "alive"]
  /\ UNCHANGED <<clock, record, paused, wait, History>>

Pause(a) ==
  /\ paused' = IF a \in paused THEN paused \ {a} ELSE paused \cup {a}
  /\ UNCHANGED <<clock, record, Nextcloud, wait, History>>

Crash ==
  /\ wait' = [w \in Wait |-> Idle]
  /\ mishap' = mishap \cup {f \in Flow : Held(f)}
  /\ UNCHANGED <<clock, record, Nextcloud, paused, shown>>

Tick ==
  /\ clock < MaxClock
  /\ clock' = clock + 1
  /\ UNCHANGED <<record, Nextcloud, paused, wait, History>>

Next ==
  \/ \E f \in Flow : Start(f) \/ Cancel(f) \/ \E a \in Account : Grant(f, a)
  \/ \E w \in Wait : \/ \E f \in Flow, a \in Account : Load(w, f, a)
                     \/ Poll(w) \/ Resolve(w) \/ Identify(w) \/ Switch(w) \/ Show(w)
                     \/ Revoke(w) \/ Forget(w)
  \/ \E a \in Account : Pause(a)
  \/ Crash
  \/ Tick

Spec == Init /\ [][Next]_vars

-----------------------------------------------------------------------------
(* A password that was collected is in the hands of exactly one: the wait    *)
(* that collected it, the browser of the account it belongs to, which saw it *)
(* once, or Nextcloud, which has it back.  Two waits of one flow, a cancel   *)
(* in the middle and an expired record change nothing about it.  What a      *)
(* crash, a lost answer or a failed return leaves behind is excepted.        *)
ShownOnceOrReturned ==
  \A f \in Flow :
    LET seen == {entry \in shown : entry[1] = f} IN
       /\ seen \subseteq {<<f, owner[f]>>}
       /\ seen # {} => password[f] = "alive" /\ ~ Held(f)
       /\ Cardinality({w \in Wait : wait[w].flow = f /\ wait[w].at \in Holding}) <= 1
       /\ login[f] = "collected" /\ f \notin mishap =>
            Held(f) \/ seen # {} \/ password[f] = "returned"
=====================================================================================
