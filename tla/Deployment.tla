----------------------------- MODULE Deployment -----------------------------
(* An ExApp container and the settings an administrator stores for it:       *)
(* entry_exapp.main reads them once at its start, on top of the deploy       *)
(* environment, and serves with what came of it; the enable call of AppAPI   *)
(* (exapp/lifecycle.py) reads them again and stops the process when they     *)
(* differ.  Nextcloud answers the read with 401 until the app is enabled,    *)
(* which a first start, and the start of an update, always is too early for. *)
(*                                                                           *)
(* Two settings stand for the eight: the public address, which is validated, *)
(* has a derived fallback and may be refused a second time as an issuer, and *)
(* the switch of the audit log, which may be on, off, empty or unreadable.   *)
EXTENDS Naturals

CONSTANTS
  None,         \* no value
  Address,      \* the usable addresses an administrator may store
  Environments, \* the deploy environments to start from
  MaxChanges    \* bound: changes of the stored settings

VARIABLES
  deploy,   \* the deploy environment, for the life of the container
  stored,   \* what Nextcloud keeps for this app
  enabled,  \* whether AppAPI has the app on enabled
  proc,     \* the process: its step, what it read, what it serves with
  call,     \* the step of an enable call
  log,      \* the last switch row of the audit log
  changes   \* bound

vars == <<deploy, stored, enabled, proc, call, log, changes>>

(* "odd" passes the rule of the form and is no issuer for the library,  *)
(* like an address with a query; "unchecked" is a deploy variable that       *)
(* nothing validates and no issuer either.                                   *)
Stored == [url : Address \cup {None, "blank", "bad", "odd"},
           switch : {None, "blank", "bad", "on", "off"}]
Deploy == [url : {None, "variable", "unchecked"}, switch : {None, "on"},
           derivable : BOOLEAN, exchange : BOOLEAN, audience : BOOLEAN]
Url == Address \cup {None, "variable", "unchecked", "odd", "derived"}

DeploymentAssumption ==
  /\ MaxChanges \in Nat /\ Environments \subseteq Deploy
  /\ Address \cap {None, "blank", "bad", "odd", "variable", "unchecked", "derived"} = {}

Down == [at |-> "down", read |-> FALSE, url |-> None, switch |-> None,
         noted |-> FALSE, compared |-> FALSE, fresh |-> TRUE]

TypeOK ==
  /\ deploy \in Deploy /\ stored \in Stored /\ enabled \in BOOLEAN
  /\ proc.at \in {"down", "read", "settings", "record", "build", "rebuild", "serving", "stopping"}
  /\ proc.url \in Url /\ proc.switch \in {None, "on", "off"}
  /\ {proc.read, proc.noted, proc.compared, proc.fresh} \subseteq BOOLEAN
  /\ call \in {"none", "forms", "compare"}
  /\ log \in {None, "on", "off"} /\ changes \in 0..MaxChanges

Init ==
  /\ deploy \in Environments
  /\ stored = [url |-> None, switch |-> None]
  /\ enabled = FALSE /\ proc = Down /\ call = "none"
  /\ log = None /\ changes = 0

-----------------------------------------------------------------------------
(* People and AppAPI.  A disable stops the container, unless it is one that  *)
(* AppAPI does not manage.                                                   *)
Store(settings) ==
  /\ changes < MaxChanges /\ settings # stored
  /\ stored' = settings /\ changes' = changes + 1
  /\ proc' = [proc EXCEPT !.fresh = FALSE]
  /\ UNCHANGED <<deploy, enabled, call, log>>

SetEnabled ==
  /\ ~ enabled /\ enabled' = TRUE
  /\ UNCHANGED <<deploy, stored, proc, call, log, changes>>

Disable ==
  /\ enabled /\ enabled' = FALSE /\ call' = "none"
  /\ proc' = Down \/ UNCHANGED proc
  /\ UNCHANGED <<deploy, stored, log, changes>>

StartContainer ==
  /\ proc.at = "down"
  /\ proc' = [Down EXCEPT !.at = "read"]
  /\ UNCHANGED <<deploy, stored, enabled, call, log, changes>>

Crash ==
  /\ proc.at # "down" /\ proc' = Down /\ call' = "none"
  /\ UNCHANGED <<deploy, stored, enabled, log, changes>>

-----------------------------------------------------------------------------
(* The overlay: an empty switch is off, an empty text is nothing, and what   *)
(* is not usable is as if it were not there.                                 *)
UsableUrl(settings) == IF settings.url \in {"blank", "bad"} THEN None ELSE settings.url
UsableSwitch(settings) ==
  CASE settings.switch = "blank" -> "off" [] settings.switch = "bad" -> None
    [] OTHER -> settings.switch
OverlayOf(settings) == [url |-> UsableUrl(settings), switch |-> UsableSwitch(settings)]
Nothing == [url |-> None, switch |-> None]

Over(top, bottom) == IF top # None THEN top ELSE bottom
Derived == IF deploy.derivable THEN "derived" ELSE None
Resolved(overlay) ==
  [url |-> Over(Over(overlay.url, deploy.url), Derived),
   switch |-> Over(overlay.switch, deploy.switch)]

(* Whatever goes wrong with the read leaves an empty overlay.                *)
ReadValues ==
  /\ proc.at = "read"
  /\ \E ok \in (IF enabled THEN BOOLEAN ELSE {FALSE}) :
       LET force == Resolved(IF ok THEN OverlayOf(stored) ELSE Nothing) IN
       proc' = [proc EXCEPT !.at = "settings", !.read = ok,
                            !.url = force.url, !.switch = force.switch]
  /\ UNCHANGED <<deploy, stored, enabled, call, log, changes>>

(* The deploy environment and the volume are looked at, or it ends here.     *)
Settings ==
  /\ proc.at = "settings"
  /\ proc' = [proc EXCEPT !.at = "record"] \/ proc' = Down
  /\ UNCHANGED <<deploy, stored, enabled, call, log, changes>>

(* The switch as it is now, if the last row says otherwise; a log that was   *)
(* never on has none.  A failure costs the row and nothing else.             *)
Effective == IF proc.switch = "on" THEN "on" ELSE "off"

RecordTheSwitch ==
  /\ proc.at = "record"
  /\ \/ /\ proc' = [proc EXCEPT !.at = "build", !.noted = TRUE]
        /\ log' = IF log = None /\ Effective = "off" THEN None ELSE Effective
     \/ /\ proc' = [proc EXCEPT !.at = "build"] /\ UNCHANGED log
  /\ UNCHANGED <<deploy, stored, enabled, call, changes>>

-----------------------------------------------------------------------------
(* The first build.  An armed exchange path without an audience of its own   *)
(* needs an address, and an address that is no issuer ends the start of such *)
(* a process; any other drops it and builds once more.                       *)
NoIssuer == {"unchecked", "odd"}
Unbound == deploy.exchange /\ ~ deploy.audience /\ proc.url = None

Build ==
  /\ proc.at = "build"
  /\ proc' = CASE Unbound -> Down
               [] proc.url \notin NoIssuer -> [proc EXCEPT !.at = "serving"]
               [] deploy.exchange -> Down
               [] OTHER -> [proc EXCEPT !.at = "rebuild"]
  /\ UNCHANGED <<deploy, stored, enabled, call, log, changes>>

Rebuild ==
  /\ proc.at = "rebuild"
  /\ proc' = [proc EXCEPT !.at = "serving", !.url = Derived]
  /\ UNCHANGED <<deploy, stored, enabled, call, log, changes>>

-----------------------------------------------------------------------------
(* The enable call: the registrations, of which none may stop the others or  *)
(* the answer, then the comparison of what is stored with what is in force.  *)
Enabled ==
  /\ enabled /\ proc.at = "serving" /\ call = "none"
  /\ call' = "forms"
  /\ UNCHANGED <<deploy, stored, enabled, proc, log, changes>>

RegisterForms ==
  /\ call = "forms" /\ call' = "compare"
  /\ UNCHANGED <<deploy, stored, enabled, proc, log, changes>>

DiffersFromTheVariables(overlay) ==
  \/ overlay.url # None /\ overlay.url # deploy.url
  \/ overlay.switch # None /\ overlay.switch # deploy.switch
DiffersInTheAddress(overlay) == overlay.url # None /\ overlay.url # proc.url
Differs(overlay) ==
  \/ overlay.url # None /\ overlay.url # proc.url
  \/ overlay.switch # None /\ overlay.switch # proc.switch

StoredValuesDiffer ==
  /\ call = "compare" /\ call' = "none"
  /\ \/ UNCHANGED proc
     \/ IF Differs(OverlayOf(stored)) THEN proc' = [proc EXCEPT !.at = "stopping"]
        ELSE proc' = [proc EXCEPT !.compared = TRUE]
  /\ UNCHANGED <<deploy, stored, enabled, log, changes>>

(* The signal, once the answer is out; the container starts again.           *)
RestartThisProcess ==
  /\ proc.at = "stopping" /\ proc' = Down
  /\ UNCHANGED <<deploy, stored, enabled, call, log, changes>>

Next ==
  \/ \E settings \in Stored : Store(settings)
  \/ SetEnabled \/ Disable \/ StartContainer \/ Crash
  \/ ReadValues \/ Settings \/ RecordTheSwitch \/ Build \/ Rebuild
  \/ Enabled \/ RegisterForms \/ StoredValuesDiffer \/ RestartThisProcess

Spec == Init /\ [][Next]_vars

-----------------------------------------------------------------------------
(* One enable is enough: a process that an enable compared and left running, *)
(* and whose settings nobody touched since its start, serves with all that   *)
(* is stored, wherever in the start and the enable the read was refused.     *)
OneEnableIsEnough ==
  proc.at = "serving" /\ proc.compared /\ proc.fresh =>
    LET wanted == Resolved(OverlayOf(stored)) IN
    /\ proc.switch = wanted.switch
    /\ proc.url = (IF wanted.url \in NoIssuer THEN Derived ELSE wanted.url)

(* And it is no loop: a process that had read what is stored is not stopped  *)
(* over it again, but for an address its form takes and no issuer can have,  *)
(* which stops it at every enable.                                           *)
StopsAreDue ==
  proc.at = "stopping" => ~ proc.read \/ ~ proc.fresh \/ stored.url = "odd"

(* No process serves an armed exchange path under the audience every         *)
(* installation without an address would share, however it came to its       *)
(* address; and the log knows of every switch that was in force, unless the  *)
(* row could not be written.                                                 *)
NobodysAudience ==
  proc.at = "serving" /\ deploy.exchange /\ ~ deploy.audience => proc.url # None
LogKnows ==
  proc.at = "serving" /\ proc.noted => log = Effective \/ (log = None /\ Effective = "off")

SettingsApply == OneEnableIsEnough /\ StopsAreDue /\ NobodysAudience /\ LogKnows
=============================================================================
