---------------------------- MODULE RequestPath ----------------------------
(* Whose account a tool call acts on.  Four entry points serve the same      *)
(* tools: over AppAPI (entry_exapp, exapp/middleware.RequireAppApi), with    *)
(* tokens of our own (entry_oauth, RequireOAuthBearer), over plain HTTP with *)
(* a shared bearer or with the credentials of each request (entry_http), and *)
(* for one person (entry_stdio).  The guard in front of the tools, the       *)
(* credentials inside them (deps.py) and the audit row behind them           *)
(* (audit/record.note) each find out for themselves who is calling.          *)
EXTENDS Naturals, FiniteSets

CONSTANTS
  None,     \* no value
  Account,  \* Nextcloud accounts
  Bearer,   \* tokens of connections and of the exchange path
  Basic,    \* user names with app passwords, as a client may send them
  Owner,    \* the account of each of them
  Way       \* how a bearer reaches Nextcloud: "password" or "impersonate"

VARIABLES
  entry,   \* the entry point
  env,     \* which credential variables its environment has
  up,      \* "starting", "serving" or "refused"
  alive,   \* the bearers whose connection has not ended
  paused,  \* the accounts whose switch is off
  call     \* the request

vars == <<entry, env, up, alive, paused, call>>
world == <<entry, env, up, alive, paused>>

Entry == {"exapp", "oauth", "http", "stdio"}
Flag == {"appapi", "oauth", "static", "user"}

(* What AUTHORIZATION-APP-API may carry: nothing, something that does not    *)
(* hold (a wrong or doubled header), the app itself, or an account; and what *)
(* Authorization may carry.                                                  *)
AppHeader == {"none", "broken", "app"} \cup Account
AuthHeader == {"none", "junk", "static"} \cup Bearer \cup Basic

RequestPathAssumption ==
  /\ Owner \in [Bearer \cup Basic -> Account] /\ Way \in [Bearer -> {"password", "impersonate"}]
  /\ Bearer \cap Basic = {} /\ None \notin Account
  /\ Account \cap {"none", "broken", "app", "configured"} = {}

Free == [at |-> "free", app |-> "none", auth |-> "none", user |-> None, identity |-> None,
         ended |-> FALSE, asked |-> None, acts |-> None, row |-> None, ran |-> FALSE]

TypeOK ==
  /\ entry \in Entry /\ env \in SUBSET Flag /\ up \in {"starting", "serving", "refused"}
  /\ alive \subseteq Bearer /\ paused \subseteq Account
  /\ call.at \in {"free", "guard", "verify", "identify", "switch", "tool", "work", "record",
                  "done", "refused"}
  /\ call.app \in AppHeader /\ call.auth \in AuthHeader
  /\ call.user \in Account \cup {None, "app"} /\ call.identity \in Bearer \cup {None}
  /\ call.asked \in Account \cup {None} /\ call.acts \in Account \cup {None, "configured"}
  /\ call.row \in Account \cup {None} /\ {call.ended, call.ran} \subseteq BOOLEAN

Init ==
  /\ entry \in Entry /\ env \in SUBSET Flag /\ up = "starting"
  /\ alive = Bearer /\ paused = {} /\ call = Free

-----------------------------------------------------------------------------
(* The starts.  A second credential channel would be a silent fallback, so   *)
(* each entry refuses the variables of the others that it must not see.      *)
ExAppConflicts == env \cap {"static", "user"} # {} \/ "appapi" \notin env
OAuthConflicts == env # {"oauth"}
HttpConflicts == "appapi" \in env
StdioConflicts == "user" \notin env
Conflicts ==
  CASE entry = "exapp" -> ExAppConflicts [] entry = "oauth" -> OAuthConflicts
    [] entry = "http" -> HttpConflicts [] entry = "stdio" -> StdioConflicts

Main ==
  /\ up = "starting" /\ up' = (IF Conflicts THEN "refused" ELSE "serving")
  /\ UNCHANGED <<entry, env, alive, paused, call>>

(* select_mode, asked inside every call and not once at the start.           *)
SelectMode ==
  CASE entry = "stdio" -> "stdio"
    [] entry # "stdio" /\ "appapi" \in env -> "exapp"
    [] entry # "stdio" /\ env \cap {"appapi", "oauth"} = {"oauth"} -> "oauth"
    [] entry # "stdio" /\ env \cap {"appapi", "oauth", "static"} = {"static"} -> "static"
    [] OTHER -> "passthrough"

EndConnection(b) ==
  /\ b \in alive /\ alive' = alive \ {b}
  /\ UNCHANGED <<entry, env, up, paused, call>>
FlipSwitch(a) ==
  /\ paused' = (paused \ {a}) \cup ({a} \ paused)
  /\ UNCHANGED <<entry, env, up, alive, call>>

-----------------------------------------------------------------------------
At(step) == call.at = step
Goto(step) == call' = [call EXCEPT !.at = step]

Arrive(app, auth) ==
  /\ up = "serving" /\ At("free")
  /\ call' = [Free EXCEPT !.at = "guard", !.app = app, !.auth = auth]
  /\ UNCHANGED world

(* The guard of each entry.  AppAPI names an account, or nobody and then a   *)
(* bearer must; what the two say is never mixed.                             *)
NeedsBearerAlways(user) == user \in Account \cup {"app"}
NeedsBearer(user) == user = "app"

RequireAppApi ==
  /\ At("guard") /\ entry = "exapp"
  /\ call' = IF call.app \in {"none", "broken"} THEN [call EXCEPT !.at = "refused"]
             ELSE [call EXCEPT !.user = call.app,
                               !.at = IF NeedsBearer(call.app) THEN "verify" ELSE "switch"]
  /\ UNCHANGED world

RequireOAuthBearer ==
  /\ At("guard") /\ entry = "oauth" /\ Goto("verify")
  /\ UNCHANGED world

BuildAuth ==
  /\ At("guard") /\ entry \in {"http", "stdio"}
  /\ Goto(IF entry = "http" /\ "static" \in env /\ call.auth # "static"
          THEN "refused" ELSE "tool")
  /\ UNCHANGED world

(* A bearer is good as long as its connection is, and what it says of itself *)
(* is read again after that.                                                 *)
BearerIsValid ==
  /\ At("verify")
  /\ Goto(IF call.auth \in alive THEN "identify"
          ELSE IF call.user \in Account THEN "switch" ELSE "refused")
  /\ UNCHANGED world

Deposit ==
  /\ At("identify")
  /\ \/ call' = [call EXCEPT !.at = "switch", !.identity = call.auth,
                             !.ended = call.auth \notin alive]
     \/ Goto("refused")
  /\ UNCHANGED world

(* The switch of the account this call is for.  One that cannot be read is a *)
(* refusal.                                                                  *)
Subject == IF call.user \in Account THEN call.user
           ELSE IF call.identity # None THEN Owner[call.identity] ELSE None

SwitchRefusal ==
  /\ At("switch")
  /\ \/ Goto("refused")
     \/ /\ Subject \notin paused
        /\ call' = [call EXCEPT !.at = "tool", !.asked = Subject]
  /\ UNCHANGED world

-----------------------------------------------------------------------------
(* resolve_credentials: an account the tool acts on, or an error that the    *)
(* audit row still notes.                                                    *)
FromOAuth(impersonates) ==
  IF call.identity = None \/ call.ended THEN None
  ELSE IF Way[call.identity] = "impersonate" /\ ~ impersonates THEN None
  ELSE Owner[call.identity]
FromAppApi ==
  IF call.app \in {"none", "broken"} THEN None
  ELSE IF call.app \in Account THEN call.app ELSE FromOAuth(TRUE)
FromBasic == IF call.auth \in Basic THEN Owner[call.auth] ELSE None
FromStdio == IF "user" \in env THEN "configured" ELSE None

Resolved ==
  CASE SelectMode = "exapp" -> FromAppApi [] SelectMode = "oauth" -> FromOAuth(FALSE)
    [] SelectMode = "passthrough" -> FromBasic [] OTHER -> FromStdio

ResolveCredentials ==
  /\ At("tool")
  /\ call' = [call EXCEPT !.at = IF Resolved = None THEN "record" ELSE "work",
                          !.acts = Resolved]
  /\ UNCHANGED world

(* The tool itself, which may fail in any way; the row is written after it,  *)
(* where a recorder was deposited, and its loss costs nobody an answer.      *)
Work ==
  /\ At("work") /\ call' = [call EXCEPT !.at = "record", !.ran = TRUE]
  /\ UNCHANGED world

ResolveCaller ==
  IF call.identity # None THEN Owner[call.identity]
  ELSE IF call.app \in Account /\ "appapi" \in env THEN call.app ELSE None

Note ==
  /\ At("record")
  /\ call' = [call EXCEPT !.at = "done", !.row = IF entry = "exapp" THEN ResolveCaller ELSE None]
     \/ Goto("done")
  /\ UNCHANGED world

Again ==
  /\ call.at \in {"done", "refused"} /\ call' = Free
  /\ UNCHANGED world

Next ==
  \/ Main
  \/ \E b \in Bearer : EndConnection(b)
  \/ \E a \in Account : FlipSwitch(a)
  \/ \E app \in AppHeader, auth \in AuthHeader : Arrive(app, auth)
  \/ RequireAppApi \/ RequireOAuthBearer \/ BuildAuth \/ BearerIsValid \/ Deposit
  \/ SwitchRefusal \/ ResolveCredentials \/ Work \/ Note \/ Again

Spec == Init /\ [][Next]_vars

-----------------------------------------------------------------------------
(* Three pieces of code name the caller of one call, and they agree: the     *)
(* account whose credentials the tool used is the account whose switch was   *)
(* asked and the account the row names; it is the one the request proved,    *)
(* and no request is served with the configured account of a process that    *)
(* authenticates its callers one by one.                                     *)
Proved ==
  IF call.app \in Account THEN {call.app}
  ELSE IF call.auth \in Bearer \cup Basic THEN {Owner[call.auth]} ELSE {}

ActsForItsCaller ==
  call.ran =>
    /\ entry \in {"exapp", "oauth"} => call.acts = call.asked
    /\ entry = "exapp" => call.acts \in Proved
    /\ entry = "oauth" => call.auth \in Bearer /\ call.acts = Owner[call.auth]
    /\ call.acts = "configured" =>
         entry = "stdio" \/ (entry = "http" /\ call.auth = "static")
    /\ call.row # None => call.row = call.acts
=============================================================================
