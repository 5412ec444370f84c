------------------------------ MODULE ExchangeCall ------------------------------
(***************************************************************************)
(* A tool call with a bearer of the foreign issuer, from the transport     *)
(* boundary to the tool: the shape of the token picks the branch, the      *)
(* checker looks at it with a key of the key set, the claim is mapped to   *)
(* an account, the account source is asked whether that account acts here, *)
(* and the pause switch has the last word.  Two account sources exist: the *)
(* bindings of the standalone server, and the account list of the ExApp,   *)
(* which is cached.  A refusal ends the call, in the branch it fell in.    *)
(***************************************************************************)
EXTENDS KeySet

CONSTANTS
  Account,
  Token,         \* records: shape, local rules held, kid, genuine, claims held, account
  Source,        \* the account sources tried: "bound", "appapi"
  Events,        \* what happens around the calls: "rotate", "forget", "vanish", "pause"
  ACCOUNT_CACHE_TTL, ACCOUNT_FAILURE_RETRY_SECONDS

VARIABLES
  source,        \* the account source of this deployment
  existing,      \* Nextcloud: its accounts, or the store: the bound ones
  vanished,      \* when an account went, or its binding
  paused,        \* accounts whose access is switched off
  list,          \* AppApiAccounts: the cached list, its moment, the stamp of a failure
  listing,       \* the call inside the lock of AppApiAccounts, and what Nextcloud has answered it
  pc, token      \* where a call stands, and its bearer

accounts == <<source, existing, vanished, paused>>
cached == <<list, listing>>
calls == <<pc, token>>
vars == <<clock, issuer, keyset, accounts, cached, calls>>

ExchangeCallAssumption ==
  /\ KeySetAssumption
  /\ Source \subseteq {"bound", "appapi"} /\ Source # {}
  /\ Events \subseteq {"rotate", "forget", "vanish", "pause"}
  /\ \A t \in Token : /\ t.kid \in Kid \cup {Invented} /\ t.account \in Account
                      /\ t.genuine => t.kid \in Kid
  /\ ACCOUNT_CACHE_TTL \in Nat \ {0} /\ ACCOUNT_FAILURE_RETRY_SECONDS \in Nat

Step == {"idle", "store", "queued", "fetching", "identify", "password", "accounts", "listing",
         "switch", "admitted"}
NoList == [names |-> {}, at |-> Never, failed |-> Never]
NoListing == [by |-> None, names |-> {}]

TypeOK ==
  /\ KeySetTypeOK
  /\ source \in Source /\ existing \subseteq Account /\ paused \subseteq Account
  /\ vanished \in [Account -> 0..MaxClock \cup {Never}]
  /\ list.names \subseteq Account
  /\ listing \in [by: Request \cup {None}, names: SUBSET Account]
  /\ pc \in [Request -> Step] /\ token \in [Request -> Token \cup {None}]
  /\ \A r \in Request : /\ (lock = r) <=> pc[r] = "fetching"
                        /\ (waiting[r] # "no") <=> pc[r] = "queued"
                        /\ (listing.by = r) <=> pc[r] = "listing"

Init ==
  /\ KeySetInit
  /\ source \in Source /\ existing = Account /\ vanished = [a \in Account |-> Never]
  /\ paused = {} /\ list = NoList /\ listing = NoListing
  /\ pc = [r \in Request |-> "idle"] /\ token = [r \in Request |-> None]

At(r, s) == pc[r] = s
To(r, s) == pc' = [pc EXCEPT ![r] = s] /\ UNCHANGED token
Refuse(r) == pc' = [pc EXCEPT ![r] = "idle"] /\ token' = [token EXCEPT ![r] = None]

Tick == clock < MaxClock /\ clock' = clock + 1 /\ UNCHANGED <<issuer, keyset, accounts, cached, calls>>
IssuerAnswers == AnswerFetch /\ UNCHANGED <<clock, issuer, accounts, cached, calls>>
RotateKey == "rotate" \in Events /\ (\E k \in Kid : Rotate(k)) /\ UNCHANGED <<accounts, cached, calls>>

Vanish(a) ==
  /\ "vanish" \in Events /\ a \in existing /\ existing' = existing \ {a}
  /\ vanished' = [vanished EXCEPT ![a] = clock]
  /\ UNCHANGED <<clock, issuer, keyset, source, paused, cached, calls>>

FlipSwitch(a) ==
  /\ "pause" \in Events
  /\ paused' = IF a \in paused THEN paused \ {a} ELSE paused \cup {a}
  /\ UNCHANGED <<clock, issuer, keyset, source, existing, vanished, cached, calls>>

(* ChainedVerifier.invalidate, called by every revocation of this process *)
Invalidate == "forget" \in Events /\ Forget /\ UNCHANGED <<clock, issuer, accounts, cached, calls>>

-----------------------------------------------------------------------------
(* verify_token, with claims_of: local rules, the key, the signed rules *)

LooksLikeJws(t) == t.shape = "jws"

(* the entry of the key set, and everything the decoder and the claim rules say of it *)
Judge(r, t, known) ==
  IF t.kid \in known /\ t.genuine /\ t.claims THEN To(r, "identify") ELSE Refuse(r)

(* a bearer that is refused without a queue changes nothing, and is no step here *)
VerifyToken(r, t) ==
  /\ At(r, "idle") /\ token' = [token EXCEPT ![r] = t]
  /\ IF ~LooksLikeJws(t)
     THEN pc' = [pc EXCEPT ![r] = "store"] /\ UNCHANGED keyset
     ELSE IF Answered(t.kid)
     THEN /\ t.local /\ t.genuine /\ t.claims
          /\ pc' = [pc EXCEPT ![r] = "identify"] /\ UNCHANGED keyset
     ELSE t.local /\ Queue(r, t.kid) /\ pc' = [pc EXCEPT ![r] = "queued"]
  /\ UNCHANGED <<clock, issuer, accounts, cached>>

(* the store branch answers for a token of our own, and its no is the last word *)
AskStore(r) ==
  /\ At(r, "store") /\ Refuse(r)
  /\ UNCHANGED <<clock, issuer, keyset, accounts, cached>>

Share(r) ==
  /\ At(r, "queued") /\ ShareOutcome(r, token[r].kid)
  /\ IF Answered(token[r].kid) THEN Judge(r, token[r], keys.known) ELSE Refuse(r)
  /\ UNCHANGED <<clock, issuer, accounts, cached>>

Fetch(r) ==
  /\ At(r, "queued") /\ StartFetch(r, token[r].kid) /\ To(r, "fetching")
  /\ UNCHANGED <<clock, issuer, accounts, cached>>

(* a failed attempt raises; the entry from before does not answer in its place *)
ServeStale(r) == Judge(r, token[r], keys.known)
RefuseAfterFailure(r) == Refuse(r)

Fetched(r, ok) ==
  /\ At(r, "fetching") /\ EndFetch(r, ok)
  /\ IF ok /\ fetch.keys # {} THEN Judge(r, token[r], fetch.keys) ELSE RefuseAfterFailure(r)
  /\ UNCHANGED <<clock, issuer, accounts, cached>>

-----------------------------------------------------------------------------
(* resolve_identity: the account source *)

(* BoundAccounts: the binding first, its password in a second read *)
ReadBinding(r) ==
  /\ source = "bound" /\ At(r, "identify")
  /\ IF token[r].account \in existing THEN To(r, "password") ELSE Refuse(r)
  /\ UNCHANGED <<clock, issuer, keyset, accounts, cached>>

ReadPassword(r, found) ==
  /\ At(r, "password")
  /\ IF found /\ token[r].account \in existing THEN To(r, "switch") ELSE Refuse(r)
  /\ UNCHANGED <<clock, issuer, keyset, accounts, cached>>

(* AppApiAccounts: the list, out of the cache whenever the cache is fresh *)
FreshList == Recent(list.at, ACCOUNT_CACHE_TTL)
Known(r, names) == IF token[r].account \in names THEN To(r, "switch") ELSE Refuse(r)

ReadList(r) ==
  /\ source = "appapi" /\ At(r, "identify")
  /\ IF FreshList THEN Known(r, list.names) ELSE To(r, "accounts")
  /\ UNCHANGED <<clock, issuer, keyset, accounts, cached>>

EnterList(r) ==
  /\ At(r, "accounts") /\ listing.by = None
  /\ IF FreshList THEN Known(r, list.names) /\ UNCHANGED cached
     ELSE IF Recent(list.failed, ACCOUNT_FAILURE_RETRY_SECONDS) THEN Refuse(r) /\ UNCHANGED cached
     ELSE /\ list' = [list EXCEPT !.failed = clock] /\ listing' = [by |-> r, names |-> {}]
          /\ To(r, "listing")
  /\ UNCHANGED <<clock, issuer, keyset, accounts>>

(* existing_users is awaited: Nextcloud answers with the accounts it has now, *)
(* and the answer is on its way for as long as it takes                      *)
AnswerList ==
  /\ listing.by # None /\ listing.names = {}
  /\ listing' = [listing EXCEPT !.names = existing]
  /\ UNCHANGED <<clock, issuer, keyset, accounts, list, calls>>

(* a list nobody could read refuses; the one from before does not answer in its place *)
WithOldList(r) == Known(r, list.names)
WithoutList(r) == Refuse(r)

(* the answer is stamped when it is there, whenever Nextcloud wrote it *)
Listed(r, ok) ==
  /\ At(r, "listing") /\ listing' = NoListing
  /\ IF ok /\ listing.names # {}
     THEN list' = [list EXCEPT !.names = listing.names, !.at = clock] /\ Known(r, listing.names)
     ELSE UNCHANGED list /\ WithoutList(r)
  /\ UNCHANGED <<clock, issuer, keyset, accounts>>

(* _switch_refusal: a switch that cannot be read is a refusal *)
Switch(r, readable) ==
  /\ At(r, "switch")
  /\ IF readable /\ token[r].account \notin paused THEN To(r, "admitted") ELSE Refuse(r)
  /\ UNCHANGED <<clock, issuer, keyset, accounts, cached>>

Finish(r) == At(r, "admitted") /\ Refuse(r) /\ UNCHANGED <<clock, issuer, keyset, accounts, cached>>

Next ==
  \/ Tick \/ RotateKey \/ Invalidate \/ IssuerAnswers \/ AnswerList
  \/ \E a \in Account : Vanish(a) \/ FlipSwitch(a)
  \/ \E r \in Request :
       \/ \E t \in Token : VerifyToken(r, t)
       \/ AskStore(r) \/ Share(r) \/ Fetch(r) \/ ReadBinding(r) \/ ReadList(r) \/ EnterList(r)
       \/ Finish(r)
       \/ \E ok \in BOOLEAN : Fetched(r, ok) \/ ReadPassword(r, ok) \/ Listed(r, ok) \/ Switch(r, ok)

Spec == Init /\ [][Next]_vars

-----------------------------------------------------------------------------
(* Properties *)

Reaches(r, s) == pc[r] # s /\ pc'[r] = s

(* A token passes only under a key the issuer published less than one cache *)
(* lifetime ago, or still when the very fetch began whose end this call has *)
(* waited for: whatever fetches failed, lasted or were forgotten since.     *)
PassesUnderALivingKey ==
  \A r \in Request : Reaches(r, "identify") =>
    LET gone == withdrawn[token'[r].kid] IN
    gone # Never => \/ clock - gone < JWKS_CACHE_SECONDS
                    \/ lock = r /\ gone >= fetch.at
WithdrawnKeyIsRefused == [][PassesUnderALivingKey]_vars

(* An account that is gone acts for one cache lifetime, and the time the    *)
(* list that names it was under way before it was stamped, at most; one     *)
(* whose binding is gone does not act at all from the moment its identity   *)
(* is read.                                                                 *)
PassesForALivingAccount ==
  \A r \in Request : Reaches(r, "switch") =>
    LET gone == vanished[token[r].account]
        underway == list'.at - list'.failed
    IN gone # Never => source = "appapi" /\ clock - gone < ACCOUNT_CACHE_TTL + underway
RemovedAccountIsRefused == [][PassesForALivingAccount]_vars
=============================================================================
