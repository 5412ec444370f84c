--------------------------- MODULE ConnectionTokens ---------------------------
(***************************************************************************)
(* The tokens of a connection: one authorization code, the chain of        *)
(* refresh tokens it starts, the access tokens issued along the chain, and *)
(* the four ways a connection ends.  Requests run in several worker        *)
(* processes over one SQLite file; every store method is one transaction   *)
(* and therefore one action, and anything may happen between two of them.  *)
(* Each worker also keeps two caches of its own: the answers held for the  *)
(* retry window and the bearers it has already verified.                   *)
(*                                                                         *)
(* Rows are never removed from the functions below: a deleted or purged    *)
(* row is "gone", because a random token is never drawn twice.             *)
(***************************************************************************)
EXTENDS Integers, FiniteSets

CONSTANTS
  Auth,          \* connections (rows of authorizations)
  Family,        \* family identifiers
  Refresh,       \* refresh tokens
  Access,        \* access tokens
  Worker,        \* server processes
  Request,       \* HTTP requests in flight
  WorkerOf,      \* the process that serves a request
  Offered,       \* the operations clients and users may start
  GRACE,         \* ROTATION_GRACE
  CODE_TTL,      \* AUTH_CODE_TTL
  ACCESS_TTL,    \* ACCESS_TOKEN_TTL
  REFRESH_TTL,   \* REFRESH_TOKEN_TTL
  CACHE_TTL,     \* VALIDATION_CACHE_TTL
  HELD_LIMIT,    \* HELD_ANSWER_LIMIT
  CACHE_LIMIT,   \* CACHE_LIMIT of the verifier
  MaxClock,      \* bound of the clock, in whole seconds
  Crashes,       \* whether a worker may die
  None           \* "no value"

Operations == {"code", "refresh", "revoke", "disconnect", "verify"}

ASSUME ConstantsAssumption ==
  /\ WorkerOf \in [Request -> Worker]
  /\ Offered \subseteq Operations
  /\ {GRACE, CODE_TTL, ACCESS_TTL, REFRESH_TTL, CACHE_TTL, MaxClock} \subseteq Nat
  /\ {HELD_LIMIT, CACHE_LIMIT} \subseteq Nat \ {0}
  /\ Crashes \in BOOLEAN
  /\ None \notin Auth \cup Family \cup Refresh \cup Access

VARIABLES
  clock,         \* int(time.time()), the same for every worker
  auth,          \* state of each authorization row
  noted,         \* cleanup_at is set
  credential,    \* the app password of the connection, at Nextcloud
  code,          \* the authorization code of each connection
  refresh,       \* rows of refresh_tokens
  access,        \* rows of access_tokens
  held,          \* OAuthProvider._held, per worker
  cache,         \* StoreTokenVerifier._cache, per worker
  pc,            \* where each request stands
  job,           \* the local variables of each request
  granted        \* history: every answer a refresh was given

tokens == <<code, refresh, access>>
rows == <<auth, noted, credential>>
vars == <<clock, rows, tokens, held, cache, pc, job, granted>>

-----------------------------------------------------------------------------
(* Rows and local variables *)

RowState == {"none", "active", "used", "revoked", "gone"}

RefreshRow == [state: RowState, auth: Auth \cup {None}, fam: Family \cup {None},
               usedAt: Int, succ: Refresh \cup {None}, until: Int]
AccessRow == [state: RowState, auth: Auth \cup {None}, fam: Family \cup {None},
              until: Int]
CodeRow == [state: RowState, until: Int]

Step == {"idle", "code_gate", "first_refresh", "issue", "hold",
         "refresh_gate", "redeem", "judge",
         "families", "end_family", "end_auth", "end_note", "forget",
         "hand_read", "hand_call", "hand_clear",
         "remember", "resolve", "admitted"}

Job == [kind: Operations \cup {"none"}, auth: Auth \cup {None},
        tok: Refresh \cup Access \cup {None}, fam: Family \cup {None},
        next: Refresh \cup {None}, acc: Access \cup {None}, at: Int,
        fams: SUBSET Family, late: BOOLEAN]

Answer == [tok: Refresh, refresh: Refresh, access: Access]
HeldAnswer == [answer: Answer, until: Int]
CacheEntry == [tok: Access, until: Int]

(* The locals of an operation that was just called on a and tok             *)
JobFor(kind, a, tok) ==
  [kind |-> kind, auth |-> a, tok |-> tok, fam |-> None, next |-> None, acc |-> None,
   at |-> 0, fams |-> {}, late |-> FALSE]
NoJob == JobFor("none", None, None)

WithNext(j, f, n) == [j EXCEPT !.fam = f, !.next = n]
WithAccess(j, k) == [j EXCEPT !.acc = k]

NeverUsed == -1

Present(row) == row.state \in {"active", "used", "revoked"}
Born(row) == row.state # "none"

(* A row that was ever written names its connection and family, and a step  *)
(* only runs with the locals it reads.                                      *)
Bound ==
  /\ \A t \in Refresh : Born(refresh[t]) => refresh[t].auth \in Auth /\ refresh[t].fam \in Family
  /\ \A k \in Access : Born(access[k]) => access[k].auth \in Auth /\ access[k].fam \in Family
  /\ \A w \in Worker : \A c \in cache[w] : Born(access[c.tok])

JobBound(r) ==
  LET j == job[r] IN
  /\ pc[r] \notin {"idle", "refresh_gate"} => j.auth \in Auth
  /\ pc[r] \in {"refresh_gate", "redeem", "judge", "hold"} => j.tok \in Refresh
  /\ pc[r] = "issue" /\ j.kind = "refresh" => j.tok \in Refresh
  /\ pc[r] \in {"code_gate", "first_refresh"} => j.kind = "code"
  /\ pc[r] \in {"issue", "hold"} => j.fam \in Family /\ j.next \in Refresh
  /\ pc[r] = "hold" => j.acc \in Access
  /\ pc[r] \in {"remember", "resolve", "admitted"} => j.tok \in Access
  /\ pc[r] \in {"refresh_gate", "redeem", "judge"} => Born(refresh[j.tok])
  /\ pc[r] = "remember" => Born(access[j.tok])

TypeOK ==
  /\ clock \in 0..MaxClock
  /\ auth \in [Auth -> {"none", "live", "revoked", "gone"}]
  /\ noted \in [Auth -> BOOLEAN]
  /\ credential \in [Auth -> {"none", "valid", "returned"}]
  /\ code \in [Auth -> CodeRow]
  /\ refresh \in [Refresh -> RefreshRow]
  /\ access \in [Access -> AccessRow]
  /\ held \in [Worker -> SUBSET HeldAnswer]
  /\ cache \in [Worker -> SUBSET CacheEntry]
  /\ pc \in [Request -> Step]
  /\ job \in [Request -> Job]
  /\ granted \subseteq Answer
  /\ Bound
  /\ \A r \in Request : JobBound(r)

RowOf(a) == auth[a] \in {"live", "revoked"}      \* the authorization row exists
Stored == "active"                                \* an access token that is not revoked

(* A statement that sets the state of the rows it finds, or deletes them    *)
Marked(row, s) == IF Present(row) THEN [row EXCEPT !.state = s] ELSE row

(* _purge_expired_rows: every insert first drops what ran out by its moment *)
Purged(row, moment) == IF row.until <= moment THEN Marked(row, "gone") ELSE row

Init ==
  /\ clock = 0
  /\ auth = [a \in Auth |-> "none"]
  /\ noted = [a \in Auth |-> FALSE]
  /\ credential = [a \in Auth |-> "none"]
  /\ code = [a \in Auth |-> [state |-> "none", until |-> 0]]
  /\ refresh = [t \in Refresh |-> [state |-> "none", auth |-> None, fam |-> None,
                                   usedAt |-> NeverUsed, succ |-> None, until |-> 0]]
  /\ access = [k \in Access |-> [state |-> "none", auth |-> None, fam |-> None, until |-> 0]]
  /\ held = [w \in Worker |-> {}]
  /\ cache = [w \in Worker |-> {}]
  /\ pc = [r \in Request |-> "idle"]
  /\ job = [r \in Request |-> NoJob]
  /\ granted = {}

(* Moving a request on, and answering it *)
Goto(r, from, to) == pc[r] = from /\ pc' = [pc EXCEPT ![r] = to]
Set(r, j) == job' = [job EXCEPT ![r] = j]
Done(r) == pc' = [pc EXCEPT ![r] = "idle"] /\ Set(r, NoJob)
Begin(r, op, step, j) ==
  /\ op \in Offered
  /\ Goto(r, "idle", step)
  /\ Set(r, j)

-----------------------------------------------------------------------------
(* The user approves: the flow is spent and its code written, in one step.  *)
Approve(a) ==
  /\ auth[a] = "none"
  /\ auth' = [auth EXCEPT ![a] = "live"]
  /\ credential' = [credential EXCEPT ![a] = "valid"]
  /\ code' = [code EXCEPT ![a] = [state |-> "active", until |-> clock + CODE_TTL]]
  /\ UNCHANGED <<clock, noted, refresh, access, held, cache, pc, job, granted>>

(* The sweeps of registrations and sign-ins delete the row; every row that  *)
(* hangs off it goes with it (ON DELETE CASCADE).                           *)
DeleteAuthorization(a) ==
  /\ RowOf(a)
  /\ auth' = [auth EXCEPT ![a] = "gone"]
  /\ noted' = [noted EXCEPT ![a] = FALSE]
  /\ code' = [code EXCEPT ![a].state = "gone"]
  /\ refresh' = [t \in Refresh |-> IF refresh[t].auth = a THEN Marked(refresh[t], "gone")
                                   ELSE refresh[t]]
  /\ access' = [k \in Access |-> IF access[k].auth = a THEN Marked(access[k], "gone")
                                 ELSE access[k]]
  /\ UNCHANGED <<clock, credential, held, cache, pc, job, granted>>

Tick ==
  /\ clock < MaxClock
  /\ clock' = clock + 1
  /\ UNCHANGED <<rows, tokens, held, cache, pc, job, granted>>

(* A worker dies with its requests and both of its caches; the file stays.  *)
Crash(w) ==
  /\ Crashes
  /\ held' = [held EXCEPT ![w] = {}]
  /\ cache' = [cache EXCEPT ![w] = {}]
  /\ pc' = [r \in Request |-> IF WorkerOf[r] = w THEN "idle" ELSE pc[r]]
  /\ job' = [r \in Request |-> IF WorkerOf[r] = w THEN NoJob ELSE job[r]]
  /\ UNCHANGED <<clock, rows, tokens, granted>>

-----------------------------------------------------------------------------
(* The code exchange: load, then (after the client check) spend, then the   *)
(* first refresh token of a new family, then the access token.              *)

LoadCode(r, a) ==
  /\ code[a].state = "active" /\ code[a].until > clock
  /\ auth[a] = "live"
  /\ Begin(r, "code", "code_gate", JobFor("code", a, None))
  /\ UNCHANGED <<clock, rows, tokens, held, cache, granted>>

(* A code without the used_at condition of its UPDATE *)
SpendableTwice(a, moment) == code[a].state # "gone" /\ code[a].until > moment
Spendable(a, moment) == code[a].state = "active" /\ code[a].until > moment

RedeemCode(r) ==
  LET a == job[r].auth IN
  /\ pc[r] = "code_gate"
  /\ IF Spendable(a, clock)
     THEN /\ code' = [code EXCEPT ![a].state = "used"]
          /\ Goto(r, "code_gate", "first_refresh")
          /\ Set(r, [job[r] EXCEPT !.at = clock])
     ELSE Done(r) /\ UNCHANGED code
  /\ UNCHANGED <<clock, rows, refresh, access, held, cache, granted>>

NewRefresh(a, f, moment) ==
  [state |-> "active", auth |-> a, fam |-> f, usedAt |-> NeverUsed,
   succ |-> None, until |-> moment + REFRESH_TTL]

FreshFamily(f) == \A t \in Refresh : refresh[t].fam # f

FirstRefresh(r, n, f) ==
  LET a == job[r].auth IN
  /\ pc[r] = "first_refresh"
  /\ refresh[n].state = "none" /\ FreshFamily(f)
  /\ IF RowOf(a)
     THEN /\ refresh' = [t \in Refresh |-> IF t = n THEN NewRefresh(a, f, job[r].at)
                                           ELSE Purged(refresh[t], job[r].at)]
          /\ access' = [k \in Access |-> Purged(access[k], job[r].at)]
          /\ Goto(r, "first_refresh", "issue")
          /\ Set(r, WithNext(job[r], f, n))
     ELSE Done(r) /\ UNCHANGED <<refresh, access>>      \* FOREIGN KEY failed
  /\ UNCHANGED <<clock, rows, code, held, cache, granted>>

(* _issue writes the access token; a code exchange is answered at once, a   *)
(* rotation first holds its answer.                                         *)
Issue(r, k) ==
  LET j == job[r] IN
  /\ pc[r] = "issue"
  /\ access[k].state = "none"
  /\ IF RowOf(j.auth)
     THEN /\ access' = [x \in Access |->
                          IF x = k THEN [state |-> Stored, auth |-> j.auth, fam |-> j.fam,
                                         until |-> j.at + ACCESS_TTL]
                          ELSE Purged(access[x], j.at)]
          /\ refresh' = [t \in Refresh |-> Purged(refresh[t], j.at)]
          /\ IF j.kind = "refresh"
             THEN Goto(r, "issue", "hold") /\ Set(r, WithAccess(j, k))
             ELSE Done(r)
     ELSE Done(r) /\ UNCHANGED <<refresh, access>>
  /\ UNCHANGED <<clock, rows, code, held, cache, granted>>

-----------------------------------------------------------------------------
(* The rotation *)

(* load_refresh_token, which the token endpoint calls before the exchange   *)
LoadRefresh(r, t) ==
  /\ refresh[t].state \in {"active", "used"}
  /\ auth[refresh[t].auth] = "live"
  /\ Begin(r, "refresh", "refresh_gate", JobFor("refresh", None, t))
  /\ UNCHANGED <<clock, rows, tokens, held, cache, granted>>

(* The moment of the exchange is taken here, and used by everything below   *)
ReadGrant(r) ==
  LET t == job[r].tok IN
  /\ pc[r] = "refresh_gate"
  /\ IF Present(refresh[t]) /\ auth[refresh[t].auth] = "live"
     THEN /\ Goto(r, "refresh_gate", "redeem")
          /\ Set(r, [job[r] EXCEPT !.at = clock, !.auth = refresh[t].auth])
     ELSE Done(r)
  /\ UNCHANGED <<clock, rows, tokens, held, cache, granted>>

(* redeem_refresh_token: spend and successor in one transaction             *)
(* ... with an UPDATE that forgets the state, or excludes only spent rows *)
RedeemableAgain(t, moment) == Present(refresh[t]) /\ refresh[t].until > moment
RedeemableUnlessUsed(t, moment) ==
  refresh[t].state \in {"active", "revoked"} /\ refresh[t].until > moment
Redeemable(t, moment) == refresh[t].state = "active" /\ refresh[t].until > moment

Spent(row, moment, n) == [row EXCEPT !.state = "used", !.usedAt = moment, !.succ = n]

Redeem(r, n) ==
  LET t == job[r].tok
      row == refresh[t]
  IN
  /\ pc[r] = "redeem"
  /\ Redeemable(t, job[r].at)
  /\ refresh[n].state = "none"
  /\ refresh' = [refresh EXCEPT ![t] = Spent(row, job[r].at, n),
                                ![n] = NewRefresh(row.auth, row.fam, job[r].at)]
  /\ Goto(r, "redeem", "issue")
  /\ Set(r, WithNext(job[r], row.fam, n))
  /\ UNCHANGED <<clock, rows, code, access, held, cache, granted>>

(* No row changed: a spent or revoked row was presented again, a missing or *)
(* expired one ends quietly                                                 *)
RedeemNothing(r) ==
  LET row == refresh[job[r].tok] IN
  /\ pc[r] = "redeem"
  /\ ~Redeemable(job[r].tok, job[r].at)
  /\ IF row.state \in {"used", "revoked"}
     THEN /\ Goto(r, "redeem", "judge")
          /\ Set(r, [job[r] EXCEPT !.fam = row.fam, !.fams = {row.fam}])
     ELSE Done(r)
  /\ UNCHANGED <<clock, rows, tokens, held, cache, granted>>

AnswerOf(j) == [tok |-> j.tok, refresh |-> j.next, access |-> j.acc]

(* _hold: at the limit everything held is dropped first *)
Hold(r) ==
  LET w == WorkerOf[r]
      kept == IF Cardinality(held[w]) >= HELD_LIMIT THEN {} ELSE held[w]
      entry == [answer |-> AnswerOf(job[r]), until |-> job[r].at + GRACE]
  IN
  /\ pc[r] = "hold"
  /\ held' = [held EXCEPT ![w] = {h \in kept : h.answer.tok # job[r].tok} \cup {entry}]
  /\ granted' = granted \cup {AnswerOf(job[r])}
  /\ Done(r)
  /\ UNCHANGED <<clock, rows, tokens, cache>>

(* _inside_grace, on the redemption time the failed redeem reported.  A     *)
(* row never used, or used "in the future" of this moment, is no retry.     *)
InsideEndlessGrace(usedAt, moment) == usedAt # NeverUsed /\ 0 <= moment - usedAt
InsideGrace(usedAt, moment) ==
  usedAt # NeverUsed /\ 0 <= moment - usedAt /\ moment - usedAt <= GRACE

HeldForAnyone(w, t, moment) == {h \in held[w] : h.until > moment}
HeldFor(w, t, moment) == {h \in held[w] : h.answer.tok = t /\ h.until > moment}

Judge(r) ==
  LET t == job[r].tok
      w == WorkerOf[r]
      answers == HeldFor(w, t, job[r].at)
  IN
  /\ pc[r] = "judge"
  /\ IF InsideGrace(refresh[t].usedAt, job[r].at)
     THEN /\ granted' = granted \cup {[h.answer EXCEPT !.tok = t] : h \in answers}
          /\ held' = [held EXCEPT ![w] = {h \in @ : h.answer.tok = t => h \in answers}]
          /\ Done(r)
     ELSE /\ Goto(r, "judge", "end_family")
          /\ UNCHANGED <<job, held, granted>>
  /\ UNCHANGED <<clock, rows, tokens, cache>>

-----------------------------------------------------------------------------
(* Ending a connection: _end_connection, and who calls it *)

(* /revoke with a refresh token in any state, or a live access token        *)
Revoke(r, t) ==
  LET row == IF t \in Refresh THEN refresh[t] ELSE access[t] IN
  /\ IF t \in Refresh THEN Present(row) ELSE row.state = Stored /\ row.until > clock
  /\ IF t \in Refresh THEN RowOf(row.auth) ELSE auth[row.auth] = "live"
  /\ Begin(r, "revoke", "end_family",
           [JobFor("revoke", row.auth, None) EXCEPT !.fams = {row.fam}])
  /\ UNCHANGED <<clock, rows, tokens, held, cache, granted>>

(* The user disconnects on the connections page *)
Disconnect(r, a) ==
  /\ auth[a] = "live"
  /\ Begin(r, "disconnect", "families", JobFor("disconnect", a, None))
  /\ UNCHANGED <<clock, rows, tokens, held, cache, granted>>

(* families that are not unwrapped from their result rows *)
FamilyRowsOf(a) == {<<refresh[t].fam>> : t \in {u \in Refresh : refresh[u].auth = a}}
FamiliesOf(a) ==
  {refresh[t].fam : t \in {u \in Refresh : Present(refresh[u]) /\ refresh[u].auth = a}} \cup
  {access[k].fam : k \in {x \in Access : Present(access[x]) /\ access[x].auth = a}}

ReadFamilies(r) ==
  /\ Goto(r, "families", "end_family")
  /\ Set(r, [job[r] EXCEPT !.fams = FamiliesOf(job[r].auth)])
  /\ UNCHANGED <<clock, rows, tokens, held, cache, granted>>

(* revoke_family, one family per transaction *)
EndFamily(r, f) ==
  /\ pc[r] = "end_family"
  /\ f \in job[r].fams
  /\ refresh' = [t \in Refresh |-> IF refresh[t].fam = f THEN Marked(refresh[t], "revoked")
                                   ELSE refresh[t]]
  /\ access' = [k \in Access |-> IF access[k].fam = f THEN Marked(access[k], "revoked")
                                 ELSE access[k]]
  /\ Set(r, [job[r] EXCEPT !.fams = @ \ {f}])
  /\ UNCHANGED <<clock, rows, code, held, cache, pc, granted>>

(* revoke_authorization: the first time stands *)
EndFamilyOnly(r) ==
  /\ job[r].fams = {}
  /\ Goto(r, "end_family", "end_note")
  /\ UNCHANGED <<clock, rows, tokens, held, cache, job, granted>>
EndAuthorization(r) ==
  LET a == job[r].auth IN
  /\ job[r].fams = {}
  /\ Goto(r, "end_family", "end_note")
  /\ auth' = [auth EXCEPT ![a] = IF @ = "live" THEN "revoked" ELSE @]
  /\ UNCHANGED <<clock, noted, credential, tokens, held, cache, job, granted>>

(* ... and note_cleanup, as if it wrote to living connections only *)
NotableAlive(a) == auth[a] = "live"
Notable(a) == RowOf(a)

NoteCleanup(r) ==
  LET a == job[r].auth IN
  /\ Goto(r, "end_note", "forget")
  /\ noted' = [noted EXCEPT ![a] = @ \/ Notable(a)]
  /\ UNCHANGED <<clock, auth, credential, tokens, held, cache, job, granted>>

(* Held answers and verified bearers of this process, and only of this one; *)
(* a reuse is then refused, the other callers hand the app password back.   *)
Forget(r) ==
  LET w == WorkerOf[r] IN
  /\ pc[r] = "forget"
  /\ held' = [held EXCEPT ![w] = {}]
  /\ cache' = [cache EXCEPT ![w] = {}]
  /\ IF job[r].kind = "refresh" THEN Done(r)
     ELSE Goto(r, "forget", "hand_read") /\ UNCHANGED job
  /\ UNCHANGED <<clock, rows, tokens, granted>>

(* _hand_back: read the password, ask Nextcloud, take the note back *)
HandRead(r) ==
  /\ pc[r] = "hand_read"
  /\ IF RowOf(job[r].auth) THEN Goto(r, "hand_read", "hand_call") /\ UNCHANGED job
     ELSE Done(r)
  /\ UNCHANGED <<clock, rows, tokens, held, cache, granted>>

(* a call whose answer nobody looks at *)
HandCallBlind(r, answered) ==
  LET a == job[r].auth IN
  /\ Goto(r, "hand_call", "hand_clear")
  /\ credential' = [credential EXCEPT ![a] = IF answered THEN "returned" ELSE @]
  /\ UNCHANGED <<clock, auth, noted, tokens, held, cache, job, granted>>
HandCall(r, answered) ==
  LET a == job[r].auth IN
  /\ pc[r] = "hand_call"
  /\ IF answered
     THEN /\ credential' = [credential EXCEPT ![a] = "returned"]
          /\ Goto(r, "hand_call", "hand_clear") /\ UNCHANGED job
     ELSE Done(r) /\ UNCHANGED credential
  /\ UNCHANGED <<clock, auth, noted, tokens, held, cache, granted>>

HandClear(r) ==
  /\ pc[r] = "hand_clear"
  /\ noted' = [noted EXCEPT ![job[r].auth] = FALSE]
  /\ Done(r)
  /\ UNCHANGED <<clock, auth, credential, tokens, held, cache, granted>>

-----------------------------------------------------------------------------
(* A tool call: verify_token, then resolve_identity, then the tool          *)

Late(k) == auth[access[k].auth] # "live"

VerifyJob(k) == [JobFor("verify", access[k].auth, k) EXCEPT !.late = Late(k)]

VerifyCached(r, k) ==
  /\ \E c \in cache[WorkerOf[r]] : c.tok = k /\ c.until > clock
  /\ Begin(r, "verify", "resolve", VerifyJob(k))
  /\ UNCHANGED <<clock, rows, tokens, held, cache, granted>>

VerifyStored(r, k) ==
  /\ ~ \E c \in cache[WorkerOf[r]] : c.tok = k /\ c.until > clock
  /\ access[k].state = Stored /\ access[k].until > clock /\ ~Late(k)
  /\ Begin(r, "verify", "remember", VerifyJob(k))
  /\ UNCHANGED <<clock, rows, tokens, held, cache, granted>>

Remember(r) ==
  LET w == WorkerOf[r]
      kept == IF Cardinality(cache[w]) >= CACHE_LIMIT THEN {} ELSE cache[w]
  IN
  /\ Goto(r, "remember", "resolve")
  /\ cache' = [cache EXCEPT ![w] = {c \in kept : c.tok # job[r].tok} \cup
                                   {[tok |-> job[r].tok, until |-> clock + CACHE_TTL]}]
  /\ UNCHANGED <<clock, rows, tokens, held, job, granted>>

(* The row is read again for every call, cached bearer or not; a missing    *)
(* row is 401 and a revoked one is refused before the tool runs.            *)
UsableRow(a) == RowOf(a)        \* the revoked flag dropped
Usable(a) == auth[a] = "live"

ResolveIdentity(r) ==
  /\ pc[r] = "resolve"
  /\ IF Usable(job[r].auth) THEN Goto(r, "resolve", "admitted") /\ UNCHANGED job
     ELSE Done(r)
  /\ UNCHANGED <<clock, rows, tokens, held, cache, granted>>

Serve(r) ==
  /\ pc[r] = "admitted"
  /\ Done(r)
  /\ UNCHANGED <<clock, rows, tokens, held, cache, granted>>

-----------------------------------------------------------------------------
Start(r) ==
  \/ \E a \in Auth : LoadCode(r, a) \/ Disconnect(r, a)
  \/ \E t \in Refresh : LoadRefresh(r, t)
  \/ \E t \in Refresh \cup Access : Revoke(r, t)
  \/ \E k \in Access : VerifyCached(r, k) \/ VerifyStored(r, k)

Advance(r) ==
  \/ RedeemCode(r) \/ ReadGrant(r) \/ RedeemNothing(r) \/ Hold(r) \/ Judge(r)
  \/ ReadFamilies(r) \/ EndAuthorization(r) \/ NoteCleanup(r) \/ Forget(r)
  \/ HandRead(r) \/ HandClear(r)
  \/ Remember(r) \/ ResolveIdentity(r) \/ Serve(r)
  \/ \E n \in Refresh : Redeem(r, n) \/ \E f \in Family : FirstRefresh(r, n, f)
  \/ \E k \in Access : Issue(r, k)
  \/ \E f \in Family : EndFamily(r, f)
  \/ \E answered \in BOOLEAN : HandCall(r, answered)

Next ==
  \/ \E a \in Auth : Approve(a) \/ DeleteAuthorization(a)
  \/ \E w \in Worker : Crash(w)
  \/ \E r \in Request : Start(r) \/ Advance(r)
  \/ Tick

Spec == Init /\ [][Next]_vars

(* A request that was accepted is driven to its end by the event loop.      *)
FairSpec == Spec /\ \A r \in Request : WF_vars(Advance(r))

-----------------------------------------------------------------------------
(* Properties *)

(* A connection has at most one refresh token that can still be spent: no   *)
(* interleaving of two rotations forks the chain (redeem_refresh_token).    *)
SingleBranch ==
  \A t, u \in Refresh :
    refresh[t].state = "active" /\ refresh[u].state = "active"
      /\ refresh[t].auth = refresh[u].auth => t = u

(* Every token ever written for a connection belongs to one family, so the  *)
(* token paths, which end only the family of the token they were shown, end *)
(* all of it (exchange_authorization_code spends the code first).           *)
OneFamily ==
  LET written == {refresh[t] : t \in {u \in Refresh : Born(refresh[u])}}
      issued == {access[k] : k \in {x \in Access : Born(access[x])}}
  IN \A x, y \in written : x.auth = y.auth <=> x.fam = y.fam
     /\ \A z \in issued : z.auth = x.auth <=> z.fam = x.fam

(* Why both hold: a code that can still be spent has no tokens and nobody   *)
(* about to write its first one; who writes the first one is alone and      *)
(* first; a rotation writes beside the row it spent; an access token stands *)
(* beside a refresh token of its family.                                    *)
Unwritten(a) ==
  /\ \A t \in Refresh : refresh[t].auth # a
  /\ \A k \in Access : access[k].auth # a

FirstFor(r, a) == pc[r] = "first_refresh" /\ job[r].auth = a

CodeComesFirst ==
  \A a \in Auth :
    /\ auth[a] = "none" => code[a].state = "none"
    /\ code[a].state \in {"none", "active"} =>
         Unwritten(a) /\ \A r \in Request : ~FirstFor(r, a)

FirstIsAlone ==
  \A a \in Auth : \A r \in Request :
    FirstFor(r, a) => Unwritten(a) /\ \A q \in Request : FirstFor(q, a) => q = r

WritesBesideItsRow(r) ==
  LET j == job[r] IN
  /\ pc[r] \in {"redeem", "judge"} => refresh[j.tok].auth = j.auth
  /\ pc[r] = "issue" => /\ Born(refresh[j.next])
                        /\ refresh[j.next].auth = j.auth /\ refresh[j.next].fam = j.fam

AccessBesideRefresh ==
  \A k \in Access : Born(access[k]) =>
    \E t \in Refresh : /\ Born(refresh[t])
                       /\ refresh[t].auth = access[k].auth /\ refresh[t].fam = access[k].fam

ChainInv ==
  /\ CodeComesFirst /\ FirstIsAlone /\ AccessBesideRefresh
  /\ \A r \in Request : WritesBesideItsRow(r)
  /\ OneFamily /\ SingleBranch

(* All answers ever given to one presented refresh token are one and the    *)
(* same pair, the one its rotation wrote: the retry window never gives out  *)
(* a second branch, whichever worker answers (D-41).                        *)
GraceRepeatsTheAnswer ==
  \A x \in granted :
    /\ refresh[x.tok].succ = x.refresh
    /\ \A y \in granted : x.tok = y.tok => x = y

(* A tool call that began after the connection ended is never admitted, not *)
(* even by a worker that still holds its bearer as verified.                *)
NoLateAdmission == \A r \in Request : pc[r] = "admitted" => ~job[r].late

(* Why it holds: a bearer that was late belongs to a connection that is     *)
(* over, and stays over until the row is read once more.                    *)
AdmissionInv ==
  /\ \A k \in Access : Born(access[k]) => auth[access[k].auth] # "none"
  /\ \A r \in Request : pc[r] \in {"remember", "resolve"} /\ job[r].late =>
                         auth[job[r].auth] \in {"revoked", "gone"}
  /\ NoLateAdmission

(* Ended connections stay ended and revoked tokens stay revoked, whatever   *)
(* insert was still in flight when the end came.                            *)
EndIsFinal ==
  [][/\ \A a \in Auth : auth[a] \in {"revoked", "gone"} => auth'[a] \in {"revoked", "gone"}
     /\ \A t \in Refresh : refresh[t].state \in {"used", "revoked"} =>
                           refresh'[t].state \in {"used", "revoked", "gone"}
     /\ \A t \in Refresh : refresh[t].state = "revoked" => refresh'[t].state # "used"]_vars

(* The note that a password is still out there is only taken back once      *)
(* Nextcloud has taken the password, or with the whole row.                 *)
NoteIsHonest ==
  [][\A a \in Auth : noted[a] /\ ~noted'[a] =>
       credential[a] = "returned" \/ auth'[a] = "gone"]_vars

Ending(a) == \E r \in Request : /\ job[r].auth = a
                                /\ pc[r] \in {"judge", "end_family", "end_note"}

(* As long as no worker dies: a connection that was ended has handed its    *)
(* password back or carries the note, unless somebody is still ending it.   *)
EndedIsAccounted ==
  \A a \in Auth : auth[a] = "revoked" => credential[a] = "returned" \/ noted[a] \/ Ending(a)

(* As long as no worker dies: a family with a revoked member belongs to a   *)
(* connection that is over or about to be.                                  *)
DeadFamilyIsEnded ==
  \A t \in Refresh : refresh[t].state = "revoked" =>
    auth[refresh[t].auth] # "live" \/ Ending(refresh[t].auth)

(* A spent token that comes back after the window ends its connection.      *)
ReplayEndsTheConnection ==
  \A r \in Request : \A a \in Auth :
    (/\ pc[r] = "judge" /\ job[r].auth = a
     /\ refresh[job[r].tok].state = "used"
     /\ job[r].at > refresh[job[r].tok].usedAt + GRACE)
      ~> auth[a] # "live"

(* "a network retry inside ROTATION_GRACE seconds and an attack after them" *)
(* (provider.py:32): a spent token only ends a connection once the window   *)
(* since its redemption is over.                                            *)
RetryIsNoAttack ==
  \A r \in Request :
    LET row == refresh[job[r].tok] IN
    pc[r] = "end_family" /\ job[r].kind = "refresh" /\ row.state = "used"
      => clock - row.usedAt > GRACE

-----------------------------------------------------------------------------
(* The chain each connection's refresh tokens form, for CredentialChain     *)

WrittenFor(a) == {t \in Refresh : refresh[t].auth = a}
ActiveFor(a) == {t \in WrittenFor(a) : refresh[t].state = "active"}

chainPhase == [a \in Auth |->
  IF auth[a] \in {"revoked", "gone"} THEN "over"
  ELSE IF WrittenFor(a) = {} THEN "new"
  ELSE IF ActiveFor(a) = {} THEN "over" ELSE "open"]
chainTip == [a \in Auth |-> IF auth[a] = "live" THEN ActiveFor(a) ELSE {}]
chainSpent == {t \in Refresh : Born(refresh[t])}

Chain == INSTANCE CredentialChain WITH phase <- chainPhase, tip <- chainTip,
                                       spent <- chainSpent

(* The store implements the chain: rotations never fork it, never reuse a   *)
(* token and never reopen it.                                               *)
ImplementsChain == Chain!Spec
=============================================================================
