--------------------------------- MODULE SignIn ---------------------------------
(***************************************************************************)
(* The life of an app password: a sign-in collects it from Nextcloud, a    *)
(* row records it, and it goes back when the user refuses or disconnects,  *)
(* when nobody finishes the sign-in, when the registration behind it runs  *)
(* out, or when the whole store is purged.  Every store method is one      *)
(* transaction and every call to Nextcloud stands between two of them, so  *)
(* requests interleave at each.  A sign-in, its flow record and the        *)
(* connection it creates share one id.                                     *)
(***************************************************************************)
EXTENDS Integers, FiniteSets

CONSTANTS
  Flow,          \* sign-ins, and the connections they become
  Client,        \* registrations
  ClientOf,      \* the registration behind a sign-in
  Request,       \* requests in flight
  Offered,       \* the operations that may be started on a sign-in
  FLOW_TTL,      \* deadline of a sign-in
  AUTH_CODE_TTL, \* life of a code
  REFRESH_TOKEN_TTL,
  UNUSED_CLIENT_TTL,
  IDLE_CLIENT_TTL,
  SWEEP_LIMIT,   \* rows and registrations one request pays for
  MaxClock,      \* bound of the clock
  Faults,        \* "crash", "lost" (an answer), "unreadable" (a list, or a password)
  None

Operations == {"authorize", "screen", "approve", "deny", "exchange", "disconnect", "purge",
               "pause"}

ASSUME SignInAssumption ==
  /\ ClientOf \in [Flow -> Client]
  /\ Offered \in [Flow -> SUBSET Operations]
  /\ Faults \subseteq {"crash", "lost", "unreadable"}
  /\ {FLOW_TTL, AUTH_CODE_TTL, REFRESH_TOKEN_TTL, UNUSED_CLIENT_TTL, IDLE_CLIENT_TTL, MaxClock} \subseteq Nat
  /\ SWEEP_LIMIT \in Nat \ {0}
  /\ None \notin Flow \cup Client \cup Operations

VARIABLES
  clock,
  client,        \* rows of clients
  flow,          \* rows of flows
  row,           \* rows of authorizations
  grant,         \* the code or the tokens of a connection, as far as they keep it wanted
  paused,        \* the account has switched its access off
  nextcloud,     \* the login flow at Nextcloud: "waiting", "granted" or "collected"
  password,      \* the app password at Nextcloud
  asked,         \* history: passwords Nextcloud was asked to take back
  unseen,        \* history: passwords a clean-up could not see or read, or nobody got hold of
  claims,        \* history: how many decisions of a sign-in won
  pc, job        \* where a request stands, and its local variables

store == <<client, flow, row, grant>>
outside == <<paused, nextcloud, password>>
history == <<asked, unseen, claims>>
vars == <<clock, store, outside, history, pc, job>>

Never == -1

(* A row that is no longer there *)
NoFlow == [state |-> "gone", until |-> 0]
NoRow == [state |-> "gone", created |-> 0, noted |-> FALSE]
NoClient == [state |-> "gone", registered |-> 0, used |-> Never]

Step == {"idle", "check", "client", "create_flow", "row", "poll", "vet",
         "create", "return", "give_back", "forget_flow", "decide", "approve", "claim",
         "withdraw", "drop_row", "exchange", "sweep_list", "rows_call", "rows_drop",
         "sweep_clients", "expire_list", "expire_client", "purge_list", "purge_call",
         "purge_wipe", "hand_call", "hand_clear"}

Job == [kind: Operations \cup {None}, flow: Flow \cup {None}, rows: SUBSET Flow,
        one: Flow \cup {None}, clients: SUBSET Client, client: Client \cup {None},
        back: BOOLEAN]

(* What the foreign keys say: a row stands only under the row it refers to *)
Referenced ==
  \A f \in Flow :
    /\ flow[f].state = "open" \/ row[f].state \in {"live", "revoked"}
         => client[ClientOf[f]].state = "registered"
    /\ grant[f].state \in {"code", "tokens"} => row[f].state \in {"live", "revoked"}

(* Every variable has its type, and no row outlives the row it refers to,   *)
(* in whatever order requests insert and delete.                            *)
TypeOK ==
  /\ clock \in 0..MaxClock
  /\ client \in [Client -> [state: {"none", "registered", "gone"}, registered: 0..MaxClock,
                            used: 0..MaxClock \cup {Never}]]
  /\ flow \in [Flow -> [state: {"none", "open", "gone"}, until: Nat]]
  /\ row \in [Flow -> [state: {"none", "live", "revoked", "gone"}, created: 0..MaxClock,
                       noted: BOOLEAN]]
  /\ grant \in [Flow -> [state: {"none", "code", "tokens", "gone"}, until: Nat]]
  /\ paused \in BOOLEAN
  /\ nextcloud \in [Flow -> {"none", "waiting", "granted", "collected"}]
  /\ password \in [Flow -> {"none", "valid", "returned"}]
  /\ {asked, unseen} \subseteq SUBSET Flow
  /\ claims \in [Flow -> 0..2]
  /\ pc \in [Request -> Step]
  /\ job \in [Request -> Job]
  /\ Referenced

NoJob == [kind |-> None, flow |-> None, rows |-> {}, one |-> None, clients |-> {},
          client |-> None, back |-> FALSE]

Init ==
  /\ clock = 0
  /\ client = [c \in Client |-> [state |-> "none", registered |-> 0, used |-> Never]]
  /\ flow = [f \in Flow |-> [state |-> "none", until |-> 0]]
  /\ row = [f \in Flow |-> [state |-> "none", created |-> 0, noted |-> FALSE]]
  /\ grant = [f \in Flow |-> [state |-> "none", until |-> 0]]
  /\ paused = FALSE
  /\ nextcloud = [f \in Flow |-> "none"]
  /\ password = [f \in Flow |-> "none"]
  /\ asked = {} /\ unseen = {}
  /\ claims = [f \in Flow |-> 0]
  /\ pc = [r \in Request |-> "idle"]
  /\ job = [r \in Request |-> NoJob]

-----------------------------------------------------------------------------
(* What the store's statements find *)

RowThere(f) == row[f].state \in {"live", "revoked"}
Pending(f) == grant[f].state \in {"code", "tokens"}      \* a code or token row exists
Spendable(f) == flow[f].state = "open" /\ flow[f].until > clock

Expired(c) ==
  LET m == client[c] IN
  m.state = "registered" /\ IF m.used = Never THEN m.registered < clock - UNUSED_CLIENT_TTL
                            ELSE m.used < clock - IDLE_CLIENT_TTL

(* abandoned_authorizations *)
AbandonedWithCode == {f \in Flow : /\ row[f].state = "live" /\ row[f].created < clock - FLOW_TTL
                                   /\ flow[f].state # "open" /\ grant[f].state # "tokens"}
Abandoned == {f \in Flow : /\ row[f].state = "live" /\ row[f].created < clock - FLOW_TTL
                           /\ flow[f].state # "open" /\ ~Pending(f)}

RowsOf(c) == {f \in Flow : RowThere(f) /\ ClientOf[f] = c}

(* ORDER BY ... LIMIT: the oldest ones, up to the limit *)
OldestOf(S, age) ==
  {T \in SUBSET S : /\ Cardinality(T) = IF Cardinality(S) < SWEEP_LIMIT THEN Cardinality(S)
                                        ELSE SWEEP_LIMIT
                    /\ \A x \in T, y \in S \ T : age[x] <= age[y]}

(* _purge_expired_rows, which every insert runs first *)
FlowsLeft == [f \in Flow |-> IF flow[f].state = "open" /\ flow[f].until <= clock
                             THEN NoFlow ELSE flow[f]]
GrantsLeft == [f \in Flow |-> IF Pending(f) /\ grant[f].until <= clock
                              THEN NoFlow ELSE grant[f]]

(* DELETE with its cascade *)
RowsWithout(S) == [f \in Flow |-> IF f \in S /\ RowThere(f) THEN NoRow ELSE row[f]]
GrantsWithout(S) == [f \in Flow |-> IF f \in S /\ Pending(f) THEN NoFlow ELSE grant[f]]
FlowsWithout(S) == [f \in Flow |-> IF f \in S /\ flow[f].state = "open" THEN NoFlow ELSE flow[f]]

DeleteAuthorization(f) == row' = RowsWithout({f}) /\ grant' = GrantsWithout({f})

-----------------------------------------------------------------------------
(* How a request moves *)

At(r, s) == pc[r] = s
Goto(r, s) == pc' = [pc EXCEPT ![r] = s]
Set(r, j) == job' = [job EXCEPT ![r] = j]
Done(r) == Goto(r, "idle") /\ Set(r, NoJob)
Begin(r, kind, s, f) ==
  /\ kind \in Offered[f] /\ At(r, "idle")
  /\ Goto(r, s) /\ Set(r, [NoJob EXCEPT !.kind = kind, !.flow = f])

(* revoke_app_password: one attempt, and Nextcloud may not answer *)
Ask(f, answered) ==
  /\ password' = [password EXCEPT ![f] = IF answered THEN "returned" ELSE @]
  /\ asked' = asked \cup {f}
  /\ UNCHANGED <<paused, nextcloud, unseen, claims>>
AskNobody == UNCHANGED <<outside, history>>

(* What a clean-up does for a row that is about to go: app_password, then one *)
(* attempt.  A ciphertext of another key, or a store that cannot be read,     *)
(* raises; that is caught and logged, and Nextcloud is never asked            *)
AskFor(f, answered) == IF RowThere(f) THEN Ask(f, answered) ELSE AskNobody
Unread(f) ==
  /\ "unreadable" \in Faults /\ RowThere(f)
  /\ unseen' = unseen \cup {f}
  /\ UNCHANGED <<outside, asked, claims>>

Tick ==
  /\ clock < MaxClock /\ clock' = clock + 1
  /\ UNCHANGED <<store, outside, history, pc, job>>

TogglePause ==
  /\ \E f \in Flow : "pause" \in Offered[f]
  /\ paused' = ~paused
  /\ UNCHANGED <<clock, store, nextcloud, password, history, pc, job>>

(* The user signs in at Nextcloud, which mints the app password; a run that *)
(* offers no screen to collect it leaves the user out                       *)
GrantAccess(f) ==
  /\ "screen" \in Offered[f]
  /\ nextcloud[f] = "waiting"
  /\ nextcloud' = [nextcloud EXCEPT ![f] = "granted"]
  /\ password' = [password EXCEPT ![f] = "valid"]
  /\ UNCHANGED <<clock, store, paused, history, pc, job>>

Register(c) ==
  /\ client[c].state = "none"
  /\ client' = [client EXCEPT ![c] = [state |-> "registered", registered |-> clock, used |-> Never]]
  /\ UNCHANGED <<clock, flow, row, grant, outside, history, pc, job>>

(* A password a request has collected and nobody else knows of *)
InHands(r, f) == job[r].flow = f /\ pc[r] \in {"vet", "create", "return", "give_back"}

Crash(r) ==
  /\ "crash" \in Faults /\ ~At(r, "idle")
  /\ Done(r)
  /\ unseen' = unseen \cup {f \in Flow : InHands(r, f)}
  /\ UNCHANGED <<clock, store, outside, asked, claims>>

-----------------------------------------------------------------------------
(* get_client, before every step of a sign-in: a registration that ran out  *)
(* hands its connections back first                                         *)
ClientCheck(r) ==
  LET c == ClientOf[job[r].flow] IN
  /\ At(r, "client")
  /\ CASE client[c].state # "registered" -> Done(r)
       [] Expired(c) -> Goto(r, "expire_list") /\ Set(r, [NoJob EXCEPT !.clients = {c}])
       [] OTHER -> /\ Goto(r, CASE job[r].kind = "authorize" -> "create_flow"
                                [] job[r].kind = "exchange" -> "exchange"
                                [] OTHER -> "row")
                   /\ UNCHANGED job
  /\ UNCHANGED <<clock, store, outside, history>>

(* /authorize: the flow at Nextcloud, the flow record, then both sweeps; the  *)
(* id is drawn at random, so no two requests ever start the same sign-in     *)
Authorize(r, f) ==
  /\ flow[f].state = "none" /\ nextcloud[f] = "none"
  /\ \A q \in Request : ~(job[q].kind = "authorize" /\ job[q].flow = f)
  /\ Begin(r, "authorize", "client", f)
  /\ UNCHANGED <<clock, store, outside, history>>

CreateFlow(r) ==
  LET f == job[r].flow IN
  /\ At(r, "create_flow")
  /\ nextcloud' = [nextcloud EXCEPT ![f] = "waiting"]
  /\ IF client[ClientOf[f]].state = "registered" /\ flow[f].state = "none"
     THEN /\ flow' = [FlowsLeft EXCEPT ![f] = [state |-> "open", until |-> clock + FLOW_TTL]]
          /\ grant' = GrantsLeft
          /\ Goto(r, "sweep_list") /\ Set(r, NoJob)
     ELSE Done(r) /\ UNCHANGED <<flow, grant>>
  /\ UNCHANGED <<clock, client, row, paused, password, history>>

-----------------------------------------------------------------------------
(* The consent page: _screen *)

OpenScreen(r, f) ==
  /\ Spendable(f)
  /\ Begin(r, "screen", "check", f)
  /\ UNCHANGED <<clock, store, outside, history>>

(* the second look at the deadline, which both pages take *)
CheckFlow(r) ==
  LET f == job[r].flow IN
  /\ At(r, "check")
  /\ IF flow[f].until <= clock
     THEN flow' = FlowsWithout({f}) /\ Done(r)
     ELSE Goto(r, "client") /\ UNCHANGED <<flow, job>>
  /\ UNCHANGED <<clock, client, row, grant, outside, history>>

(* the connection is there already: the decision page; or it has to be made *)
FindRow(r) ==
  LET f == job[r].flow IN
  /\ At(r, "row")
  /\ CASE job[r].kind = "screen" /\ ~RowThere(f) -> Goto(r, "poll") /\ UNCHANGED job
       [] job[r].kind \in {"approve", "deny"} /\ RowThere(f) -> Goto(r, "decide") /\ UNCHANGED job
       [] OTHER -> Done(r)
  /\ UNCHANGED <<clock, store, outside, history>>

(* poll_once: the answer comes exactly once, and may be lost on the way *)
Poll(r, lost) ==
  LET f == job[r].flow IN
  /\ At(r, "poll")
  /\ lost => "lost" \in Faults
  /\ IF nextcloud[f] = "granted"
     THEN nextcloud' = [nextcloud EXCEPT ![f] = "collected"]
     ELSE UNCHANGED nextcloud
  /\ IF nextcloud[f] = "granted" /\ ~lost
     THEN Goto(r, "vet") /\ UNCHANGED <<job, unseen>>
     ELSE /\ Done(r)
          /\ unseen' = IF nextcloud[f] = "granted" THEN unseen \cup {f} ELSE unseen
  /\ UNCHANGED <<clock, store, paused, password, asked, claims>>

(* whose password it is, then the account's switch; either may refuse *)
Vet(r, accepted) ==
  /\ At(r, "vet")
  /\ Goto(r, IF accepted /\ ~paused THEN "create" ELSE "return")
  /\ UNCHANGED <<clock, store, outside, history, job>>

(* A sweep that has listed the rows of this registration, or a purge that   *)
(* has listed them all, does not see the row that is written now            *)
Behind(f) == \E q \in Request :
  \/ pc[q] \in {"rows_call", "rows_drop", "expire_client"} /\ job[q].client = ClientOf[f]
  \/ pc[q] \in {"purge_call", "purge_wipe"}

(* create_authorization; when it fails the password goes straight back *)
Inserted(f) ==
  /\ row' = [row EXCEPT ![f] = [state |-> "live", created |-> clock, noted |-> FALSE]]
  /\ unseen' = IF Behind(f) THEN unseen \cup {f} ELSE unseen
CreateOrForget(r, stored) ==
  LET f == job[r].flow IN
  /\ At(r, "create")
  /\ IF stored /\ client[ClientOf[f]].state = "registered" /\ ~RowThere(f)
     THEN Inserted(f) ELSE UNCHANGED <<row, unseen>>
  /\ Done(r)
  /\ UNCHANGED <<clock, client, flow, grant, outside, asked, claims>>
CreateUnreferenced(r, stored) ==
  LET f == job[r].flow IN
  /\ At(r, "create")
  /\ IF stored /\ ~RowThere(f) THEN Inserted(f) /\ Done(r)
     ELSE Goto(r, "give_back") /\ UNCHANGED <<row, unseen, job>>
  /\ UNCHANGED <<clock, client, flow, grant, outside, asked, claims>>
Create(r, stored) ==
  LET f == job[r].flow IN
  /\ At(r, "create")
  /\ IF stored /\ client[ClientOf[f]].state = "registered" /\ ~RowThere(f)
     THEN Inserted(f) /\ Done(r)
     ELSE Goto(r, "give_back") /\ UNCHANGED <<row, unseen, job>>
  /\ UNCHANGED <<clock, client, flow, grant, outside, asked, claims>>

Return(r, answered) ==
  /\ pc[r] \in {"return", "give_back"}
  /\ Ask(job[r].flow, answered)
  /\ IF At(r, "return") THEN Goto(r, "forget_flow") /\ UNCHANGED job ELSE Done(r)
  /\ UNCHANGED <<clock, store>>

ForgetFlow(r) ==
  /\ At(r, "forget_flow")
  /\ flow' = FlowsWithout({job[r].flow})
  /\ Done(r)
  /\ UNCHANGED <<clock, client, row, grant, outside, history>>

-----------------------------------------------------------------------------
(* The decision: _decide, _approve, _deny, _withdraw *)

OpenDecision(r, f, kind) ==
  /\ Spendable(f)
  /\ Begin(r, kind, "check", f)
  /\ UNCHANGED <<clock, store, outside, history>>

(* the browser is not the account, or the switch cannot be read: no decision *)
Decide(r, accepted) ==
  /\ At(r, "decide")
  /\ IF ~accepted THEN Done(r)
     ELSE /\ Goto(r, IF paused \/ job[r].kind = "deny" THEN "claim" ELSE "approve")
          /\ Set(r, [job[r] EXCEPT !.kind = None])
  /\ UNCHANGED <<clock, store, outside, history>>

Won(f) == claims' = [claims EXCEPT ![f] = @ + 1]

(* redeem_flow_for_code: the flow and the code in one transaction; a code   *)
(* without its row is refused by the foreign key, and the flow comes back   *)
ApproveUnclaimed(r) ==
  LET f == job[r].flow IN
  /\ At(r, "approve")
  /\ IF RowThere(f) /\ claims[f] < 2
     THEN /\ flow' = [FlowsLeft EXCEPT ![f] = NoFlow]
          /\ grant' = [GrantsLeft EXCEPT ![f] = [state |-> "code", until |-> clock + AUTH_CODE_TTL]]
          /\ Won(f)
     ELSE UNCHANGED <<flow, grant, claims>>
  /\ Done(r)
  /\ UNCHANGED <<clock, client, row, outside, asked, unseen>>
Approve(r) ==
  LET f == job[r].flow IN
  /\ At(r, "approve")
  /\ IF Spendable(f) /\ RowThere(f)
     THEN /\ flow' = [FlowsLeft EXCEPT ![f] = NoFlow]
          /\ grant' = [GrantsLeft EXCEPT ![f] = [state |-> "code", until |-> clock + AUTH_CODE_TTL]]
          /\ Won(f)
     ELSE UNCHANGED <<flow, grant, claims>>
  /\ Done(r)
  /\ UNCHANGED <<clock, client, row, outside, asked, unseen>>

(* redeem_flow, which a denial and a paused refusal need before they withdraw *)
Claim(r) ==
  LET f == job[r].flow IN
  /\ At(r, "claim")
  /\ IF Spendable(f) THEN flow' = FlowsWithout({f}) /\ Won(f) /\ Goto(r, "withdraw") /\ UNCHANGED job
     ELSE Done(r) /\ UNCHANGED <<flow, claims>>
  /\ UNCHANGED <<clock, client, row, grant, outside, asked, unseen>>

Withdraw(r, answered) ==
  LET f == job[r].flow IN
  /\ At(r, "withdraw")
  /\ AskFor(f, answered) \/ Unread(f)
  /\ Goto(r, "drop_row")
  /\ UNCHANGED <<clock, store, job>>

DropRow(r) ==
  /\ At(r, "drop_row")
  /\ DeleteAuthorization(job[r].flow)
  /\ Goto(r, "forget_flow")
  /\ UNCHANGED <<clock, client, flow, outside, history, job>>

-----------------------------------------------------------------------------
(* The connection in use, and its end; ConnectionTokens has the details     *)

UseConnection(r, f) ==
  /\ Pending(f) /\ grant[f].until > clock /\ row[f].state = "live"
  /\ Begin(r, "exchange", "client", f)
  /\ UNCHANGED <<clock, store, outside, history>>

Exchange(r) ==
  LET f == job[r].flow
      c == ClientOf[f]
  IN
  /\ At(r, "exchange")
  /\ IF Pending(f) /\ grant[f].until > clock
     THEN /\ flow' = FlowsLeft
          /\ grant' = [GrantsLeft EXCEPT ![f] = [state |-> "tokens",
                                                until |-> clock + REFRESH_TOKEN_TTL]]
          /\ client' = [client EXCEPT ![c].used = IF client[c].state = "registered" THEN clock ELSE @]
     ELSE UNCHANGED <<flow, grant, client>>
  /\ Done(r)
  /\ UNCHANGED <<clock, row, outside, history>>

(* The connection ends: the row is revoked and noted; its owner, and /revoke, *)
(* then hand the password back, while a reused token leaves the note alone  *)
Disconnect(r, f) ==
  /\ row[f].state = "live"
  /\ row' = [row EXCEPT ![f].state = "revoked", ![f].noted = TRUE]
  /\ \/ Begin(r, "disconnect", "hand_call", f)
     \/ At(r, "idle") /\ "disconnect" \in Offered[f] /\ Pending(f) /\ UNCHANGED <<pc, job>>
  /\ UNCHANGED <<clock, client, flow, grant, outside, history>>

HandCall(r, answered) ==
  LET f == job[r].flow IN
  /\ At(r, "hand_call")
  /\ \/ /\ AskFor(f, answered)
        /\ IF RowThere(f) /\ answered THEN Goto(r, "hand_clear") /\ UNCHANGED job ELSE Done(r)
     \/ "unreadable" \in Faults /\ AskNobody /\ Done(r)
  /\ UNCHANGED <<clock, store>>

HandClear(r) ==
  /\ At(r, "hand_clear")
  /\ row' = [row EXCEPT ![job[r].flow].noted = FALSE]
  /\ Done(r)
  /\ UNCHANGED <<clock, client, flow, grant, outside, history>>

-----------------------------------------------------------------------------
(* Sweeps: sweep_abandoned, sweep_expired_clients, _hand_back_client        *)

SweepList(r) ==
  /\ At(r, "sweep_list")
  /\ \E S \in OldestOf(Abandoned, [f \in Flow |-> row[f].created]) :
       Set(r, [job[r] EXCEPT !.rows = S])
  /\ Goto(r, "rows_call")
  /\ UNCHANGED <<clock, store, outside, history>>

(* one row: its password is asked back if it can be read, then the row goes  *)
(* either way                                                               *)
HandRow(r, f, answered) ==
  /\ At(r, "rows_call") /\ f \in job[r].rows
  /\ AskFor(f, answered) \/ Unread(f)
  /\ Goto(r, "rows_drop") /\ Set(r, [job[r] EXCEPT !.rows = @ \ {f}, !.one = f])
  /\ UNCHANGED <<clock, store>>

DropReturned(r) ==
  /\ At(r, "rows_drop")
  /\ IF password[job[r].one] = "returned" THEN DeleteAuthorization(job[r].one)
     ELSE UNCHANGED <<row, grant>>
  /\ Goto(r, "rows_call") /\ Set(r, [job[r] EXCEPT !.one = None])
  /\ UNCHANGED <<clock, client, flow, outside, history>>
DropOne(r) ==
  /\ At(r, "rows_drop")
  /\ DeleteAuthorization(job[r].one)
  /\ Goto(r, "rows_call") /\ Set(r, [job[r] EXCEPT !.one = None])
  /\ UNCHANGED <<clock, client, flow, outside, history>>

RowsDone(r) ==
  /\ At(r, "rows_call") /\ job[r].rows = {}
  /\ Goto(r, IF job[r].client = None THEN "sweep_clients" ELSE "expire_client")
  /\ UNCHANGED <<clock, store, outside, history, job>>

SweepClients(r) ==
  /\ At(r, "sweep_clients")
  /\ \E S \in OldestOf({c \in Client : Expired(c)}, [c \in Client |-> client[c].registered]) :
       Set(r, [job[r] EXCEPT !.clients = S])
  /\ Goto(r, "expire_list")
  /\ UNCHANGED <<clock, store, outside, history>>

(* authorizations_of_client; an unreadable list is logged, and no row is seen *)
ExpireList(r, c, readable) ==
  /\ At(r, "expire_list") /\ c \in job[r].clients
  /\ ~readable => "unreadable" \in Faults
  /\ Set(r, [job[r] EXCEPT !.client = c, !.rows = IF readable THEN RowsOf(c) ELSE {}])
  /\ unseen' = IF readable THEN unseen ELSE unseen \cup RowsOf(c)
  /\ Goto(r, "rows_call")
  /\ UNCHANGED <<clock, store, outside, asked, claims>>

(* delete_client and its cascade *)
ExpireClient(r) ==
  LET c == job[r].client
      gone == {f \in Flow : ClientOf[f] = c}
  IN
  /\ At(r, "expire_client")
  /\ client' = [client EXCEPT ![c] = IF @.state = "registered" THEN NoClient ELSE @]
  /\ flow' = FlowsWithout(gone) /\ row' = RowsWithout(gone) /\ grant' = GrantsWithout(gone)
  /\ Goto(r, "expire_list")
  /\ Set(r, [job[r] EXCEPT !.clients = @ \ {c}, !.client = None])
  /\ UNCHANGED <<clock, outside, history>>

SweepEnds(r) ==
  /\ At(r, "expire_list") /\ job[r].clients = {}
  /\ Done(r)
  /\ UNCHANGED <<clock, store, outside, history>>

-----------------------------------------------------------------------------
(* occ mcp_connector:purge: hand back every password, then empty the tables, *)
(* unless there were connections and not one of them could be handed back   *)

Purge(r) ==
  /\ At(r, "idle") /\ \E f \in Flow : "purge" \in Offered[f]
  /\ Goto(r, "purge_list") /\ Set(r, [NoJob EXCEPT !.kind = "purge"])
  /\ UNCHANGED <<clock, store, outside, history>>

PurgeList(r) ==
  LET found == {f \in Flow : RowThere(f)} IN
  /\ At(r, "purge_list")
  /\ Set(r, [job[r] EXCEPT !.rows = found, !.back = (found = {})])
  /\ Goto(r, "purge_call")
  /\ UNCHANGED <<clock, store, outside, history>>

PurgeCall(r, f, answered) ==
  /\ At(r, "purge_call") /\ f \in job[r].rows
  /\ \/ AskFor(f, answered)
        /\ Set(r, [job[r] EXCEPT !.rows = @ \ {f}, !.back = @ \/ (RowThere(f) /\ answered)])
     \/ Unread(f) /\ Set(r, [job[r] EXCEPT !.rows = @ \ {f}])
  /\ UNCHANGED <<clock, store, pc>>

PurgeDone(r) ==
  /\ At(r, "purge_call") /\ job[r].rows = {}
  /\ IF job[r].back THEN Goto(r, "purge_wipe") /\ UNCHANGED job ELSE Done(r)
  /\ UNCHANGED <<clock, store, outside, history>>

PurgeWipe(r) ==
  /\ At(r, "purge_wipe")
  /\ client' = [c \in Client |-> IF client[c].state = "registered"
                                 THEN NoClient ELSE client[c]]
  /\ flow' = FlowsWithout(Flow) /\ row' = RowsWithout(Flow) /\ grant' = GrantsWithout(Flow)
  /\ paused' = FALSE
  /\ Done(r)
  /\ UNCHANGED <<clock, nextcloud, password, history>>

-----------------------------------------------------------------------------
Start(r) ==
  \/ \E f \in Flow :
       \/ Authorize(r, f) \/ OpenScreen(r, f) \/ UseConnection(r, f) \/ Disconnect(r, f)
       \/ \E kind \in {"approve", "deny"} : OpenDecision(r, f, kind)
  \/ Purge(r)

Advance(r) ==
  \/ ClientCheck(r) \/ CreateFlow(r) \/ CheckFlow(r) \/ FindRow(r) \/ ForgetFlow(r)
  \/ Approve(r) \/ Claim(r) \/ DropRow(r) \/ Exchange(r) \/ HandClear(r)
  \/ SweepList(r) \/ DropOne(r) \/ RowsDone(r) \/ SweepClients(r)
  \/ ExpireClient(r) \/ SweepEnds(r) \/ PurgeList(r) \/ PurgeDone(r) \/ PurgeWipe(r)
  \/ \E yes \in BOOLEAN :
       \/ Poll(r, yes) \/ Vet(r, yes) \/ Create(r, yes)
       \/ Return(r, yes) \/ Decide(r, yes) \/ Withdraw(r, yes) \/ HandCall(r, yes)
       \/ \E f \in Flow : HandRow(r, f, yes) \/ PurgeCall(r, f, yes)
       \/ \E c \in Client : ExpireList(r, c, yes)

Next ==
  \/ Tick \/ TogglePause
  \/ \E c \in Client : Register(c)
  \/ \E f \in Flow : GrantAccess(f)
  \/ \E r \in Request : Start(r) \/ Advance(r) \/ Crash(r)

Spec == Init /\ [][Next]_vars

-----------------------------------------------------------------------------
(* Properties *)

(* A valid password that no row records, that nobody was asked to take back *)
(* and that no request still holds                                          *)
Lost(f) ==
  /\ nextcloud[f] = "collected" /\ password[f] = "valid"
  /\ ~RowThere(f) /\ f \notin asked
  /\ \A r \in Request : ~InHands(r, f)

(* A password is lost only where its owner died, its one answer was lost, a *)
(* clean-up could not read it or the list it stands in, or its row was      *)
(* written behind the back of a sweep that had already listed its rows;     *)
(* every other path asks Nextcloud first (D-34, BL-01, WR-04).              *)
LostOnlyUnseen == \A f \in Flow : Lost(f) => f \in unseen

(* "What must not happen is the silent case" (_hand_back_client): no valid  *)
(* password drops out of the record without Nextcloud having been asked.    *)
PasswordAccounted == \A f \in Flow : ~Lost(f)

(* Of all decisions of one sign-in, by however many presses of either       *)
(* button, one wins (BL-19).                                                *)
OneDecision == \A f \in Flow : claims[f] <= 1

(* A connection with a code or a token that still counts is never deleted,  *)
(* except with its whole registration or by the purge: neither a sweep nor  *)
(* a refusal takes back what an approval has just granted (BL-19).          *)
WithAll(r) == pc[r] \in {"expire_client", "purge_wipe"} \/ job[r].client # None
GrantedIsKept ==
  [][\A f \in Flow :
       row[f].state = "live" /\ Pending(f) /\ grant[f].until > clock /\ row'[f].state = "gone"
         => \E r \in Request : WithAll(r)]_vars

(* What a refusal has claimed or a sweep has listed                         *)
Doomed(f) == \E r \in Request :
  \/ pc[r] \in {"withdraw", "drop_row"} /\ job[r].flow = f
  \/ pc[r] = "rows_call" /\ f \in job[r].rows

(* "leaves the note behind, which is the state the sweep of sweep_abandoned *)
(* [...] can act on" (_hand_back): a noted row past its deadline that has   *)
(* neither flow nor token is one the sweep finds.                           *)
NotedIsSwept ==
  \A f \in Flow :
    /\ row[f].noted /\ row[f].created < clock - FLOW_TTL
    /\ flow[f].state # "open" /\ ~Pending(f)
    => f \in Abandoned
=============================================================================
