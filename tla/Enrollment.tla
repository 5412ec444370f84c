------------------------------- MODULE Enrollment -------------------------------
(***************************************************************************)
(* How an account is bound to the token exchange: a login flow at          *)
(* Nextcloud leaves a holding row, an independent OIDC sign-in proves who  *)
(* sits in front of the browser, and only then the holding row becomes the *)
(* binding.  Holding row and binding carry one and the same app password.  *)
(* Every store method is one transaction and every call to Nextcloud or to *)
(* the identity provider stands between two of them.                       *)
(***************************************************************************)
EXTENDS Integers, FiniteSets

CONSTANTS
  Flow,          \* enrollments; a flow and its holding row share one id
  AccountOf,     \* the account that signs in at Nextcloud for a flow
  Browser,       \* browsers, each with its cookies
  SignsInAs,     \* the account a browser's user has at the identity provider
  Tx,            \* OIDC transactions, by their state value
  Binding,       \* auth ids of bindings
  Request,       \* requests in flight
  Offered,       \* the operations of a run
  FLOW_TTL, OIDC_TTL, IDLE_CLIENT_TTL, UNUSED_CLIENT_TTL,
  PER_BROWSER,   \* OIDC_TRANSACTIONS_PER_BROWSER
  Faults,        \* "crash", "store" (a write fails), "unreadable" (a row or a password is),
                 \* "lost" (Nextcloud does not answer)
  MaxClock,      \* bound of the clock
  None

Operations == {"begin", "resume", "revoke", "sweep"}
Holding == "pending"      \* EXCHANGE_PENDING_CLIENT_ID
Bound == "bound"          \* EXCHANGE_CLIENT_ID
Reserved == {Holding, Bound}

EnrollmentAssumption ==
  /\ DOMAIN AccountOf = Flow /\ DOMAIN SignsInAs = Browser
  /\ Offered \subseteq Operations
  /\ Faults \subseteq {"crash", "store", "lost", "unreadable"}
  /\ {FLOW_TTL, OIDC_TTL, IDLE_CLIENT_TTL, UNUSED_CLIENT_TTL, MaxClock} \subseteq Nat
  /\ PER_BROWSER \in Nat \ {0}
  /\ None \notin Flow \cup Browser \cup Tx \cup Binding \cup Reserved
  /\ Flow \cap Binding = {}       \* both are auth ids, of one table

VARIABLES
  clock,
  client,        \* the two reserved rows of clients
  flow,          \* rows of flows
  holding,       \* rows of authorizations under the holding client
  binding,       \* rows of authorizations under the binding client
  tx,            \* rows of oidc_transactions
  proof,         \* rows of oidc_proofs, one per flow
  mine,          \* the transactions a browser's sign-in cookie belongs to
  cookie,        \* the proof cookie of a browser, named by its transaction
  nextcloud,     \* the login flow at Nextcloud
  password,      \* the app password at Nextcloud
  unseen,        \* history: passwords an attempt failed for, nobody could read or got hold of
  misused,       \* history: transactions presented in a browser they are not of
  pc, job        \* where a request stands, and its local variables

rows == <<client, flow, holding, binding>>
oidc == <<tx, proof, mine, cookie>>
outside == <<nextcloud, password>>
history == <<unseen, misused>>
vars == <<clock, rows, oidc, outside, history, pc, job>>

Never == -1
NoClient == [here |-> FALSE, registered |-> 0, used |-> Never]
NoBinding == [state |-> "none", revoked |-> FALSE, flow |-> None, browser |-> None, via |-> None]
NoTx == [state |-> "gone", flow |-> None, until |-> 0]
NoProof == [via |-> None, principal |-> None, until |-> 0]
NoJob == [flow |-> None, browser |-> None, via |-> None, binding |-> None, rows |-> {},
          one |-> None, clients |-> {}, client |-> None]

Step == {"idle", "begin_save", "begin_touch", "begin_flow", "load", "poll", "vet", "hold",
         "return", "forget", "identify", "settle", "existing", "twin", "bind_save",
         "bind_touch", "bind", "drop", "exchange", "prove", "end_call",
         "sweep_rows", "sweep_drop", "sweep_clients"}

Row == Flow \cup Binding
FlowOf(x) == IF x \in Flow THEN x ELSE binding[x].flow
Held(f) == holding[f].state = "held"
Open(f) == flow[f].state = "open"
Running(f) == Open(f) /\ flow[f].until > clock
Standing(b) == binding[b].state = "here"
Living(b) == Standing(b) /\ ~binding[b].revoked

(* Every variable has its type, and the foreign keys hold in whatever order *)
(* requests insert and delete: no flow and no row outlives its client, and  *)
(* no transaction and no proof outlives its flow.                           *)
TypeOK ==
  /\ clock \in 0..MaxClock
  /\ client \in [Reserved -> [here: BOOLEAN, registered: 0..MaxClock,
                              used: 0..MaxClock \cup {Never}]]
  /\ flow \in [Flow -> [state: {"none", "open", "gone"}, until: Nat]]
  /\ holding \in [Flow -> [state: {"none", "held", "gone"}, since: 0..MaxClock]]
  /\ binding \in [Binding -> [state: {"none", "here", "gone"}, revoked: BOOLEAN,
                              flow: Flow \cup {None}, browser: Browser \cup {None}, via: Tx \cup {None}]]
  /\ tx \in [Tx -> [state: {"none", "open", "gone"}, flow: Flow \cup {None}, until: Nat]]
  /\ \A f \in Flow : proof[f].via \in Tx \cup {None}
  /\ mine \in [Browser -> SUBSET Tx] /\ cookie \in [Browser -> Tx \cup {None}]
  /\ nextcloud \in [Flow -> {"none", "waiting", "granted", "collected"}]
  /\ password \in [Flow -> {"none", "valid", "returned"}]
  /\ unseen \subseteq Flow /\ misused \subseteq Tx
  /\ pc \in [Request -> Step]
  /\ \A f \in Flow : /\ Open(f) \/ Held(f) => client[Holding].here
                     /\ proof[f] # NoProof => Open(f)
  /\ \A b \in Binding : Standing(b) => client[Bound].here
  /\ \A x \in Tx : tx[x].state = "open" => Open(tx[x].flow)

Init ==
  /\ clock = 0
  /\ client = [c \in Reserved |-> NoClient]
  /\ flow = [f \in Flow |-> [state |-> "none", until |-> 0]]
  /\ holding = [f \in Flow |-> [state |-> "none", since |-> 0]]
  /\ binding = [b \in Binding |-> NoBinding]
  /\ tx = [x \in Tx |-> [NoTx EXCEPT !.state = "none"]]
  /\ proof = [f \in Flow |-> NoProof]
  /\ mine = [b \in Browser |-> {}] /\ cookie = [b \in Browser |-> None]
  /\ nextcloud = [f \in Flow |-> "none"] /\ password = [f \in Flow |-> "none"]
  /\ unseen = {} /\ misused = {}
  /\ pc = [r \in Request |-> "idle"] /\ job = [r \in Request |-> NoJob]

-----------------------------------------------------------------------------
(* How a request moves, and what a statement may do *)

At(r, s) == pc[r] = s
Goto(r, s) == pc' = [pc EXCEPT ![r] = s]
Set(r, j) == job' = [job EXCEPT ![r] = j]
Done(r) == Goto(r, "idle") /\ Set(r, NoJob)
To(r, s) == Goto(r, s) /\ UNCHANGED job
Begin(r, op, s, j) == op \in Offered /\ At(r, "idle") /\ Goto(r, s) /\ Set(r, j)
Works(ok) == ok \/ "store" \in Faults        \* a write goes through, or raises
Unreadable == "unreadable" \in Faults        \* a read raises, and the failure is caught

(* DELETE FROM flows, with the two tables that hang on it *)
WithoutFlows(S) ==
  /\ flow' = [f \in Flow |-> IF f \in S /\ Open(f) THEN [state |-> "gone", until |-> 0] ELSE flow[f]]
  /\ tx' = [x \in Tx |-> IF tx[x].state = "open" /\ tx[x].flow \in S THEN NoTx ELSE tx[x]]
  /\ proof' = [f \in Flow |-> IF f \in S THEN NoProof ELSE proof[f]]
WithoutRows(S) ==
  /\ holding' = [f \in Flow |-> IF f \in S /\ Held(f) THEN [state |-> "gone", since |-> 0]
                                ELSE holding[f]]
  /\ binding' = [b \in Binding |-> IF b \in S /\ Standing(b) THEN [binding[b] EXCEPT !.state = "gone"]
                                   ELSE binding[b]]

(* loginflow.revoke_app_password: one attempt, and it may fail *)
HandBack(f, answered) ==
  /\ answered \/ "lost" \in Faults
  /\ password' = [password EXCEPT ![f] = IF answered THEN "returned" ELSE @]
  /\ unseen' = IF answered THEN unseen ELSE unseen \cup {f}
  /\ UNCHANGED <<nextcloud, misused>>

(* app_password raises for a ciphertext of another key; a sweep catches it,   *)
(* logs it and goes on without asking Nextcloud                              *)
Unread(f) ==
  /\ Unreadable /\ unseen' = unseen \cup {f}
  /\ UNCHANGED <<outside, misused>>

Tick ==
  /\ clock < MaxClock /\ clock' = clock + 1
  /\ UNCHANGED <<rows, oidc, outside, history, pc, job>>

(* Somebody follows the login link and signs in, which mints the password *)
GrantAccess(f) ==
  /\ nextcloud[f] = "waiting"
  /\ nextcloud' = [nextcloud EXCEPT ![f] = "granted"]
  /\ password' = [password EXCEPT ![f] = "valid"]
  /\ UNCHANGED <<clock, rows, oidc, history, pc, job>>

(* The process dies: a password only this request knew is lost *)
Crash(r) ==
  /\ "crash" \in Faults /\ ~At(r, "idle")
  /\ Done(r)
  /\ unseen' = unseen \cup (IF pc[r] \in {"vet", "hold", "return"} THEN {job[r].flow} ELSE {})
  /\ UNCHANGED <<clock, rows, oidc, outside, misused>>

-----------------------------------------------------------------------------
(* begin_enrollment; save_client and touch_client also precede a binding *)

BeginEnrollment(r, f) ==
  /\ flow[f].state = "none" /\ nextcloud[f] = "none"
  /\ \A q \in Request : job[q].flow # f
  /\ Begin(r, "begin", "begin_save", [NoJob EXCEPT !.flow = f])
  /\ UNCHANGED <<clock, rows, oidc, outside, history>>

SaveClient(r, c, ok) ==
  /\ At(r, IF c = Holding THEN "begin_save" ELSE "bind_save") /\ Works(ok)
  /\ IF ok
     THEN /\ client' = [client EXCEPT ![c] = IF @.here THEN @
                          ELSE [here |-> TRUE, registered |-> clock, used |-> Never]]
          /\ To(r, IF c = Holding THEN "begin_touch" ELSE "bind_touch")
     ELSE Done(r) /\ UNCHANGED client
  /\ UNCHANGED <<clock, flow, holding, binding, oidc, outside, history>>

TouchClient(r, c, ok) ==
  /\ At(r, IF c = Holding THEN "begin_touch" ELSE "bind_touch") /\ Works(ok)
  /\ IF ok
     THEN /\ client' = [client EXCEPT ![c] = IF @.here THEN [@ EXCEPT !.used = clock] ELSE @]
          /\ To(r, IF c = Holding THEN "begin_flow" ELSE "bind")
     ELSE Done(r) /\ UNCHANGED client
  /\ UNCHANGED <<clock, flow, holding, binding, oidc, outside, history>>

(* start_flow at Nextcloud, then create_flow, which first purges what ran out *)
CreateFlow(r, ok) ==
  LET f == job[r].flow
      out == {g \in Flow : Open(g) /\ flow[g].until <= clock}
  IN
  /\ At(r, "begin_flow") /\ Works(ok)
  /\ nextcloud' = [nextcloud EXCEPT ![f] = "waiting"]
  /\ Done(r)
  /\ IF ok /\ client[Holding].here
     THEN /\ flow' = [g \in Flow |-> CASE g = f -> [state |-> "open", until |-> clock + FLOW_TTL]
                                       [] g \in out -> [state |-> "gone", until |-> 0]
                                       [] OTHER -> flow[g]]
          /\ tx' = [x \in Tx |-> IF tx[x].state = "open" /\ tx[x].flow \in out THEN NoTx ELSE tx[x]]
          /\ proof' = [g \in Flow |-> IF g \in out THEN NoProof ELSE proof[g]]
     ELSE UNCHANGED <<flow, tx, proof>>
  /\ UNCHANGED <<clock, client, holding, binding, mine, cookie, password, history>>

-----------------------------------------------------------------------------
(* GET /exchange with a flow: _resume, complete_enrollment, _confirm *)

Resume(r, b, f) ==
  /\ Begin(r, "resume", IF Held(f) THEN "identify" ELSE "load", [NoJob EXCEPT !.flow = f, !.browser = b])
  /\ Held(f) \/ Open(f)
  /\ UNCHANGED <<clock, rows, oidc, outside, history>>

LoadFlow(r) ==
  LET f == job[r].flow IN
  /\ At(r, "load")
  /\ CASE ~Open(f) -> Done(r)
       [] Running(f) -> To(r, "poll")
       [] OTHER -> To(r, "forget")
  /\ UNCHANGED <<clock, rows, oidc, outside, history>>

(* poll_once: Nextcloud answers a finished sign-in once, and the answer may be lost *)
Poll(r, answered) ==
  LET f == job[r].flow IN
  /\ At(r, "poll") /\ (answered \/ "lost" \in Faults)
  /\ IF nextcloud[f] = "granted"
     THEN /\ nextcloud' = [nextcloud EXCEPT ![f] = "collected"]
          /\ IF answered THEN To(r, "vet") /\ UNCHANGED unseen
                         ELSE Done(r) /\ unseen' = unseen \cup {f}
     ELSE Done(r) /\ UNCHANGED <<nextcloud, unseen>>
  /\ UNCHANGED <<clock, rows, oidc, password, misused>>

(* the account is read and its access is not switched off; any doubt refuses *)
Vet(r, yes) ==
  /\ At(r, "vet")
  /\ To(r, IF yes THEN "hold" ELSE "return")
  /\ UNCHANGED <<clock, rows, oidc, outside, history>>

Hold(r, ok) ==
  LET f == job[r].flow IN
  /\ At(r, "hold") /\ Works(ok)
  /\ IF ok /\ client[Holding].here /\ holding[f].state = "none"
     THEN holding' = [holding EXCEPT ![f] = [state |-> "held", since |-> clock]] /\ To(r, "identify")
     ELSE UNCHANGED holding /\ To(r, "return")
  /\ UNCHANGED <<clock, client, flow, binding, oidc, outside, history>>

Return(r, answered) ==
  /\ At(r, "return") /\ HandBack(job[r].flow, answered) /\ To(r, "forget")
  /\ UNCHANGED <<clock, rows, oidc>>

(* _forget_flow: the failure is logged *)
ForgetFlow(r, ok) ==
  /\ At(r, "forget") /\ Works(ok) /\ Done(r)
  /\ IF ok THEN WithoutFlows({job[r].flow}) ELSE UNCHANGED <<flow, tx, proof>>
  /\ UNCHANGED <<clock, client, holding, binding, mine, cookie, outside, history>>

(* redeem_browser_proof, and the account it must name *)
(* ... with a proof that is read and left in place *)
SpendNothing(f) == UNCHANGED proof
SpendProof(f) == proof' = [proof EXCEPT ![f] = NoProof]

SamePrincipalLoose(p, a) == p # None
SamePrincipal(p, a) == p # None /\ p = a

ProofOf(b, f) == cookie[b] # None /\ proof[f].via = cookie[b] /\ proof[f].until > clock

Identify(r) ==
  LET f == job[r].flow
      b == job[r].browser
  IN
  /\ At(r, "identify")
  /\ IF ProofOf(b, f)
     THEN /\ SpendProof(f)
          /\ IF SamePrincipal(proof[f].principal, AccountOf[f])
             THEN Goto(r, "settle") /\ Set(r, [job[r] EXCEPT !.via = cookie[b]])
             ELSE Done(r)
     ELSE UNCHANGED proof /\ Done(r)
  /\ UNCHANGED <<clock, rows, tx, mine, cookie, outside, history>>

-----------------------------------------------------------------------------
(* The independent sign-in: create_oidc_transaction and the callback *)

StartSignIn(b, f, x) ==
  LET left == [y \in Tx |-> IF tx[y].state = "open" /\ tx[y].until <= clock THEN NoTx ELSE tx[y]] IN
  /\ tx[x].state = "none"
  /\ Running(f) /\ Held(f)
  /\ Cardinality({y \in mine[b] : left[y].state = "open"}) < PER_BROWSER
  /\ tx' = [left EXCEPT ![x] = [state |-> "open", flow |-> f,
                                until |-> IF flow[f].until < clock + OIDC_TTL THEN flow[f].until
                                          ELSE clock + OIDC_TTL]]
  /\ mine' = [mine EXCEPT ![b] = @ \cup {x}]
  /\ UNCHANGED <<clock, rows, proof, cookie, outside, history, pc, job>>

(* redeem_oidc_transaction: the row goes whatever follows *)
(* ... or only when the browser is the right one *)
SpentIfMine(x, b) == x \in mine[b]
SpentAlways(x, b) == TRUE

Callback(r, b, x) ==
  LET good == x \in mine[b] /\ tx[x].until > clock IN
  /\ "resume" \in Offered /\ At(r, "idle") /\ tx[x].state = "open"
  /\ tx' = IF SpentAlways(x, b) THEN [tx EXCEPT ![x] = NoTx] ELSE tx
  /\ misused' = IF x \in mine[b] THEN misused ELSE misused \cup {x}
  /\ IF good THEN Goto(r, "exchange")
                  /\ Set(r, [NoJob EXCEPT !.flow = tx[x].flow, !.browser = b, !.via = x])
             ELSE UNCHANGED <<pc, job>>
  /\ UNCHANGED <<clock, rows, proof, mine, cookie, outside, unseen>>

(* the code exchange, and the account the holding row expects *)
Exchange(r, yes) ==
  LET f == job[r].flow IN
  /\ At(r, "exchange")
  /\ IF yes /\ Held(f) /\ SamePrincipal(SignsInAs[job[r].browser], AccountOf[f])
     THEN To(r, "prove") ELSE Done(r)
  /\ UNCHANGED <<clock, rows, oidc, outside, history>>

(* create_browser_proof: the earlier proof of the flow stops working *)
Prove(r) ==
  LET f == job[r].flow
      b == job[r].browser
  IN
  /\ At(r, "prove") /\ Done(r)
  /\ IF Running(f)
     THEN /\ proof' = [proof EXCEPT ![f] =
                 [via |-> job[r].via, principal |-> SignsInAs[b],
                  until |-> IF flow[f].until < clock + OIDC_TTL THEN flow[f].until ELSE clock + OIDC_TTL]]
          /\ cookie' = [cookie EXCEPT ![b] = job[r].via]
          /\ mine' = [mine EXCEPT ![b] = {}]
     ELSE proof' = [proof EXCEPT ![f] = NoProof] /\ UNCHANGED <<cookie, mine>>
  /\ UNCHANGED <<clock, rows, tx, outside, history>>

-----------------------------------------------------------------------------
(* settle_enrollment *)

(* what cannot be read settles nothing, and the holding row stays as it is *)
ReadHolding(r) ==
  /\ At(r, "settle")
  /\ \/ Held(job[r].flow) /\ To(r, "existing")
     \/ (Held(job[r].flow) => Unreadable) /\ Done(r)
  /\ UNCHANGED <<clock, rows, oidc, outside, history>>

LivingBindings(a) == {b \in Binding : Living(b) /\ AccountOf[binding[b].flow] = a}

ReadExisting(r) ==
  /\ At(r, "existing")
  /\ \/ To(r, IF LivingBindings(AccountOf[job[r].flow]) # {} THEN "twin" ELSE "bind_save")
     \/ Unreadable /\ Done(r)
  /\ UNCHANGED <<clock, rows, oidc, outside, history>>

(* the account is bound already: this sign-in's password goes back *)
ReturnTwin(r, answered) ==
  /\ At(r, "twin") /\ HandBack(job[r].flow, answered) /\ To(r, "drop")
  /\ UNCHANGED <<clock, rows, oidc>>

(* ... and a failed write that gives the holding row up as well *)
BindElseDrop(r) == To(r, "drop")
BindElseStop(r) == Done(r)

Bind(r, b, ok) ==
  /\ At(r, "bind") /\ Works(ok) /\ binding[b].state = "none"
  /\ IF ok /\ client[Bound].here
     THEN /\ binding' = [binding EXCEPT ![b] = [state |-> "here", revoked |-> FALSE,
                                                flow |-> job[r].flow, browser |-> job[r].browser, via |-> job[r].via]]
          /\ To(r, "drop")
     ELSE UNCHANGED binding /\ BindElseStop(r)
  /\ UNCHANGED <<clock, client, flow, holding, oidc, outside, history>>

(* _drop_enrollment: the holding row is deleted and never revoked; the failure is logged *)
DropHolding(r, ok) ==
  /\ At(r, "drop") /\ Works(ok) /\ To(r, "forget")
  /\ IF ok THEN WithoutRows({job[r].flow}) ELSE UNCHANGED <<holding, binding>>
  /\ UNCHANGED <<clock, client, flow, oidc, outside, history>>

-----------------------------------------------------------------------------
(* How a binding ends: the owner withdraws it, or a sweep takes it *)

(* _revoke and end_connection: the row is marked before Nextcloud is asked *)
Withdraw(r, b) ==
  /\ Living(b)
  /\ Begin(r, "revoke", "end_call", [NoJob EXCEPT !.binding = b, !.flow = binding[b].flow])
  /\ binding' = [binding EXCEPT ![b].revoked = TRUE]
  /\ UNCHANGED <<clock, client, flow, holding, oidc, outside, history>>

EndCall(r, answered) ==
  /\ At(r, "end_call") /\ Done(r)
  /\ IF Standing(job[r].binding)
     THEN answered \/ "lost" \in Faults \/ Unreadable ELSE answered
  /\ password' = [password EXCEPT ![job[r].flow] = IF answered /\ Standing(job[r].binding)
                                                   THEN "returned" ELSE @]
  /\ UNCHANGED <<clock, rows, oidc, nextcloud, history>>

(* sweep_abandoned: bindings own no token, so their client is excepted *)
ExceptedNobody == {}
Excepted == Binding
AbandonedRows ==
  {f \in Flow : Held(f) /\ holding[f].since < clock - FLOW_TTL /\ ~Open(f)}
    \cup {b \in Binding \ Excepted : Living(b)}

StartSweep(r) ==
  /\ Begin(r, "sweep", "sweep_rows", [NoJob EXCEPT !.rows = AbandonedRows])
  /\ UNCHANGED <<clock, rows, oidc, outside, history>>

(* one row of a list: its password goes back if it can be read, and the row *)
(* goes either way                                                          *)
SweepRow(r, x, answered) ==
  LET there == IF x \in Flow THEN Held(x) ELSE Standing(x) IN
  /\ At(r, "sweep_rows") /\ x \in job[r].rows
  /\ Goto(r, "sweep_drop") /\ Set(r, [job[r] EXCEPT !.rows = @ \ {x}, !.one = x])
  /\ IF there THEN HandBack(FlowOf(x), answered) \/ Unread(FlowOf(x))
     ELSE answered /\ UNCHANGED <<outside, history>>
  /\ UNCHANGED <<clock, rows, oidc>>

SweepDrop(r) ==
  /\ At(r, "sweep_drop") /\ Goto(r, "sweep_rows") /\ Set(r, [job[r] EXCEPT !.one = None])
  /\ WithoutRows({job[r].one})
  /\ UNCHANGED <<clock, client, flow, oidc, outside, history>>

(* expired_clients: neither reserved row is exempt *)
Expired(c) ==
  /\ client[c].here
  /\ IF client[c].used = Never THEN client[c].registered < clock - UNUSED_CLIENT_TTL
     ELSE client[c].used < clock - IDLE_CLIENT_TTL

SweepClients(r) ==
  /\ At(r, "sweep_rows") /\ job[r].rows = {} /\ job[r].client = None
  /\ Goto(r, "sweep_clients") /\ Set(r, [job[r] EXCEPT !.clients = {c \in Reserved : Expired(c)}])
  /\ UNCHANGED <<clock, rows, oidc, outside, history>>

RowsOf(c) == IF c = Holding THEN {f \in Flow : Held(f)} ELSE {b \in Binding : Standing(b)}

(* authorizations_of_client; of a list that cannot be read no row is seen *)
ExpireClient(r, c) ==
  /\ At(r, "sweep_clients") /\ c \in job[r].clients
  /\ Goto(r, "sweep_rows")
  /\ \E S \in {RowsOf(c), {}} :
       /\ S = RowsOf(c) \/ Unreadable
       /\ Set(r, [job[r] EXCEPT !.clients = @ \ {c}, !.client = c, !.rows = S])
  /\ UNCHANGED <<clock, rows, oidc, outside, history>>

(* delete_client: the cascade takes what was written since the list was read *)
DeleteClient(r) ==
  LET c == job[r].client IN
  /\ At(r, "sweep_rows") /\ job[r].rows = {} /\ c # None
  /\ client' = [client EXCEPT ![c] = NoClient]
  /\ unseen' = unseen \cup {FlowOf(x) : x \in RowsOf(c)}
  /\ WithoutRows(RowsOf(c))
  /\ IF c = Holding THEN WithoutFlows(Flow) ELSE UNCHANGED <<flow, tx, proof>>
  /\ Goto(r, "sweep_clients") /\ Set(r, [job[r] EXCEPT !.client = None])
  /\ UNCHANGED <<clock, mine, cookie, outside, misused>>

SweepEnds(r) ==
  /\ At(r, "sweep_clients") /\ job[r].clients = {} /\ Done(r)
  /\ UNCHANGED <<clock, rows, oidc, outside, history>>

-----------------------------------------------------------------------------
Start(r) ==
  \/ \E f \in Flow : BeginEnrollment(r, f)
  \/ \E b \in Browser : \/ \E f \in Flow : Resume(r, b, f)
                        \/ \E x \in Tx : Callback(r, b, x)
  \/ \E b \in Binding : Withdraw(r, b)
  \/ StartSweep(r)

Advance(r) ==
  \/ LoadFlow(r) \/ Identify(r) \/ Prove(r) \/ ReadHolding(r) \/ ReadExisting(r)
  \/ SweepDrop(r) \/ SweepClients(r) \/ SweepEnds(r) \/ DeleteClient(r)
  \/ \E c \in Reserved : ExpireClient(r, c)
  \/ \E yes \in BOOLEAN :
       \/ CreateFlow(r, yes) \/ Poll(r, yes) \/ Vet(r, yes) \/ Hold(r, yes) \/ Return(r, yes)
       \/ ForgetFlow(r, yes) \/ Exchange(r, yes) \/ ReturnTwin(r, yes) \/ DropHolding(r, yes)
       \/ EndCall(r, yes)
       \/ \E c \in Reserved : SaveClient(r, c, yes) \/ TouchClient(r, c, yes)
       \/ \E b \in Binding : Bind(r, b, yes)
       \/ \E x \in Row : SweepRow(r, x, yes)

Next ==
  \/ Tick
  \/ \E f \in Flow : GrantAccess(f)
  \/ \E b \in Browser, f \in Flow, x \in Tx : StartSignIn(b, f, x)
  \/ \E r \in Request : Start(r) \/ Advance(r) \/ Crash(r)

Spec == Init /\ [][Next]_vars

-----------------------------------------------------------------------------
(* Properties *)

(* An app password that works at Nextcloud has a record that somebody can   *)
(* give it back by: it waits to be collected, a request holds it, or the    *)
(* holding row or a binding does.  The exceptions are named one by one: a   *)
(* call to Nextcloud that failed, a stored password a sweep could not read  *)
(* back, a process that died with it in its hands, and a row delete_client  *)
(* took along unseen, because it was written behind the list or the list    *)
(* could not be read.                                                       *)
InHand(r, f) == job[r].flow = f /\ pc[r] \in {"vet", "hold", "return"}

Accounted ==
  \A f \in Flow : password[f] = "valid" =>
    \/ f \in unseen \/ nextcloud[f] = "granted" \/ Held(f)
    \/ \E b \in Binding : Standing(b) /\ binding[b].flow = f
    \/ \E r \in Request : InHand(r, f)

(* Whoever signs in at Nextcloud does not decide who is bound: a binding    *)
(* was confirmed in a browser whose user has that account at the identity   *)
(* provider (_callback and identifies both compare the principal).          *)
BoundByItsOwner ==
  \A b \in Binding : binding[b].state # "none" =>
    SignsInAs[binding[b].browser] = AccountOf[binding[b].flow]

(* One independent sign-in confirms one binding, and a transaction that was *)
(* presented in another browser confirms none afterwards, whatever arrives  *)
(* twice (redeem_oidc_transaction, redeem_browser_proof).                   *)
OneSignInOneBinding ==
  \A b, c \in Binding : binding[b].state # "none" =>
    /\ binding[b].via \notin misused
    /\ binding[c].via = binding[b].via => b = c

(* A living binding goes only when its reserved client runs out; a password *)
(* goes back under it only then, or while its own sign-in is not finished:  *)
(* the holding row still stands, or a second settlement of it is under way. *)
ReturningItsOwn(f) ==
  \E r \in Request : job[r].flow = f /\ pc[r] \in {"twin", "end_call"}

EndsNoLivingBinding ==
  \A b \in Binding : Living(b) =>
    LET f == binding[b].flow
        expiring == \E r \in Request : job[r].client = Bound
    IN /\ (~Standing(b))' => expiring
       /\ password'[f] # password[f] => expiring \/ Held(f) \/ ReturningItsOwn(f)
KeptUntilEnded == [][EndsNoLivingBinding]_vars

(* What the documentation says of bindings.                                 *)

(* "the writing side excludes a second living binding per account and client" *)
OneLivingBinding == \A a \in {AccountOf[f] : f \in Flow} : Cardinality(LivingBindings(a)) <= 1

(* "only the user's own revocation and the purge ever hand its password back" *)
OnlyItsOwnerEnds == \A b \in Binding : binding[b].state = "gone" => binding[b].revoked
=============================================================================
