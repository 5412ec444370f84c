---------------------------- MODULE EnrollmentProofs ----------------------------
(***************************************************************************)
(* For every set of enrollments, browsers, transactions and requests, any  *)
(* lifetimes and every fault: the rows of an enrollment keep their types   *)
(* and their foreign keys, its app password is never left without a        *)
(* record, only the owner of an account binds it, one sign-in binds once,  *)
(* and no step ends a living binding but those that may.                   *)
(***************************************************************************)
EXTENDS Enrollment, TLAPS

(* Where a request stands *)
Opening == {"begin_save", "begin_touch", "begin_flow"}
Collecting == {"vet", "hold", "return"}             \* the password is in its hands
Confirming == {"exchange", "prove"}                 \* the sign-in at the provider
Settling == {"settle", "existing", "twin", "bind_save", "bind_touch", "bind"}
Settled == {"existing", "twin", "bind_save", "bind_touch", "bind", "drop"}
Sweeping == {"sweep_rows", "sweep_drop", "sweep_clients"}

-----------------------------------------------------------------------------
(* Types, and what a step needs of its locals *)

Principal == {SignsInAs[b] : b \in Browser} \cup {None}
ClientRow == [here: BOOLEAN, registered: 0..MaxClock, used: 0..MaxClock \cup {Never}]
FlowRow == [state: {"none", "open", "gone"}, until: Nat]
HoldingRow == [state: {"none", "held", "gone"}, since: 0..MaxClock]
BindingRow == [state: {"none", "here", "gone"}, revoked: BOOLEAN, flow: Flow \cup {None},
               browser: Browser \cup {None}, via: Tx \cup {None}]
TxRow == [state: {"none", "open", "gone"}, flow: Flow \cup {None}, until: Nat]
ProofRow == [via: Tx \cup {None}, principal: Principal, until: Nat]
Job == [flow: Flow \cup {None}, browser: Browser \cup {None}, via: Tx \cup {None},
        binding: Binding \cup {None}, rows: SUBSET Row, one: Row \cup {None},
        clients: SUBSET Reserved, client: Reserved \cup {None}]

JobBound(s, j) ==
  /\ s \notin {"idle"} \cup Sweeping => j.flow \in Flow
  /\ s \in {"load", "poll", "vet", "hold", "identify"} \cup Confirming \cup Settling =>
       j.browser \in Browser
  /\ s \in Confirming \cup Settling => j.via \in Tx
  /\ s = "end_call" => j.binding \in Binding
  /\ s = "sweep_drop" => j.one \in Row

RowsInv ==
  /\ clock \in 0..MaxClock
  /\ client \in [Reserved -> ClientRow]
  /\ flow \in [Flow -> FlowRow]
  /\ holding \in [Flow -> HoldingRow]
  /\ binding \in [Binding -> BindingRow]
  /\ \A b \in Binding : binding[b].state # "none" =>
       binding[b].flow \in Flow /\ binding[b].browser \in Browser /\ binding[b].via \in Tx

OidcInv ==
  /\ tx \in [Tx -> TxRow]
  /\ proof \in [Flow -> ProofRow]
  /\ mine \in [Browser -> SUBSET Tx]
  /\ cookie \in [Browser -> Tx \cup {None}]
  /\ misused \subseteq Tx

OutsideInv ==
  /\ nextcloud \in [Flow -> {"none", "waiting", "granted", "collected"}]
  /\ password \in [Flow -> {"none", "valid", "returned"}]
  /\ unseen \subseteq Flow

JobsInv ==
  /\ pc \in [Request -> Step]
  /\ job \in [Request -> Job]
  /\ \A r \in Request : JobBound(pc[r], job[r])

(* No row stands without the row it refers to *)
Referenced ==
  /\ \A f \in Flow : /\ Open(f) \/ Held(f) => client[Holding].here
                     /\ proof[f] # NoProof => Open(f)
  /\ \A b \in Binding : Standing(b) => client[Bound].here
  /\ \A x \in Tx : tx[x].state = "open" => tx[x].flow \in Flow /\ Open(tx[x].flow)

There(x) == IF x \in Flow THEN Held(x) ELSE Standing(x)

TypeInv == RowsInv /\ OidcInv /\ OutsideInv /\ JobsInv /\ Referenced

(* How a request moves: it ends, goes on with its locals, or sets them       *)
Moves(r) ==
  \/ Done(r)
  \/ \E s \in Step : To(r, s) /\ JobBound(s, job[r])
  \/ \E s \in Step : \E j \in Job : Goto(r, s) /\ Set(r, j) /\ JobBound(s, j)

(* No locals are needed between requests                                     *)
LEMMA NoLocals == NoJob \in Job /\ JobBound("idle", NoJob)
BY DEF NoJob, Job, JobBound, Confirming, Settling

(* A request that moves so keeps its locals bound                            *)
LEMMA MovesKeepJobs ==
  ASSUME JobsInv, NEW r \in Request, Moves(r)
  PROVE  /\ JobsInv'
         /\ \A q \in Request : q # r => pc'[q] = pc[q] /\ job'[q] = job[q]
<1> USE DEF JobsInv, Goto, Set
<1>1. CASE Done(r)
  BY <1>1, NoLocals DEF Done, Step
<1>2. CASE \E s \in Step : To(r, s) /\ JobBound(s, job[r])
  BY <1>2 DEF To
<1>3. CASE \E s \in Step : \E j \in Job : Goto(r, s) /\ Set(r, j) /\ JobBound(s, j)
  BY <1>3
<1> QED BY <1>1, <1>2, <1>3 DEF Moves

(* Every step of a request moves it so, or leaves it where it stands         *)
LEMMA StartsMove ==
  ASSUME EnrollmentAssumption, TypeInv, NEW r \in Request, Start(r) \/ Crash(r)
  PROVE  Moves(r) \/ UNCHANGED <<pc, job>>
<1> USE DEF TypeInv, Begin, Step, Confirming, Settling, Sweeping, JobBound
<1>1. ASSUME NEW f \in Flow, BeginEnrollment(r, f) PROVE Moves(r)
  <2>1. [NoJob EXCEPT !.flow = f] \in Job /\ [NoJob EXCEPT !.flow = f].flow = f
    BY DEF NoJob, Job
  <2> QED BY <1>1, <2>1 DEF BeginEnrollment, Moves
<1>2. ASSUME NEW b \in Browser, NEW f \in Flow, Resume(r, b, f) PROVE Moves(r)
  <2> DEFINE j == [NoJob EXCEPT !.flow = f, !.browser = b]
  <2>1. j \in Job /\ j.flow = f /\ j.browser = b
    BY DEF NoJob, Job
  <2>2. \E s \in {"identify", "load"} : Goto(r, s) /\ Set(r, j)
    BY <1>2 DEF Resume
  <2> HIDE DEF j
  <2> QED BY <2>1, <2>2 DEF Moves
<1>3. ASSUME NEW b \in Browser, NEW x \in Tx, Callback(r, b, x)
      PROVE  Moves(r) \/ UNCHANGED <<pc, job>>
  <2> DEFINE j == [NoJob EXCEPT !.flow = tx[x].flow, !.browser = b, !.via = x]
  <2>1. tx[x].flow \in Flow
    BY <1>3 DEF Callback, Referenced
  <2>2. j \in Job /\ j.flow = tx[x].flow /\ j.browser = b /\ j.via = x
    BY <2>1 DEF NoJob, Job
  <2>3. (Goto(r, "exchange") /\ Set(r, j)) \/ UNCHANGED <<pc, job>>
    BY <1>3 DEF Callback
  <2> HIDE DEF j
  <2> QED BY <2>1, <2>2, <2>3 DEF Moves
<1>4. ASSUME NEW b \in Binding, Withdraw(r, b) PROVE Moves(r)
  <2> DEFINE j == [NoJob EXCEPT !.binding = b, !.flow = binding[b].flow]
  <2>1. binding[b].flow \in Flow
    BY <1>4 DEF Withdraw, Living, Standing, RowsInv
  <2>2. j \in Job /\ j.flow = binding[b].flow /\ j.binding = b
    BY <2>1 DEF NoJob, Job
  <2>3. Goto(r, "end_call") /\ Set(r, j)
    BY <1>4 DEF Withdraw
  <2> HIDE DEF j
  <2> QED BY <2>1, <2>2, <2>3 DEF Moves
<1>5. ASSUME StartSweep(r) PROVE Moves(r)
  <2>1. AbandonedRows \subseteq Row
    BY DEF AbandonedRows, Row
  <2>2. [NoJob EXCEPT !.rows = AbandonedRows] \in Job
    BY <2>1 DEF NoJob, Job
  <2> QED BY <1>5, <2>2 DEF StartSweep, Moves
<1>6. CASE Crash(r)
  BY <1>6 DEF Crash, Moves
<1> QED BY <1>1, <1>2, <1>3, <1>4, <1>5, <1>6 DEF Start

LEMMA AdvancesMove ==
  ASSUME EnrollmentAssumption, TypeInv, NEW r \in Request, Advance(r)
  PROVE  Moves(r)
<1> USE DEF TypeInv, JobsInv
<1>1. JobBound(pc[r], job[r]) /\ job[r] \in Job /\ pc[r] \in Step
  OBVIOUS
<1> USE DEF Step, Confirming, Settling, Sweeping, JobBound, At
<1>2. CASE LoadFlow(r) \/ Prove(r) \/ ReadHolding(r) \/ ReadExisting(r) \/ SweepEnds(r)
  BY <1>1, <1>2 DEF LoadFlow, Prove, ReadHolding, ReadExisting, SweepEnds, Moves
<1>3. CASE Identify(r)
  <2> DEFINE j == [job[r] EXCEPT !.via = cookie[job[r].browser]]
  <2>1. job[r].flow \in Flow /\ job[r].browser \in Browser /\ cookie[job[r].browser] \in Tx \cup {None}
    BY <1>1, <1>3 DEF Identify, OidcInv
  <2>2. j \in Job /\ j.flow = job[r].flow /\ j.browser = job[r].browser
            /\ j.via = cookie[job[r].browser]
    BY <1>1, <2>1 DEF Job
  <2>3. \/ Done(r)
        \/ Goto(r, "settle") /\ Set(r, j) /\ cookie[job[r].browser] # None
    BY <1>3 DEF Identify, ProofOf
  <2> HIDE DEF j
  <2> QED BY <2>1, <2>2, <2>3 DEF Moves
<1>4. CASE SweepDrop(r)
  <2>1. [job[r] EXCEPT !.one = None] \in Job
    BY <1>1 DEF Job
  <2> QED BY <1>4, <2>1 DEF SweepDrop, Moves
<1>5. CASE SweepClients(r)
  <2>1. [job[r] EXCEPT !.clients = {c \in Reserved : Expired(c)}] \in Job
    BY <1>1 DEF Job
  <2> QED BY <1>5, <2>1 DEF SweepClients, Moves
<1>6. CASE DeleteClient(r)
  <2>1. [job[r] EXCEPT !.client = None] \in Job
    BY <1>1 DEF Job
  <2> QED BY <1>6, <2>1 DEF DeleteClient, Moves
<1>7. ASSUME NEW c \in Reserved, ExpireClient(r, c) PROVE Moves(r)
  <2>1. RowsOf(c) \subseteq Row
    BY DEF RowsOf, Row
  <2> DEFINE j(S) == [job[r] EXCEPT !.clients = @ \ {c}, !.client = c, !.rows = S]
  <2>2. \A S \in SUBSET Row : j(S) \in Job
    BY <1>1, <2>1 DEF Job
  <2>3. Goto(r, "sweep_rows") /\ \E S \in SUBSET Row : Set(r, j(S))
    BY <1>7, <2>1 DEF ExpireClient
  <2> HIDE DEF j
  <2> QED BY <2>2, <2>3 DEF Moves
<1>8. ASSUME NEW yes \in BOOLEAN,
             \/ CreateFlow(r, yes) \/ Poll(r, yes) \/ Vet(r, yes) \/ Hold(r, yes) \/ Return(r, yes)
             \/ ForgetFlow(r, yes) \/ Exchange(r, yes) \/ ReturnTwin(r, yes)
             \/ DropHolding(r, yes) \/ EndCall(r, yes)
      PROVE  Moves(r)
  <2>1. CASE CreateFlow(r, yes) \/ ForgetFlow(r, yes) \/ EndCall(r, yes)
    BY <1>1, <2>1 DEF CreateFlow, ForgetFlow, EndCall, Moves
  <2>2. CASE Poll(r, yes) \/ Vet(r, yes)
    BY <1>1, <2>2 DEF Poll, Vet, Moves
  <2>3. CASE Hold(r, yes)
    BY <1>1, <2>3 DEF Hold, Moves
  <2>4. CASE Return(r, yes) \/ ReturnTwin(r, yes)
    BY <1>1, <2>4 DEF Return, ReturnTwin, Moves
  <2>5. CASE Exchange(r, yes) \/ DropHolding(r, yes)
    BY <1>1, <2>5 DEF Exchange, DropHolding, Moves
  <2> QED BY <1>8, <2>1, <2>2, <2>3, <2>4, <2>5
<1>9. ASSUME NEW yes \in BOOLEAN, NEW c \in Reserved, SaveClient(r, c, yes) \/ TouchClient(r, c, yes)
      PROVE  Moves(r)
  BY <1>1, <1>9 DEF SaveClient, TouchClient, Moves
<1>10. ASSUME NEW yes \in BOOLEAN, NEW b \in Binding, Bind(r, b, yes) PROVE Moves(r)
  BY <1>1, <1>10 DEF Bind, BindElseStop, Moves
<1>11. ASSUME NEW yes \in BOOLEAN, NEW x \in Row, SweepRow(r, x, yes) PROVE Moves(r)
  <2> DEFINE j == [job[r] EXCEPT !.rows = @ \ {x}, !.one = x]
  <2>1. j \in Job /\ j.one = x
    BY <1>1 DEF Job
  <2>2. Goto(r, "sweep_drop") /\ Set(r, j)
    BY <1>11 DEF SweepRow
  <2> HIDE DEF j
  <2> QED BY <2>1, <2>2 DEF Moves
<1> QED BY <1>2, <1>3, <1>4, <1>5, <1>6, <1>7, <1>8, <1>9, <1>10, <1>11 DEF Advance

(* What the two deletions leave                                              *)
LEMMA DeletedRows ==
  ASSUME EnrollmentAssumption, RowsInv, NEW S, WithoutRows(S)
  PROVE  /\ holding' \in [Flow -> HoldingRow] /\ binding' \in [Binding -> BindingRow]
         /\ \A f \in Flow :
              IF f \in S /\ Held(f) THEN holding'[f].state = "gone" ELSE holding'[f] = holding[f]
         /\ \A b \in Binding :
              IF b \in S /\ Standing(b)
              THEN /\ binding'[b].state = "gone" /\ binding'[b].flow = binding[b].flow
                   /\ binding'[b].browser = binding[b].browser /\ binding'[b].via = binding[b].via
              ELSE binding'[b] = binding[b]
<1> USE DEF RowsInv, WithoutRows
<1>1. 0 \in 0..MaxClock
  BY DEF EnrollmentAssumption
<1>2. holding' \in [Flow -> HoldingRow]
  BY <1>1 DEF HoldingRow
<1>3. ASSUME NEW b \in Binding
      PROVE  /\ [binding[b] EXCEPT !.state = "gone"] \in BindingRow
             /\ [binding[b] EXCEPT !.state = "gone"].state = "gone"
             /\ [binding[b] EXCEPT !.state = "gone"].flow = binding[b].flow
             /\ [binding[b] EXCEPT !.state = "gone"].browser = binding[b].browser
             /\ [binding[b] EXCEPT !.state = "gone"].via = binding[b].via
  BY DEF BindingRow
<1>4. binding' \in [Binding -> BindingRow]
  BY <1>3
<1> QED BY <1>2, <1>3, <1>4

LEMMA DeletedRowsKeepTypes ==
  ASSUME EnrollmentAssumption, RowsInv, (\E S : WithoutRows(S)) \/ UNCHANGED <<holding, binding>>
  PROVE  /\ holding' \in [Flow -> HoldingRow] /\ binding' \in [Binding -> BindingRow]
         /\ \A b \in Binding : binding'[b].state # "none" =>
              binding'[b].flow \in Flow /\ binding'[b].browser \in Browser /\ binding'[b].via \in Tx
<1>1. ASSUME NEW S, WithoutRows(S)
      PROVE  /\ holding' \in [Flow -> HoldingRow] /\ binding' \in [Binding -> BindingRow]
             /\ \A b \in Binding : binding'[b].state # "none" =>
                  /\ binding'[b].flow \in Flow /\ binding'[b].browser \in Browser
                  /\ binding'[b].via \in Tx
  BY <1>1, DeletedRows DEF RowsInv, Standing
<1>2. CASE UNCHANGED <<holding, binding>>
  BY <1>2 DEF RowsInv
<1> QED BY <1>1, <1>2

LEMMA DeletedFlows ==
  ASSUME RowsInv, OidcInv, NEW S, WithoutFlows(S)
  PROVE  /\ flow' \in [Flow -> FlowRow] /\ tx' \in [Tx -> TxRow] /\ proof' \in [Flow -> ProofRow]
         /\ \A f \in Flow :
              /\ IF f \in S /\ Open(f) THEN flow'[f].state = "gone" ELSE flow'[f] = flow[f]
              /\ proof'[f] = IF f \in S THEN NoProof ELSE proof[f]
         /\ \A x \in Tx : IF tx[x].state = "open" /\ tx[x].flow \in S
                          THEN tx'[x].state = "gone" ELSE tx'[x] = tx[x]
<1> USE DEF RowsInv, OidcInv, WithoutFlows
<1>1. flow' \in [Flow -> FlowRow]
  BY DEF FlowRow
<1>2. NoTx \in TxRow /\ NoTx.state = "gone" /\ NoProof \in ProofRow
  BY DEF NoTx, TxRow, NoProof, ProofRow, Principal
<1> QED BY <1>1, <1>2

(* The rows keep their types                                                 *)
LEMMA RowsStep ==
  ASSUME EnrollmentAssumption, TypeInv, [Next]_vars
  PROVE  RowsInv'
<1> USE DEF TypeInv
<1>0. /\ clock \in 0..MaxClock /\ MaxClock \in Nat /\ FLOW_TTL \in Nat
      /\ client \in [Reserved -> ClientRow] /\ flow \in [Flow -> FlowRow]
      /\ holding \in [Flow -> HoldingRow] /\ binding \in [Binding -> BindingRow]
  BY DEF RowsInv, EnrollmentAssumption
<1>1. CASE UNCHANGED <<clock, rows>>
  BY <1>1 DEF RowsInv, rows
<1>2. CASE Tick
  BY <1>0, <1>2 DEF Tick, rows, RowsInv
<1>3. ASSUME NEW r \in Request, Start(r) PROVE RowsInv'
  <2>1. ASSUME NEW b \in Binding, Withdraw(r, b) PROVE RowsInv'
    <3>1. /\ [binding[b] EXCEPT !.revoked = TRUE] \in BindingRow
          /\ [binding[b] EXCEPT !.revoked = TRUE].flow = binding[b].flow
          /\ [binding[b] EXCEPT !.revoked = TRUE].browser = binding[b].browser
          /\ [binding[b] EXCEPT !.revoked = TRUE].via = binding[b].via
          /\ [binding[b] EXCEPT !.revoked = TRUE].state = binding[b].state
      BY <1>0 DEF BindingRow
    <3>2. binding' = [binding EXCEPT ![b] = [@ EXCEPT !.revoked = TRUE]]
      BY <2>1 DEF Withdraw
    <3>3. binding' \in [Binding -> BindingRow]
      BY <1>0, <3>1, <3>2
    <3> QED BY <2>1, <3>1, <3>2, <3>3 DEF Withdraw, RowsInv
  <2>2. CASE \E f \in Flow : BeginEnrollment(r, f)
    BY <2>2, <1>1 DEF BeginEnrollment
  <2>3. CASE \E b \in Browser : (\E f \in Flow : Resume(r, b, f)) \/ (\E x \in Tx : Callback(r, b, x))
    BY <2>3, <1>1 DEF Resume, Callback
  <2>4. CASE StartSweep(r)
    BY <2>4, <1>1 DEF StartSweep
  <2> QED BY <1>3, <2>1, <2>2, <2>3, <2>4 DEF Start
<1>4. ASSUME NEW r \in Request, NEW yes \in BOOLEAN, CreateFlow(r, yes) PROVE RowsInv'
  <2>1. clock + FLOW_TTL \in Nat
    BY <1>0
  <2>2. flow' \in [Flow -> FlowRow]
    BY <1>0, <1>4, <2>1 DEF CreateFlow, FlowRow
  <2> QED BY <1>4, <2>2 DEF CreateFlow, RowsInv
<1>5. ASSUME NEW r \in Request, NEW yes \in BOOLEAN, Hold(r, yes) PROVE RowsInv'
  <2>1. holding' \in [Flow -> HoldingRow]
    BY <1>0, <1>5 DEF Hold, HoldingRow
  <2> QED BY <1>5, <2>1 DEF Hold, RowsInv
<1>6. ASSUME NEW r \in Request, NEW yes \in BOOLEAN, NEW b \in Binding, Bind(r, b, yes) PROVE RowsInv'
  <2>1. job[r].flow \in Flow /\ job[r].browser \in Browser /\ job[r].via \in Tx
    BY <1>6 DEF Bind, At, JobsInv, JobBound, Settling, Confirming, Sweeping
  <2> DEFINE row == [state |-> "here", revoked |-> FALSE, flow |-> job[r].flow,
                     browser |-> job[r].browser, via |-> job[r].via]
  <2>2. row \in BindingRow /\ row.flow \in Flow /\ row.browser \in Browser /\ row.via \in Tx
    BY <2>1 DEF BindingRow
  <2>3. binding' = [binding EXCEPT ![b] = row] \/ binding' = binding
    BY <1>6 DEF Bind
  <2> HIDE DEF row
  <2> QED BY <1>0, <1>6, <2>2, <2>3 DEF Bind, RowsInv
<1>7. ASSUME NEW r \in Request, NEW yes \in BOOLEAN, NEW c \in Reserved,
             SaveClient(r, c, yes) \/ TouchClient(r, c, yes)
      PROVE  RowsInv'
  <2>1. /\ [here |-> TRUE, registered |-> clock, used |-> Never] \in ClientRow
        /\ [client[c] EXCEPT !.used = clock] \in ClientRow
    BY <1>0 DEF ClientRow
  <2>2. client' \in [Reserved -> ClientRow]
    BY <1>0, <1>7, <2>1 DEF SaveClient, TouchClient
  <2> QED BY <1>7, <2>2 DEF SaveClient, TouchClient, RowsInv
<1>8. ASSUME NEW r \in Request, SweepDrop(r) \/ \E ok \in BOOLEAN : DropHolding(r, ok) PROVE RowsInv'
  <2>1. UNCHANGED <<clock, client, flow>>
    BY <1>8 DEF SweepDrop, DropHolding
  <2>2. (\E S : WithoutRows(S)) \/ UNCHANGED <<holding, binding>>
    BY <1>8 DEF SweepDrop, DropHolding
  <2> QED BY <2>1, <2>2, DeletedRowsKeepTypes DEF RowsInv
<1>9. ASSUME NEW r \in Request, NEW ok \in BOOLEAN, ForgetFlow(r, ok) PROVE RowsInv'
  <2>1. flow' \in [Flow -> FlowRow]
    BY <1>0, <1>9, DeletedFlows DEF ForgetFlow
  <2> QED BY <1>9, <2>1 DEF ForgetFlow, RowsInv
<1>10. ASSUME NEW r \in Request, DeleteClient(r) PROVE RowsInv'
  <2>1. NoClient \in ClientRow
    BY <1>0 DEF NoClient, ClientRow
  <2>2. client' \in [Reserved -> ClientRow]
    BY <1>0, <1>10, <2>1 DEF DeleteClient
  <2>3. flow' \in [Flow -> FlowRow]
    BY <1>0, <1>10, DeletedFlows DEF DeleteClient
  <2>4. \E S : WithoutRows(S)
    BY <1>10 DEF DeleteClient
  <2>5. UNCHANGED clock
    BY <1>10 DEF DeleteClient
  <2> QED BY <2>2, <2>3, <2>4, <2>5, DeletedRowsKeepTypes DEF RowsInv
<1>11. ASSUME NEW r \in Request, Advance(r) PROVE RowsInv'
  <2>1. CASE LoadFlow(r) \/ Identify(r) \/ Prove(r) \/ ReadHolding(r) \/ ReadExisting(r)
             \/ SweepClients(r) \/ SweepEnds(r)
    BY <2>1, <1>1 DEF LoadFlow, Identify, Prove, ReadHolding, ReadExisting, SweepClients, SweepEnds
  <2>2. CASE \E c \in Reserved : ExpireClient(r, c)
    BY <2>2, <1>1 DEF ExpireClient
  <2>3. CASE \E yes \in BOOLEAN : Poll(r, yes) \/ Vet(r, yes) \/ Return(r, yes) \/ Exchange(r, yes)
                                    \/ ReturnTwin(r, yes) \/ EndCall(r, yes)
    BY <2>3, <1>1 DEF Poll, Vet, Return, Exchange, ReturnTwin, EndCall
  <2>4. CASE \E yes \in BOOLEAN : \E x \in Row : SweepRow(r, x, yes)
    BY <2>4, <1>1 DEF SweepRow
  <2> QED BY <1>4, <1>5, <1>6, <1>7, <1>8, <1>9, <1>10, <1>11, <2>1, <2>2, <2>3, <2>4 DEF Advance
<1>12. CASE \/ \E f \in Flow : GrantAccess(f)
            \/ \E b \in Browser, f \in Flow, x \in Tx : StartSignIn(b, f, x)
            \/ \E r \in Request : Crash(r)
  BY <1>12, <1>1 DEF GrantAccess, StartSignIn, Crash
<1> QED BY <1>1, <1>2, <1>3, <1>11, <1>12 DEF Next, vars

(* So do the transactions and what came of them                              *)
LEMMA OidcStep ==
  ASSUME EnrollmentAssumption, TypeInv, [Next]_vars
  PROVE  OidcInv'
<1> USE DEF TypeInv
<1>0. /\ tx \in [Tx -> TxRow] /\ proof \in [Flow -> ProofRow] /\ mine \in [Browser -> SUBSET Tx]
      /\ cookie \in [Browser -> Tx \cup {None}] /\ misused \subseteq Tx
      /\ clock \in Nat /\ OIDC_TTL \in Nat /\ flow \in [Flow -> FlowRow]
      /\ NoTx \in TxRow /\ NoProof \in ProofRow
  BY DEF OidcInv, RowsInv, EnrollmentAssumption, NoTx, TxRow, NoProof, ProofRow, Principal
<1>1. CASE UNCHANGED <<oidc, misused>>
  BY <1>1 DEF OidcInv, oidc
<1>2. ASSUME NEW f \in Flow
      PROVE  (IF flow[f].until < clock + OIDC_TTL THEN flow[f].until ELSE clock + OIDC_TTL) \in Nat
  BY <1>0 DEF FlowRow
<1>3. ASSUME NEW b \in Browser, NEW f \in Flow, NEW x \in Tx, StartSignIn(b, f, x) PROVE OidcInv'
  <2> DEFINE left == [y \in Tx |-> IF tx[y].state = "open" /\ tx[y].until <= clock THEN NoTx ELSE tx[y]]
             end == IF flow[f].until < clock + OIDC_TTL THEN flow[f].until ELSE clock + OIDC_TTL
             row == [state |-> "open", flow |-> f, until |-> end]
  <2>1. left \in [Tx -> TxRow]
    BY <1>0
  <2>2. row \in TxRow
    BY <1>2 DEF TxRow
  <2>3. tx' = [left EXCEPT ![x] = row]
    BY <1>3 DEF StartSignIn
  <2>4. tx' \in [Tx -> TxRow]
    <3> HIDE DEF left, row
    <3> QED BY <2>1, <2>2, <2>3
  <2>5. mine' \in [Browser -> SUBSET Tx]
    BY <1>0, <1>3 DEF StartSignIn
  <2> QED BY <1>0, <1>3, <2>4, <2>5 DEF StartSignIn, OidcInv, history
<1>4. ASSUME NEW r \in Request, NEW b \in Browser, NEW x \in Tx, Callback(r, b, x) PROVE OidcInv'
  BY <1>0, <1>4 DEF Callback, OidcInv
<1>5. ASSUME NEW r \in Request, Identify(r) PROVE OidcInv'
  BY <1>0, <1>5 DEF Identify, SpendProof, OidcInv, history
<1>6. ASSUME NEW r \in Request, Prove(r) PROVE OidcInv'
  <2> DEFINE f == job[r].flow
             b == job[r].browser
             end == IF flow[f].until < clock + OIDC_TTL THEN flow[f].until ELSE clock + OIDC_TTL
             row == [via |-> job[r].via, principal |-> SignsInAs[b], until |-> end]
  <2>1. f \in Flow /\ b \in Browser /\ job[r].via \in Tx
    BY <1>6 DEF Prove, At, JobsInv, JobBound, Confirming, Settling, Sweeping
  <2>2. row \in ProofRow
    BY <1>2, <2>1 DEF ProofRow, Principal
  <2>3. \/ proof' = [proof EXCEPT ![f] = NoProof] /\ UNCHANGED <<cookie, mine>>
        \/ /\ proof' = [proof EXCEPT ![f] = row] /\ cookie' = [cookie EXCEPT ![b] = job[r].via]
           /\ mine' = [mine EXCEPT ![b] = {}]
    BY <1>6 DEF Prove
  <2>4. UNCHANGED <<tx, misused>>
    BY <1>6 DEF Prove, history
  <2> HIDE DEF row, f, b
  <2> QED BY <1>0, <2>1, <2>2, <2>3, <2>4 DEF OidcInv
<1>7. ASSUME NEW r \in Request, NEW yes \in BOOLEAN, CreateFlow(r, yes) PROVE OidcInv'
  BY <1>0, <1>7 DEF CreateFlow, OidcInv, history
<1>8. ASSUME NEW r \in Request, DeleteClient(r) \/ \E ok \in BOOLEAN : ForgetFlow(r, ok) PROVE OidcInv'
  <2>1. (\E S : WithoutFlows(S)) \/ UNCHANGED <<flow, tx, proof>>
    BY <1>8 DEF DeleteClient, ForgetFlow
  <2>2. UNCHANGED <<mine, cookie, misused>>
    BY <1>8 DEF DeleteClient, ForgetFlow, history
  <2>3. \A S : WithoutFlows(S) => tx' \in [Tx -> TxRow] /\ proof' \in [Flow -> ProofRow]
    BY DeletedFlows
  <2>4. tx' \in [Tx -> TxRow] /\ proof' \in [Flow -> ProofRow]
    BY <1>0, <2>1, <2>3
  <2> QED BY <1>0, <2>2, <2>4 DEF OidcInv
<1>9. ASSUME NEW r \in Request, Start(r) PROVE OidcInv'
  BY <1>1, <1>4, <1>9 DEF Start, BeginEnrollment, Resume, Withdraw, StartSweep, history
<1>10. ASSUME NEW r \in Request, Advance(r) PROVE OidcInv'
  <2>1. CASE LoadFlow(r) \/ ReadHolding(r) \/ ReadExisting(r) \/ SweepDrop(r) \/ SweepClients(r)
             \/ SweepEnds(r) \/ \E c \in Reserved : ExpireClient(r, c)
    BY <2>1, <1>1 DEF LoadFlow, ReadHolding, ReadExisting, SweepDrop, SweepClients, SweepEnds,
                      ExpireClient, history
  <2>2. CASE \E yes \in BOOLEAN : Poll(r, yes) \/ Vet(r, yes) \/ Return(r, yes) \/ Exchange(r, yes)
                                    \/ ReturnTwin(r, yes) \/ EndCall(r, yes) \/ Hold(r, yes)
                                    \/ DropHolding(r, yes)
    BY <2>2, <1>1 DEF Poll, Vet, Return, Exchange, ReturnTwin, EndCall, Hold, DropHolding, HandBack,
                      history
  <2>3. CASE \E yes \in BOOLEAN : \/ \E x \in Row : SweepRow(r, x, yes)
                                  \/ \E b \in Binding : Bind(r, b, yes)
                                  \/ \E c \in Reserved : SaveClient(r, c, yes) \/ TouchClient(r, c, yes)
    BY <2>3, <1>1 DEF SweepRow, Bind, SaveClient, TouchClient, HandBack, Unread, history
  <2> QED BY <1>5, <1>6, <1>7, <1>8, <1>10, <2>1, <2>2, <2>3 DEF Advance
<1>11. CASE Tick \/ (\E f \in Flow : GrantAccess(f)) \/ \E r \in Request : Crash(r)
  BY <1>11, <1>1 DEF Tick, GrantAccess, Crash, history
<1>12. CASE UNCHANGED vars
  BY <1>12, <1>1 DEF vars, history
<1> QED BY <1>3, <1>9, <1>10, <1>11, <1>12 DEF Next

(* ... and what stands at Nextcloud                                          *)
LEMMA OutsideStep ==
  ASSUME EnrollmentAssumption, TypeInv, [Next]_vars
  PROVE  OutsideInv'
<1> USE DEF TypeInv
<1>0. /\ nextcloud \in [Flow -> {"none", "waiting", "granted", "collected"}]
      /\ password \in [Flow -> {"none", "valid", "returned"}] /\ unseen \subseteq Flow
  BY DEF OutsideInv
<1>1. CASE UNCHANGED <<outside, unseen>>
  BY <1>1 DEF OutsideInv, outside
<1>2. ASSUME NEW f \in Flow, NEW yes \in BOOLEAN, HandBack(f, yes) PROVE OutsideInv'
  BY <1>0, <1>2 DEF HandBack, OutsideInv
<1>2a. ASSUME NEW f \in Flow, Unread(f) PROVE OutsideInv'
  BY <1>0, <1>2a DEF Unread, OutsideInv, outside
<1>3. ASSUME NEW f \in Flow, GrantAccess(f) PROVE OutsideInv'
  BY <1>0, <1>3 DEF GrantAccess, OutsideInv, history
<1>4. ASSUME NEW r \in Request PROVE pc[r] \notin {"idle"} \cup Sweeping => job[r].flow \in Flow
  BY DEF JobsInv, JobBound
<1>5. ASSUME NEW r \in Request, Crash(r) PROVE OutsideInv'
  BY <1>0, <1>4, <1>5 DEF Crash, OutsideInv, outside, Sweeping
<1>6. ASSUME NEW x \in Row, There(x) PROVE FlowOf(x) \in Flow
  BY <1>6 DEF There, FlowOf, Row, RowsInv, Standing
<1>7. ASSUME NEW r \in Request, DeleteClient(r) PROVE OutsideInv'
  <2> DEFINE c == job[r].client
  <2>1. \A x \in RowsOf(c) : x \in Row /\ FlowOf(x) \in Flow
    BY DEF RowsOf, FlowOf, Row, RowsInv, Standing
  <2> QED BY <1>0, <1>7, <2>1 DEF DeleteClient, OutsideInv, outside
<1>8. ASSUME NEW r \in Request, NEW x \in Row, NEW yes \in BOOLEAN, SweepRow(r, x, yes) PROVE OutsideInv'
  <2>1. ((HandBack(FlowOf(x), yes) \/ Unread(FlowOf(x))) /\ There(x)) \/ UNCHANGED <<outside, unseen>>
    BY <1>8 DEF SweepRow, There, history
  <2> QED BY <1>1, <1>2, <1>2a, <1>6, <2>1
<1>9. ASSUME NEW r \in Request, NEW yes \in BOOLEAN, Return(r, yes) \/ ReturnTwin(r, yes) PROVE OutsideInv'
  BY <1>2, <1>4, <1>9 DEF Return, ReturnTwin, At, Sweeping
<1>10. ASSUME NEW r \in Request, NEW yes \in BOOLEAN, EndCall(r, yes) \/ Poll(r, yes) \/ CreateFlow(r, yes)
       PROVE  OutsideInv'
  <2>1. job[r].flow \in Flow
    BY SMTT(40), <1>4, <1>10 DEF EndCall, Poll, CreateFlow, At, Sweeping
  <2> QED BY <1>0, <1>10, <2>1 DEF EndCall, Poll, CreateFlow, OutsideInv, history
<1>11. ASSUME NEW r \in Request, Start(r) PROVE OutsideInv'
  BY <1>1, <1>11 DEF Start, BeginEnrollment, Resume, Callback, Withdraw, StartSweep, history
<1>12. ASSUME NEW r \in Request, Advance(r) PROVE OutsideInv'
  <2>1. CASE LoadFlow(r) \/ ReadHolding(r) \/ ReadExisting(r) \/ SweepDrop(r) \/ SweepClients(r)
             \/ SweepEnds(r) \/ Identify(r) \/ Prove(r) \/ \E c \in Reserved : ExpireClient(r, c)
    BY <2>1, <1>1 DEF LoadFlow, ReadHolding, ReadExisting, SweepDrop, SweepClients, SweepEnds,
                      ExpireClient, Identify, Prove, history
  <2>2. CASE \E yes \in BOOLEAN : Vet(r, yes) \/ Exchange(r, yes) \/ Hold(r, yes) \/ DropHolding(r, yes)
                                    \/ ForgetFlow(r, yes)
    BY <2>2, <1>1 DEF Vet, Exchange, Hold, DropHolding, ForgetFlow, history
  <2>3. CASE \E yes \in BOOLEAN : \/ \E b \in Binding : Bind(r, b, yes)
                                  \/ \E c \in Reserved : SaveClient(r, c, yes) \/ TouchClient(r, c, yes)
    BY <2>3, <1>1 DEF Bind, SaveClient, TouchClient, history
  <2> QED BY <1>7, <1>8, <1>9, <1>10, <1>12, <2>1, <2>2, <2>3 DEF Advance
<1>13. CASE Tick \/ \E b \in Browser, f \in Flow, x \in Tx : StartSignIn(b, f, x)
  BY <1>13, <1>1 DEF Tick, StartSignIn, history
<1>14. CASE UNCHANGED vars
  BY <1>14, <1>1 DEF vars, history
<1> QED BY <1>3, <1>5, <1>11, <1>12, <1>13, <1>14 DEF Next

(* No step leaves a row without the row it refers to                         *)
LEMMA ReferencedStep ==
  ASSUME EnrollmentAssumption, TypeInv, [Next]_vars
  PROVE  Referenced'
<1> USE DEF TypeInv
<1>0. /\ client \in [Reserved -> ClientRow] /\ flow \in [Flow -> FlowRow]
      /\ holding \in [Flow -> HoldingRow] /\ binding \in [Binding -> BindingRow]
      /\ tx \in [Tx -> TxRow] /\ proof \in [Flow -> ProofRow]
      /\ Holding \in Reserved /\ Bound \in Reserved /\ Holding # Bound
  BY DEF OidcInv, RowsInv, Reserved, Holding, Bound
<1>1. CASE UNCHANGED <<rows, tx, proof>>
  BY <1>1 DEF Referenced, rows, Open, Held, Standing
<1>2. ASSUME NEW r \in Request, NEW c \in Reserved, NEW yes \in BOOLEAN,
             SaveClient(r, c, yes) \/ TouchClient(r, c, yes)
      PROVE  Referenced'
  <2>1. \A d \in Reserved : client[d].here => client'[d].here
    <3>1. [client[c] EXCEPT !.used = clock].here = client[c].here
      BY <1>0 DEF ClientRow
    <3> QED BY <1>0, <1>2, <3>1 DEF SaveClient, TouchClient
  <2>2. UNCHANGED <<flow, holding, binding, tx, proof>>
    BY <1>2 DEF SaveClient, TouchClient, oidc
  <2> QED BY <1>0, <2>1, <2>2 DEF Referenced, Open, Held, Standing
<1>3. ASSUME NEW r \in Request, NEW yes \in BOOLEAN, CreateFlow(r, yes) PROVE Referenced'
  <2> DEFINE f == job[r].flow
             out == {g \in Flow : Open(g) /\ flow[g].until <= clock}
  <2>1. UNCHANGED <<client, holding, binding>>
    BY <1>3 DEF CreateFlow
  <2>2. CASE UNCHANGED <<flow, tx, proof>>
    BY SMTT(40), <1>1, <2>1, <2>2 DEF rows
  <2>3. CASE /\ client[Holding].here
             /\ flow' = [g \in Flow |-> CASE g = f -> [state |-> "open", until |-> clock + FLOW_TTL]
                                          [] g \in out -> [state |-> "gone", until |-> 0]
                                          [] OTHER -> flow[g]]
             /\ tx' = [x \in Tx |-> IF tx[x].state = "open" /\ tx[x].flow \in out THEN NoTx ELSE tx[x]]
             /\ proof' = [g \in Flow |-> IF g \in out THEN NoProof ELSE proof[g]]
    <3>1. \A g \in Flow : g \notin out /\ Open(g) => Open(g)'
      BY <2>3 DEF Open
    <3>2. \A g \in Flow : proof'[g] # NoProof => Open(g)'
      BY <2>3, <3>1 DEF Referenced
    <3>3. \A x \in Tx : tx'[x].state = "open" => tx'[x].flow \in Flow /\ Open(tx[x].flow)' /\ tx'[x] = tx[x]
      BY <2>3, <3>1 DEF Referenced, NoTx
    <3>4. \A x \in Tx : tx'[x].state = "open" => tx'[x].flow \in Flow /\ Open(tx[x].flow)'
      BY <3>3 DEF Open
    <3> QED BY <2>1, <2>3, <3>2, <3>4 DEF Referenced, Held, Standing, Open
  <2> QED BY <1>3, <2>2, <2>3 DEF CreateFlow
<1>4. ASSUME NEW r \in Request, NEW yes \in BOOLEAN, Hold(r, yes) PROVE Referenced'
  <2>1. \A f \in Flow : Held(f)' => Held(f) \/ client[Holding].here
    BY <1>0, <1>4 DEF Hold, Held
  <2>2. UNCHANGED <<client, flow, binding, tx, proof>>
    BY <1>4 DEF Hold, oidc
  <2> QED BY <2>1, <2>2 DEF Referenced, Open, Standing
<1>5. ASSUME NEW r \in Request, NEW b \in Binding, NEW yes \in BOOLEAN, Bind(r, b, yes) PROVE Referenced'
  <2>1. \A c \in Binding : Standing(c)' => Standing(c) \/ client[Bound].here
    BY <1>0, <1>5 DEF Bind, Standing
  <2>2. UNCHANGED <<client, flow, holding, tx, proof>>
    BY <1>5 DEF Bind, oidc
  <2> QED BY <2>1, <2>2 DEF Referenced, Open, Held
<1>6. ASSUME NEW r \in Request, NEW b \in Binding, Withdraw(r, b) PROVE Referenced'
  <2>1. binding' = [binding EXCEPT ![b] = [@ EXCEPT !.revoked = TRUE]]
    BY <1>6 DEF Withdraw
  <2>2. [binding[b] EXCEPT !.revoked = TRUE].state = binding[b].state
    BY <1>0 DEF BindingRow
  <2>3. \A c \in Binding : Standing(c)' => Standing(c)
    BY <1>0, <2>1, <2>2 DEF Standing
  <2>4. UNCHANGED <<client, flow, holding, tx, proof>>
    BY <1>6 DEF Withdraw, oidc
  <2> QED BY <2>3, <2>4 DEF Referenced, Open, Held
<1>7. ASSUME NEW b \in Browser, NEW f \in Flow, NEW x \in Tx, StartSignIn(b, f, x) PROVE Referenced'
  <2> DEFINE left == [y \in Tx |-> IF tx[y].state = "open" /\ tx[y].until <= clock THEN NoTx ELSE tx[y]]
             end == IF flow[f].until < clock + OIDC_TTL THEN flow[f].until ELSE clock + OIDC_TTL
             row == [state |-> "open", flow |-> f, until |-> end]
  <2>1. tx' = [left EXCEPT ![x] = row] /\ Open(f) /\ UNCHANGED <<rows, proof>>
    BY <1>7 DEF StartSignIn, Running
  <2>2. \A y \in Tx : left[y].state = "open" => left[y] = tx[y]
    BY DEF NoTx
  <2>3. row.flow = f
    OBVIOUS
  <2> HIDE DEF row
  <2>4. \A y \in Tx : tx'[y].state = "open" => tx'[y].flow \in Flow /\ Open(tx'[y].flow)
    BY <2>1, <2>2, <2>3 DEF Referenced
  <2> QED BY <2>1, <2>4 DEF Referenced, rows, Open, Held, Standing
<1>8. ASSUME NEW r \in Request, NEW b \in Browser, NEW x \in Tx, Callback(r, b, x) PROVE Referenced'
  <2>1. \A y \in Tx : tx'[y].state = "open" => tx'[y] = tx[y]
    BY <1>0, <1>8 DEF Callback, NoTx
  <2>2. UNCHANGED <<rows, proof>>
    BY <1>8 DEF Callback
  <2> QED BY <2>1, <2>2 DEF Referenced, rows, Open, Held, Standing
<1>9. ASSUME NEW r \in Request, Identify(r) \/ Prove(r) PROVE Referenced'
  <2>1. \A f \in Flow : proof'[f] # NoProof => proof'[f] = proof[f] \/ Open(f)
    BY <1>0, <1>9 DEF Identify, SpendProof, Prove, Running
  <2>2. UNCHANGED <<rows, tx>>
    BY <1>9 DEF Identify, Prove
  <2> QED BY <2>1, <2>2 DEF Referenced, rows, Open, Held, Standing
<1>10. ASSUME NEW S, WithoutFlows(S), client' = client,
              \A f \in Flow : Held(f)' => Held(f), \A b \in Binding : Standing(b)' => Standing(b)
       PROVE  Referenced'
  <2>1. \A f \in Flow : Open(f)' => Open(f)
    BY <1>10, DeletedFlows DEF Open
  <2>2. \A f \in Flow : proof'[f] # NoProof => Open(f)'
    BY <1>10, DeletedFlows DEF Open, Referenced
  <2>3. \A x \in Tx : tx'[x].state = "open" => tx'[x] = tx[x] /\ tx[x].flow \notin S
    BY <1>10, DeletedFlows
  <2>4. \A f \in Flow : f \notin S => (Open(f)' <=> Open(f))
    BY <1>10, DeletedFlows DEF Open
  <2>5. \A x \in Tx : tx'[x].state = "open" => tx'[x].flow \in Flow /\ Open(tx[x].flow)'
    BY <2>3, <2>4 DEF Referenced, Open
  <2> QED BY <1>10, <2>1, <2>2, <2>5 DEF Referenced
<1>11. ASSUME NEW r \in Request, NEW yes \in BOOLEAN, ForgetFlow(r, yes) PROVE Referenced'
  <2>1. UNCHANGED <<client, holding, binding>>
    BY <1>11 DEF ForgetFlow
  <2>2. WithoutFlows({job[r].flow}) \/ UNCHANGED <<flow, tx, proof>>
    BY <1>11 DEF ForgetFlow
  <2> QED BY <1>1, <1>10, <2>1, <2>2 DEF rows, Held, Standing
<1>12. ASSUME NEW S, WithoutRows(S)
       PROVE  /\ \A f \in Flow : Held(f)' => Held(f) /\ f \notin S
              /\ \A b \in Binding : Standing(b)' => Standing(b) /\ b \notin S
  BY <1>12, DeletedRows DEF Held, Standing
<1>13. ASSUME NEW r \in Request, SweepDrop(r) \/ \E yes \in BOOLEAN : DropHolding(r, yes)
       PROVE  Referenced'
  <2>1. UNCHANGED <<client, flow, tx, proof>>
    BY <1>13 DEF SweepDrop, DropHolding, oidc
  <2>2. \/ WithoutRows({job[r].one}) \/ WithoutRows({job[r].flow}) \/ UNCHANGED <<holding, binding>>
    BY <1>13 DEF SweepDrop, DropHolding
  <2>3. /\ \A f \in Flow : Held(f)' => Held(f)
        /\ \A b \in Binding : Standing(b)' => Standing(b)
    BY <1>12, <2>2 DEF Held, Standing
  <2> QED BY <2>1, <2>3 DEF Referenced, Open
<1>14. ASSUME NEW r \in Request, DeleteClient(r) PROVE Referenced'
  <2> DEFINE c == job[r].client
  <2>1. c \in Reserved /\ c # None
    BY <1>14 DEF DeleteClient, JobsInv, Job
  <2>2. client' = [client EXCEPT ![c] = NoClient] /\ WithoutRows(RowsOf(c))
    BY <1>14 DEF DeleteClient
  <2>3. CASE c = Holding
    <3>1. WithoutFlows(Flow)
      BY <1>14, <2>3 DEF DeleteClient
    <3>2. \A f \in Flow : ~Open(f)' /\ proof'[f] = NoProof
      BY <3>1, DeletedFlows DEF Open
    <3>3. \A x \in Tx : tx'[x].state # "open"
      BY <3>1, DeletedFlows DEF Referenced
    <3>4. \A f \in Flow : ~Held(f)'
      BY <1>12, <2>2, <2>3 DEF RowsOf
    <3>5. \A b \in Binding : Standing(b)' => client'[Bound].here
      BY <1>0, <1>12, <2>2, <2>3 DEF Referenced
    <3> QED BY <3>2, <3>3, <3>4, <3>5 DEF Referenced
  <2>4. CASE c = Bound
    <3>1. UNCHANGED <<flow, tx, proof>>
      BY <1>0, <1>14, <2>4 DEF DeleteClient
    <3>2. \A b \in Binding : ~Standing(b)'
      BY <1>0, <1>12, <2>2, <2>4 DEF RowsOf
    <3>3. \A f \in Flow : (Open(f) \/ Held(f))' => client'[Holding].here
      BY <1>0, <1>12, <2>2, <2>4, <3>1 DEF Referenced, Open
    <3> QED BY <3>1, <3>2, <3>3 DEF Referenced, Open
  <2> QED BY <2>1, <2>3, <2>4 DEF Reserved
<1>15. ASSUME NEW r \in Request, Start(r) PROVE Referenced'
  BY <1>1, <1>6, <1>8, <1>15 DEF Start, BeginEnrollment, Resume, StartSweep, oidc
<1>16. ASSUME NEW r \in Request, Advance(r) PROVE Referenced'
  <2>1. CASE LoadFlow(r) \/ ReadHolding(r) \/ ReadExisting(r) \/ SweepClients(r) \/ SweepEnds(r)
             \/ \E c \in Reserved : ExpireClient(r, c)
    BY <2>1, <1>1 DEF LoadFlow, ReadHolding, ReadExisting, SweepClients, SweepEnds, ExpireClient, oidc
  <2>2. CASE \E yes \in BOOLEAN : Poll(r, yes) \/ Vet(r, yes) \/ Return(r, yes) \/ Exchange(r, yes)
                                    \/ ReturnTwin(r, yes) \/ EndCall(r, yes)
    BY <2>2, <1>1 DEF Poll, Vet, Return, Exchange, ReturnTwin, EndCall, oidc
  <2>3. CASE \E yes \in BOOLEAN : \E x \in Row : SweepRow(r, x, yes)
    BY <2>3, <1>1 DEF SweepRow, oidc
  <2> QED BY <1>2, <1>3, <1>4, <1>5, <1>9, <1>11, <1>13, <1>14, <1>16, <2>1, <2>2, <2>3 DEF Advance
<1>17. CASE Tick \/ (\E f \in Flow : GrantAccess(f)) \/ \E r \in Request : Crash(r)
  BY <1>17, <1>1 DEF Tick, GrantAccess, Crash, oidc
<1>18. CASE UNCHANGED vars
  BY <1>18, <1>1 DEF vars, oidc
<1> QED BY <1>7, <1>15, <1>16, <1>17, <1>18 DEF Next

(* One step moves one request at most                                        *)
LEMMA JobsStep ==
  ASSUME EnrollmentAssumption, TypeInv, [Next]_vars
  PROVE  /\ JobsInv'
         /\ \A r \in Request : Start(r) \/ Advance(r) \/ Crash(r) =>
              \A q \in Request : q # r => pc'[q] = pc[q] /\ job'[q] = job[q]
<1>1. JobsInv
  BY DEF TypeInv
<1>2. CASE UNCHANGED <<pc, job>>
  BY <1>1, <1>2 DEF JobsInv
<1>3. ASSUME NEW r \in Request, Start(r) \/ Advance(r) \/ Crash(r)
      PROVE  JobsInv' /\ \A q \in Request : q # r => pc'[q] = pc[q] /\ job'[q] = job[q]
  BY <1>1, <1>2, <1>3, StartsMove, AdvancesMove, MovesKeepJobs
<1>4. CASE Tick \/ (\E f \in Flow : GrantAccess(f))
           \/ (\E b \in Browser, f \in Flow, x \in Tx : StartSignIn(b, f, x))
  BY <1>2, <1>3, <1>4 DEF Tick, GrantAccess, StartSignIn
<1> QED BY <1>2, <1>3, <1>4 DEF Next, vars

(* The first state has all of these                                          *)
LEMMA TypesInitially ==
  ASSUME EnrollmentAssumption, Init
  PROVE  TypeInv
<1> USE DEF Init
<1>1. 0 \in 0..MaxClock
  BY DEF EnrollmentAssumption
<1>2. RowsInv
  BY <1>1 DEF RowsInv, ClientRow, FlowRow, HoldingRow, BindingRow, NoClient, NoBinding, Never
<1>3. OidcInv
  BY DEF OidcInv, NoTx, TxRow, NoProof, ProofRow, Principal
<1>4. OutsideInv
  BY DEF OutsideInv
<1>5. JobsInv
  BY NoLocals DEF JobsInv, Step
<1>6. Referenced
  BY DEF Referenced, Open, Held, Standing, NoBinding, NoTx
<1> QED BY <1>2, <1>3, <1>4, <1>5, <1>6 DEF TypeInv

LEMMA TypesStay ==
  ASSUME EnrollmentAssumption, TypeInv, [Next]_vars
  PROVE  TypeInv'
BY RowsStep, OidcStep, OutsideStep, JobsStep, ReferencedStep DEF TypeInv

LEMMA TypesImply == TypeInv => TypeOK
BY DEF TypeInv, RowsInv, OidcInv, OutsideInv, JobsInv, Referenced, TypeOK, ClientRow, FlowRow,
       HoldingRow, BindingRow, TxRow, ProofRow

(* TypeOK: every variable has its type, no flow and no row outlives its     *)
(* client, and no transaction and no proof outlives its flow, in whatever   *)
(* order requests insert, sweep and delete.                                 *)
THEOREM NoRowIsOrphaned == ASSUME EnrollmentAssumption PROVE Spec => []TypeOK
<1>1. Init => TypeInv
  BY TypesInitially
<1>2. TypeInv /\ [Next]_vars => TypeInv'
  BY TypesStay
<1> QED BY <1>1, <1>2, TypesImply, PTL DEF Spec

-----------------------------------------------------------------------------
(* What a step may do to one row *)

HoldingMoves(f) ==
  \/ holding'[f].state = holding[f].state
  \/ /\ holding[f].state = "none" /\ holding'[f].state = "held"
     /\ \E r \in Request : Hold(r, TRUE) /\ job[r].flow = f
  \/ /\ Held(f) /\ holding'[f].state = "gone"
     /\ \E r \in Request : \/ DropHolding(r, TRUE) /\ job[r].flow = f
                           \/ SweepDrop(r) /\ job[r].one = f
                           \/ DeleteClient(r) /\ job[r].client = Holding /\ f \in unseen'

SameBinding(b) ==
  binding'[b].flow = binding[b].flow /\ binding'[b].browser = binding[b].browser
    /\ binding'[b].via = binding[b].via
BindingMoves(b) ==
  \/ binding'[b].state = binding[b].state /\ SameBinding(b)
  \/ /\ binding[b].state = "none" /\ binding'[b].state = "here"
     /\ \E r \in Request : /\ Bind(r, b, TRUE) /\ binding'[b].flow = job[r].flow
                           /\ binding'[b].browser = job[r].browser /\ binding'[b].via = job[r].via
  \/ /\ Standing(b) /\ binding'[b].state = "gone" /\ SameBinding(b)
     /\ \E r \in Request : \/ SweepDrop(r) /\ job[r].one = b
                           \/ DeleteClient(r) /\ job[r].client = Bound /\ binding[b].flow \in unseen'

(* A row is written once, and deleted by who had it in hand or with its client *)
LEMMA RowEffects ==
  ASSUME EnrollmentAssumption, TypeInv, [Next]_vars
  PROVE  (\A f \in Flow : HoldingMoves(f)) /\ (\A b \in Binding : BindingMoves(b))
<1> USE DEF TypeInv
<1>0. /\ holding \in [Flow -> HoldingRow] /\ binding \in [Binding -> BindingRow]
      /\ Flow \cap Binding = {}
  BY DEF RowsInv, EnrollmentAssumption
<1>1. CASE UNCHANGED <<holding, binding>>
  BY <1>1 DEF HoldingMoves, BindingMoves, SameBinding
<1>2. ASSUME NEW r \in Request, NEW yes \in BOOLEAN, Hold(r, yes)
      PROVE  (\A f \in Flow : HoldingMoves(f)) /\ (\A b \in Binding : BindingMoves(b))
  <2>1. CASE UNCHANGED holding
    BY <1>1, <1>2, <2>1 DEF Hold
  <2>2. CASE yes = TRUE /\ holding[job[r].flow].state = "none"
               /\ holding' = [holding EXCEPT ![job[r].flow] = [state |-> "held", since |-> clock]]
    BY <1>0, <1>2, <2>2 DEF Hold, HoldingMoves, BindingMoves, SameBinding
  <2> QED BY <1>2, <2>1, <2>2 DEF Hold
<1>3. ASSUME NEW r \in Request, NEW b \in Binding, NEW yes \in BOOLEAN, Bind(r, b, yes)
      PROVE  (\A f \in Flow : HoldingMoves(f)) /\ (\A c \in Binding : BindingMoves(c))
  <2> DEFINE row == [state |-> "here", revoked |-> FALSE, flow |-> job[r].flow,
                     browser |-> job[r].browser, via |-> job[r].via]
  <2>1. CASE UNCHANGED binding
    BY <1>1, <1>3, <2>1 DEF Bind
  <2>2. CASE yes = TRUE /\ binding[b].state = "none" /\ binding' = [binding EXCEPT ![b] = row]
    <3>1. row.state = "here" /\ row.flow = job[r].flow /\ row.browser = job[r].browser
            /\ row.via = job[r].via
      OBVIOUS
    <3> HIDE DEF row
    <3>2. BindingMoves(b)
      BY <1>0, <1>3, <2>2, <3>1 DEF BindingMoves
    <3>3. \A c \in Binding : c # b => BindingMoves(c)
      BY <1>0, <2>2 DEF BindingMoves, SameBinding
    <3>4. UNCHANGED holding
      BY <1>3 DEF Bind
    <3> QED BY <3>2, <3>3, <3>4 DEF HoldingMoves
  <2> QED BY <1>3, <2>1, <2>2 DEF Bind
<1>4. ASSUME NEW r \in Request, NEW b \in Binding, Withdraw(r, b)
      PROVE  (\A f \in Flow : HoldingMoves(f)) /\ (\A c \in Binding : BindingMoves(c))
  <2>1. binding' = [binding EXCEPT ![b] = [@ EXCEPT !.revoked = TRUE]]
    BY <1>4 DEF Withdraw
  <2>2. \A row \in BindingRow :
          LET new == [row EXCEPT !.revoked = TRUE] IN
          new.state = row.state /\ new.flow = row.flow /\ new.browser = row.browser /\ new.via = row.via
    BY DEF BindingRow
  <2>3. \A c \in Binding : binding'[c].state = binding[c].state /\ SameBinding(c)
    BY <1>0, <2>1, <2>2 DEF SameBinding
  <2> QED BY <1>4, <2>3 DEF Withdraw, HoldingMoves, BindingMoves
<1>5. ASSUME NEW r \in Request, SweepDrop(r)
      PROVE  (\A f \in Flow : HoldingMoves(f)) /\ (\A c \in Binding : BindingMoves(c))
  <2> DEFINE S == {job[r].one}
  <2>1. WithoutRows(S) /\ \A x : x \in S <=> x = job[r].one
    BY <1>5 DEF SweepDrop
  <2> HIDE DEF S
  <2>2. ASSUME NEW f \in Flow PROVE HoldingMoves(f)
    BY <1>5, <2>1, DeletedRows DEF HoldingMoves
  <2>3. ASSUME NEW b \in Binding PROVE BindingMoves(b)
    BY <1>5, <2>1, DeletedRows DEF BindingMoves, SameBinding
  <2> QED BY <2>2, <2>3
<1>6. ASSUME NEW r \in Request, NEW yes \in BOOLEAN, DropHolding(r, yes)
      PROVE  (\A f \in Flow : HoldingMoves(f)) /\ (\A c \in Binding : BindingMoves(c))
  <2>1. CASE yes = TRUE
    <3> DEFINE S == {job[r].flow}
    <3>1. WithoutRows(S) /\ job[r].flow \in Flow /\ \A x : x \in S <=> x = job[r].flow
      BY <1>6, <2>1 DEF DropHolding, At, JobsInv, JobBound, Sweeping
    <3> HIDE DEF S
    <3>2. \A b \in Binding : b \notin S
      BY <1>0, <3>1
    <3>3. ASSUME NEW f \in Flow PROVE HoldingMoves(f)
      BY <1>6, <2>1, <3>1, DeletedRows DEF HoldingMoves
    <3>4. ASSUME NEW b \in Binding PROVE BindingMoves(b)
      BY <3>1, <3>2, DeletedRows DEF BindingMoves, SameBinding
    <3> QED BY <3>3, <3>4
  <2>2. CASE yes = FALSE
    BY <1>1, <1>6, <2>2 DEF DropHolding
  <2> QED BY <2>1, <2>2
<1>7. ASSUME NEW r \in Request, DeleteClient(r)
      PROVE  (\A f \in Flow : HoldingMoves(f)) /\ (\A b \in Binding : BindingMoves(b))
  <2> DEFINE c == job[r].client
  <2>1. WithoutRows(RowsOf(c)) /\ c \in Reserved
    BY <1>7 DEF DeleteClient, JobsInv, Job
  <2>2. \A f \in Flow : f \in RowsOf(c) => c = Holding /\ FlowOf(f) = f
    BY <1>0, <2>1 DEF RowsOf, FlowOf, Reserved
  <2>3. \A b \in Binding : b \in RowsOf(c) => c = Bound /\ FlowOf(b) = binding[b].flow
    BY <1>0, <2>1 DEF RowsOf, FlowOf, Reserved
  <2>4. \A x \in RowsOf(c) : FlowOf(x) \in unseen'
    BY <1>7 DEF DeleteClient
  <2>5. ASSUME NEW f \in Flow PROVE HoldingMoves(f)
    BY <1>7, <2>1, <2>2, <2>4, DeletedRows DEF HoldingMoves
  <2>6. ASSUME NEW b \in Binding PROVE BindingMoves(b)
    BY <1>7, <2>1, <2>3, <2>4, DeletedRows DEF BindingMoves, SameBinding
  <2> QED BY <2>5, <2>6
<1>8. CASE \E r \in Request : Start(r)
  BY <1>1, <1>4, <1>8 DEF Start, BeginEnrollment, Resume, Callback, StartSweep, rows
<1>9. ASSUME NEW r \in Request, Advance(r)
      PROVE  (\A f \in Flow : HoldingMoves(f)) /\ (\A b \in Binding : BindingMoves(b))
  <2>1. CASE LoadFlow(r) \/ ReadHolding(r) \/ ReadExisting(r) \/ SweepClients(r) \/ SweepEnds(r)
             \/ Identify(r) \/ Prove(r) \/ \E c \in Reserved : ExpireClient(r, c)
    BY <2>1, <1>1 DEF LoadFlow, ReadHolding, ReadExisting, SweepClients, SweepEnds, ExpireClient,
                      Identify, Prove, rows
  <2>2. CASE \E yes \in BOOLEAN : Poll(r, yes) \/ Vet(r, yes) \/ Return(r, yes) \/ Exchange(r, yes)
                                    \/ ReturnTwin(r, yes) \/ EndCall(r, yes) \/ CreateFlow(r, yes)
                                    \/ ForgetFlow(r, yes)
    BY <2>2, <1>1 DEF Poll, Vet, Return, Exchange, ReturnTwin, EndCall, CreateFlow, ForgetFlow, rows
  <2>3. CASE \E yes \in BOOLEAN : \/ \E x \in Row : SweepRow(r, x, yes)
                                  \/ \E c \in Reserved : SaveClient(r, c, yes) \/ TouchClient(r, c, yes)
    BY <2>3, <1>1 DEF SweepRow, SaveClient, TouchClient, rows
  <2> QED BY <1>2, <1>3, <1>5, <1>6, <1>7, <1>9, <2>1, <2>2, <2>3 DEF Advance
<1>10. CASE Tick \/ (\E f \in Flow : GrantAccess(f)) \/ (\E r \in Request : Crash(r))
             \/ \E b \in Browser, f \in Flow, x \in Tx : StartSignIn(b, f, x)
  BY <1>10, <1>1 DEF Tick, GrantAccess, Crash, StartSignIn, rows
<1>11. CASE UNCHANGED vars
  BY <1>11, <1>1 DEF vars, rows
<1> QED BY <1>8, <1>9, <1>10, <1>11 DEF Next

CollectMoves(f) ==
  \/ nextcloud'[f] = nextcloud[f]
  \/ GrantAccess(f) /\ nextcloud[f] = "waiting" /\ nextcloud'[f] = "granted"
  \/ nextcloud'[f] = "waiting" /\ \E r \in Request : pc[r] = "begin_flow" /\ job[r].flow = f
                                                      /\ pc'[r] = "idle"
  \/ /\ nextcloud[f] = "granted" /\ nextcloud'[f] = "collected"
     /\ \E r \in Request : /\ pc[r] = "poll" /\ job[r].flow = f
                           /\ (pc'[r] = "vet" /\ job'[r] = job[r]) \/ f \in unseen'

AskedFor(f) ==
  \/ \E r \in Request : job[r].flow = f /\ (At(r, "return") \/ At(r, "twin"))
  \/ \E r \in Request : At(r, "end_call") /\ Standing(job[r].binding) /\ job[r].flow = f
  \/ \E r \in Request : \E x \in Row : At(r, "sweep_rows") /\ x \in job[r].rows /\ There(x) /\ FlowOf(x) = f
PasswordMoves(f) ==
  \/ password'[f] = password[f]
  \/ GrantAccess(f) /\ nextcloud[f] = "waiting" /\ nextcloud'[f] = "granted" /\ password'[f] = "valid"
  \/ password'[f] = "returned" /\ AskedFor(f)

(* A password comes with a sign-in, is collected by one poll and handed back by *)
(* who may                                                                    *)
LEMMA PasswordEffects ==
  ASSUME EnrollmentAssumption, TypeInv, [Next]_vars
  PROVE  /\ \A f \in Flow : CollectMoves(f) /\ PasswordMoves(f)
         /\ unseen \subseteq unseen'
<1> USE DEF TypeInv
<1>0. /\ nextcloud \in [Flow -> {"none", "waiting", "granted", "collected"}]
      /\ password \in [Flow -> {"none", "valid", "returned"}] /\ unseen \subseteq Flow
      /\ pc \in [Request -> Step] /\ job \in [Request -> Job]
  BY DEF OutsideInv, JobsInv
<1> DEFINE Goal == (\A f \in Flow : CollectMoves(f) /\ PasswordMoves(f)) /\ unseen \subseteq unseen'
<1>1. ASSUME UNCHANGED outside, unseen \subseteq unseen' PROVE Goal
  BY <1>1 DEF CollectMoves, PasswordMoves, outside
<1>2. ASSUME NEW g \in Flow, NEW yes \in BOOLEAN, HandBack(g, yes), AskedFor(g) PROVE Goal
  BY <1>0, <1>2 DEF HandBack, CollectMoves, PasswordMoves
<1>3. ASSUME NEW f \in Flow, GrantAccess(f) PROVE Goal
  BY <1>0, <1>3 DEF GrantAccess, CollectMoves, PasswordMoves, history
<1>4. ASSUME NEW r \in Request, Crash(r) \/ DeleteClient(r) PROVE Goal
  BY <1>1, <1>4 DEF Crash, DeleteClient
<1>5. ASSUME NEW r \in Request, NEW x \in Row, NEW yes \in BOOLEAN, SweepRow(r, x, yes) PROVE Goal
  <2>1. (HandBack(FlowOf(x), yes) /\ There(x)) \/ (UNCHANGED outside /\ unseen \subseteq unseen')
    BY <1>5 DEF SweepRow, Unread, There, history
  <2>2. There(x) => FlowOf(x) \in Flow /\ AskedFor(FlowOf(x))
    BY <1>5 DEF SweepRow, There, FlowOf, Row, RowsInv, Standing, AskedFor
  <2> HIDE DEF Goal
  <2> QED BY <1>1, <1>2, <2>1, <2>2
<1>6. ASSUME NEW r \in Request, NEW yes \in BOOLEAN, Return(r, yes) \/ ReturnTwin(r, yes) PROVE Goal
  <2>1. job[r].flow \in Flow /\ HandBack(job[r].flow, yes) /\ AskedFor(job[r].flow)
    BY <1>6 DEF Return, ReturnTwin, At, Sweeping, JobsInv, JobBound, AskedFor
  <2> HIDE DEF Goal
  <2> QED BY <1>2, <2>1
<1>7. ASSUME NEW r \in Request, NEW yes \in BOOLEAN, EndCall(r, yes) PROVE Goal
  <2>1. job[r].flow \in Flow
    BY <1>7 DEF EndCall, At, Sweeping, JobsInv, JobBound
  <2>2. yes /\ Standing(job[r].binding) => AskedFor(job[r].flow)
    BY <1>7 DEF EndCall, AskedFor
  <2> QED BY <1>0, <1>7, <2>1, <2>2 DEF EndCall, CollectMoves, PasswordMoves, history
<1>8. ASSUME NEW r \in Request, NEW yes \in BOOLEAN, Poll(r, yes) PROVE Goal
  <2>1. job[r].flow \in Flow
    BY <1>8 DEF Poll, At, Sweeping, JobsInv, JobBound
  <2>2. CASE nextcloud[job[r].flow] # "granted"
    BY <1>1, <1>8, <2>2 DEF Poll, outside
  <2>3. CASE nextcloud[job[r].flow] = "granted"
    <3>1. /\ nextcloud' = [nextcloud EXCEPT ![job[r].flow] = "collected"] /\ pc[r] = "poll"
          /\ UNCHANGED password /\ unseen \subseteq unseen'
          /\ (pc'[r] = "vet" /\ job'[r] = job[r]) \/ job[r].flow \in unseen'
      BY <1>0, <1>8, <2>3 DEF Poll, At, To, Goto
    <3> QED BY <1>0, <2>1, <2>3, <3>1 DEF CollectMoves, PasswordMoves
  <2> QED BY <2>2, <2>3
<1>9. ASSUME NEW r \in Request, NEW yes \in BOOLEAN, CreateFlow(r, yes) PROVE Goal
  <2>1. /\ nextcloud' = [nextcloud EXCEPT ![job[r].flow] = "waiting"]
        /\ UNCHANGED <<password, unseen>> /\ pc[r] = "begin_flow" /\ pc'[r] = "idle"
    BY SMTT(40), <1>0, <1>9 DEF CreateFlow, history, At, Done, Goto
  <2> QED BY <1>0, <2>1 DEF CollectMoves, PasswordMoves
<1>10. ASSUME NEW r \in Request, Start(r) PROVE Goal
  BY ZenonT(60), <1>1, <1>10 DEF Start, BeginEnrollment, Resume, Callback, Withdraw, StartSweep, history
<1>11. ASSUME NEW r \in Request, Advance(r) PROVE Goal
  <2> HIDE DEF Goal
  <2>1. CASE LoadFlow(r) \/ ReadHolding(r) \/ ReadExisting(r) \/ SweepDrop(r) \/ SweepClients(r)
             \/ SweepEnds(r) \/ Identify(r) \/ Prove(r) \/ \E c \in Reserved : ExpireClient(r, c)
    BY <2>1, <1>1 DEF LoadFlow, ReadHolding, ReadExisting, SweepDrop, SweepClients, SweepEnds,
                      ExpireClient, Identify, Prove, history
  <2>2. CASE \E yes \in BOOLEAN : Vet(r, yes) \/ Exchange(r, yes) \/ Hold(r, yes) \/ DropHolding(r, yes)
                                    \/ ForgetFlow(r, yes)
    BY <2>2, <1>1 DEF Vet, Exchange, Hold, DropHolding, ForgetFlow, history
  <2>3. CASE \E yes \in BOOLEAN : \/ \E b \in Binding : Bind(r, b, yes)
                                  \/ \E c \in Reserved : SaveClient(r, c, yes) \/ TouchClient(r, c, yes)
    BY <2>3, <1>1 DEF Bind, SaveClient, TouchClient, history
  <2> QED BY <1>4, <1>5, <1>6, <1>7, <1>8, <1>9, <1>11, <2>1, <2>2, <2>3 DEF Advance
<1>12. CASE Tick \/ \E b \in Browser, f \in Flow, x \in Tx : StartSignIn(b, f, x)
  BY <1>12, <1>1 DEF Tick, StartSignIn, history
<1>13. CASE UNCHANGED vars
  BY <1>13, <1>1 DEF vars, history
<1> QED BY <1>3, <1>4, <1>10, <1>11, <1>12, <1>13 DEF Next

-----------------------------------------------------------------------------
(* What a step may do to one request *)

Stays(r) == pc'[r] = pc[r] /\ job'[r] = job[r]
Carries(r) == job'[r].flow = job[r].flow /\ job'[r].rows = job[r].rows
                /\ job'[r].one = job[r].one /\ job'[r].client = job[r].client
Unlisted(j) == j.rows = {} /\ j.one = None /\ j.client = None

Elsewhere == {"load", "poll", "identify", "exchange", "prove", "settle", "forget"}

(* Its locals are those of a new request, or go on with it                   *)
Arrives(r) ==
  \/ Stays(r)
  \/ pc'[r] = "idle" /\ job'[r] = NoJob
  \/ /\ pc'[r] = "begin_save" /\ Unlisted(job'[r])
     /\ BeginEnrollment(r, job'[r].flow) /\ job'[r].flow \in Flow
  \/ /\ pc'[r] = "end_call" /\ Unlisted(job'[r]) /\ job'[r].binding \in Binding
     /\ Living(job'[r].binding) /\ job'[r].flow = binding[job'[r].binding].flow
  \/ pc'[r] \in Elsewhere /\ ((Carries(r) /\ pc[r] \notin Sweeping) \/ Unlisted(job'[r]))
  \/ pc[r] \in Opening /\ pc'[r] \in Opening /\ job'[r] = job[r]
  \/ pc[r] = "poll" /\ pc'[r] = "vet" /\ nextcloud[job[r].flow] = "granted" /\ job'[r] = job[r]
       /\ nextcloud'[job[r].flow] = "collected"
  \/ pc[r] \in Collecting /\ pc'[r] \in Collecting /\ job'[r] = job[r]
  \/ pc[r] = "settle" /\ pc'[r] = "existing" /\ Held(job[r].flow) /\ job'[r] = job[r]
  \/ pc[r] \in Settled /\ pc'[r] \in Settled \ {"drop"} /\ job'[r] = job[r]
  \/ pc[r] = "twin" /\ pc'[r] = "drop" /\ job'[r] = job[r]
       /\ (password'[job[r].flow] = "returned" \/ job[r].flow \in unseen')
  \/ pc[r] = "bind" /\ pc'[r] = "drop" /\ job'[r] = job[r]
       /\ \E b \in Binding : Standing(b)' /\ binding'[b].flow = job[r].flow
  \/ /\ pc'[r] = "sweep_rows" /\ job'[r].rows = AbandonedRows /\ job'[r].one = None
  \/ /\ pc[r] = "sweep_rows" /\ pc'[r] = "sweep_drop" /\ job'[r].one \in job[r].rows
     /\ job'[r].one \in Row /\ job'[r].rows \subseteq job[r].rows /\ job'[r].client = job[r].client
     /\ LET f == FlowOf(job'[r].one) IN
        ~There(job'[r].one) \/ password'[f] = "returned" \/ f \in unseen'
  \/ /\ pc[r] = "sweep_drop" /\ pc'[r] = "sweep_rows"
     /\ job'[r].rows = job[r].rows /\ job'[r].one = None /\ job'[r].client = job[r].client
  \/ /\ pc[r] = "sweep_rows" /\ pc'[r] = "sweep_clients" /\ job[r].rows = {}
     /\ job'[r].rows = {} /\ job'[r].one = job[r].one
  \/ /\ pc[r] = "sweep_clients" /\ pc'[r] = "sweep_rows" /\ job'[r].one = job[r].one
     /\ job'[r].client \in Reserved /\ job'[r].rows \subseteq RowsOf(job'[r].client)

(* A request that has the password in its hands keeps it, writes it down or  *)
(* asks Nextcloud to take it back                                            *)
LetsGo(r) ==
  pc[r] \in Collecting =>
    LET f == job[r].flow IN
    \/ pc'[r] \in Collecting /\ job'[r] = job[r]
    \/ password'[f] = "returned" \/ f \in unseen'
    \/ holding'[f].state = "held"

LEMMA StartsArrive ==
  ASSUME EnrollmentAssumption, TypeInv, NEW r \in Request, Start(r) \/ Crash(r)
  PROVE  Arrives(r) /\ LetsGo(r)
<1> USE DEF TypeInv, JobsInv, Begin, At, Goto, Set, Elsewhere, Unlisted
<1>0. pc \in [Request -> Step] /\ job \in [Request -> Job]
  OBVIOUS
<1>1. ASSUME NEW f \in Flow, BeginEnrollment(r, f) PROVE Arrives(r)
  <2> DEFINE j == [NoJob EXCEPT !.flow = f]
  <2>1. j.flow = f /\ Unlisted(j)
    BY DEF NoJob
  <2>2. pc'[r] = "begin_save" /\ job'[r] = j
    BY <1>0, <1>1 DEF BeginEnrollment
  <2> HIDE DEF j
  <2> QED BY <1>1, <2>1, <2>2 DEF Arrives
<1>2. ASSUME NEW f \in Flow, NEW b \in Browser, Resume(r, b, f) PROVE Arrives(r)
  <2> DEFINE j == [NoJob EXCEPT !.flow = f, !.browser = b]
  <2>1. Unlisted(j)
    BY DEF NoJob
  <2>2. pc'[r] \in {"load", "identify"} /\ job'[r] = j
    BY <1>0, <1>2 DEF Resume
  <2> HIDE DEF j
  <2> QED BY <1>2, <2>1, <2>2 DEF Arrives
<1>3. ASSUME NEW b \in Browser, NEW x \in Tx, Callback(r, b, x) PROVE Arrives(r)
  <2> DEFINE j == [NoJob EXCEPT !.flow = tx[x].flow, !.browser = b, !.via = x]
  <2>1. Unlisted(j)
    BY DEF NoJob
  <2>2. (pc'[r] = "exchange" /\ job'[r] = j) \/ Stays(r)
    BY <1>0, <1>3 DEF Callback, Stays
  <2> HIDE DEF j
  <2> QED BY <1>3, <2>1, <2>2 DEF Arrives
<1>4. ASSUME NEW b \in Binding, Withdraw(r, b) PROVE Arrives(r)
  <2> DEFINE j == [NoJob EXCEPT !.binding = b, !.flow = binding[b].flow]
  <2>1. j.flow = binding[b].flow /\ j.binding = b /\ Unlisted(j)
    BY DEF NoJob
  <2>2. pc'[r] = "end_call" /\ job'[r] = j /\ Living(b)
    BY <1>0, <1>4 DEF Withdraw
  <2> HIDE DEF j
  <2> QED BY <1>4, <2>1, <2>2 DEF Arrives
<1>5. ASSUME StartSweep(r) PROVE Arrives(r)
  <2> DEFINE R == AbandonedRows
             j == [NoJob EXCEPT !.rows = R]
  <2>1. j.rows = R /\ j.one = None
    BY DEF NoJob
  <2>2. pc'[r] = "sweep_rows" /\ job'[r] = j
    BY <1>0, <1>5 DEF StartSweep
  <2> HIDE DEF j
  <2> QED BY <1>5, <2>1, <2>2 DEF Arrives
<1>6. ASSUME Crash(r) PROVE Arrives(r) /\ LetsGo(r)
  BY SMTT(40), <1>0, <1>6 DEF Crash, Done, Arrives, LetsGo, Collecting
<1>7. ASSUME Start(r) PROVE LetsGo(r)
  BY <1>0, <1>7 DEF Start, BeginEnrollment, Resume, Callback, Withdraw, StartSweep, LetsGo, Collecting
<1> QED BY <1>1, <1>2, <1>3, <1>4, <1>5, <1>6, <1>7 DEF Start

LEMMA AdvancesArrive ==
  ASSUME EnrollmentAssumption, TypeInv, NEW r \in Request, Advance(r)
  PROVE  Arrives(r) /\ LetsGo(r)
<1> USE DEF TypeInv, JobsInv
<1>1. /\ JobBound(pc[r], job[r]) /\ job[r] \in Job /\ pc[r] \in Step
      /\ pc \in [Request -> Step] /\ job \in [Request -> Job]
      /\ password \in [Flow -> {"none", "valid", "returned"}]
      /\ nextcloud \in [Flow -> {"none", "waiting", "granted", "collected"}]
      /\ holding \in [Flow -> HoldingRow]
  BY DEF OutsideInv, RowsInv
<1> USE DEF At, Done, To, Goto, Set
<1> DEFINE Goal == Arrives(r) /\ LetsGo(r)
<1>2. CASE LoadFlow(r) \/ Prove(r) \/ ReadHolding(r) \/ ReadExisting(r) \/ SweepEnds(r)
  <2>1. Arrives(r)
    BY <1>1, <1>2 DEF LoadFlow, Prove, ReadHolding, ReadExisting, SweepEnds, Arrives, Elsewhere, Carries, Sweeping, Settled
  <2>2. pc[r] \notin Collecting
    BY <1>2 DEF LoadFlow, Prove, ReadHolding, ReadExisting, SweepEnds, Collecting
  <2> QED BY <2>1, <2>2 DEF LetsGo
<1>3. CASE Identify(r)
  <2> DEFINE j == [job[r] EXCEPT !.via = cookie[job[r].browser]]
  <2>1. j.flow = job[r].flow /\ j.rows = job[r].rows /\ j.one = job[r].one /\ j.client = job[r].client
    BY <1>1 DEF Job
  <2>2. \/ pc'[r] = "idle" /\ job'[r] = NoJob
        \/ pc'[r] = "settle" /\ job'[r] = j
    BY <1>1, <1>3 DEF Identify
  <2>3. pc[r] = "identify"
    BY <1>3 DEF Identify
  <2> HIDE DEF j
  <2> QED BY <2>1, <2>2, <2>3 DEF Arrives, LetsGo, Elsewhere, Carries, Sweeping, Collecting
<1>4. CASE SweepDrop(r)
  <2> DEFINE j == [job[r] EXCEPT !.one = None]
  <2>1. j.rows = job[r].rows /\ j.one = None /\ j.client = job[r].client
    BY <1>1 DEF Job
  <2>2. pc[r] = "sweep_drop" /\ pc'[r] = "sweep_rows" /\ job'[r] = j
    BY <1>1, <1>4 DEF SweepDrop
  <2> HIDE DEF j
  <2> QED BY <2>1, <2>2 DEF Arrives, LetsGo, Collecting
<1>5. CASE SweepClients(r)
  <2> DEFINE C == {c \in Reserved : Expired(c)}
             j == [job[r] EXCEPT !.clients = C]
  <2>1. j.rows = job[r].rows /\ j.one = job[r].one
    BY <1>1 DEF Job
  <2>2. pc[r] = "sweep_rows" /\ pc'[r] = "sweep_clients" /\ job'[r] = j /\ job[r].rows = {}
    BY <1>1, <1>5 DEF SweepClients
  <2> HIDE DEF j
  <2> QED BY <2>1, <2>2 DEF Arrives, LetsGo, Collecting
<1>6. CASE DeleteClient(r)
  <2> DEFINE j == [job[r] EXCEPT !.client = None]
  <2>1. j.rows = job[r].rows /\ j.one = job[r].one
    BY <1>1 DEF Job
  <2>2. pc[r] = "sweep_rows" /\ pc'[r] = "sweep_clients" /\ job'[r] = j /\ job[r].rows = {}
    BY <1>1, <1>6 DEF DeleteClient
  <2> HIDE DEF j
  <2> QED BY <2>1, <2>2 DEF Arrives, LetsGo, Collecting
<1>7. ASSUME NEW c \in Reserved, ExpireClient(r, c) PROVE Goal
  <2> DEFINE R == RowsOf(c)
             j(S) == [job[r] EXCEPT !.clients = @ \ {c}, !.client = c, !.rows = S]
  <2>1. \A S : j(S).rows = S /\ j(S).one = job[r].one /\ j(S).client = c
    BY <1>1 DEF Job
  <2>2. pc[r] = "sweep_clients" /\ pc'[r] = "sweep_rows" /\ \E S \in {R, {}} : job'[r] = j(S)
    BY <1>1, <1>7 DEF ExpireClient
  <2> HIDE DEF j
  <2> QED BY <2>1, <2>2 DEF Arrives, LetsGo, Collecting
<1>8. ASSUME NEW yes \in BOOLEAN, CreateFlow(r, yes) \/ ForgetFlow(r, yes) \/ EndCall(r, yes) PROVE Goal
  BY <1>1, <1>8 DEF CreateFlow, ForgetFlow, EndCall, Arrives, LetsGo, Collecting
<1>9. ASSUME NEW yes \in BOOLEAN, Poll(r, yes) PROVE Goal
  <2>1. job[r].flow \in Flow
    BY <1>1, <1>9 DEF Poll, JobBound, Sweeping
  <2> QED BY <1>1, <1>9, <2>1 DEF Poll, Arrives, LetsGo, Collecting
<1>10. ASSUME NEW yes \in BOOLEAN, Vet(r, yes) PROVE Goal
  BY <1>1, <1>10 DEF Vet, Arrives, LetsGo, Collecting
<1>11. ASSUME NEW yes \in BOOLEAN, Hold(r, yes) PROVE Goal
  <2>1. job[r].flow \in Flow
    BY <1>1, <1>11 DEF Hold, JobBound, Sweeping
  <2>2. CASE pc'[r] = "identify" /\ holding' = [holding EXCEPT ![job[r].flow] =
                                                   [state |-> "held", since |-> clock]]
    BY <1>1, <1>11, <2>1, <2>2 DEF Hold, Arrives, LetsGo, Elsewhere, Carries, Sweeping, Held
  <2>3. CASE pc'[r] = "return"
    BY <1>1, <1>11, <2>3 DEF Hold, Arrives, LetsGo, Collecting
  <2> QED BY <1>1, <1>11, <2>2, <2>3 DEF Hold
<1>12. ASSUME NEW yes \in BOOLEAN, Return(r, yes) PROVE Goal
  <2>1. job[r].flow \in Flow
    BY <1>1, <1>12 DEF Return, JobBound, Sweeping
  <2> QED BY <1>1, <1>12, <2>1 DEF Return, HandBack, Arrives, LetsGo, Elsewhere, Carries, Sweeping
<1>13. ASSUME NEW yes \in BOOLEAN, ReturnTwin(r, yes) PROVE Goal
  <2>1. job[r].flow \in Flow
    BY <1>1, <1>13 DEF ReturnTwin, JobBound, Sweeping
  <2> QED BY <1>1, <1>13, <2>1 DEF ReturnTwin, HandBack, Arrives, LetsGo, Collecting
<1>14. ASSUME NEW yes \in BOOLEAN, Exchange(r, yes) \/ DropHolding(r, yes) PROVE Goal
  <2>1. /\ pc[r] \notin Collecting \cup Sweeping
        /\ \/ pc'[r] \in {"prove", "forget"} /\ job'[r] = job[r]
           \/ pc'[r] = "idle" /\ job'[r] = NoJob
    BY <1>1, <1>14 DEF Exchange, DropHolding, Collecting, Sweeping
  <2> QED BY <2>1 DEF Arrives, LetsGo, Elsewhere, Carries
<1>15. ASSUME NEW yes \in BOOLEAN, NEW c \in Reserved, SaveClient(r, c, yes) \/ TouchClient(r, c, yes)
       PROVE  Goal
  BY <1>1, <1>15 DEF SaveClient, TouchClient, Arrives, LetsGo, Collecting, Opening, Settled
<1>16. ASSUME NEW yes \in BOOLEAN, NEW b \in Binding, Bind(r, b, yes) PROVE Goal
  <2> DEFINE row == [state |-> "here", revoked |-> FALSE, flow |-> job[r].flow,
                     browser |-> job[r].browser, via |-> job[r].via]
  <2>1. row.state = "here" /\ row.flow = job[r].flow
    OBVIOUS
  <2>2. /\ pc[r] = "bind"
        /\ \/ pc'[r] = "idle" /\ job'[r] = NoJob
           \/ pc'[r] = "drop" /\ job'[r] = job[r] /\ binding' = [binding EXCEPT ![b] = row]
    BY <1>1, <1>16 DEF Bind, BindElseStop
  <2>3. binding \in [Binding -> BindingRow]
    BY DEF RowsInv
  <2> HIDE DEF row
  <2> QED BY <2>1, <2>2, <2>3 DEF Arrives, LetsGo, Collecting, Standing
<1>17. ASSUME NEW yes \in BOOLEAN, NEW x \in Row, SweepRow(r, x, yes) PROVE Goal
  <2> DEFINE j == [job[r] EXCEPT !.rows = @ \ {x}, !.one = x]
  <2>1. j.rows \subseteq job[r].rows /\ j.one = x /\ j.client = job[r].client
    BY <1>1 DEF Job
  <2>2. pc[r] = "sweep_rows" /\ pc'[r] = "sweep_drop" /\ job'[r] = j /\ x \in job[r].rows
    BY <1>1, <1>17 DEF SweepRow
  <2>3. There(x) => FlowOf(x) \in Flow
    BY DEF There, FlowOf, Row, RowsInv, Standing
  <2>4. ~There(x) \/ password'[FlowOf(x)] = "returned" \/ FlowOf(x) \in unseen'
    BY <1>1, <1>17, <2>3 DEF SweepRow, HandBack, Unread, There
  <2> HIDE DEF j
  <2> QED BY <2>1, <2>2, <2>4 DEF Arrives, LetsGo, Collecting
<1> QED BY <1>2, <1>3, <1>4, <1>5, <1>6, <1>7, <1>8, <1>9, <1>10, <1>11, <1>12, <1>13, <1>14, <1>15,
           <1>16, <1>17 DEF Advance

(* One request moves at most, and it moves so                                *)
LEMMA JobEffects ==
  ASSUME EnrollmentAssumption, TypeInv, [Next]_vars
  PROVE  /\ \A r \in Request : Arrives(r) /\ LetsGo(r)
         /\ \A r, q \in Request : r = q \/ Stays(r) \/ Stays(q)
<1>1. CASE UNCHANGED <<pc, job>>
  BY <1>1 DEF Arrives, LetsGo, Stays
<1>2. ASSUME NEW r \in Request, Start(r) \/ Advance(r) \/ Crash(r)
      PROVE  /\ \A q \in Request : Arrives(q) /\ LetsGo(q)
             /\ \A p, q \in Request : p = q \/ Stays(p) \/ Stays(q)
  <2>1. \A q \in Request : q # r => Stays(q)
    BY <1>2, JobsStep DEF Stays
  <2>2. \A q \in Request : Stays(q) => Arrives(q) /\ LetsGo(q)
    BY DEF Arrives, LetsGo, Stays
  <2>3. Arrives(r) /\ LetsGo(r)
    BY <1>2, StartsArrive, AdvancesArrive
  <2> QED BY <2>1, <2>2, <2>3
<1>3. CASE Tick \/ (\E f \in Flow : GrantAccess(f))
           \/ (\E b \in Browser, f \in Flow, x \in Tx : StartSignIn(b, f, x))
  BY <1>1, <1>3 DEF Tick, GrantAccess, StartSignIn
<1> QED BY <1>1, <1>2, <1>3 DEF Next, vars

-----------------------------------------------------------------------------
(* The password: once it was collected, one request has it, or it is        *)
(* written down, or Nextcloud was asked to take it back                      *)
GivenUp(f) == password[f] = "returned" \/ f \in unseen

PasswordInv ==
  /\ \A f \in Flow : password[f] = "none" <=> nextcloud[f] \in {"none", "waiting"}
  /\ \A r \in Request : pc[r] \in Opening =>
       /\ nextcloud[job[r].flow] = "none"
       /\ \A q \in Request : pc[q] \in Opening /\ job[q].flow = job[r].flow => q = r

(* One request collects it, before any row carries it *)
CollectedInv ==
  /\ \A f \in Flow : holding[f].state # "none" => nextcloud[f] = "collected"
  /\ \A r \in Request : pc[r] \in Collecting =>
       /\ nextcloud[job[r].flow] = "collected" /\ holding[job[r].flow].state = "none"
       /\ \A q \in Request : pc[q] \in Collecting /\ job[q].flow = job[r].flow => q = r
  /\ \A r \in Request : pc[r] \in Settled => holding[job[r].flow].state # "none"
  /\ \A b \in Binding : binding[b].state # "none" => holding[binding[b].flow].state # "none"
  /\ \A r \in Request : pc[r] = "end_call" =>
       binding[job[r].binding].state # "none" /\ binding[job[r].binding].flow = job[r].flow

(* What a request is about to delete was given up before, or is gone, or    *)
(* has a binding beside it                                                  *)
DroppedInv ==
  \A r \in Request :
    /\ pc[r] = "drop" =>
         \/ GivenUp(job[r].flow)
         \/ \E b \in Binding : Standing(b) /\ binding[b].flow = job[r].flow
    /\ pc[r] = "sweep_drop" => GivenUp(FlowOf(job[r].one)) \/ ~There(job[r].one)

(* What a sweep has listed was written, and a binding is listed only under  *)
(* its client that runs out                                                  *)
ListedInv ==
  \A r \in Request :
    /\ job[r].one # None => pc[r] = "sweep_drop"
    /\ \A x \in Row : x \in job[r].rows \/ x = job[r].one =>
         /\ x \in Flow => holding[x].state # "none"
         /\ x \in Binding => binding[x].state # "none" /\ job[r].client = Bound

CustodyInv == PasswordInv /\ CollectedInv /\ ListedInv /\ DroppedInv /\ Accounted

(* Who asks Nextcloud to take a password back has collected it before        *)
LEMMA AskedForWasCollected ==
  ASSUME EnrollmentAssumption, TypeInv, CustodyInv, NEW f \in Flow, AskedFor(f)
  PROVE  nextcloud[f] = "collected"
<1> USE DEF CustodyInv, CollectedInv
<1>1. ASSUME NEW r \in Request, job[r].flow = f, At(r, "return") \/ At(r, "twin")
      PROVE  nextcloud[f] = "collected"
  BY <1>1 DEF At, Collecting, Settled
<1>2. ASSUME NEW r \in Request, At(r, "end_call"), job[r].flow = f PROVE nextcloud[f] = "collected"
  <2>1. job[r].binding \in Binding
    BY <1>2 DEF At, TypeInv, JobsInv, JobBound
  <2> QED BY <1>2, <2>1 DEF At
<1>3. ASSUME NEW x \in Row, There(x), FlowOf(x) = f PROVE nextcloud[f] = "collected"
  BY <1>3 DEF There, FlowOf, Row, Held, Standing
<1> QED BY <1>1, <1>2, <1>3 DEF AskedFor

(* What was collected or given up stays so, and a row that was written or    *)
(* deleted is not undone                                                     *)
LEMMA NothingIsUndone ==
  ASSUME EnrollmentAssumption, TypeInv, CustodyInv, [Next]_vars
  PROVE  /\ \A f \in Flow : nextcloud[f] = "collected" => nextcloud'[f] = "collected"
         /\ \A f \in Flow : GivenUp(f) => GivenUp(f)'
         /\ \A f \in Flow : holding[f].state # "none" => holding'[f].state # "none"
         /\ \A f \in Flow : holding[f].state = "gone" => holding'[f].state = "gone"
         /\ \A b \in Binding : binding[b].state # "none" => binding'[b].state # "none" /\ SameBinding(b)
         /\ \A b \in Binding : binding[b].state = "gone" => binding'[b].state = "gone"
<1>1. /\ \A f \in Flow : CollectMoves(f) /\ PasswordMoves(f)
      /\ unseen \subseteq unseen'
  BY PasswordEffects
<1>2. /\ \A f \in Flow : HoldingMoves(f)
      /\ \A b \in Binding : BindingMoves(b)
  BY RowEffects
<1>3. \A f \in Flow : nextcloud[f] = "collected" => nextcloud'[f] = "collected"
  BY <1>1 DEF CollectMoves, CustodyInv, PasswordInv, Opening
<1>4. \A f \in Flow : GivenUp(f) => GivenUp(f)'
  BY <1>1 DEF PasswordMoves, CustodyInv, PasswordInv, GivenUp
<1>5. \A f \in Flow : /\ holding[f].state # "none" => holding'[f].state # "none"
                      /\ holding[f].state = "gone" => holding'[f].state = "gone"
  BY <1>2 DEF HoldingMoves, Held
<1>6. \A b \in Binding : /\ binding[b].state # "none" => binding'[b].state # "none" /\ SameBinding(b)
                         /\ binding[b].state = "gone" => binding'[b].state = "gone"
  BY <1>2 DEF BindingMoves, Standing
<1> QED BY <1>3, <1>4, <1>5, <1>6

(* A password is minted by the one sign-in of its flow                       *)
LEMMA PasswordStep ==
  ASSUME EnrollmentAssumption, TypeInv, CustodyInv, [Next]_vars
  PROVE  PasswordInv'
<1>1. ASSUME NEW f \in Flow PROVE (password[f] = "none" <=> nextcloud[f] \in {"none", "waiting"})'
  <2>1. CollectMoves(f) /\ PasswordMoves(f)
    BY PasswordEffects
  <2>2. /\ password[f] = "none" <=> nextcloud[f] \in {"none", "waiting"}
        /\ AskedFor(f) => nextcloud[f] = "collected"
    BY AskedForWasCollected DEF CustodyInv, PasswordInv
  <2>3. \A r \in Request : pc[r] = "begin_flow" /\ job[r].flow = f => nextcloud[f] = "none"
    BY DEF CustodyInv, PasswordInv, Opening
  <2>4. GrantAccess(f) => password'[f] = "valid" /\ nextcloud'[f] = "granted"
    BY DEF GrantAccess, TypeInv, OutsideInv
  <2> QED BY <2>1, <2>2, <2>3, <2>4 DEF CollectMoves, PasswordMoves
<1>2. ASSUME NEW r \in Request, pc'[r] \in Opening PROVE
        \/ BeginEnrollment(r, job'[r].flow) /\ job'[r].flow \in Flow /\ ~Stays(r)
        \/ pc[r] \in Opening /\ job'[r] = job[r]
  <2>1. Arrives(r)
    BY JobEffects
  <2>2. BeginEnrollment(r, job'[r].flow) => pc[r] = "idle"
    BY DEF BeginEnrollment, Begin, At
  <2>3. JobsInv
    BY DEF TypeInv
  <2> QED BY <1>2, <2>1, <2>2, <2>3 DEF Arrives, Stays, Opening, Elsewhere, Collecting, Settled
<1>3. ASSUME NEW r \in Request, pc'[r] \in Opening PROVE nextcloud'[job'[r].flow] = "none"
  <2>1. ASSUME NEW f \in Flow, BeginEnrollment(r, f) PROVE nextcloud'[f] = "none"
    BY <2>1 DEF BeginEnrollment, outside
  <2>2. CASE pc[r] \in Opening /\ job'[r] = job[r]
    <3> DEFINE f == job[r].flow
    <3>1. f \in Flow /\ nextcloud[f] = "none"
      BY <2>2 DEF TypeInv, JobsInv, JobBound, Opening, Sweeping, CustodyInv, PasswordInv
    <3>2. \A q \in Request : pc[q] = "begin_flow" /\ job[q].flow = f => q = r
      BY <2>2 DEF CustodyInv, PasswordInv, Opening
    <3>3. CollectMoves(f)
      BY <3>1, PasswordEffects
    <3> QED BY <1>3, <2>2, <3>1, <3>2, <3>3 DEF CollectMoves, Opening
  <2> QED BY <1>2, <1>3, <2>1, <2>2
<1>4. ASSUME NEW r \in Request, NEW q \in Request, pc'[r] \in Opening, pc'[q] \in Opening,
             job'[q].flow = job'[r].flow
      PROVE  q = r
  <2>1. r = q \/ Stays(r) \/ Stays(q)
    BY JobEffects
  <2>2. ASSUME NEW p \in Request, NEW f \in Flow, BeginEnrollment(p, f)
        PROVE  \A o \in Request : job[o].flow # f
    BY <2>2 DEF BeginEnrollment
  <2>3. CASE pc[r] \in Opening /\ job'[r] = job[r] /\ pc[q] \in Opening /\ job'[q] = job[q]
    BY <1>4, <2>3 DEF CustodyInv, PasswordInv
  <2> QED BY <1>2, <1>4, <2>1, <2>2, <2>3
<1> QED BY <1>1, <1>3, <1>4 DEF PasswordInv

(* One poll collects it, and the holding row is written by who collected     *)
LEMMA CollectedStep ==
  ASSUME EnrollmentAssumption, TypeInv, CustodyInv, [Next]_vars
  PROVE  CollectedInv'
<1>1. CollectedInv
  BY DEF CustodyInv
<1>2. ASSUME NEW f \in Flow, holding'[f].state # "none" PROVE nextcloud'[f] = "collected"
  <2>1. HoldingMoves(f)
    BY RowEffects
  <2>2. \A r \in Request : Hold(r, TRUE) => pc[r] = "hold"
    BY DEF Hold, At
  <2>3. nextcloud[f] = "collected"
    BY <1>1, <1>2, <2>1, <2>2 DEF HoldingMoves, CollectedInv, Collecting, Held
  <2> QED BY <2>3, NothingIsUndone
<1>3. ASSUME NEW f \in Flow, NEW r \in Request, holding[f].state = "none", holding'[f].state # "none",
             Hold(r, TRUE), job[r].flow = f
      PROVE  pc[r] = "hold" /\ pc'[r] = "identify"
  BY <1>3 DEF Hold, At, To, Goto, TypeInv, JobsInv
<1>4. ASSUME NEW r \in Request, pc'[r] \in Collecting
      PROVE  \/ pc[r] \in Collecting /\ job'[r] = job[r]
             \/ pc[r] = "poll" /\ nextcloud[job[r].flow] = "granted" /\ job'[r] = job[r]
                  /\ nextcloud'[job[r].flow] = "collected"
  <2>1. Arrives(r)
    BY JobEffects
  <2> QED BY <1>4, <2>1 DEF Arrives, Stays, Opening, Elsewhere, Collecting, Settled
<1>5. ASSUME NEW r \in Request, pc'[r] \in Collecting
      PROVE  nextcloud'[job'[r].flow] = "collected" /\ holding'[job'[r].flow].state = "none"
  <2> DEFINE f == job[r].flow
  <2>1. f \in Flow /\ job'[r] = job[r]
    BY <1>4, <1>5 DEF TypeInv, JobsInv, JobBound, Collecting, Sweeping
  <2>2. holding[f].state = "none" /\ nextcloud'[f] = "collected"
    BY <1>1, <1>4, <1>5, <2>1, NothingIsUndone DEF CollectedInv
  <2>3. HoldingMoves(f)
    BY <2>1, RowEffects
  <2>4. ASSUME NEW q \in Request, Hold(q, TRUE), job[q].flow = f, holding'[f].state # "none" PROVE FALSE
    <3>1. pc[q] = "hold" /\ pc'[q] = "identify"
      BY <1>3, <2>1, <2>2, <2>4
    <3>2. nextcloud[f] = "collected" /\ pc[q] \in Collecting
      BY <1>1, <2>4, <3>1 DEF CollectedInv, Collecting
    <3>3. pc[r] \in Collecting
      BY <1>4, <1>5, <3>2
    <3>4. q = r
      BY <1>1, <2>4, <3>2, <3>3 DEF CollectedInv
    <3> QED BY <1>5, <3>1, <3>4 DEF Collecting
  <2> QED BY <2>1, <2>2, <2>3, <2>4 DEF HoldingMoves, Held
<1>6. ASSUME NEW r \in Request, NEW q \in Request, pc'[r] \in Collecting, pc'[q] \in Collecting,
             job'[q].flow = job'[r].flow
      PROVE  q = r
  <2>1. r = q \/ Stays(r) \/ Stays(q)
    BY JobEffects
  <2>2. CASE pc[r] \in Collecting /\ pc[q] \in Collecting
    BY <1>1, <1>4, <1>6, <2>2 DEF CollectedInv
  <2>3. \A p \in Request : pc[p] \in Collecting => nextcloud[job[p].flow] = "collected"
    BY <1>1 DEF CollectedInv
  <2> QED BY <1>4, <1>6, <2>1, <2>2, <2>3 DEF Stays
<1>7. ASSUME NEW r \in Request, pc'[r] \in Settled PROVE holding'[job'[r].flow].state # "none"
  <2>1. Arrives(r)
    BY JobEffects
  <2>2. job'[r] = job[r] /\ (pc[r] \in Settled \/ (pc[r] = "settle" /\ Held(job[r].flow)))
    BY <1>7, <2>1 DEF Arrives, Stays, Opening, Elsewhere, Collecting, Settled
  <2>3. job[r].flow \in Flow /\ holding[job[r].flow].state # "none"
    BY <1>1, <2>2 DEF CollectedInv, TypeInv, JobsInv, JobBound, Settled, Sweeping, Held
  <2> QED BY <2>2, <2>3, NothingIsUndone
<1>8. ASSUME NEW b \in Binding, binding'[b].state # "none"
      PROVE  holding'[binding'[b].flow].state # "none"
  <2>1. BindingMoves(b)
    BY RowEffects
  <2>2. CASE binding[b].state # "none"
    <3>1. binding'[b].flow = binding[b].flow /\ binding[b].flow \in Flow
      BY <2>2, NothingIsUndone DEF SameBinding, TypeInv, RowsInv
    <3> QED BY <1>1, <2>2, <3>1, NothingIsUndone DEF CollectedInv
  <2>3. ASSUME NEW r \in Request, Bind(r, b, TRUE), binding'[b].flow = job[r].flow
        PROVE  holding'[binding'[b].flow].state # "none"
    <3>1. pc[r] \in Settled /\ job[r].flow \in Flow
      BY <2>3 DEF Bind, At, Settled, TypeInv, JobsInv, JobBound, Sweeping
    <3> QED BY <1>1, <2>3, <3>1, NothingIsUndone DEF CollectedInv
  <2> QED BY <1>8, <2>1, <2>2, <2>3 DEF BindingMoves, Standing
<1>9. ASSUME NEW r \in Request, pc'[r] = "end_call"
      PROVE  /\ binding'[job'[r].binding].state # "none"
             /\ binding'[job'[r].binding].flow = job'[r].flow
  <2>1. Arrives(r)
    BY JobEffects
  <2> DEFINE b == job'[r].binding
  <2>2. b \in Binding /\ binding[b].state # "none" /\ job'[r].flow = binding[b].flow
    <3>1. pc[r] = "end_call" => job[r].binding \in Binding
      BY DEF TypeInv, JobsInv, JobBound
    <3> QED BY <1>1, <1>9, <2>1, <3>1 DEF Arrives, Stays, Opening, Elsewhere, Collecting, Settled, Living,
            Standing, CollectedInv
  <2> QED BY <2>2, NothingIsUndone DEF SameBinding
<1> QED BY <1>2, <1>5, <1>6, <1>7, <1>8, <1>9 DEF CollectedInv

(* A sweep lists what stands, and bindings only under their client           *)
LEMMA ListedStep ==
  ASSUME EnrollmentAssumption, TypeInv, CustodyInv, [Next]_vars
  PROVE  ListedInv'
<1>1. ListedInv
  BY DEF CustodyInv
<1> DEFINE Fits(x, c) == /\ x \in Flow => holding[x].state # "none"
                         /\ x \in Binding => binding[x].state # "none" /\ c = Bound
<1>2. ASSUME NEW r \in Request
      PROVE  /\ job'[r].one # None => pc'[r] = "sweep_drop"
             /\ \A x \in Row : x \in job'[r].rows \/ x = job'[r].one => Fits(x, job'[r].client)
  <2>0. /\ None \notin Row /\ Flow \cap Binding = {} /\ Excepted = Binding
        /\ NoJob.rows = {} /\ NoJob.one = None /\ Holding # Bound
    BY DEF EnrollmentAssumption, Row, Excepted, NoJob, Holding, Bound
  <2>1. Arrives(r)
    BY JobEffects
  <2>2. \A x \in AbandonedRows : Fits(x, job'[r].client)
    BY <2>0 DEF AbandonedRows, Held
  <2>3. \A c \in Reserved : \A x \in RowsOf(c) : Fits(x, c)
    BY <2>0 DEF RowsOf, Held, Standing, Reserved
  <2>4. /\ job[r].one # None => pc[r] = "sweep_drop"
        /\ \A x \in Row : x \in job[r].rows \/ x = job[r].one => Fits(x, job[r].client)
    BY <1>1 DEF ListedInv
  <2> HIDE DEF Fits
  <2>5. CASE Stays(r)
    BY <2>4, <2>5 DEF Stays
  <2>6. CASE Unlisted(job'[r]) \/ job'[r] = NoJob
    BY <2>0, <2>6 DEF Unlisted
  <2>7. CASE pc[r] # "sweep_drop" /\ (Carries(r) \/ job'[r] = job[r])
    BY <2>4, <2>7 DEF Carries
  <2>8. CASE pc'[r] = "sweep_rows" /\ job'[r].rows = AbandonedRows /\ job'[r].one = None
    BY <2>0, <2>2, <2>8
  <2>9. CASE /\ pc[r] = "sweep_rows" /\ pc'[r] = "sweep_drop" /\ job'[r].one \in job[r].rows
             /\ job'[r].rows \subseteq job[r].rows /\ job'[r].client = job[r].client
    BY <2>4, <2>9
  <2>10. CASE /\ job'[r].rows = job[r].rows /\ job'[r].one = None /\ job'[r].client = job[r].client
    BY <2>0, <2>4, <2>10
  <2>11. CASE /\ pc[r] = "sweep_rows" /\ job'[r].rows = {} /\ job'[r].one = job[r].one
    BY <2>0, <2>4, <2>11
  <2>12. CASE /\ pc[r] = "sweep_clients" /\ job'[r].one = job[r].one /\ job'[r].client \in Reserved
              /\ job'[r].rows \subseteq RowsOf(job'[r].client)
    BY <2>0, <2>3, <2>4, <2>12
  <2> QED BY <2>1, <2>5, <2>6, <2>7, <2>8, <2>9, <2>10, <2>11, <2>12
        DEF Arrives, Opening, Collecting, Settled, Sweeping
<1>3. ASSUME NEW x \in Row, NEW c, Fits(x, c)
      PROVE  /\ x \in Flow => holding'[x].state # "none"
             /\ x \in Binding => binding'[x].state # "none" /\ c = Bound
  BY <1>3, NothingIsUndone
<1> HIDE DEF Fits
<1> QED BY <1>2, <1>3 DEF ListedInv

(* A binding that goes was given up before, or is from here on               *)
LEMMA BindingGivenUp ==
  ASSUME EnrollmentAssumption, TypeInv, CustodyInv, [Next]_vars,
         NEW b \in Binding, Standing(b), ~Standing(b)'
  PROVE  password'[binding[b].flow] = "returned" \/ binding[b].flow \in unseen'
<1>1. BindingMoves(b)
  BY RowEffects
<1>2. binding[b].flow \in Flow /\ b \notin Flow /\ b \in Row
  BY DEF TypeInv, RowsInv, Standing, EnrollmentAssumption, Row
<1>3. ASSUME NEW r \in Request, SweepDrop(r), job[r].one = b
      PROVE  password'[binding[b].flow] = "returned" \/ binding[b].flow \in unseen'
  <2>1. GivenUp(FlowOf(b)) \/ ~There(b)
    BY <1>3 DEF SweepDrop, At, CustodyInv, DroppedInv
  <2>2. GivenUp(binding[b].flow)
    BY <1>2, <2>1 DEF FlowOf, There
  <2> QED BY <1>2, <2>2, NothingIsUndone DEF GivenUp
<1> QED BY <1>1, <1>3 DEF BindingMoves, Standing

(* What is about to be deleted is given up, or something else has it         *)
LEMMA DroppedStep ==
  ASSUME EnrollmentAssumption, TypeInv, CustodyInv, [Next]_vars
  PROVE  DroppedInv'
<1>1. DroppedInv
  BY DEF CustodyInv
<1>2. ASSUME NEW r \in Request, pc'[r] = "drop"
      PROVE  \/ password'[job'[r].flow] = "returned" \/ job'[r].flow \in unseen'
             \/ \E b \in Binding : Standing(b)' /\ binding'[b].flow = job'[r].flow
  <2> DEFINE f == job[r].flow
  <2>1. Arrives(r)
    BY JobEffects
  <2>2. /\ pc[r] \in {"twin", "bind", "drop"} /\ job'[r] = job[r]
        /\ pc[r] = "twin" => password'[f] = "returned" \/ f \in unseen'
        /\ pc[r] = "bind" => \E b \in Binding : Standing(b)' /\ binding'[b].flow = f
    BY <1>2, <2>1 DEF Arrives, Stays, Opening, Elsewhere, Collecting, Settled
  <2>3. f \in Flow
    BY <2>2 DEF TypeInv, JobsInv, JobBound, Sweeping
  <2>4. CASE pc[r] = "drop"
    <3>1. CASE GivenUp(f)
      <4>1. password'[f] = "returned" \/ f \in unseen'
        BY <2>3, <3>1, NothingIsUndone DEF GivenUp
      <4> QED BY <2>2, <4>1
    <3>2. ASSUME NEW b \in Binding, Standing(b), binding[b].flow = f
          PROVE  (Standing(b)' /\ binding'[b].flow = f) \/ password'[f] = "returned" \/ f \in unseen'
      <4>1. binding'[b].flow = f
        BY <3>2, NothingIsUndone DEF SameBinding, Standing
      <4> QED BY <3>2, <4>1, BindingGivenUp DEF GivenUp
    <3> QED BY <1>1, <2>2, <2>4, <3>1, <3>2 DEF DroppedInv, GivenUp
  <2> QED BY <2>2, <2>4 DEF GivenUp
<1>3. ASSUME NEW r \in Request, pc'[r] = "sweep_drop"
      PROVE  (GivenUp(FlowOf(job[r].one)) \/ ~There(job[r].one))'
  <2> DEFINE x == job'[r].one
  <2>1. Arrives(r)
    BY JobEffects
  <2>2. /\ x \in Row /\ (x \in job[r].rows \/ x = job[r].one)
        /\ \/ GivenUp(FlowOf(x)) \/ ~There(x)
           \/ password'[FlowOf(x)] = "returned" \/ FlowOf(x) \in unseen'
    <3>1. pc[r] = "sweep_drop" => job[r].one \in Row
      BY DEF TypeInv, JobsInv, JobBound
    <3> QED BY <1>1, <1>3, <2>1, <3>1
          DEF Arrives, Stays, Opening, Elsewhere, Collecting, Settled, DroppedInv
  <2>3. x \in Flow => holding[x].state # "none" /\ FlowOf(x) = x
    BY <2>2 DEF CustodyInv, ListedInv, FlowOf
  <2>4. x \in Binding => x \notin Flow /\ binding[x].state # "none" /\ FlowOf(x) = binding[x].flow
    BY <2>2 DEF CustodyInv, ListedInv, FlowOf, EnrollmentAssumption
  <2>5. CASE x \in Flow
    <3>1. GivenUp(x) \/ holding[x].state = "gone" \/ password'[x] = "returned" \/ x \in unseen'
      BY <2>2, <2>3, <2>5 DEF There, Held, TypeInv, RowsInv, HoldingRow
    <3>2. password'[x] = "returned" \/ x \in unseen' \/ holding'[x].state = "gone"
      BY <2>5, <3>1, NothingIsUndone DEF GivenUp
    <3> QED BY <2>5, <3>2 DEF FlowOf, There, Held, GivenUp
  <2>6. CASE x \in Binding
    <3> DEFINE f == binding[x].flow
    <3>1. f \in Flow /\ binding'[x].flow = f
      BY <2>4, <2>6, NothingIsUndone DEF SameBinding, TypeInv, RowsInv
    <3>2. GivenUp(f) \/ binding[x].state = "gone" \/ password'[f] = "returned" \/ f \in unseen'
      BY <2>2, <2>4, <2>6 DEF There, Standing, TypeInv, RowsInv, BindingRow
    <3>3. password'[f] = "returned" \/ f \in unseen' \/ binding'[x].state = "gone"
      BY <2>6, <3>1, <3>2, NothingIsUndone DEF GivenUp
    <3> QED BY <2>4, <2>6, <3>1, <3>3 DEF FlowOf, There, Standing, GivenUp
  <2> QED BY <2>2, <2>5, <2>6 DEF Row
<1> QED BY <1>2, <1>3 DEF DroppedInv, GivenUp, Standing

(* So a password that works always has a record                              *)
LEMMA AccountedStep ==
  ASSUME EnrollmentAssumption, TypeInv, CustodyInv, [Next]_vars
  PROVE  Accounted'
<1> DEFINE Kept(f) == \/ f \in unseen' \/ nextcloud'[f] = "granted" \/ Held(f)'
                      \/ \E b \in Binding : Standing(b)' /\ binding'[b].flow = f
                      \/ \E r \in Request : InHand(r, f)'
<1> SUFFICES ASSUME NEW f \in Flow, password'[f] = "valid"
             PROVE  Kept(f)
  BY DEF Accounted
<1>1. CollectMoves(f) /\ PasswordMoves(f) /\ HoldingMoves(f) /\ unseen \subseteq unseen'
  BY PasswordEffects, RowEffects
<1>2. CASE password[f] # "valid"
  BY <1>1, <1>2 DEF PasswordMoves
<1>3. CASE password[f] = "valid"
  <2>1. GivenUp(f) => f \in unseen'
    BY <1>1, <1>3 DEF GivenUp
  <2>2. CASE nextcloud[f] = "granted"
    <3>1. ASSUME NEW r \in Request, job[r].flow = f, pc'[r] = "vet", job'[r] = job[r] PROVE InHand(r, f)'
      BY <3>1 DEF InHand
    <3> QED BY <1>1, <2>2, <3>1 DEF CollectMoves, CustodyInv, PasswordInv, Opening
  <2>3. ASSUME NEW b \in Binding, Standing(b), binding[b].flow = f PROVE Kept(f)
    <3>1. binding'[b].flow = f
      BY <2>3, NothingIsUndone DEF SameBinding, Standing
    <3> QED BY <2>3, <3>1, BindingGivenUp DEF GivenUp
  <2>4. CASE Held(f)
    <3>1. ASSUME NEW r \in Request, DropHolding(r, TRUE), job[r].flow = f PROVE Kept(f)
      BY <2>1, <2>3, <3>1 DEF DropHolding, At, CustodyInv, DroppedInv
    <3>2. ASSUME NEW r \in Request, SweepDrop(r), job[r].one = f PROVE Kept(f)
      BY <2>1, <2>4, <3>2 DEF SweepDrop, At, CustodyInv, DroppedInv, FlowOf, There
    <3> HIDE DEF Kept
    <3>3. f \in unseen' \/ Held(f)' => Kept(f)
      BY DEF Kept
    <3> QED BY <1>1, <2>4, <3>1, <3>2, <3>3 DEF HoldingMoves, Held
  <2>5. ASSUME NEW r \in Request, InHand(r, f) PROVE Kept(f)
    <3>1. LetsGo(r)
      BY JobEffects
    <3>2. pc[r] \in Collecting /\ job[r].flow = f
      BY <2>5 DEF InHand, Collecting
    <3>3. CASE pc'[r] \in Collecting /\ job'[r] = job[r]
      <4>1. InHand(r, f)'
        BY <3>2, <3>3 DEF InHand, Collecting
      <4> QED BY <4>1
    <3> QED BY <3>1, <3>2, <3>3 DEF LetsGo, Held
  <2> HIDE DEF Kept
  <2>6. f \in unseen => Kept(f)
    BY <1>1 DEF Kept
  <2> QED BY <1>3, <2>2, <2>3, <2>4, <2>5, <2>6 DEF CustodyInv, Accounted
<1> QED BY <1>2, <1>3

LEMMA CustodyInitially ==
  ASSUME EnrollmentAssumption, Init
  PROVE  CustodyInv
<1> USE DEF Init
<1>1. PasswordInv
  BY DEF PasswordInv, Opening
<1>2. CollectedInv
  BY DEF CollectedInv, NoBinding, Collecting, Settled
<1>3. ListedInv
  BY DEF ListedInv, NoJob, EnrollmentAssumption, Row
<1>4. DroppedInv
  BY DEF DroppedInv
<1>5. Accounted
  BY DEF Accounted
<1> QED BY <1>1, <1>2, <1>3, <1>4, <1>5 DEF CustodyInv

LEMMA CustodyStays ==
  ASSUME EnrollmentAssumption, TypeInv /\ CustodyInv, [Next]_vars
  PROVE  (TypeInv /\ CustodyInv)'
BY TypesStay, PasswordStep, CollectedStep, ListedStep, DroppedStep, AccountedStep DEF CustodyInv

(* Accounted: an app password that works at Nextcloud has a record by which *)
(* somebody can give it back, whatever crashes, is lost or fails to be      *)
(* written, but for the passwords whose loss is recorded one by one.        *)
THEOREM NoPasswordIsForgotten == ASSUME EnrollmentAssumption PROVE Spec => []Accounted
<1>1. Init => TypeInv /\ CustodyInv
  BY TypesInitially, CustodyInitially
<1>2. TypeInv /\ CustodyInv /\ [Next]_vars => (TypeInv /\ CustodyInv)'
  BY CustodyStays
<1>3. CustodyInv => Accounted
  BY DEF CustodyInv
<1> QED BY <1>1, <1>2, <1>3, PTL DEF Spec

(* KeptUntilEnded: no step takes a living binding or gives its password     *)
(* back, but the expiry of the bindings' client, and a request that returns *)
(* the password of an enrollment that it settles or ends itself.            *)
THEOREM NoLivingBindingIsEnded == ASSUME EnrollmentAssumption PROVE Spec => KeptUntilEnded
<1>1. ASSUME EnrollmentAssumption, TypeInv, CustodyInv, Next, NEW b \in Binding, Living(b)
      PROVE  LET f == binding[b].flow
                 expiring == \E r \in Request : job[r].client = Bound
             IN /\ binding'[b].state # "here" => expiring
                /\ password'[f] # password[f] => expiring \/ Held(f) \/ ReturningItsOwn(f)
  <2> DEFINE f == binding[b].flow
             expiring == \E r \in Request : job[r].client = Bound
  <2>1. /\ f \in Flow /\ b \in Row /\ binding[b].state = "here" /\ Flow \cap Binding = {}
        /\ holding[f].state # "none" /\ nextcloud[f] = "collected"
    BY <1>1 DEF Living, Standing, TypeInv, RowsInv, Row, CustodyInv, CollectedInv, EnrollmentAssumption
  <2>2. BindingMoves(b) /\ PasswordMoves(f)
    BY <1>1, <2>1, RowEffects, PasswordEffects
  <2>3. \A r \in Request : SweepDrop(r) /\ job[r].one = b => job[r].client = Bound
    BY <1>1, <2>1 DEF CustodyInv, ListedInv
  <2>4. binding'[b].state # "here" => expiring
    BY <2>1, <2>2, <2>3 DEF BindingMoves
  <2>5. AskedFor(f) => expiring \/ Held(f) \/ ReturningItsOwn(f)
    <3>1. \A r \in Request : ~(job[r].flow = f /\ At(r, "return"))
      BY <1>1, <2>1 DEF CustodyInv, CollectedInv, Collecting, At
    <3>2. ASSUME NEW r \in Request, NEW x \in Row, x \in job[r].rows, There(x), FlowOf(x) = f
          PROVE  expiring \/ Held(f)
      BY <1>1, <2>1, <3>2 DEF CustodyInv, ListedInv, There, FlowOf, Row
    <3> QED BY <3>1, <3>2 DEF AskedFor, ReturningItsOwn, At
  <2> QED BY <2>1, <2>2, <2>4, <2>5 DEF PasswordMoves
<1>2. ASSUME EnrollmentAssumption, TypeInv /\ CustodyInv, [Next]_vars PROVE [EndsNoLivingBinding]_vars
  BY <1>1, <1>2 DEF EndsNoLivingBinding, Standing
<1>3. Init => TypeInv /\ CustodyInv
  BY TypesInitially, CustodyInitially
<1>4. TypeInv /\ CustodyInv /\ [Next]_vars => (TypeInv /\ CustodyInv)'
  BY CustodyStays
<1> QED BY <1>2, <1>3, <1>4, PTL DEF Spec, KeptUntilEnded

-----------------------------------------------------------------------------
(* The sign-in: a transaction is of one browser, and what came of it is in  *)
(* one place                                                                 *)
Uses(b, x) ==
  \/ x \in mine[b] \/ cookie[b] = x
  \/ \E r \in Request : pc[r] \in Confirming /\ job[r].browser = b /\ job[r].via = x

InJob(r, x) == pc[r] \in Confirming \cup Settling /\ job[r].via = x
InProof(f, x) == proof[f].via = x
InBinding(b, x) == binding[b].state # "none" /\ binding[b].via = x

BrowserInv ==
  /\ \A x \in Tx : \A b, c \in Browser : Uses(b, x) /\ Uses(c, x) => b = c
  /\ \A x \in Tx : \A b \in Browser : Uses(b, x) => tx[x].state # "none"
  /\ \A f \in Flow : \A x \in Tx : \A b \in Browser :
       InProof(f, x) /\ Uses(b, x) => proof[f].principal = SignsInAs[b]
  /\ \A r \in Request : pc[r] \in Settling => SignsInAs[job[r].browser] = AccountOf[job[r].flow]

OnceInv ==
  \A x \in Tx :
    /\ \A r \in Request : InJob(r, x) =>
         /\ tx[x].state = "gone" /\ x \notin misused
         /\ \A q \in Request : InJob(q, x) => q = r
         /\ \A f \in Flow : ~InProof(f, x)
         /\ \A b \in Binding : ~InBinding(b, x)
    /\ \A f \in Flow : InProof(f, x) =>
         /\ tx[x].state = "gone" /\ x \notin misused
         /\ \A g \in Flow : InProof(g, x) => g = f
         /\ \A b \in Binding : ~InBinding(b, x)
    /\ \A b \in Binding : InBinding(b, x) =>
         /\ tx[x].state = "gone" /\ x \notin misused
         /\ \A c \in Binding : InBinding(c, x) => c = b
    /\ x \in misused => tx[x].state = "gone"

UnsignedInv == \A b \in Binding : binding[b].state = "none" => binding[b].via = None

EarnedInv == BrowserInv /\ OnceInv /\ UnsignedInv /\ BoundByItsOwner

(* What a step may do to a transaction, a proof and a browser's cookies      *)
TxMoves(x) ==
  \/ tx'[x].state = tx[x].state /\ (x \in misused' => x \in misused)
  \/ /\ tx[x].state = "none" /\ tx'[x].state = "open" /\ misused' = misused
     /\ \E b \in Browser, f \in Flow : StartSignIn(b, f, x)
  \/ tx[x].state = "open" /\ tx'[x].state = "gone"
ProofMoves(f) ==
  \/ proof'[f] = proof[f] \/ proof'[f] = NoProof
  \/ \E r \in Request : /\ pc[r] = "prove" /\ pc'[r] = "idle" /\ job[r].flow = f
                        /\ proof'[f].via = job[r].via
                        /\ proof'[f].principal = SignsInAs[job[r].browser]
CookieMoves(b) ==
  /\ \/ cookie'[b] = cookie[b]
     \/ \E r \in Request : pc[r] = "prove" /\ job[r].browser = b /\ cookie'[b] = job[r].via
  /\ \A x \in mine'[b] : x \in mine[b] \/ \E f \in Flow : StartSignIn(b, f, x)

LEMMA OidcEffects ==
  ASSUME EnrollmentAssumption, TypeInv, [Next]_vars
  PROVE  /\ \A x \in Tx : TxMoves(x)
         /\ \A f \in Flow : ProofMoves(f)
         /\ \A b \in Browser : CookieMoves(b)
<1> USE DEF TypeInv
<1>0. /\ tx \in [Tx -> TxRow] /\ proof \in [Flow -> ProofRow] /\ mine \in [Browser -> SUBSET Tx]
      /\ cookie \in [Browser -> Tx \cup {None}] /\ misused \subseteq Tx
      /\ NoTx.state = "gone" /\ JobsInv
  BY DEF OidcInv, NoTx
<1> DEFINE Goal == /\ \A x \in Tx : TxMoves(x)
                   /\ \A f \in Flow : ProofMoves(f)
                   /\ \A b \in Browser : CookieMoves(b)
<1>1. CASE UNCHANGED <<oidc, misused>>
  BY <1>1 DEF oidc, TxMoves, ProofMoves, CookieMoves
<1>2. ASSUME NEW b \in Browser, NEW f \in Flow, NEW x \in Tx, StartSignIn(b, f, x) PROVE Goal
  <2> DEFINE left == [y \in Tx |-> IF tx[y].state = "open" /\ tx[y].until <= clock THEN NoTx ELSE tx[y]]
             end == IF flow[f].until < clock + OIDC_TTL THEN flow[f].until ELSE clock + OIDC_TTL
             row == [state |-> "open", flow |-> f, until |-> end]
  <2>1. /\ tx[x].state = "none" /\ tx' = [left EXCEPT ![x] = row] /\ mine' = [mine EXCEPT ![b] = @ \cup {x}]
        /\ UNCHANGED <<proof, cookie, misused>>
    BY <1>2 DEF StartSignIn, history
  <2>2. \A y \in Tx : (tx[y].state = "open" /\ left[y].state = "gone") \/ left[y] = tx[y]
    BY <1>0
  <2>3. row.state = "open"
    OBVIOUS
  <2>4. DOMAIN left = Tx
    OBVIOUS
  <2> HIDE DEF row, left
  <2>5. ASSUME NEW y \in Tx PROVE TxMoves(y)
    <3>1. CASE y = x
      BY <1>2, <2>1, <2>3, <2>4, <3>1 DEF TxMoves
    <3>2. CASE y # x
      BY <2>1, <2>2, <2>4, <3>2 DEF TxMoves
    <3> QED BY <3>1, <3>2
  <2>6. ASSUME NEW c \in Browser PROVE CookieMoves(c)
    BY <1>0, <1>2, <2>1 DEF CookieMoves
  <2> QED BY <2>1, <2>5, <2>6 DEF ProofMoves
<1>3. ASSUME NEW r \in Request, NEW b \in Browser, NEW x \in Tx, Callback(r, b, x) PROVE Goal
  <2>1. /\ tx[x].state = "open" /\ tx' = [tx EXCEPT ![x] = NoTx] /\ UNCHANGED <<proof, mine, cookie>>
        /\ misused' \subseteq misused \cup {x}
    BY <1>3 DEF Callback, SpentAlways
  <2> QED BY <1>0, <2>1 DEF TxMoves, ProofMoves, CookieMoves
<1>4. ASSUME NEW r \in Request, Identify(r) PROVE Goal
  BY <1>0, <1>4 DEF Identify, SpendProof, history, TxMoves, ProofMoves, CookieMoves
<1>5. ASSUME NEW r \in Request, Prove(r) PROVE Goal
  <2> DEFINE g == job[r].flow
             c == job[r].browser
             end == IF flow[g].until < clock + OIDC_TTL THEN flow[g].until ELSE clock + OIDC_TTL
             row == [via |-> job[r].via, principal |-> SignsInAs[c], until |-> end]
  <2>1. /\ pc[r] = "prove" /\ pc'[r] = "idle" /\ UNCHANGED <<tx, misused>>
        /\ \/ proof' = [proof EXCEPT ![g] = NoProof] /\ UNCHANGED <<cookie, mine>>
           \/ /\ proof' = [proof EXCEPT ![g] = row] /\ cookie' = [cookie EXCEPT ![c] = job[r].via]
              /\ mine' = [mine EXCEPT ![c] = {}]
    BY <1>0, <1>5 DEF Prove, At, Done, Goto, JobsInv, history
  <2>2. row.via = job[r].via /\ row.principal = SignsInAs[c]
    OBVIOUS
  <2> HIDE DEF row
  <2>3. ASSUME NEW f \in Flow PROVE ProofMoves(f)
    BY <1>0, <2>1, <2>2 DEF ProofMoves
  <2>4. ASSUME NEW b \in Browser PROVE CookieMoves(b)
    BY <1>0, <2>1 DEF CookieMoves
  <2> QED BY <2>1, <2>3, <2>4 DEF TxMoves
<1>6. ASSUME NEW r \in Request, NEW yes \in BOOLEAN, CreateFlow(r, yes) PROVE Goal
  BY <1>0, <1>6 DEF CreateFlow, TxMoves, ProofMoves, CookieMoves, history
<1>7. ASSUME NEW r \in Request, DeleteClient(r) \/ \E ok \in BOOLEAN : ForgetFlow(r, ok) PROVE Goal
  <2>1. (\E S : WithoutFlows(S)) \/ UNCHANGED <<flow, tx, proof>>
    BY <1>7 DEF DeleteClient, ForgetFlow
  <2>2. UNCHANGED <<mine, cookie, misused>>
    BY <1>7 DEF DeleteClient, ForgetFlow, history
  <2>3. ASSUME NEW S, WithoutFlows(S) PROVE Goal
    BY <2>2, <2>3, DeletedFlows DEF TxMoves, ProofMoves, CookieMoves
  <2> QED BY <1>1, <2>1, <2>2, <2>3 DEF oidc
<1>8. CASE \E r \in Request : Start(r)
  BY <1>1, <1>3, <1>8 DEF Start, BeginEnrollment, Resume, Withdraw, StartSweep, history
<1>9. ASSUME NEW r \in Request, Advance(r) PROVE Goal
  <2> HIDE DEF Goal
  <2>0. UNCHANGED <<oidc, misused>> => Goal
    BY <1>1 DEF Goal
  <2>1. CASE LoadFlow(r) \/ ReadHolding(r) \/ ReadExisting(r) \/ SweepDrop(r) \/ SweepClients(r)
             \/ SweepEnds(r) \/ \E c \in Reserved : ExpireClient(r, c)
    BY <2>0, <2>1 DEF LoadFlow, ReadHolding, ReadExisting, SweepDrop, SweepClients, SweepEnds,
                      ExpireClient, history
  <2>2. CASE \E yes \in BOOLEAN : Poll(r, yes) \/ Vet(r, yes) \/ Return(r, yes) \/ Exchange(r, yes)
                                    \/ ReturnTwin(r, yes) \/ EndCall(r, yes) \/ Hold(r, yes)
                                    \/ DropHolding(r, yes)
    BY <2>0, <2>2 DEF Poll, Vet, Return, Exchange, ReturnTwin, EndCall, Hold, DropHolding, HandBack,
                      history
  <2>3. CASE \E yes \in BOOLEAN : \/ \E x \in Row : SweepRow(r, x, yes)
                                  \/ \E b \in Binding : Bind(r, b, yes)
                                  \/ \E c \in Reserved : SaveClient(r, c, yes) \/ TouchClient(r, c, yes)
    BY <2>0, <2>3 DEF SweepRow, Bind, SaveClient, TouchClient, HandBack, Unread, history
  <2> QED BY <1>4, <1>5, <1>6, <1>7, <1>9, <2>1, <2>2, <2>3 DEF Advance
<1>10. CASE Tick \/ (\E f \in Flow : GrantAccess(f)) \/ \E r \in Request : Crash(r)
  BY <1>10, <1>1 DEF Tick, GrantAccess, Crash, history
<1>11. CASE UNCHANGED vars
  BY <1>11, <1>1 DEF vars, history
<1> QED BY <1>2, <1>8, <1>9, <1>10, <1>11 DEF Next

(* A request comes to a transaction by its callback, and to a confirmation   *)
(* by the proof it spends                                                    *)
CallsBack(r) ==
  LET b == job'[r].browser
      x == job'[r].via
  IN /\ pc[r] = "idle" /\ pc'[r] \in Confirming /\ b \in Browser /\ x \in Tx
     /\ x \in mine[b] /\ tx[x].state = "open" /\ tx'[x].state = "gone" /\ misused' = misused
Identifies(r) ==
  LET b == job[r].browser
      f == job[r].flow
  IN /\ pc[r] = "identify" /\ pc'[r] = "settle" /\ b \in Browser /\ f \in Flow
     /\ job'[r].browser = b /\ job'[r].flow = f /\ job'[r].via = cookie[b] /\ cookie[b] \in Tx
     /\ proof[f].via = cookie[b] /\ proof[f].principal = AccountOf[f] /\ proof'[f] = NoProof
Confirms(r) ==
  pc'[r] \in Confirming \cup Settling =>
    \/ pc[r] \in Confirming /\ pc'[r] \in Confirming /\ job'[r] = job[r]
    \/ pc[r] \in Settling /\ pc'[r] \in Settling /\ job'[r] = job[r]
    \/ CallsBack(r) \/ Identifies(r)

LEMMA ConfirmEffects ==
  ASSUME EnrollmentAssumption, TypeInv, [Next]_vars, NEW r \in Request
  PROVE  Confirms(r)
<1> USE DEF TypeInv, JobsInv, At, Goto, Set, Done, To
<1>0. /\ pc \in [Request -> Step] /\ job \in [Request -> Job] /\ tx \in [Tx -> TxRow]
      /\ NoTx.state = "gone" /\ cookie \in [Browser -> Tx \cup {None}] /\ proof \in [Flow -> ProofRow]
  BY DEF OidcInv, NoTx
<1>1. CASE Stays(r)
  BY <1>1 DEF Stays, Confirms
<1>2. CASE pc'[r] \notin Confirming \cup Settling
  BY <1>2 DEF Confirms
<1>3. ASSUME NEW b \in Browser, NEW x \in Tx, Callback(r, b, x) PROVE Confirms(r)
  <2> DEFINE j == [NoJob EXCEPT !.flow = tx[x].flow, !.browser = b, !.via = x]
  <2>1. j.browser = b /\ j.via = x
    BY DEF NoJob
  <2>2. CASE Stays(r)
    BY <1>1, <2>2
  <2>3. CASE /\ pc[r] = "idle" /\ pc'[r] = "exchange" /\ job'[r] = j /\ x \in mine[b]
             /\ tx[x].state = "open" /\ tx'[x].state = "gone" /\ misused' = misused
    <3> HIDE DEF j
    <3> QED BY <2>1, <2>3 DEF Confirms, CallsBack, Confirming
  <2> QED BY <1>0, <1>3, <2>2, <2>3 DEF Callback, Stays, SpentAlways
<1>4. ASSUME Identify(r) PROVE Confirms(r)
  <2> DEFINE b == job[r].browser
             f == job[r].flow
             j == [job[r] EXCEPT !.via = cookie[b]]
  <2>1. j.browser = b /\ j.flow = f /\ j.via = cookie[b]
    BY <1>0 DEF Job
  <2>2. b \in Browser /\ f \in Flow /\ pc[r] = "identify"
    BY <1>4 DEF Identify, JobBound, Sweeping
  <2>3. \/ pc'[r] = "idle"
        \/ /\ pc'[r] = "settle" /\ job'[r] = j /\ cookie[b] \in Tx /\ proof[f].via = cookie[b]
           /\ proof[f].principal = AccountOf[f] /\ proof'[f] = NoProof
    BY <1>0, <1>4, <2>2 DEF Identify, ProofOf, SpendProof, SamePrincipal
  <2> HIDE DEF j
  <2> QED BY <1>2, <2>1, <2>2, <2>3 DEF Confirms, Identifies, Confirming, Settling
<1>5. ASSUME Start(r) \/ Crash(r) PROVE Confirms(r)
  <2>1. CASE \E b \in Browser, x \in Tx : Callback(r, b, x)
    BY <1>3, <2>1
  <2>2. CASE ~\E b \in Browser, x \in Tx : Callback(r, b, x)
    BY ZenonT(60), <1>0, <1>2, <1>5, <2>2 DEF Start, Begin, BeginEnrollment, Resume, Withdraw, StartSweep, Crash,
           Confirming, Settling
  <2> QED BY <2>1, <2>2
<1>6. ASSUME Advance(r) PROVE Confirms(r)
  <2>1. CASE LoadFlow(r) \/ Prove(r) \/ SweepDrop(r) \/ SweepClients(r) \/ SweepEnds(r) \/ DeleteClient(r)
             \/ \E c \in Reserved : ExpireClient(r, c)
    BY <1>0, <1>2, <2>1 DEF LoadFlow, Prove, SweepDrop, SweepClients, SweepEnds, DeleteClient,
           ExpireClient, Confirming, Settling
  <2>2. CASE ReadHolding(r) \/ ReadExisting(r)
    BY <1>0, <2>2 DEF ReadHolding, ReadExisting, Confirms, Confirming, Settling
  <2>3. ASSUME NEW yes \in BOOLEAN,
               CreateFlow(r, yes) \/ Poll(r, yes) \/ Vet(r, yes) \/ Hold(r, yes) \/ Return(r, yes)
                 \/ ForgetFlow(r, yes) \/ ReturnTwin(r, yes) \/ DropHolding(r, yes) \/ EndCall(r, yes)
        PROVE  Confirms(r)
    BY <1>0, <1>2, <2>3 DEF CreateFlow, Poll, Vet, Hold, Return, ForgetFlow, ReturnTwin, DropHolding,
           EndCall, Confirming, Settling
  <2>4. ASSUME NEW yes \in BOOLEAN, Exchange(r, yes) PROVE Confirms(r)
    BY <1>0, <2>4 DEF Exchange, Confirms, Confirming, Settling
  <2>5. ASSUME NEW yes \in BOOLEAN, NEW c \in Reserved, SaveClient(r, c, yes) \/ TouchClient(r, c, yes)
        PROVE  Confirms(r)
    BY <1>0, <2>5 DEF SaveClient, TouchClient, Confirms, Confirming, Settling
  <2>6. ASSUME NEW yes \in BOOLEAN, NEW b \in Binding, Bind(r, b, yes) PROVE Confirms(r)
    BY <1>0, <1>2, <2>6 DEF Bind, BindElseStop, Confirming, Settling
  <2>7. ASSUME NEW yes \in BOOLEAN, NEW x \in Row, SweepRow(r, x, yes) PROVE Confirms(r)
    BY <1>0, <1>2, <2>7 DEF SweepRow, Confirming, Settling
  <2> QED BY <1>4, <1>6, <2>1, <2>2, <2>3, <2>4, <2>5, <2>6, <2>7 DEF Advance
<1>7. ASSUME NEW q \in Request, q # r, Start(q) \/ Advance(q) \/ Crash(q) PROVE Confirms(r)
  BY <1>1, <1>7, JobsStep DEF Stays
<1>8. CASE UNCHANGED <<pc, job>>
  BY <1>1, <1>8 DEF Stays
<1> QED BY <1>5, <1>6, <1>7, <1>8 DEF Next, vars, Tick, GrantAccess, StartSignIn

(* Nobody comes to use a transaction of another browser                      *)
LEMMA UsesGrow ==
  ASSUME EnrollmentAssumption, TypeInv, [Next]_vars, NEW b \in Browser, NEW x \in Tx, Uses(b, x)'
  PROVE  Uses(b, x) \/ \E f \in Flow : StartSignIn(b, f, x)
<1>1. CASE x \in mine'[b]
  BY <1>1, OidcEffects DEF CookieMoves, Uses
<1>2. CASE cookie'[b] = x
  BY <1>2, OidcEffects DEF CookieMoves, Uses, Confirming
<1>3. ASSUME NEW r \in Request, pc'[r] \in Confirming, job'[r].browser = b, job'[r].via = x
      PROVE  Uses(b, x)
  <2>1. Confirms(r)
    BY ConfirmEffects
  <2> QED BY <1>3, <2>1 DEF Confirms, CallsBack, Identifies, Uses, Confirming, Settling
<1> QED BY <1>1, <1>2, <1>3 DEF Uses

LEMMA BrowserStep ==
  ASSUME EnrollmentAssumption, TypeInv, EarnedInv, [Next]_vars
  PROVE  BrowserInv'
<1> USE DEF EarnedInv
<1>0. None \notin Tx /\ NoProof.via = None
  BY DEF EnrollmentAssumption, NoProof
<1>1. ASSUME NEW x \in Tx, NEW b \in Browser, Uses(b, x)' PROVE tx'[x].state # "none"
  <2>1. TxMoves(x)
    BY OidcEffects
  <2>2. CASE Uses(b, x)
    BY <2>1, <2>2 DEF BrowserInv, TxMoves
  <2>3. ASSUME NEW f \in Flow, StartSignIn(b, f, x) PROVE tx'[x].state = "open"
    BY <2>3, OidcStep DEF StartSignIn, TypeInv, OidcInv
  <2> QED BY <1>1, <2>2, <2>3, UsesGrow
<1>2. ASSUME NEW x \in Tx, NEW b \in Browser, NEW c \in Browser, Uses(b, x)', Uses(c, x)' PROVE b = c
  <2>1. ASSUME NEW d \in Browser, NEW f \in Flow, StartSignIn(d, f, x)
        PROVE  \A e \in Browser : e # d => ~Uses(e, x)'
    <3>1. ASSUME NEW e \in Browser, e # d, Uses(e, x)' PROVE FALSE
      <4>1. tx[x].state = "none"
        BY <2>1 DEF StartSignIn
      <4>2. ~Uses(e, x)
        BY <4>1 DEF BrowserInv
      <4>3. x \notin mine'[e] /\ cookie'[e] # x /\ UNCHANGED <<pc, job>>
        BY <2>1, <3>1, <4>2 DEF StartSignIn, TypeInv, OidcInv, Uses
      <4> QED BY <3>1, <4>2, <4>3 DEF Uses
    <3> QED BY <3>1
  <2>2. CASE Uses(b, x) /\ Uses(c, x)
    BY <2>2 DEF BrowserInv
  <2> QED BY <1>2, <2>1, <2>2, UsesGrow
<1>3. ASSUME NEW f \in Flow, NEW x \in Tx, NEW b \in Browser, InProof(f, x)', Uses(b, x)'
      PROVE  proof'[f].principal = SignsInAs[b]
  <2>1. ProofMoves(f)
    BY OidcEffects
  <2>2. ASSUME tx[x].state = "gone" PROVE Uses(b, x)
    BY <1>3, <2>2, UsesGrow DEF StartSignIn
  <2>3. CASE proof'[f] = proof[f]
    BY <1>3, <2>2, <2>3 DEF InProof, OnceInv, BrowserInv
  <2>4. CASE proof'[f] = NoProof
    BY <1>0, <1>3, <2>4 DEF InProof
  <2>5. ASSUME NEW r \in Request, pc[r] = "prove", job[r].flow = f, proof'[f].via = job[r].via,
               proof'[f].principal = SignsInAs[job[r].browser]
        PROVE  proof'[f].principal = SignsInAs[b]
    <3>1. job[r].via = x /\ job[r].browser \in Browser
      BY <1>3, <2>5 DEF InProof, TypeInv, JobsInv, JobBound, Confirming
    <3>2. Uses(job[r].browser, x) /\ tx[x].state = "gone"
      BY <2>5, <3>1 DEF Uses, Confirming, OnceInv, InJob
    <3> QED BY <2>2, <2>5, <3>1, <3>2 DEF BrowserInv
  <2> QED BY <2>1, <2>3, <2>4, <2>5 DEF ProofMoves
<1>4. ASSUME NEW r \in Request, pc'[r] \in Settling
      PROVE  SignsInAs[job'[r].browser] = AccountOf[job'[r].flow]
  <2>1. Confirms(r)
    BY ConfirmEffects
  <2>2. CASE Identifies(r)
    BY <2>2 DEF Identifies, Uses, InProof, BrowserInv
  <2> QED BY <1>4, <2>1, <2>2 DEF Confirms, CallsBack, Confirming, Settling, BrowserInv
<1> QED BY <1>1, <1>2, <1>3, <1>4 DEF BrowserInv, InProof

(* What came of a transaction is in one place                                *)
LEMMA CarriersMove ==
  ASSUME EnrollmentAssumption, TypeInv, [Next]_vars, NEW x \in Tx
  PROVE  /\ \A r \in Request : InJob(r, x)' =>
              \/ InJob(r, x)
              \/ CallsBack(r) /\ job'[r].via = x
              \/ Identifies(r) /\ job'[r].via = x
         /\ \A f \in Flow : InProof(f, x)' =>
              \/ InProof(f, x) /\ proof'[f] = proof[f]
              \/ \E r \in Request : InJob(r, x) /\ ~InJob(r, x)' /\ pc[r] = "prove" /\ job[r].flow = f
         /\ \A b \in Binding : InBinding(b, x)' =>
              \/ InBinding(b, x)
              \/ \E r \in Request : InJob(r, x) /\ ~InJob(r, x)' /\ Bind(r, b, TRUE)
                     /\ binding[b].state = "none"
<1>0. None \notin Tx /\ NoProof.via = None
  BY DEF EnrollmentAssumption, NoProof
<1>1. ASSUME NEW r \in Request, InJob(r, x)'
      PROVE  \/ InJob(r, x)
             \/ CallsBack(r) /\ job'[r].via = x
             \/ Identifies(r) /\ job'[r].via = x
  BY <1>1, ConfirmEffects DEF Confirms, InJob
<1>2. ASSUME NEW f \in Flow, InProof(f, x)'
      PROVE  \/ InProof(f, x) /\ proof'[f] = proof[f]
             \/ \E r \in Request : InJob(r, x) /\ ~InJob(r, x)' /\ pc[r] = "prove" /\ job[r].flow = f
  BY <1>0, <1>2, OidcEffects DEF ProofMoves, InProof, InJob, Confirming, Settling
<1>3. ASSUME NEW b \in Binding, InBinding(b, x)'
      PROVE  \/ InBinding(b, x)
             \/ \E r \in Request : InJob(r, x) /\ ~InJob(r, x)' /\ Bind(r, b, TRUE)
                     /\ binding[b].state = "none"
  <2>1. BindingMoves(b)
    BY RowEffects
  <2>2. ASSUME NEW r \in Request, Bind(r, b, TRUE), binding'[b].via = job[r].via,
               binding[b].state = "none", binding'[b].state = "here"
        PROVE  InJob(r, x) /\ ~InJob(r, x)'
    BY <1>3, <2>2 DEF Bind, BindElseStop, Done, To, Goto, At, InJob, InBinding, Confirming, Settling,
           TypeInv, JobsInv
  <2>3. CASE InBinding(b, x)
    BY <2>3
  <2>4. CASE ~InBinding(b, x)
    <3>1. /\ binding[b].state = "none" /\ binding'[b].state = "here"
          /\ \E r \in Request : Bind(r, b, TRUE) /\ binding'[b].via = job[r].via
      BY <1>3, <2>1, <2>4 DEF BindingMoves, SameBinding, InBinding, Standing
    <3> QED BY <2>2, <3>1
  <2> QED BY <2>3, <2>4
<1> QED BY <1>1, <1>2, <1>3

LEMMA OnceStep ==
  ASSUME EnrollmentAssumption, TypeInv, EarnedInv, [Next]_vars
  PROVE  OnceInv'
<1> SUFFICES ASSUME NEW x \in Tx
             PROVE
    /\ \A r \in Request : InJob(r, x)' =>
         /\ tx'[x].state = "gone" /\ x \notin misused'
         /\ \A q \in Request : InJob(q, x)' => q = r
         /\ \A f \in Flow : ~InProof(f, x)'
         /\ \A b \in Binding : ~InBinding(b, x)'
    /\ \A f \in Flow : InProof(f, x)' =>
         /\ tx'[x].state = "gone" /\ x \notin misused'
         /\ \A g \in Flow : InProof(g, x)' => g = f
         /\ \A b \in Binding : ~InBinding(b, x)'
    /\ \A b \in Binding : InBinding(b, x)' =>
         /\ tx'[x].state = "gone" /\ x \notin misused'
         /\ \A c \in Binding : InBinding(c, x)' => c = b
    /\ x \in misused' => tx'[x].state = "gone"
  BY DEF OnceInv, InJob, InProof, InBinding
<1>0. None \notin Tx /\ NoProof.via = None
  BY DEF EnrollmentAssumption, NoProof
<1>1. /\ \A r \in Request : InJob(r, x) =>
           /\ tx[x].state = "gone" /\ x \notin misused
           /\ \A q \in Request : InJob(q, x) => q = r
           /\ \A f \in Flow : ~InProof(f, x)
           /\ \A b \in Binding : ~InBinding(b, x)
      /\ \A f \in Flow : InProof(f, x) =>
           /\ tx[x].state = "gone" /\ x \notin misused
           /\ \A g \in Flow : InProof(g, x) => g = f
           /\ \A b \in Binding : ~InBinding(b, x)
      /\ \A b \in Binding : InBinding(b, x) =>
           /\ tx[x].state = "gone" /\ x \notin misused
           /\ \A c \in Binding : InBinding(c, x) => c = b
      /\ x \in misused => tx[x].state = "gone"
  BY DEF EarnedInv, OnceInv
<1>2. TxMoves(x)
  BY OidcEffects
<1>3. /\ \A r \in Request : InJob(r, x)' =>
           \/ InJob(r, x)
           \/ CallsBack(r) /\ job'[r].via = x
           \/ Identifies(r) /\ job'[r].via = x
      /\ \A f \in Flow : InProof(f, x)' =>
           \/ InProof(f, x) /\ proof'[f] = proof[f]
           \/ \E r \in Request : InJob(r, x) /\ ~InJob(r, x)' /\ pc[r] = "prove" /\ job[r].flow = f
      /\ \A b \in Binding : InBinding(b, x)' =>
           \/ InBinding(b, x)
           \/ \E r \in Request : InJob(r, x) /\ ~InJob(r, x)' /\ Bind(r, b, TRUE)
                     /\ binding[b].state = "none"
  BY CarriersMove
<1>4. \A r, q \in Request : r = q \/ Stays(r) \/ Stays(q)
  BY JobEffects
<1>5. ASSUME NEW r \in Request, CallsBack(r), job'[r].via = x
      PROVE  /\ tx[x].state = "open" /\ tx'[x].state = "gone" /\ misused' = misused /\ ~Stays(r)
  BY <1>5 DEF CallsBack, Stays, Confirming
<1>6. ASSUME NEW r \in Request, Identifies(r), job'[r].via = x
      PROVE  ~Stays(r) /\ \E f \in Flow : InProof(f, x) /\ proof'[f] = NoProof
  BY <1>6 DEF Identifies, Stays, InProof
<1>7. ASSUME NEW f \in Flow, proof'[f] = NoProof PROVE ~InProof(f, x)'
  BY <1>0, <1>7 DEF InProof
<1>8. tx[x].state = "gone" => tx'[x].state = "gone" /\ (x \in misused' => x \in misused)
  BY <1>2 DEF TxMoves
<1>9. ASSUME NEW r \in Request, NEW b \in Binding, NEW c \in Binding, Bind(r, b, TRUE), InBinding(c, x)',
             ~InBinding(c, x)
      PROVE  c = b /\ pc[r] # "prove"
  BY <1>9 DEF Bind, At, InBinding, TypeInv, RowsInv
<1>10. CASE \E r \in Request : InJob(r, x)
  <2>1. PICK r \in Request : InJob(r, x)
    BY <1>10
  <2>2. /\ tx'[x].state = "gone" /\ x \notin misused'
        /\ \A q \in Request : InJob(q, x)' => q = r
    BY <1>1, <1>3, <1>5, <1>6, <1>8, <2>1
  <2>3. \A f \in Flow : InProof(f, x)' => ~InJob(r, x)' /\ pc[r] = "prove" /\ job[r].flow = f
    BY <1>1, <1>3, <2>1
  <2>4. ASSUME NEW b \in Binding, InBinding(b, x)'
        PROVE  ~InJob(r, x)' /\ Bind(r, b, TRUE) /\ ~InBinding(b, x)
    <3>1. ~InBinding(b, x) /\ \A q \in Request : InJob(q, x) => q = r
      BY <1>1, <2>1
    <3>2. PICK q \in Request : InJob(q, x) /\ ~InJob(q, x)' /\ Bind(q, b, TRUE)
      BY <1>3, <2>4, <3>1
    <3>3. q = r
      BY <3>1, <3>2
    <3> QED BY <3>1, <3>2, <3>3
  <2> QED BY <1>9, <2>2, <2>3, <2>4
<1>11. CASE \A r \in Request : ~InJob(r, x)
  <2>1. /\ \A f \in Flow : InProof(f, x)' => InProof(f, x) /\ proof'[f] = proof[f]
        /\ \A b \in Binding : InBinding(b, x)' => InBinding(b, x)
    BY <1>3, <1>11
  <2>2. ASSUME NEW r \in Request, InJob(r, x)'
        PROVE  /\ tx'[x].state = "gone" /\ x \notin misused'
               /\ \A q \in Request : InJob(q, x)' => q = r
               /\ \A f \in Flow : ~InProof(f, x)'
               /\ \A b \in Binding : ~InBinding(b, x)'
    <3>1. CASE CallsBack(r) /\ job'[r].via = x
      BY <1>1, <1>3, <1>4, <1>5, <1>6, <1>11, <2>1, <3>1
    <3>2. CASE Identifies(r) /\ job'[r].via = x
      BY <1>1, <1>3, <1>4, <1>5, <1>6, <1>7, <1>8, <1>11, <2>1, <3>2
    <3> QED BY <1>3, <1>11, <2>2, <3>1, <3>2
  <2>3. x \in misused' => tx'[x].state = "gone"
    BY <1>1, <1>2 DEF TxMoves
  <2> QED BY <1>1, <1>8, <2>1, <2>2, <2>3
<1> QED BY <1>10, <1>11

LEMMA EarnedInitially ==
  ASSUME EnrollmentAssumption, Init
  PROVE  EarnedInv
<1>1. None \notin Tx /\ NoProof.via = None /\ \A x \in Tx : tx[x].state = "none"
  BY DEF EnrollmentAssumption, NoProof, Init, NoTx
<1>2. BrowserInv
  BY <1>1 DEF Init, BrowserInv, Uses, InProof, Confirming, Settling
<1>3. OnceInv
  BY <1>1 DEF Init, OnceInv, InJob, InProof, InBinding, NoBinding, Confirming, Settling
<1>4. BoundByItsOwner /\ UnsignedInv
  BY DEF Init, BoundByItsOwner, UnsignedInv, NoBinding
<1> QED BY <1>2, <1>3, <1>4 DEF EarnedInv

LEMMA EarnedStays ==
  ASSUME EnrollmentAssumption, TypeInv /\ EarnedInv, [Next]_vars
  PROVE  (TypeInv /\ EarnedInv)'
<1>1. ASSUME NEW b \in Binding, binding'[b].state # "none"
      PROVE  SignsInAs[binding'[b].browser] = AccountOf[binding'[b].flow]
  <2>1. BindingMoves(b)
    BY RowEffects
  <2>2. ASSUME NEW r \in Request, Bind(r, b, TRUE)
        PROVE  SignsInAs[job[r].browser] = AccountOf[job[r].flow]
    BY <2>2 DEF Bind, At, Settling, EarnedInv, BrowserInv
  <2> QED BY <1>1, <2>1, <2>2 DEF BindingMoves, SameBinding, Standing, EarnedInv, BoundByItsOwner
<1>2. UnsignedInv'
  BY RowEffects DEF BindingMoves, SameBinding, EarnedInv, UnsignedInv, Standing
<1> QED BY <1>1, <1>2, TypesStay, BrowserStep, OnceStep DEF EarnedInv, BoundByItsOwner

(* BoundByItsOwner: whoever signs in at Nextcloud does not decide who is    *)
(* bound: the browser that confirmed it has that account at the provider.   *)
THEOREM OnlyTheOwnerBinds == ASSUME EnrollmentAssumption PROVE Spec => []BoundByItsOwner
<1>1. Init => TypeInv /\ EarnedInv
  BY TypesInitially, EarnedInitially
<1>2. TypeInv /\ EarnedInv /\ [Next]_vars => (TypeInv /\ EarnedInv)'
  BY EarnedStays
<1>3. EarnedInv => BoundByItsOwner
  BY DEF EarnedInv
<1> QED BY <1>1, <1>2, <1>3, PTL DEF Spec

(* OneSignInOneBinding: one independent sign-in confirms one binding, and   *)
(* one that was presented in another browser confirms none, whatever        *)
(* arrives twice.                                                           *)
THEOREM ASignInBindsOnce == ASSUME EnrollmentAssumption PROVE Spec => []OneSignInOneBinding
<1>1. Init => TypeInv /\ EarnedInv
  BY TypesInitially, EarnedInitially
<1>2. TypeInv /\ EarnedInv /\ [Next]_vars => (TypeInv /\ EarnedInv)'
  BY EarnedStays
<1>3. TypeInv /\ EarnedInv => OneSignInOneBinding
  <2> SUFFICES ASSUME TypeInv, EarnedInv, NEW b \in Binding, NEW c \in Binding,
                      binding[b].state # "none"
               PROVE  /\ binding[b].via \notin misused
                      /\ binding[c].via = binding[b].via => b = c
    BY DEF OneSignInOneBinding
  <2>1. binding[b].via \in Tx /\ InBinding(b, binding[b].via)
    BY DEF TypeInv, RowsInv, InBinding
  <2>2. binding[c].via = binding[b].via => binding[c].state # "none"
    BY <2>1 DEF EarnedInv, UnsignedInv, EnrollmentAssumption
  <2> QED BY <2>1, <2>2 DEF EarnedInv, OnceInv, InBinding
<1> QED BY <1>1, <1>2, <1>3, PTL DEF Spec
=============================================================================
