------------------------------ MODULE SignInProofs ------------------------------
(***************************************************************************)
(* For every set of sign-ins, registrations and requests, every deadline   *)
(* and every fault: of all decisions about one sign-in, one wins; each     *)
(* variable of SignIn keeps its type, no row stands without the row it     *)
(* refers to, and no app password is forgotten.                            *)
(***************************************************************************)
EXTENDS SignIn, TLAPS

-----------------------------------------------------------------------------
(* The decision                                                             *)
(* Why: to win takes a flow row that is open, in the transaction that deletes  *)
(* it, and a flow row that is gone never comes back.                           *)
DecisionInv ==
  /\ claims \in [Flow -> Nat]
  /\ \A f \in Flow : claims[f] <= 1 /\ (claims[f] = 1 => flow[f].state = "gone")

(* What any step may do to the flow row of f and to its count                  *)
Undecided(f) == claims'[f] = claims[f] /\ (flow[f].state = "gone" => flow'[f].state = "gone")
Decided(f) == claims'[f] = claims[f] + 1 /\ flow[f].state = "open" /\ flow'[f].state = "gone"

(* The clean-up and the deletions only ever remove open flow rows.             *)
LEMMA RowsStayGone ==
  ASSUME NEW f \in Flow, flow[f].state = "gone"
  PROVE  /\ FlowsLeft[f].state = "gone"
         /\ \A S : FlowsWithout(S)[f].state = "gone"
BY DEF FlowsLeft, FlowsWithout, NoFlow

(* The steps that write no flow row and decide nothing                         *)
Quiet == UNCHANGED <<flow, claims>>

LEMMA QuietSteps ==
  /\ Tick \/ TogglePause \/ (\E c \in Client : Register(c)) \/ (\E f \in Flow : GrantAccess(f))
       => Quiet
  /\ \A r \in Request : Start(r) \/ Crash(r) => Quiet
  /\ \A r \in Request :
       \/ ClientCheck(r) \/ FindRow(r) \/ DropRow(r) \/ HandClear(r)
       \/ SweepList(r) \/ DropOne(r) \/ RowsDone(r) \/ SweepClients(r) \/ SweepEnds(r)
       \/ PurgeList(r) \/ PurgeDone(r)
       => Quiet
  /\ \A r \in Request : \A yes \in BOOLEAN :
       \/ Poll(r, yes) \/ Vet(r, yes) \/ Create(r, yes) \/ Return(r, yes) \/ Decide(r, yes)
       \/ Withdraw(r, yes) \/ HandCall(r, yes)
       \/ (\E f \in Flow : HandRow(r, f, yes) \/ PurgeCall(r, f, yes))
       \/ (\E c \in Client : ExpireList(r, c, yes))
       => Quiet
<1> USE DEF Quiet, store, outside, history
<1>1. Tick \/ TogglePause \/ (\E c \in Client : Register(c)) \/ (\E f \in Flow : GrantAccess(f))
        => Quiet
  BY DEF Tick, TogglePause, Register, GrantAccess
<1>2. \A r \in Request : Start(r) \/ Crash(r) => Quiet
  BY ZenonT(60) DEF Start, Authorize, OpenScreen, UseConnection, Disconnect, OpenDecision, Purge, Crash
<1>3. \A r \in Request :
        \/ ClientCheck(r) \/ FindRow(r) \/ DropRow(r) \/ HandClear(r)
        \/ SweepList(r) \/ DropOne(r) \/ RowsDone(r) \/ SweepClients(r) \/ SweepEnds(r)
        \/ PurgeList(r) \/ PurgeDone(r)
        => Quiet
  BY DEF ClientCheck, FindRow, DropRow, HandClear, SweepList, DropOne, RowsDone, SweepClients,
         SweepEnds, PurgeList, PurgeDone
<1>4. ASSUME NEW r \in Request, NEW yes \in BOOLEAN
      PROVE  \/ Poll(r, yes) \/ Vet(r, yes) \/ Create(r, yes) \/ Return(r, yes) \/ Decide(r, yes)
             \/ Withdraw(r, yes) \/ HandCall(r, yes)
             \/ (\E f \in Flow : HandRow(r, f, yes) \/ PurgeCall(r, f, yes))
             \/ (\E c \in Client : ExpireList(r, c, yes))
             => Quiet
  <2>1. Poll(r, yes) \/ Vet(r, yes) \/ Create(r, yes) \/ Decide(r, yes) => Quiet
    BY DEF Poll, Vet, Create, Inserted, Decide
  <2>2. Return(r, yes) \/ Withdraw(r, yes) \/ HandCall(r, yes) => Quiet
    BY DEF Return, Withdraw, HandCall, AskFor, Unread, Ask, AskNobody
  <2>3. \A f \in Flow : HandRow(r, f, yes) \/ PurgeCall(r, f, yes) => Quiet
    BY DEF HandRow, PurgeCall, AskFor, Unread, Ask, AskNobody
  <2>4. \A c \in Client : ExpireList(r, c, yes) => Quiet
    BY DEF ExpireList
  <2> QED BY <2>1, <2>2, <2>3, <2>4
<1> QED BY <1>1, <1>2, <1>3, <1>4

(* Every step leaves a sign-in undecided or decides it once.                   *)
LEMMA StepsDecideOnce ==
  ASSUME DecisionInv, [Next]_vars
  PROVE  claims' \in [Flow -> Nat] /\ \A f \in Flow : Undecided(f) \/ Decided(f)
<1> USE DEF DecisionInv, Undecided, Decided
<1>1. CASE Quiet
  BY <1>1 DEF Quiet
<1>2. ASSUME UNCHANGED claims,
             \/ \E S : flow' = FlowsWithout(S)
             \/ UNCHANGED flow \/ flow' = FlowsLeft
             \/ \E g : flow[g].state = "none" /\ \E x : flow' = [FlowsLeft EXCEPT ![g] = x]
      PROVE  \A f \in Flow : Undecided(f)
  BY <1>2, RowsStayGone DEF FlowsLeft
<1>3. ASSUME NEW r \in Request, CreateFlow(r) \/ CheckFlow(r) \/ ForgetFlow(r) \/ Exchange(r)
                                  \/ ExpireClient(r) \/ PurgeWipe(r)
      PROVE  /\ UNCHANGED claims
             /\ \/ \E S : flow' = FlowsWithout(S)
                \/ UNCHANGED flow \/ flow' = FlowsLeft
                \/ \E g : flow[g].state = "none" /\ \E x : flow' = [FlowsLeft EXCEPT ![g] = x]
  BY ZenonT(60), <1>3 DEF CreateFlow, CheckFlow, ForgetFlow, Exchange, ExpireClient, PurgeWipe, history
\* the two transactions that decide
<1>4. ASSUME NEW r \in Request, Approve(r) \/ Claim(r)
      PROVE  claims' \in [Flow -> Nat] /\ \A f \in Flow : Undecided(f) \/ Decided(f)
  <2> DEFINE g == job[r].flow
  <2>1. CASE Spendable(g) /\ claims' = [claims EXCEPT ![g] = @ + 1]
               /\ (flow' = FlowsWithout({g}) \/ flow' = [FlowsLeft EXCEPT ![g] = NoFlow])
    <3>1. flow[g].state = "open"
      BY <2>1 DEF Spendable
    <3>2. ASSUME NEW f \in Flow, f # g PROVE Undecided(f)
      BY <2>1, <3>2, RowsStayGone DEF FlowsLeft
    <3>3. ASSUME g \in Flow PROVE Decided(g)
      BY <2>1, <3>1, <3>3 DEF FlowsWithout, FlowsLeft, NoFlow
    <3>4. claims' \in [Flow -> Nat]
      <4>1. CASE g \in Flow
        <5>1. claims[g] + 1 \in Nat
          BY <4>1
        <5> QED BY <2>1, <4>1, <5>1
      <4>2. CASE g \notin Flow
        BY <2>1, <4>2
      <4> QED BY <4>1, <4>2
    <3>5. ASSUME NEW f \in Flow PROVE Undecided(f) \/ Decided(f)
      <4> HIDE DEF Undecided, Decided
      <4> QED BY <3>2, <3>3, <3>5
    <3> HIDE DEF Undecided, Decided, g
    <3> QED BY <3>4, <3>5
  <2>2. CASE Quiet
    BY <1>1, <2>2
  <2> QED BY <1>4, <2>1, <2>2 DEF Approve, Claim, Won, Quiet
<1>5. UNCHANGED vars => Quiet
  BY DEF vars, Quiet, store, history
<1> QED BY <1>1, <1>2, <1>3, <1>4, <1>5, QuietSteps DEF Next, Advance

LEMMA DecisionInit == Init => DecisionInv
BY DEF Init, DecisionInv

LEMMA DecisionStep == DecisionInv /\ [Next]_vars => DecisionInv'
<1> SUFFICES ASSUME DecisionInv, [Next]_vars PROVE DecisionInv'
  OBVIOUS
<1>1. claims' \in [Flow -> Nat] /\ \A f \in Flow : Undecided(f) \/ Decided(f)
  BY StepsDecideOnce
<1> QED BY <1>1 DEF DecisionInv, Undecided, Decided

(* Of all decisions of one sign-in, by however many presses of either button,  *)
(* refusals for a paused account included, at most one wins (BL-19).           *)
THEOREM DecidedOnce == Spec => []OneDecision
<1>1. DecisionInv => OneDecision
  BY DEF DecisionInv, OneDecision
<1> QED BY <1>1, DecisionInit, DecisionStep, PTL DEF Spec

-----------------------------------------------------------------------------
(* A step reads only the locals it was given.                               *)
FlowSteps == {"check", "client", "create_flow", "row", "poll", "vet", "create", "return",
              "give_back", "forget_flow", "decide", "approve", "claim", "withdraw", "drop_row",
              "exchange", "hand_call", "hand_clear"}

Bound(s, j) ==
  /\ s \in FlowSteps => j.flow \in Flow
  /\ s = "rows_drop" => j.one \in Flow
  /\ s = "expire_client" => j.client \in Client
JobBound(r) == Bound(pc[r], job[r])

TypeInv ==
  /\ TypeOK /\ DecisionInv
  /\ \A r \in Request : JobBound(r)

LEMMA NoJobType == NoJob \in Job
BY DEF NoJob, Job

LEMMA TypeInit == Init => TypeInv
<1> SUFFICES ASSUME Init PROVE TypeInv
  OBVIOUS
<1>0. MaxClock \in Nat
  BY SignInAssumption DEF SignInAssumption
<1> USE DEF Init
<1>1. /\ clock \in 0..MaxClock /\ paused \in BOOLEAN /\ {asked, unseen} \subseteq SUBSET Flow
      /\ nextcloud \in [Flow -> {"none", "waiting", "granted", "collected"}]
      /\ password \in [Flow -> {"none", "valid", "returned"}] /\ claims \in [Flow -> 0..2]
  <2>1. clock \in 0..MaxClock /\ claims \in [Flow -> 0..2]
    BY <1>0
  <2>2. paused \in BOOLEAN /\ {asked, unseen} \subseteq SUBSET Flow
    OBVIOUS
  <2>3. /\ nextcloud \in [Flow -> {"none", "waiting", "granted", "collected"}]
        /\ password \in [Flow -> {"none", "valid", "returned"}]
    OBVIOUS
  <2> QED BY <2>1, <2>2, <2>3
<1>2. /\ client \in [Client -> [state: {"none", "registered", "gone"}, registered: 0..MaxClock,
                               used: 0..MaxClock \cup {Never}]]
      /\ flow \in [Flow -> [state: {"none", "open", "gone"}, until: Nat]]
      /\ row \in [Flow -> [state: {"none", "live", "revoked", "gone"}, created: 0..MaxClock,
                          noted: BOOLEAN]]
      /\ grant \in [Flow -> [state: {"none", "code", "tokens", "gone"}, until: Nat]]
  BY <1>0
<1>3. pc \in [Request -> Step] /\ job \in [Request -> Job] /\ \A r \in Request : JobBound(r)
  BY NoJobType DEF Step, JobBound, Bound, FlowSteps
<1>4. Referenced
  BY DEF Referenced
<1> QED BY <1>1, <1>2, <1>3, <1>4, DecisionInit DEF TypeInv, TypeOK

-----------------------------------------------------------------------------
(* The tables                                                               *)
ClientRow == [state: {"none", "registered", "gone"}, registered: 0..MaxClock,
              used: 0..MaxClock \cup {Never}]
FlowRow == [state: {"none", "open", "gone"}, until: Nat]
AuthRow == [state: {"none", "live", "revoked", "gone"}, created: 0..MaxClock, noted: BOOLEAN]
GrantRow == [state: {"none", "code", "tokens", "gone"}, until: Nat]

Tables ==
  /\ client \in [Client -> ClientRow] /\ flow \in [Flow -> FlowRow]
  /\ row \in [Flow -> AuthRow] /\ grant \in [Flow -> GrantRow]
  /\ Referenced

LEMMA TypedTables == TypeOK => Tables
BY DEF TypeOK, Tables, ClientRow, FlowRow, AuthRow, GrantRow

(* Cleaning up and deleting leaves rows or tombstones.                      *)
LEMMA Removing ==
  ASSUME Tables, SignInAssumption
  PROVE  /\ FlowsLeft \in [Flow -> FlowRow]
         /\ \A f \in Flow : FlowsLeft[f] = flow[f] \/ FlowsLeft[f] = NoFlow
         /\ GrantsLeft \in [Flow -> GrantRow]
         /\ \A f \in Flow : GrantsLeft[f] = grant[f] \/ GrantsLeft[f] = NoFlow
         /\ \A S : /\ FlowsWithout(S) \in [Flow -> FlowRow]
                   /\ RowsWithout(S) \in [Flow -> AuthRow]
                   /\ GrantsWithout(S) \in [Flow -> GrantRow]
<1>1. NoFlow \in FlowRow /\ NoFlow \in GrantRow /\ NoRow \in AuthRow
  BY DEF SignInAssumption, NoFlow, NoRow, FlowRow, GrantRow, AuthRow
<1>2. \A S : \A f \in Flow : FlowsWithout(S)[f] \in FlowRow /\ RowsWithout(S)[f] \in AuthRow
                             /\ GrantsWithout(S)[f] \in GrantRow
  BY <1>1 DEF Tables, FlowsWithout, RowsWithout, GrantsWithout
<1>3. \A f \in Flow : FlowsLeft[f] = flow[f] \/ FlowsLeft[f] = NoFlow
  BY DEF FlowsLeft
<1>4. \A f \in Flow : GrantsLeft[f] = grant[f] \/ GrantsLeft[f] = NoFlow
  BY DEF GrantsLeft
<1>5. FlowsLeft \in [Flow -> FlowRow] /\ GrantsLeft \in [Flow -> GrantRow]
  BY <1>1 DEF Tables, FlowsLeft, GrantsLeft
<1>6. \A S : FlowsWithout(S) \in [Flow -> FlowRow] /\ RowsWithout(S) \in [Flow -> AuthRow]
             /\ GrantsWithout(S) \in [Flow -> GrantRow]
  BY <1>2 DEF FlowsWithout, RowsWithout, GrantsWithout
<1> QED BY <1>3, <1>4, <1>5, <1>6

(* The steps that touch no table                                            *)
LEMMA TablesStay ==
  /\ TogglePause \/ (\E f \in Flow : GrantAccess(f)) => UNCHANGED <<clock, store>>
  /\ \A r \in Request :
       \/ (\E f \in Flow : Authorize(r, f) \/ OpenScreen(r, f) \/ UseConnection(r, f)
                           \/ \E kind \in {"approve", "deny"} : OpenDecision(r, f, kind))
       \/ Purge(r) \/ Crash(r) \/ ClientCheck(r) \/ FindRow(r) \/ SweepList(r) \/ RowsDone(r)
       \/ SweepClients(r) \/ SweepEnds(r) \/ PurgeList(r) \/ PurgeDone(r)
       => UNCHANGED <<clock, store>>
  /\ \A r \in Request : \A yes \in BOOLEAN :
       \/ Poll(r, yes) \/ Vet(r, yes) \/ Return(r, yes) \/ Decide(r, yes) \/ Withdraw(r, yes)
       \/ HandCall(r, yes) \/ (\E f \in Flow : HandRow(r, f, yes) \/ PurgeCall(r, f, yes))
       \/ (\E c \in Client : ExpireList(r, c, yes))
       => UNCHANGED <<clock, store>>
<1>1. TogglePause \/ (\E f \in Flow : GrantAccess(f)) => UNCHANGED <<clock, store>>
  BY DEF TogglePause, GrantAccess
<1>2. \A r \in Request :
        \/ (\E f \in Flow : Authorize(r, f) \/ OpenScreen(r, f) \/ UseConnection(r, f)
                            \/ \E kind \in {"approve", "deny"} : OpenDecision(r, f, kind))
        \/ Purge(r) \/ Crash(r) \/ ClientCheck(r) \/ FindRow(r) \/ SweepList(r) \/ RowsDone(r)
        \/ SweepClients(r) \/ SweepEnds(r) \/ PurgeList(r) \/ PurgeDone(r)
        => UNCHANGED <<clock, store>>
  BY DEF Authorize, OpenScreen, UseConnection, OpenDecision, Purge, Crash, ClientCheck, FindRow,
         SweepList, RowsDone, SweepClients, SweepEnds, PurgeList, PurgeDone
<1>3. ASSUME NEW r \in Request, NEW yes \in BOOLEAN
      PROVE  \/ Poll(r, yes) \/ Vet(r, yes) \/ Return(r, yes) \/ Decide(r, yes) \/ Withdraw(r, yes)
             \/ HandCall(r, yes) \/ (\E f \in Flow : HandRow(r, f, yes) \/ PurgeCall(r, f, yes))
             \/ (\E c \in Client : ExpireList(r, c, yes))
             => UNCHANGED <<clock, store>>
  <2>1. Poll(r, yes) \/ Vet(r, yes) \/ Decide(r, yes) => UNCHANGED <<clock, store>>
    BY DEF Poll, Vet, Decide
  <2>2. Return(r, yes) \/ Withdraw(r, yes) \/ HandCall(r, yes) => UNCHANGED <<clock, store>>
    BY DEF Return, Withdraw, HandCall
  <2>3. \A f \in Flow : HandRow(r, f, yes) \/ PurgeCall(r, f, yes) => UNCHANGED <<clock, store>>
    BY DEF HandRow, PurgeCall
  <2>4. \A c \in Client : ExpireList(r, c, yes) => UNCHANGED <<clock, store>>
    BY DEF ExpireList
  <2> QED BY <2>1, <2>2, <2>3, <2>4
<1> QED BY <1>1, <1>2, <1>3

(* No row is written under a row that is gone, and none stays behind.       *)
LEMMA TablesStep ==
  ASSUME TypeInv, [Next]_vars
  PROVE  clock' \in 0..MaxClock /\ Tables'
<1> USE SignInAssumption
<1>0. /\ clock \in 0..MaxClock /\ Tables /\ MaxClock \in Nat /\ ClientOf \in [Flow -> Client]
      /\ \A r \in Request : JobBound(r)
  BY TypedTables DEF TypeInv, TypeOK, SignInAssumption
<1>1. ASSUME UNCHANGED <<clock, store>> PROVE clock' \in 0..MaxClock /\ Tables'
  BY <1>0, <1>1 DEF store, Tables, Referenced
<1>2. CASE Tick
  BY <1>0, <1>2 DEF Tick, store, Tables, Referenced
<1>3. ASSUME NEW c \in Client, Register(c) PROVE clock' \in 0..MaxClock /\ Tables'
  BY <1>0, <1>3 DEF Register, Tables, Referenced, ClientRow
<1>4. ASSUME NEW r \in Request, NEW f \in Flow, Disconnect(r, f) PROVE clock' \in 0..MaxClock /\ Tables'
  <2>1. row' \in [Flow -> AuthRow] /\ row'[f].state = "revoked"
        /\ \A g \in Flow \ {f} : row'[g] = row[g]
    BY <1>0, <1>4 DEF Disconnect, Tables, AuthRow
  <2>2. UNCHANGED <<clock, client, flow, grant>> /\ row[f].state = "live"
    BY <1>4 DEF Disconnect
  <2>3. Referenced'
    BY <1>0, <2>1, <2>2 DEF Tables, Referenced
  <2> QED BY <1>0, <2>1, <2>2, <2>3 DEF Tables
<1>5. ASSUME NEW r \in Request, CreateFlow(r) PROVE clock' \in 0..MaxClock /\ Tables'
  <2> DEFINE g == job[r].flow
  <2>1. CASE UNCHANGED <<flow, grant>>
    BY <1>1, <1>5, <2>1 DEF CreateFlow, store
  <2>2. CASE ~ UNCHANGED <<flow, grant>>
    <3>1. /\ client[ClientOf[g]].state = "registered" /\ UNCHANGED <<clock, client, row>>
          /\ flow' = [FlowsLeft EXCEPT ![g] = [state |-> "open", until |-> clock + FLOW_TTL]]
          /\ grant' = GrantsLeft /\ pc[r] = "create_flow"
      BY <1>5, <2>2 DEF CreateFlow, At
    <3>2. g \in Flow
      BY <1>0, <3>1 DEF JobBound, Bound, FlowSteps
    <3>3. [state |-> "open", until |-> clock + FLOW_TTL] \in FlowRow
      BY <1>0 DEF SignInAssumption, FlowRow
    <3>4. /\ flow' \in [Flow -> FlowRow] /\ grant' \in [Flow -> GrantRow]
          /\ \A f \in Flow \ {g} : flow'[f] = flow[f] \/ flow'[f] = NoFlow
          /\ \A f \in Flow : grant'[f] = grant[f] \/ grant'[f] = NoFlow
      BY <1>0, <3>1, <3>2, <3>3, Removing
    <3> HIDE DEF g
    <3>5. Referenced'
      BY <1>0, <3>1, <3>2, <3>4 DEF Tables, Referenced, NoFlow
    <3> QED BY <1>0, <3>1, <3>4, <3>5 DEF Tables
  <2> QED BY <2>1, <2>2
<1>6. ASSUME NEW r \in Request, CheckFlow(r) \/ ForgetFlow(r) \/ Claim(r)
      PROVE  clock' \in 0..MaxClock /\ Tables'
  <2>1. /\ UNCHANGED <<clock, client, row, grant>>
        /\ UNCHANGED flow \/ \E S : flow' = FlowsWithout(S)
    BY <1>6 DEF CheckFlow, ForgetFlow, Claim
  <2>2. flow' \in [Flow -> FlowRow] /\ \A f \in Flow : flow'[f] = flow[f] \/ flow'[f] = NoFlow
    <3>1. CASE UNCHANGED flow
      BY <1>0, <3>1 DEF Tables
    <3>2. ASSUME NEW S, flow' = FlowsWithout(S)
          PROVE  flow' \in [Flow -> FlowRow] /\ \A f \in Flow : flow'[f] = flow[f] \/ flow'[f] = NoFlow
      <4>1. flow' \in [Flow -> FlowRow]
        BY <1>0, <3>2, Removing
      <4> QED BY <3>2, <4>1 DEF FlowsWithout
    <3> QED BY <2>1, <3>1, <3>2
  <2> QED BY <1>0, <2>1, <2>2 DEF Tables, Referenced, NoFlow
<1>7. ASSUME NEW r \in Request, NEW yes \in BOOLEAN, Create(r, yes)
      PROVE  clock' \in 0..MaxClock /\ Tables'
  <2> DEFINE g == job[r].flow
  <2>1. CASE UNCHANGED row
    BY <1>1, <1>7, <2>1 DEF Create, store
  <2>2. CASE ~ UNCHANGED row
    <3>1. /\ client[ClientOf[g]].state = "registered" /\ UNCHANGED <<clock, client, flow, grant>>
          /\ row' = [row EXCEPT ![g] = [state |-> "live", created |-> clock, noted |-> FALSE]]
      BY <1>7, <2>2 DEF Create, Inserted
    <3>2. [state |-> "live", created |-> clock, noted |-> FALSE] \in AuthRow
      BY <1>0 DEF AuthRow
    <3>3. row' \in [Flow -> AuthRow]
      BY <1>0, <3>1, <3>2 DEF Tables
    <3>4. \A f \in Flow : row'[f] = row[f] \/ (f = g /\ row'[f].state = "live")
      BY <1>0, <3>1 DEF Tables
    <3>5. Referenced'
      BY <1>0, <3>1, <3>4 DEF Tables, Referenced
    <3> QED BY <1>0, <3>1, <3>3, <3>5 DEF Tables
  <2> QED BY <2>1, <2>2
<1>8. ASSUME NEW r \in Request, Approve(r) PROVE clock' \in 0..MaxClock /\ Tables'
  <2> DEFINE g == job[r].flow
  <2>1. CASE UNCHANGED <<flow, grant>>
    BY <1>1, <1>8, <2>1 DEF Approve, store
  <2>2. CASE ~ UNCHANGED <<flow, grant>>
    <3>1. /\ RowThere(g) /\ UNCHANGED <<clock, client, row>>
          /\ flow' = [FlowsLeft EXCEPT ![g] = NoFlow]
          /\ grant' = [GrantsLeft EXCEPT ![g] = [state |-> "code", until |-> clock + AUTH_CODE_TTL]]
      BY <1>8, <2>2 DEF Approve
    <3>2. [state |-> "code", until |-> clock + AUTH_CODE_TTL] \in GrantRow /\ NoFlow \in FlowRow
      BY <1>0 DEF SignInAssumption, GrantRow, FlowRow, NoFlow
    <3>3. /\ flow' \in [Flow -> FlowRow] /\ grant' \in [Flow -> GrantRow]
          /\ \A f \in Flow : flow'[f] = flow[f] \/ flow'[f] = NoFlow
          /\ \A f \in Flow : f = g \/ grant'[f] = grant[f] \/ grant'[f] = NoFlow
      BY <1>0, <3>1, <3>2, Removing
    <3> HIDE DEF g
    <3>4. Referenced'
      BY <1>0, <3>1, <3>3 DEF Tables, Referenced, NoFlow, RowThere
    <3> QED BY <1>0, <3>1, <3>3, <3>4 DEF Tables
  <2> QED BY <2>1, <2>2
<1>9. ASSUME UNCHANGED <<clock, client, flow>>, \E S : row' = RowsWithout(S) /\ grant' = GrantsWithout(S)
      PROVE  clock' \in 0..MaxClock /\ Tables'
  <2> PICK S : row' = RowsWithout(S) /\ grant' = GrantsWithout(S)
    BY <1>9
  <2>1. row' \in [Flow -> AuthRow] /\ grant' \in [Flow -> GrantRow]
    BY <1>0, Removing
  <2>2. Referenced'
    BY <1>0, <1>9 DEF Tables, Referenced, RowsWithout, GrantsWithout, RowThere, Pending, NoRow, NoFlow
  <2> QED BY <1>0, <1>9, <2>1, <2>2 DEF Tables
<1>10. ASSUME NEW r \in Request, DropRow(r) \/ DropOne(r) PROVE clock' \in 0..MaxClock /\ Tables'
  BY <1>9, <1>10 DEF DropRow, DropOne, DeleteAuthorization
<1>11. ASSUME NEW r \in Request, Exchange(r) PROVE clock' \in 0..MaxClock /\ Tables'
  <2> DEFINE g == job[r].flow
             c == ClientOf[g]
  <2>1. CASE UNCHANGED <<flow, grant, client>>
    BY <1>1, <1>11, <2>1 DEF Exchange, store
  <2>2. CASE ~ UNCHANGED <<flow, grant, client>>
    <3>1. /\ Pending(g) /\ UNCHANGED <<clock, row>> /\ flow' = FlowsLeft /\ pc[r] = "exchange"
          /\ grant' = [GrantsLeft EXCEPT ![g] = [state |-> "tokens", until |-> clock + REFRESH_TOKEN_TTL]]
          /\ client' = [client EXCEPT ![c].used = IF client[c].state = "registered" THEN clock ELSE @]
      BY <1>11, <2>2 DEF Exchange, At
    <3>2. g \in Flow /\ c \in Client
      BY <1>0, <3>1 DEF JobBound, Bound, FlowSteps
    <3>3. [state |-> "tokens", until |-> clock + REFRESH_TOKEN_TTL] \in GrantRow
      BY <1>0 DEF SignInAssumption, GrantRow
    <3>4. /\ flow' \in [Flow -> FlowRow] /\ grant' \in [Flow -> GrantRow]
          /\ \A f \in Flow : flow'[f] = flow[f] \/ flow'[f] = NoFlow
          /\ \A f \in Flow \ {g} : grant'[f] = grant[f] \/ grant'[f] = NoFlow
      BY <1>0, <3>1, <3>3, Removing
    <3> HIDE DEF g, c
    <3>5. client' \in [Client -> ClientRow] /\ \A d \in Client : client'[d].state = client[d].state
      BY <1>0, <3>1, <3>2 DEF Tables, ClientRow
    <3>6. Referenced'
      BY <1>0, <3>1, <3>2, <3>4, <3>5 DEF Tables, Referenced, NoFlow, Pending
    <3> QED BY <1>0, <3>1, <3>4, <3>5, <3>6 DEF Tables
  <2> QED BY <2>1, <2>2
<1>12. ASSUME NEW r \in Request, HandClear(r) PROVE clock' \in 0..MaxClock /\ Tables'
  <2>1. /\ row' = [row EXCEPT ![job[r].flow].noted = FALSE] /\ UNCHANGED <<clock, client, flow, grant>>
        /\ pc[r] = "hand_clear"
    BY <1>12 DEF HandClear, At
  <2>2. job[r].flow \in Flow
    BY <1>0, <2>1 DEF JobBound, Bound, FlowSteps
  <2>3. row' \in [Flow -> AuthRow] /\ \A f \in Flow : row'[f].state = row[f].state
    <3>1. \A x \in AuthRow : [x EXCEPT !.noted = FALSE] \in AuthRow
                              /\ [x EXCEPT !.noted = FALSE].state = x.state
      BY DEF AuthRow
    <3>2. row' = [row EXCEPT ![job[r].flow] = [@ EXCEPT !.noted = FALSE]]
      BY <2>1
    <3> HIDE DEF AuthRow
    <3> QED BY <1>0, <2>2, <3>1, <3>2 DEF Tables
  <2> QED BY <1>0, <2>1, <2>3 DEF Tables, Referenced
\* a registration goes with everything under it
<1>13. ASSUME NEW D \in SUBSET Client, UNCHANGED clock,
              client' \in [Client -> ClientRow],
              \A c \in Client \ D : client'[c] = client[c],
              \E S : /\ \A f \in Flow : ClientOf[f] \in D => f \in S
                    /\ flow' = FlowsWithout(S) /\ row' = RowsWithout(S) /\ grant' = GrantsWithout(S)
       PROVE  clock' \in 0..MaxClock /\ Tables'
  <2> PICK S : /\ \A f \in Flow : ClientOf[f] \in D => f \in S
               /\ flow' = FlowsWithout(S) /\ row' = RowsWithout(S) /\ grant' = GrantsWithout(S)
    BY <1>13
  <2>1. flow' \in [Flow -> FlowRow] /\ row' \in [Flow -> AuthRow] /\ grant' \in [Flow -> GrantRow]
    BY <1>0, Removing
  <2>2. \A f \in Flow : f \notin S => ClientOf[f] \in Client \ D
    BY <1>0
  <2>3. Referenced'
    BY <1>0, <1>13, <2>2 DEF Tables, Referenced, FlowsWithout, RowsWithout, GrantsWithout, RowThere,
                             Pending, NoRow, NoFlow
  <2> QED BY <1>0, <1>13, <2>1, <2>3 DEF Tables
<1>14. NoClient \in ClientRow
  BY <1>0 DEF NoClient, ClientRow
<1>15. ASSUME NEW r \in Request, ExpireClient(r) PROVE clock' \in 0..MaxClock /\ Tables'
  <2> DEFINE c == job[r].client
             S == {f \in Flow : ClientOf[f] = c}
  <2>1. /\ pc[r] = "expire_client" /\ UNCHANGED clock
        /\ client' = [client EXCEPT ![c] = IF @.state = "registered" THEN NoClient ELSE @]
        /\ flow' = FlowsWithout(S) /\ row' = RowsWithout(S) /\ grant' = GrantsWithout(S)
    BY <1>15 DEF ExpireClient, At
  <2>2. c \in Client
    BY <1>0, <2>1 DEF JobBound, Bound
  <2>3. client' \in [Client -> ClientRow] /\ \A d \in Client \ {c} : client'[d] = client[d]
    BY <1>0, <1>14, <2>1, <2>2 DEF Tables
  <2>4. \A f \in Flow : ClientOf[f] \in {c} => f \in S
    OBVIOUS
  <2>5. {c} \in SUBSET Client /\ UNCHANGED clock
    BY <2>1, <2>2
  <2>6. \E T : /\ \A f \in Flow : ClientOf[f] \in {c} => f \in T
               /\ flow' = FlowsWithout(T) /\ row' = RowsWithout(T) /\ grant' = GrantsWithout(T)
    BY <2>1, <2>4
  <2> HIDE DEF c, S
  <2> QED BY <1>13, <2>3, <2>5, <2>6
<1>16. ASSUME NEW r \in Request, PurgeWipe(r) PROVE clock' \in 0..MaxClock /\ Tables'
  <2>1. /\ UNCHANGED clock
        /\ client' = [c \in Client |-> IF client[c].state = "registered" THEN NoClient ELSE client[c]]
        /\ flow' = FlowsWithout(Flow) /\ row' = RowsWithout(Flow) /\ grant' = GrantsWithout(Flow)
    BY <1>16 DEF PurgeWipe
  <2>2. client' \in [Client -> ClientRow]
    BY <1>0, <1>14, <2>1 DEF Tables
  <2> QED BY <1>13, <2>1, <2>2
<1>17. CASE UNCHANGED vars
  BY <1>1, <1>17 DEF vars
<1> QED BY <1>1, <1>2, <1>3, <1>4, <1>5, <1>6, <1>7, <1>8, <1>10, <1>11, <1>12, <1>15, <1>16,
           <1>17, TablesStay DEF Next, Start, Advance

-----------------------------------------------------------------------------
(* Nextcloud, the account's switch and the histories                        *)
OutsideTypes ==
  /\ paused \in BOOLEAN
  /\ nextcloud \in [Flow -> {"none", "waiting", "granted", "collected"}]
  /\ password \in [Flow -> {"none", "valid", "returned"}]
  /\ {asked, unseen} \subseteq SUBSET Flow

LEMMA Asking ==
  ASSUME OutsideTypes, NEW f \in Flow, NEW yes \in BOOLEAN,
         Ask(f, yes) \/ AskNobody \/ Unread(f)
  PROVE  OutsideTypes'
<1>1. CASE AskNobody
  BY <1>1 DEF AskNobody, outside, history, OutsideTypes
<1>2. CASE Ask(f, yes)
  BY <1>2 DEF Ask, OutsideTypes
<1>3. CASE Unread(f)
  BY <1>3 DEF Unread, outside, OutsideTypes
<1> QED BY <1>1, <1>2, <1>3

LEMMA OutsideStep ==
  ASSUME TypeInv, [Next]_vars
  PROVE  OutsideTypes' /\ claims' \in [Flow -> 0..2]
<1>1. claims' \in [Flow -> 0..2]
  BY DecisionStep DEF TypeInv, DecisionInv
<1>2. OutsideTypes /\ \A r \in Request : JobBound(r)
  BY DEF TypeInv, TypeOK, OutsideTypes
<1>3. ASSUME UNCHANGED outside, UNCHANGED <<asked, unseen>> PROVE OutsideTypes'
  BY <1>2, <1>3 DEF outside, OutsideTypes
<1>4. CASE Tick \/ TogglePause \/ (\E c \in Client : Register(c)) \/ (\E f \in Flow : GrantAccess(f))
  <2>1. CASE Tick \/ \E c \in Client : Register(c)
    BY <1>1, <1>3, <2>1 DEF Tick, Register, outside, history
  <2>2. CASE TogglePause
    BY <1>1, <1>2, <2>2 DEF TogglePause, outside, history, OutsideTypes
  <2>3. ASSUME NEW f \in Flow, GrantAccess(f) PROVE OutsideTypes'
    BY <1>2, <2>3 DEF GrantAccess, history, OutsideTypes
  <2> QED BY <1>1, <1>4, <2>1, <2>2, <2>3
<1>5. ASSUME NEW r \in Request, Start(r) PROVE OutsideTypes'
  BY <1>3, <1>5 DEF Start, Authorize, OpenScreen, UseConnection, Disconnect, OpenDecision, Purge,
                    outside, history
<1>6. ASSUME NEW r \in Request, Crash(r) PROVE OutsideTypes'
  <2>1. {f \in Flow : InHands(r, f)} \subseteq Flow
    OBVIOUS
  <2> QED BY <1>2, <1>6, <2>1 DEF Crash, outside, OutsideTypes
<1>7. ASSUME NEW r \in Request,
             \/ ClientCheck(r) \/ CheckFlow(r) \/ FindRow(r) \/ ForgetFlow(r) \/ Approve(r) \/ Claim(r)
             \/ DropRow(r) \/ Exchange(r) \/ HandClear(r) \/ SweepList(r) \/ DropOne(r) \/ RowsDone(r)
             \/ SweepClients(r) \/ ExpireClient(r) \/ SweepEnds(r) \/ PurgeList(r) \/ PurgeDone(r)
      PROVE  OutsideTypes'
  <2>1. UNCHANGED outside /\ UNCHANGED <<asked, unseen>>
    BY <1>7 DEF ClientCheck, CheckFlow, FindRow, ForgetFlow, Approve, Claim, DropRow, Exchange,
                HandClear, SweepList, DropOne, RowsDone, SweepClients, ExpireClient, SweepEnds,
                PurgeList, PurgeDone, outside, history
  <2> QED BY <1>3, <2>1
<1>8. ASSUME NEW r \in Request, CreateFlow(r) \/ PurgeWipe(r) PROVE OutsideTypes'
  BY <1>2, <1>8 DEF CreateFlow, PurgeWipe, history, OutsideTypes
<1>9. ASSUME NEW r \in Request, NEW yes \in BOOLEAN, Vet(r, yes) \/ Decide(r, yes) PROVE OutsideTypes'
  BY <1>3, <1>9 DEF Vet, Decide, outside, history
<1>10. ASSUME NEW r \in Request, NEW yes \in BOOLEAN, Poll(r, yes) PROVE OutsideTypes'
  <2>1. job[r].flow \in Flow
    BY <1>2, <1>10 DEF Poll, At, JobBound, Bound, FlowSteps
  <2> QED BY <1>2, <1>10, <2>1 DEF Poll, OutsideTypes
<1>11. ASSUME NEW r \in Request, NEW yes \in BOOLEAN, Create(r, yes) PROVE OutsideTypes'
  <2>1. job[r].flow \in Flow
    BY <1>2, <1>11 DEF Create, At, JobBound, Bound, FlowSteps
  <2> QED BY <1>2, <1>11, <2>1 DEF Create, Inserted, outside, OutsideTypes
<1>12. ASSUME NEW r \in Request, NEW yes \in BOOLEAN, Return(r, yes) \/ Withdraw(r, yes) \/ HandCall(r, yes)
       PROVE  OutsideTypes'
  <2>1. pc[r] \in FlowSteps /\ (Ask(job[r].flow, yes) \/ AskNobody \/ Unread(job[r].flow))
    BY <1>12 DEF Return, Withdraw, HandCall, AskFor, At, FlowSteps
  <2>2. job[r].flow \in Flow
    BY <1>2, <2>1 DEF JobBound, Bound
  <2> QED BY <1>2, <2>1, <2>2, Asking
<1>13. ASSUME NEW r \in Request, NEW yes \in BOOLEAN, NEW f \in Flow, HandRow(r, f, yes) \/ PurgeCall(r, f, yes)
       PROVE  OutsideTypes'
  <2>1. Ask(f, yes) \/ AskNobody \/ Unread(f)
    BY <1>13 DEF HandRow, PurgeCall, AskFor
  <2> QED BY <1>2, <2>1, Asking
<1>14. ASSUME NEW r \in Request, NEW yes \in BOOLEAN, NEW c \in Client, ExpireList(r, c, yes)
       PROVE  OutsideTypes'
  <2>1. RowsOf(c) \subseteq Flow /\ UNCHANGED <<outside, asked>>
        /\ (unseen' = unseen \/ unseen' = unseen \cup RowsOf(c))
    BY <1>14 DEF ExpireList, RowsOf
  <2> HIDE DEF RowsOf
  <2> QED BY <1>2, <2>1 DEF outside, OutsideTypes
<1>15. CASE UNCHANGED vars
  BY SMTT(40), <1>1, <1>3, <1>15 DEF vars, outside, history
<1> QED BY <1>1, <1>4, <1>5, <1>6, <1>7, <1>8, <1>9, <1>10, <1>11, <1>12, <1>13, <1>14, <1>15
        DEF Next, Advance

-----------------------------------------------------------------------------
(* The requests                                                             *)
LEMMA JobForms ==
  /\ NoJob \in Job
  /\ \A f \in Flow : \A kind \in Operations : [NoJob EXCEPT !.kind = kind, !.flow = f] \in Job
  /\ \A C \in SUBSET Client : [NoJob EXCEPT !.clients = C] \in Job
  /\ [NoJob EXCEPT !.kind = "purge"] \in Job
  /\ \A j \in Job : /\ [j EXCEPT !.kind = None] \in Job
                    /\ [j EXCEPT !.one = None] \in Job
                    /\ \A C \in SUBSET Client : /\ [j EXCEPT !.clients = C] \in Job
                                                /\ [j EXCEPT !.clients = C, !.client = None] \in Job
                    /\ \A S \in SUBSET Flow :
                         /\ [j EXCEPT !.rows = S] \in Job
                         /\ \A f \in Flow : [j EXCEPT !.rows = S, !.one = f] \in Job
                         /\ \A c \in Client : [j EXCEPT !.client = c, !.rows = S] \in Job
                         /\ \A b \in BOOLEAN : [j EXCEPT !.rows = S, !.back = b] \in Job
<1>1. NoJob \in Job
  BY NoJobType
<1>2. \A f \in Flow : \A kind \in Operations : [NoJob EXCEPT !.kind = kind, !.flow = f] \in Job
  BY DEF NoJob, Job
<1>3. \A C \in SUBSET Client : [NoJob EXCEPT !.clients = C] \in Job
  BY DEF NoJob, Job
<1>4. [NoJob EXCEPT !.kind = "purge"] \in Job
  BY DEF NoJob, Job, Operations
<1>5. ASSUME NEW j \in Job
      PROVE  /\ [j EXCEPT !.kind = None] \in Job
             /\ [j EXCEPT !.one = None] \in Job
             /\ \A C \in SUBSET Client : /\ [j EXCEPT !.clients = C] \in Job
                                         /\ [j EXCEPT !.clients = C, !.client = None] \in Job
             /\ \A S \in SUBSET Flow :
                  /\ [j EXCEPT !.rows = S] \in Job
                  /\ \A f \in Flow : [j EXCEPT !.rows = S, !.one = f] \in Job
                  /\ \A c \in Client : [j EXCEPT !.client = c, !.rows = S] \in Job
                  /\ \A b \in BOOLEAN : [j EXCEPT !.rows = S, !.back = b] \in Job
  BY ZenonT(60), <1>5 DEF Job
<1> QED BY <1>1, <1>2, <1>3, <1>4, <1>5

(* A request takes a step with locals of the right kind for it.             *)
Moved(r) == \E s \in Step, j \in Job :
  Bound(s, j) /\ pc' = [pc EXCEPT ![r] = s] /\ job' = [job EXCEPT ![r] = j]

LEMMA MovedTypes ==
  ASSUME TypeInv, NEW r \in Request, Moved(r)
  PROVE  /\ pc' \in [Request -> Step] /\ job' \in [Request -> Job]
         /\ \A q \in Request : JobBound(q)'
         /\ \A q \in Request \ {r} : pc'[q] = pc[q] /\ job'[q] = job[q]
<1>1. pc \in [Request -> Step] /\ job \in [Request -> Job] /\ \A q \in Request : Bound(pc[q], job[q])
  BY DEF TypeInv, TypeOK, JobBound
<1>2. PICK s \in Step, j \in Job :
        Bound(s, j) /\ pc' = [pc EXCEPT ![r] = s] /\ job' = [job EXCEPT ![r] = j]
  BY DEF Moved
<1>3. /\ pc' \in [Request -> Step] /\ job' \in [Request -> Job]
      /\ \A q \in Request \ {r} : pc'[q] = pc[q] /\ job'[q] = job[q]
      /\ pc'[r] = s /\ job'[r] = j
  BY <1>1, <1>2
<1>4. \A q \in Request : Bound(pc'[q], job'[q])
  BY <1>1, <1>2, <1>3
<1> QED BY <1>3, <1>4 DEF JobBound

(* The steps that end a request, and those that only move on                *)
LEMMA Ends ==
  ASSUME TypeInv, NEW r \in Request, Done(r)
  PROVE  Moved(r)
<1>1. "idle" \in Step /\ Bound("idle", NoJob)
  BY DEF Step, Bound, FlowSteps
<1> QED BY <1>1, NoJobType DEF Done, Goto, Set, Moved

LEMMA MovesOn ==
  ASSUME TypeInv, NEW r \in Request, NEW s \in Step, Goto(r, s), UNCHANGED job, Bound(s, job[r])
  PROVE  Moved(r)
<1>1. job[r] \in Job /\ job' = [job EXCEPT ![r] = job[r]]
  BY DEF TypeInv, TypeOK
<1> QED BY <1>1 DEF Goto, Moved

LEMMA MovesWith ==
  ASSUME NEW r \in Request, NEW s \in Step, NEW j \in Job, Goto(r, s), Set(r, j), Bound(s, j)
  PROVE  Moved(r)
BY DEF Goto, Set, Moved

(* What a request has is enough for each step it takes.                     *)
LEMMA StartMoves ==
  ASSUME TypeInv, NEW r \in Request, Start(r) \/ Crash(r)
  PROVE  Moved(r)
<1>1. ASSUME NEW f \in Flow, NEW kind \in Operations, NEW s \in Step, Begin(r, kind, s, f),
             s # "rows_drop", s # "expire_client"
      PROVE  Moved(r)
  <2>1. [NoJob EXCEPT !.kind = kind, !.flow = f] \in Job
    BY JobForms
  <2>2. Bound(s, [NoJob EXCEPT !.kind = kind, !.flow = f])
    BY <1>1 DEF Bound, NoJob
  <2> QED BY <1>1, <2>1, <2>2, MovesWith DEF Begin
<1>2. {"client", "check", "hand_call", "purge_list", "idle"} \subseteq Step
      /\ {"authorize", "screen", "approve", "deny", "exchange", "disconnect"} \subseteq Operations
  BY DEF Step, Operations
<1>3. ASSUME NEW f \in Flow, Authorize(r, f) \/ OpenScreen(r, f) \/ UseConnection(r, f) PROVE Moved(r)
  BY <1>1, <1>2, <1>3 DEF Authorize, OpenScreen, UseConnection
<1>4. ASSUME NEW f \in Flow, NEW kind \in {"approve", "deny"}, OpenDecision(r, f, kind) PROVE Moved(r)
  BY <1>1, <1>2, <1>4 DEF OpenDecision
<1>5. ASSUME NEW f \in Flow, Disconnect(r, f) PROVE Moved(r)
  <2>1. CASE Begin(r, "disconnect", "hand_call", f)
    BY <1>1, <1>2, <2>1
  <2>2. CASE At(r, "idle") /\ UNCHANGED <<pc, job>>
    <3>1. Goto(r, "idle") /\ Bound("idle", job[r])
      BY <2>2 DEF At, Goto, Bound, FlowSteps, TypeInv, TypeOK
    <3> QED BY <1>2, <2>2, <3>1, MovesOn
  <2> QED BY <1>5, <2>1, <2>2 DEF Disconnect
<1>6. CASE Purge(r)
  <2>1. [NoJob EXCEPT !.kind = "purge"] \in Job /\ Bound("purge_list", [NoJob EXCEPT !.kind = "purge"])
    BY JobForms DEF Bound, FlowSteps
  <2> QED BY <1>2, <1>6, <2>1, MovesWith DEF Purge
<1>7. CASE Crash(r)
  BY <1>7, Ends DEF Crash
<1> QED BY <1>3, <1>4, <1>5, <1>6, <1>7 DEF Start

LEMMA AdvanceMoves ==
  ASSUME TypeInv, NEW r \in Request, Advance(r)
  PROVE  Moved(r)
<1> DEFINE j == job[r]
<1>0. j \in Job /\ pc \in [Request -> Step] /\ ClientOf \in [Flow -> Client]
      /\ Bound(pc[r], j)
  BY SignInAssumption DEF TypeInv, TypeOK, JobBound, SignInAssumption
<1>1. ASSUME Done(r) PROVE Moved(r)
  BY <1>1, Ends
\* one sign-in at hand all the way
<1>2. ASSUME pc[r] \in FlowSteps, NEW s \in FlowSteps, Goto(r, s), UNCHANGED job PROVE Moved(r)
  <2>1. s \in Step /\ Bound(s, j)
    BY <1>0, <1>2 DEF Step, Bound, FlowSteps
  <2> HIDE DEF j
  <2> QED BY <1>2, <2>1, MovesOn DEF j
<1>3. ASSUME CheckFlow(r) \/ FindRow(r) \/ ForgetFlow(r) \/ Approve(r) \/ Claim(r) \/ DropRow(r)
             \/ Exchange(r) \/ HandClear(r)
      PROVE  Moved(r)
  <2>1. \/ Done(r)
        \/ pc[r] \in FlowSteps /\ UNCHANGED job /\ \E s \in FlowSteps : Goto(r, s)
    BY <1>3 DEF CheckFlow, FindRow, ForgetFlow, Approve, Claim, DropRow, Exchange, HandClear, At, FlowSteps
  <2> QED BY <1>1, <1>2, <2>1
<1>4. ASSUME NEW yes \in BOOLEAN, Poll(r, yes) \/ Vet(r, yes) \/ Create(r, yes) \/ Return(r, yes)
             \/ Withdraw(r, yes) \/ HandCall(r, yes)
      PROVE  Moved(r)
  <2>1. \/ Done(r)
        \/ pc[r] \in FlowSteps /\ UNCHANGED job /\ \E s \in FlowSteps : Goto(r, s)
    BY <1>4 DEF Poll, Vet, Create, Return, Withdraw, HandCall, At, FlowSteps
  <2> QED BY <1>1, <1>2, <2>1
<1>5. ASSUME NEW yes \in BOOLEAN, Decide(r, yes) PROVE Moved(r)
  <2>1. CASE Done(r)
    BY <1>1, <2>1
  <2>2. CASE ~Done(r)
    <3> DEFINE k == [j EXCEPT !.kind = None]
    <3>1. PICK s \in {"claim", "approve"} : Goto(r, s) /\ Set(r, k) /\ pc[r] = "decide"
      BY <1>5, <2>2 DEF Decide, At
    <3>2. k \in Job
      BY <1>0, JobForms
    <3>3. s \in Step /\ Bound(s, k)
      BY <1>0, <3>1 DEF Bound, FlowSteps, Step, Job
    <3> HIDE DEF k
    <3> QED BY <3>1, <3>2, <3>3, MovesWith
  <2> QED BY <2>1, <2>2
\* the check of the registration, and what it may turn into
<1>6. CASE ClientCheck(r)
  <2> DEFINE c == ClientOf[j.flow]
             k == [NoJob EXCEPT !.clients = {c}]
  <2>1. pc[r] = "client" /\ j.flow \in Flow /\ c \in Client
    BY <1>0, <1>6 DEF ClientCheck, At, Bound, FlowSteps
  <2>2. \/ Done(r)
        \/ Goto(r, "expire_list") /\ Set(r, k)
        \/ UNCHANGED job /\ \E s \in {"create_flow", "exchange", "row"} : Goto(r, s)
    BY <1>6 DEF ClientCheck
  <2>3. k \in Job /\ "expire_list" \in Step /\ Bound("expire_list", k)
    BY <2>1, JobForms DEF Step, Bound, FlowSteps
  <2>4. pc[r] \in FlowSteps /\ {"create_flow", "exchange", "row"} \subseteq FlowSteps
    BY <2>1 DEF FlowSteps
  <2> HIDE DEF j, c, k
  <2> QED BY <1>1, <1>2, <2>2, <2>3, <2>4, MovesWith
<1>7. CASE CreateFlow(r)
  <2>1. "sweep_list" \in Step /\ Bound("sweep_list", NoJob)
    BY DEF Step, Bound, FlowSteps
  <2> QED BY <1>1, <1>7, <2>1, NoJobType, MovesWith DEF CreateFlow
\* the sweeps and the purge
<1>8. ASSUME NEW s \in Step, NEW k \in Job, s \notin FlowSteps, Goto(r, s), Set(r, k),
             s = "rows_drop" => k.one \in Flow, s = "expire_client" => k.client \in Client
      PROVE  Moved(r)
  BY <1>8, MovesWith DEF Bound
<1>9. /\ {"rows_call", "rows_drop", "sweep_clients", "expire_list", "expire_client", "purge_call",
          "purge_wipe"} \subseteq Step
      /\ {"rows_call", "rows_drop", "sweep_clients", "expire_list", "expire_client", "purge_call",
          "purge_wipe"} \cap FlowSteps = {}
  BY DEF Step, FlowSteps
<1>10. CASE SweepList(r)
  <2>1. PICK S \in SUBSET Flow : Set(r, [j EXCEPT !.rows = S]) /\ Goto(r, "rows_call")
    BY <1>10 DEF SweepList, OldestOf, Abandoned
  <2>2. [j EXCEPT !.rows = S] \in Job
    BY <1>0, JobForms
  <2> HIDE DEF j
  <2> QED BY <1>8, <1>9, <2>1, <2>2
<1>11. ASSUME NEW f \in Flow, NEW yes \in BOOLEAN, HandRow(r, f, yes) PROVE Moved(r)
  <2> DEFINE k == [j EXCEPT !.rows = @ \ {f}, !.one = f]
  <2>1. k \in Job /\ k.one = f
    BY <1>0 DEF Job
  <2>2. Goto(r, "rows_drop") /\ Set(r, k)
    BY <1>11 DEF HandRow
  <2> HIDE DEF k
  <2> QED BY <1>8, <1>9, <2>1, <2>2
<1>12. CASE DropOne(r)
  <2> DEFINE k == [j EXCEPT !.one = None]
  <2>1. k \in Job
    BY <1>0, JobForms
  <2>2. Goto(r, "rows_call") /\ Set(r, k)
    BY <1>12 DEF DropOne
  <2> HIDE DEF k
  <2> QED BY <1>8, <1>9, <2>1, <2>2
<1>13. CASE RowsDone(r)
  <2>1. UNCHANGED job /\ \/ Goto(r, "sweep_clients")
                         \/ Goto(r, "expire_client") /\ j.client # None
    BY <1>13 DEF RowsDone
  <2>2. Bound("sweep_clients", j) /\ (j.client # None => Bound("expire_client", j))
    BY <1>0 DEF Bound, FlowSteps, Job
  <2> HIDE DEF j
  <2> QED BY <1>9, <2>1, <2>2, MovesOn DEF j
<1>14. CASE SweepClients(r)
  <2>1. PICK C \in SUBSET Client : Set(r, [j EXCEPT !.clients = C]) /\ Goto(r, "expire_list")
    BY <1>14 DEF SweepClients, OldestOf
  <2>2. [j EXCEPT !.clients = C] \in Job
    BY <1>0, JobForms
  <2> HIDE DEF j
  <2> QED BY <1>8, <1>9, <2>1, <2>2
<1>15. ASSUME NEW c \in Client, NEW yes \in BOOLEAN, ExpireList(r, c, yes) PROVE Moved(r)
  <2>1. PICK S \in SUBSET Flow : Set(r, [j EXCEPT !.client = c, !.rows = S]) /\ Goto(r, "rows_call")
    <3>1. RowsOf(c) \in SUBSET Flow /\ {} \in SUBSET Flow
      BY DEF RowsOf
    <3>2. /\ Set(r, [j EXCEPT !.client = c, !.rows = IF yes THEN RowsOf(c) ELSE {}])
          /\ Goto(r, "rows_call")
      BY <1>15 DEF ExpireList
    <3> HIDE DEF j
    <3> QED BY <3>1, <3>2
  <2>2. [j EXCEPT !.client = c, !.rows = S] \in Job
    BY <1>0, JobForms
  <2> HIDE DEF j
  <2> QED BY <1>8, <1>9, <2>1, <2>2
<1>16. CASE ExpireClient(r)
  <2> DEFINE k == [j EXCEPT !.clients = @ \ {j.client}, !.client = None]
  <2>1. k \in Job
    BY <1>0 DEF Job
  <2>2. Goto(r, "expire_list") /\ Set(r, k)
    BY <1>16 DEF ExpireClient
  <2> HIDE DEF k
  <2> QED BY <1>8, <1>9, <2>1, <2>2
<1>17. CASE SweepEnds(r)
  BY <1>1, <1>17 DEF SweepEnds
<1>18. CASE PurgeList(r)
  <2>1. PICK S \in SUBSET Flow, b \in BOOLEAN :
          Set(r, [j EXCEPT !.rows = S, !.back = b]) /\ Goto(r, "purge_call")
    BY <1>18 DEF PurgeList
  <2>2. [j EXCEPT !.rows = S, !.back = b] \in Job
    BY <1>0, JobForms
  <2> HIDE DEF j
  <2> QED BY <1>8, <1>9, <2>1, <2>2
<1>19. ASSUME NEW f \in Flow, NEW yes \in BOOLEAN, PurgeCall(r, f, yes) PROVE Moved(r)
  <2> DEFINE k == [j EXCEPT !.rows = @ \ {f}, !.back = @ \/ (RowThere(f) /\ yes)]
  <2>1. k \in Job
    <3>1. j.rows \ {f} \in SUBSET Flow /\ (j.back \/ (RowThere(f) /\ yes)) \in BOOLEAN
      BY <1>0 DEF Job
    <3>2. k = [j EXCEPT !.rows = j.rows \ {f}, !.back = j.back \/ (RowThere(f) /\ yes)]
      OBVIOUS
    <3> HIDE DEF j, k
    <3> QED BY <1>0, <3>1, <3>2, JobForms
  <2> DEFINE m == [j EXCEPT !.rows = @ \ {f}]
  <2>2. m \in Job
    <3>1. j.rows \ {f} \in SUBSET Flow /\ j.back \in BOOLEAN
      BY <1>0 DEF Job
    <3>2. m = [j EXCEPT !.rows = j.rows \ {f}, !.back = j.back]
      BY <1>0 DEF Job
    <3> HIDE DEF j, m
    <3> QED BY <1>0, <3>1, <3>2, JobForms
  <2>3. Goto(r, "purge_call") /\ (Set(r, k) \/ Set(r, m))
    BY <1>0, <1>19 DEF PurgeCall, At, Goto
  <2> HIDE DEF k, m
  <2> QED BY <1>8, <1>9, <2>1, <2>2, <2>3
<1>20. CASE PurgeDone(r)
  <2>1. Done(r) \/ (Goto(r, "purge_wipe") /\ UNCHANGED job)
    BY <1>20 DEF PurgeDone
  <2>2. Bound("purge_wipe", j)
    BY DEF Bound, FlowSteps
  <2> HIDE DEF j
  <2> QED BY <1>1, <1>9, <2>1, <2>2, MovesOn DEF j
<1>21. CASE PurgeWipe(r)
  BY <1>1, <1>21 DEF PurgeWipe
<1> QED BY <1>3, <1>4, <1>5, <1>6, <1>7, <1>10, <1>11, <1>12, <1>13, <1>14, <1>15, <1>16, <1>17,
           <1>18, <1>19, <1>20, <1>21 DEF Advance

-----------------------------------------------------------------------------
LEMMA TypeStep == TypeInv /\ [Next]_vars => TypeInv'
<1> SUFFICES ASSUME TypeInv, [Next]_vars PROVE TypeInv'
  OBVIOUS
<1>1. clock' \in 0..MaxClock /\ Tables' /\ OutsideTypes' /\ claims' \in [Flow -> 0..2]
  BY TablesStep, OutsideStep
<1>2. DecisionInv'
  BY DecisionStep DEF TypeInv
<1>3. pc' \in [Request -> Step] /\ job' \in [Request -> Job] /\ \A q \in Request : JobBound(q)'
  <2>1. CASE UNCHANGED <<pc, job>>
    BY <2>1 DEF TypeInv, TypeOK, JobBound
  <2>2. ASSUME NEW r \in Request, Start(r) \/ Advance(r) \/ Crash(r)
        PROVE  pc' \in [Request -> Step] /\ job' \in [Request -> Job] /\ \A q \in Request : JobBound(q)'
    <3>1. Moved(r)
      BY <2>2, StartMoves, AdvanceMoves
    <3> QED BY <3>1, MovedTypes
  <2> QED BY <2>1, <2>2 DEF Next, vars, Tick, TogglePause, Register, GrantAccess
<1>4. TypeOK'
  BY <1>1, <1>3 DEF TypeOK, Tables, OutsideTypes, ClientRow, FlowRow, AuthRow, GrantRow
<1> QED BY <1>2, <1>3, <1>4 DEF TypeInv

(* Every variable keeps its type, and no row outlives the row it refers to, *)
(* however many requests insert, sweep and purge at once.                   *)
THEOREM SignInTypeCorrect == Spec => []TypeOK
<1>1. TypeInv => TypeOK
  BY DEF TypeInv
<1> QED BY <1>1, TypeInit, TypeStep, PTL DEF Spec

-----------------------------------------------------------------------------
(***************************************************************************)
(* Where an app password is, at every moment of every sign-in: with the    *)
(* request that collected it, in a row, handed back, or lost to a fault    *)
(* that nothing could see.  For any number of sign-ins, registrations,     *)
(* sweeps and purges, whatever crashes or goes unanswered between.         *)
(***************************************************************************)

(* Nextcloud was asked to take it back, or nothing could ever see it        *)
Known == asked \cup unseen

(* The id of a new sign-in is in the hands of the request that drew it.     *)
FreshId ==
  /\ \A r \in Request : pc[r] = "create_flow" => job[r].kind = "authorize"
  /\ \A r \in Request : job[r].kind = "authorize" =>
       /\ pc[r] \in {"client", "create_flow"} /\ nextcloud[job[r].flow] = "none"
       /\ \A q \in Request : job[q].kind = "authorize" /\ job[q].flow = job[r].flow => q = r

(* A password that was not collected has no row, and one that is in hands   *)
(* is in one request's, which has yet to write it.                          *)
CollectedOnce ==
  /\ \A f \in Flow : nextcloud[f] # "collected" => row[f].state = "none"
  /\ \A r \in Request : \A f \in Flow : InHands(r, f) =>
       /\ nextcloud[f] = "collected" /\ row[f].state = "none"
       /\ \A q \in Request : InHands(q, f) => q = r

(* One that was collected and not written is in hands or known of, and no   *)
(* row goes before Nextcloud is asked.                                      *)
InCustody ==
  /\ \A f \in Flow : nextcloud[f] = "collected" /\ row[f].state = "none" =>
       f \in Known \/ \E r \in Request : InHands(r, f)
  /\ \A f \in Flow : row[f].state = "gone" => f \in Known

Deciding == {"decide", "approve", "claim", "withdraw", "drop_row"}
Sweeping == {"rows_call", "rows_drop", "expire_client"}
Purging == {"purge_call", "purge_wipe"}

(* What a request is about to delete has been asked back, or is listed to   *)
(* be, or was written behind its back.                                      *)
Deleting(r) ==
  LET j == job[r] IN
  /\ pc[r] \in Deciding => row[j.flow].state # "none"
  /\ pc[r] = "drop_row" => row[j.flow].state = "gone" \/ j.flow \in Known
  /\ \A f \in j.rows : row[f].state # "none"
  /\ pc[r] = "sweep_list" => j.client = None
  /\ pc[r] = "rows_drop" => row[j.one].state = "gone" \/ j.one \in Known
  /\ pc[r] \in {"expire_client", "purge_wipe"} => j.rows = {}
  /\ pc[r] \in Sweeping =>
       \A f \in Flow : RowThere(f) /\ ClientOf[f] = j.client => f \in Known \cup j.rows
  /\ pc[r] \in Purging => \A f \in Flow : RowThere(f) => f \in Known \cup j.rows

CustodyInv ==
  /\ TypeInv /\ FreshId /\ CollectedOnce /\ InCustody
  /\ \A r \in Request : Deleting(r)

LEMMA CustodyInit == Init => CustodyInv
<1> SUFFICES ASSUME Init PROVE CustodyInv
  OBVIOUS
<1>1. /\ \A r \in Request : pc[r] = "idle" /\ job[r] = NoJob
      /\ \A f \in Flow : nextcloud[f] = "none" /\ row[f].state = "none"
  BY DEF Init
<1>2. NoJob.kind = None /\ NoJob.rows = {}
  BY DEF NoJob
<1>3. None # "authorize"
  BY SignInAssumption DEF SignInAssumption, Operations
<1>4. FreshId
  BY <1>1, <1>2, <1>3 DEF FreshId
<1>5. CollectedOnce /\ InCustody
  BY <1>1 DEF CollectedOnce, InCustody, InHands
<1>6. \A r \in Request : Deleting(r)
  BY <1>1, <1>2 DEF Deleting, Deciding, Sweeping, Purging
<1> QED BY <1>4, <1>5, <1>6, TypeInit DEF CustodyInv

-----------------------------------------------------------------------------
(* What a step may do to the rows and to the histories                      *)
KnowsMore == Known \subseteq Known'
KeepsRows == \A f \in Flow :
  /\ row'[f].state = "none" <=> row[f].state = "none"
  /\ row'[f].state = "gone" => row[f].state = "gone" \/ f \in Known'
  /\ row[f].state = "gone" => row'[f].state = "gone"

(* What happens beside a request leaves it what it is about to delete.      *)
LEMMA OthersKeep ==
  ASSUME CustodyInv, NEW q \in Request, pc'[q] = pc[q], job'[q] = job[q], KnowsMore,
         \A f \in Flow : /\ row[f].state # "none" => row'[f].state # "none"
                         /\ row[f].state = "gone" => row'[f].state = "gone"
                         /\ RowThere(f)' /\ ~RowThere(f) => f \in Known' \/ ~Behind(f)
  PROVE  Deleting(q)'
<1>1. Deleting(q) /\ JobBound(q) /\ job[q] \in Job
  BY DEF CustodyInv, TypeInv, TypeOK
<1>2. pc[q] \in Deciding => job[q].flow \in Flow
  BY <1>1 DEF JobBound, Bound, Deciding, FlowSteps
<1>3. pc[q] = "rows_drop" => job[q].one \in Flow
  BY <1>1 DEF JobBound, Bound
<1>4. job[q].rows \subseteq Flow
  BY <1>1 DEF Job
<1>5. pc[q] \in Sweeping => \A f \in Flow : ClientOf[f] = job[q].client => Behind(f)
  BY DEF Behind, Sweeping
<1>6. pc[q] \in Purging => \A f \in Flow : Behind(f)
  BY DEF Behind, Purging
<1> HIDE DEF Known, KnowsMore
<1>7. \A f \in Flow : f \in Known => f \in Known'
  BY DEF KnowsMore
<1>8. /\ pc[q] \in Deciding => row'[job[q].flow].state # "none"
      /\ pc[q] = "drop_row" => row'[job[q].flow].state = "gone" \/ job[q].flow \in Known'
      /\ \A f \in job[q].rows : row'[f].state # "none"
      /\ pc[q] = "rows_drop" => row'[job[q].one].state = "gone" \/ job[q].one \in Known'
  BY <1>1, <1>2, <1>3, <1>4, <1>7 DEF Deleting, Deciding
<1>9. /\ pc[q] \in Sweeping =>
           \A f \in Flow : RowThere(f)' /\ ClientOf[f] = job[q].client => f \in Known' \cup job[q].rows
      /\ pc[q] \in Purging => \A f \in Flow : RowThere(f)' => f \in Known' \cup job[q].rows
  BY <1>1, <1>5, <1>6, <1>7 DEF Deleting
<1> QED BY <1>1, <1>8, <1>9 DEF Deleting

Hands == {"vet", "create", "return", "give_back"}
Custody == FreshId /\ CollectedOnce /\ InCustody /\ \A r \in Request : Deleting(r)

(* A step that starts no sign-in and has no password in hands needs only    *)
(* account for itself and for the rows it deletes.                          *)
LEMMA Aside ==
  ASSUME CustodyInv, NEW r \in Request, Moved(r), KnowsMore, KeepsRows, UNCHANGED nextcloud,
         pc[r] \notin Hands, pc'[r] \notin Hands, pc'[r] # "create_flow", job'[r].kind # "authorize",
         Deleting(r)'
  PROVE  Custody'
<1>1. \A q \in Request \ {r} : pc'[q] = pc[q] /\ job'[q] = job[q]
  BY MovedTypes DEF CustodyInv
<1>2. row \in [Flow -> AuthRow]
  BY TypedTables DEF CustodyInv, TypeInv, Tables
<1>3. \A f \in Flow : /\ row[f].state # "none" => row'[f].state # "none"
                      /\ row[f].state = "gone" => row'[f].state = "gone"
                      /\ RowThere(f)' => RowThere(f)
  BY <1>2 DEF KeepsRows, RowThere, AuthRow
<1>4. \A q \in Request : Deleting(q)'
  BY <1>1, <1>3, OthersKeep
<1>5. \A q \in Request : \A f : InHands(q, f)' <=> InHands(q, f)
  BY <1>1 DEF InHands, Hands
<1>6. FreshId'
  BY <1>1 DEF CustodyInv, FreshId
<1>7. CollectedOnce'
  BY <1>5 DEF CustodyInv, CollectedOnce, KeepsRows
<1>8. InCustody'
  <2> HIDE DEF Known
  <2>1. \A f \in Flow : f \in Known => f \in Known'
    BY DEF KnowsMore
  <2> QED BY <1>5, <2>1 DEF CustodyInv, InCustody, KeepsRows
<1> QED BY <1>4, <1>6, <1>7, <1>8 DEF Custody

CalmSteps == Step \ (Hands \cup Deciding \cup Sweeping \cup Purging \cup {"create_flow", "sweep_list"})

LEMMA Calm ==
  ASSUME CustodyInv, NEW r \in Request, Moved(r), KnowsMore, KeepsRows, UNCHANGED nextcloud,
         pc[r] \notin Hands, pc'[r] \in CalmSteps, job'[r].kind # "authorize",
         job'[r].rows \subseteq job[r].rows
  PROVE  Custody'
<1>1. job[r].rows \subseteq Flow /\ \A f \in job[r].rows : row[f].state # "none"
  BY DEF CustodyInv, TypeInv, TypeOK, Job, Deleting
<1>2. \A f \in job'[r].rows : row'[f].state # "none"
  BY <1>1 DEF KeepsRows
<1>3. Deleting(r)'
  BY <1>2 DEF Deleting, CalmSteps, Deciding, Sweeping, Purging
<1>4. pc'[r] \notin Hands /\ pc'[r] # "create_flow"
  BY DEF CalmSteps
<1> QED BY <1>3, <1>4, Aside

LEMMA RowsUntouched == UNCHANGED row => KeepsRows
BY DEF KeepsRows

LEMMA NothingAsked == UNCHANGED <<asked, unseen>> => KnowsMore
BY DEF KnowsMore, Known

LEMMA Asked ==
  ASSUME NEW f, NEW yes, Ask(f, yes) \/ Unread(f)
  PROVE  KnowsMore /\ f \in Known' /\ UNCHANGED nextcloud
BY DEF Ask, Unread, KnowsMore, Known, outside

(* What a request's step has to do with what it holds                       *)
Locals(r) ==
  /\ pc \in [Request -> Step] /\ job \in [Request -> Job]
  /\ pc[r] \notin {"client", "create_flow"} => job[r].kind # "authorize"
  /\ NoJob.kind # "authorize" /\ NoJob.rows = {} /\ None # "authorize"

LEMMA Held ==
  ASSUME CustodyInv, NEW r \in Request
  PROVE  Locals(r)
<1>1. None # "authorize"
  BY SignInAssumption DEF SignInAssumption, Operations
<1> QED BY <1>1 DEF CustodyInv, TypeInv, TypeOK, FreshId, NoJob, Locals

(* Ending a request is calm.                                                *)
LEMMA CalmEnd ==
  ASSUME CustodyInv, NEW r \in Request, Done(r), KnowsMore, KeepsRows, UNCHANGED nextcloud,
         pc[r] \notin Hands
  PROVE  Custody'
<1>1. Moved(r) /\ Locals(r)
  BY Ends, Held DEF CustodyInv
<1>2. pc'[r] = "idle" /\ job'[r] = NoJob
  BY <1>1 DEF Done, Goto, Set, Locals
<1>3. "idle" \in CalmSteps
  BY DEF CalmSteps, Step, Hands, Deciding, Sweeping, Purging
<1> QED BY <1>1, <1>2, <1>3, Calm DEF Locals

(* So is going on with what one has.                                        *)
LEMMA CalmOn ==
  ASSUME CustodyInv, NEW r \in Request, NEW s \in CalmSteps, Moved(r), Goto(r, s), KnowsMore, KeepsRows,
         UNCHANGED nextcloud, pc[r] \notin Hands,
         \/ UNCHANGED job /\ job[r].kind # "authorize"
         \/ \E j \in Job : Set(r, j) /\ j.kind # "authorize" /\ j.rows \subseteq job[r].rows
  PROVE  Custody'
<1>1. Locals(r)
  BY Held
<1>2. /\ pc'[r] = s /\ job'[r].kind # "authorize" /\ job'[r].rows \subseteq job[r].rows
  BY <1>1 DEF Goto, Set, Locals
<1> QED BY <1>2, Calm

-----------------------------------------------------------------------------
(* Steps of nobody's                                                        *)
LEMMA BesideRequests ==
  ASSUME CustodyInv,
         \/ Tick \/ TogglePause \/ (\E c \in Client : Register(c)) \/ (\E f \in Flow : GrantAccess(f))
         \/ UNCHANGED vars
  PROVE  Custody'
<1>1. /\ UNCHANGED <<pc, job, row, asked, unseen>>
      /\ \/ UNCHANGED nextcloud
         \/ \E f \in Flow : nextcloud[f] = "waiting" /\ nextcloud' = [nextcloud EXCEPT ![f] = "granted"]
  BY DEF Tick, TogglePause, Register, GrantAccess, vars, store, outside, history
<1>2. nextcloud \in [Flow -> {"none", "waiting", "granted", "collected"}]
  BY DEF CustodyInv, TypeInv, TypeOK
<1>3. \A f \in Flow : /\ nextcloud'[f] = "collected" <=> nextcloud[f] = "collected"
                      /\ nextcloud[f] = "none" => nextcloud'[f] = "none"
  BY <1>1, <1>2
<1>4. \A q \in Request : Deleting(q)'
  BY <1>1, OthersKeep DEF RowThere, KnowsMore, Known
<1>5. \A q \in Request : job[q].kind = "authorize" => job[q].flow \in Flow
  BY DEF CustodyInv, TypeInv, JobBound, Bound, FreshId, FlowSteps
<1>6. FreshId'
  BY <1>1, <1>3, <1>5 DEF CustodyInv, FreshId
<1>7. CollectedOnce' /\ InCustody'
  BY <1>1, <1>3 DEF CustodyInv, CollectedOnce, InCustody, InHands, Known
<1> QED BY <1>4, <1>6, <1>7 DEF Custody

-----------------------------------------------------------------------------
(* A request begins: only a new sign-in brings an id of its own.            *)
LEMMA Begins ==
  ASSUME CustodyInv, NEW r \in Request, Start(r)
  PROVE  Custody'
<1>0. Moved(r) /\ Locals(r)
  BY StartMoves, Held DEF CustodyInv
<1>1. ASSUME NEW f \in Flow, NEW kind \in Operations, NEW s \in CalmSteps, Begin(r, kind, s, f),
             kind # "authorize", KeepsRows, UNCHANGED <<nextcloud, asked, unseen>>
      PROVE  Custody'
  <2> DEFINE j == [NoJob EXCEPT !.kind = kind, !.flow = f]
  <2>1. j \in Job /\ j.kind = kind /\ j.rows = {}
    BY JobForms DEF NoJob
  <2>2. Goto(r, s) /\ Set(r, j) /\ pc[r] \notin Hands
    BY <1>1 DEF Begin, At, Hands
  <2> HIDE DEF j
  <2> QED BY <1>0, <1>1, <2>1, <2>2, CalmOn, NothingAsked
<1>2. {"client", "check", "hand_call", "purge_list", "idle"} \subseteq CalmSteps
      /\ {"screen", "approve", "deny", "exchange", "disconnect"} \subseteq Operations
  BY DEF CalmSteps, Step, Hands, Deciding, Sweeping, Purging, Operations
<1>3. ASSUME NEW f \in Flow, OpenScreen(r, f) \/ UseConnection(r, f)
             \/ \E kind \in {"approve", "deny"} : OpenDecision(r, f, kind)
      PROVE  Custody'
  <2>1. UNCHANGED <<row, nextcloud, asked, unseen>>
    BY <1>3 DEF OpenScreen, UseConnection, OpenDecision, store, outside, history
  <2>2. \E kind \in {"screen", "exchange", "approve", "deny"}, s \in {"check", "client"} : Begin(r, kind, s, f)
    BY <1>3 DEF OpenScreen, UseConnection, OpenDecision
  <2> QED BY <1>1, <1>2, <2>1, <2>2, RowsUntouched
<1>4. ASSUME NEW f \in Flow, Disconnect(r, f) PROVE Custody'
  <2>1. UNCHANGED <<nextcloud, asked, unseen>>
    BY <1>4 DEF Disconnect, outside, history
  <2>2. KeepsRows
    <3>1. row \in [Flow -> AuthRow]
      BY TypedTables DEF CustodyInv, TypeInv, Tables
    <3>2. \A g \in Flow : row'[g].state = row[g].state \/ (row[g].state = "live" /\ row'[g].state = "revoked")
      BY <1>4, <3>1 DEF Disconnect, AuthRow
    <3> QED BY <3>2 DEF KeepsRows
  <2>3. CASE Begin(r, "disconnect", "hand_call", f)
    BY <1>1, <1>2, <2>1, <2>2, <2>3
  <2>4. CASE At(r, "idle") /\ UNCHANGED <<pc, job>>
    <3>1. Goto(r, "idle") /\ job[r].kind # "authorize" /\ pc[r] \notin Hands
      BY <1>0, <2>4 DEF At, Goto, Locals, Hands
    <3> QED BY <1>0, <1>2, <2>1, <2>2, <2>4, <3>1, CalmOn, NothingAsked
  <2> QED BY <1>4, <2>3, <2>4 DEF Disconnect
<1>5. CASE Purge(r)
  <2> DEFINE j == [NoJob EXCEPT !.kind = "purge"]
  <2>1. j \in Job /\ j.kind = "purge" /\ j.rows = {}
    BY JobForms DEF NoJob
  <2>2. /\ UNCHANGED <<row, nextcloud, asked, unseen>> /\ Goto(r, "purge_list") /\ Set(r, j)
        /\ pc[r] \notin Hands
    BY <1>5 DEF Purge, store, outside, history, At, Hands
  <2> HIDE DEF j
  <2> QED BY <1>0, <1>2, <2>1, <2>2, CalmOn, NothingAsked, RowsUntouched
\* the id is drawn at random: no other request has it, and nobody has used it
<1>6. ASSUME NEW f \in Flow, Authorize(r, f) PROVE Custody'
  <2>1. /\ UNCHANGED <<row, nextcloud, asked, unseen>>
        /\ nextcloud[f] = "none" /\ pc[r] = "idle"
        /\ \A q \in Request : ~(job[q].kind = "authorize" /\ job[q].flow = f)
    BY <1>6 DEF Authorize, Begin, At, store, outside, history
  <2>2. pc'[r] = "client" /\ job'[r].flow = f /\ job'[r].rows = {}
    BY <1>0, <1>6 DEF Authorize, Begin, Goto, Set, Locals, NoJob
  <2>3. \A q \in Request \ {r} : pc'[q] = pc[q] /\ job'[q] = job[q]
    BY <1>0, MovedTypes DEF CustodyInv
  <2>4. \A q \in Request \ {r} : Deleting(q)'
    BY <2>1, <2>3, OthersKeep DEF RowThere, KnowsMore, Known
  <2>5. Deleting(r)'
    BY <2>2 DEF Deleting, Deciding, Sweeping, Purging
  <2>6. FreshId'
    BY <2>1, <2>2, <2>3 DEF CustodyInv, FreshId
  <2>7. \A q \in Request : \A g : InHands(q, g)' <=> InHands(q, g)
    BY <2>1, <2>2, <2>3 DEF InHands
  <2>8. CollectedOnce' /\ InCustody'
    BY <2>1, <2>7 DEF CustodyInv, CollectedOnce, InCustody, Known
  <2> QED BY <2>4, <2>5, <2>6, <2>8 DEF Custody
<1> QED BY <1>3, <1>4, <1>5, <1>6 DEF Start

-----------------------------------------------------------------------------
(* A request goes on without touching a row or asking anybody.              *)
LEMMA Looks ==
  ASSUME CustodyInv, NEW r \in Request,
         \/ CheckFlow(r) \/ FindRow(r) \/ ForgetFlow(r) \/ Approve(r) \/ Claim(r) \/ Exchange(r)
         \/ SweepList(r) \/ RowsDone(r) \/ SweepClients(r) \/ SweepEnds(r) \/ PurgeList(r)
         \/ PurgeDone(r) \/ \E yes \in BOOLEAN : Decide(r, yes)
  PROVE  Custody'
<1> DEFINE j == job[r]
<1>0. Moved(r) /\ Locals(r) /\ j \in Job
  BY AdvanceMoves, Held DEF CustodyInv, Advance, Locals
<1>1. UNCHANGED <<row, nextcloud, asked, unseen>>
  BY DEF CheckFlow, FindRow, ForgetFlow, Approve, Claim, Exchange, SweepList, RowsDone, SweepClients,
         SweepEnds, PurgeList, PurgeDone, Decide, store, outside, history
<1>2. KnowsMore /\ KeepsRows
  BY <1>1, RowsUntouched, NothingAsked
<1>3. pc[r] \notin Hands
  BY DEF CheckFlow, FindRow, ForgetFlow, Approve, Claim, Exchange, SweepList, RowsDone, SweepClients,
         SweepEnds, PurgeList, PurgeDone, Decide, At, Hands
<1>4. CASE Done(r)
  BY <1>1, <1>2, <1>3, <1>4, CalmEnd
<1>5. {"client", "row", "poll", "forget_flow", "sweep_clients", "expire_list"} \subseteq CalmSteps
  BY DEF CalmSteps, Step, Hands, Deciding, Sweeping, Purging
<1>6. ASSUME pc[r] \notin {"client", "create_flow"}, NEW s \in CalmSteps, Goto(r, s), UNCHANGED job
      PROVE  Custody'
  BY <1>0, <1>1, <1>2, <1>3, <1>6, CalmOn DEF Locals
<1>7. CASE CheckFlow(r)
  <2>1. pc[r] = "check" /\ (Done(r) \/ (Goto(r, "client") /\ UNCHANGED job))
    BY <1>7 DEF CheckFlow, At
  <2> QED BY <1>4, <1>5, <1>6, <2>1
<1>8. ASSUME NEW s \in {"decide", "approve", "claim", "withdraw"}, pc'[r] = s, j.flow \in Flow,
             job'[r].kind # "authorize", job'[r].flow = j.flow, job'[r].rows = j.rows,
             row[j.flow].state # "none"
      PROVE  Custody'
  <2>1. \A f \in j.rows : row'[f].state # "none"
    BY <1>1 DEF CustodyInv, Deleting
  <2>2. Deleting(r)'
    BY <1>1, <1>8, <2>1 DEF Deleting, Deciding, Sweeping, Purging
  <2> QED BY <1>0, <1>1, <1>2, <1>3, <1>8, <2>2, Aside DEF Hands
<1>9. pc[r] \in FlowSteps => j.flow \in Flow
  BY DEF CustodyInv, TypeInv, JobBound, Bound
<1>10. CASE FindRow(r)
  <2>1. CASE Goto(r, "poll") /\ UNCHANGED job
    BY <1>5, <1>6, <1>10, <2>1 DEF FindRow, At
  <2>2. CASE Goto(r, "decide") /\ UNCHANGED job /\ RowThere(j.flow)
    <3>1. pc[r] = "row" /\ pc'[r] = "decide" /\ row[j.flow].state # "none"
      BY <1>0, <1>10, <2>2 DEF FindRow, At, Goto, Locals, RowThere
    <3> QED BY <1>0, <1>8, <1>9, <2>2, <3>1 DEF FlowSteps, Locals
  <2> QED BY <1>4, <1>10, <2>1, <2>2 DEF FindRow
<1>11. CASE ForgetFlow(r) \/ Approve(r) \/ Exchange(r) \/ SweepEnds(r)
  BY <1>4, <1>11 DEF ForgetFlow, Approve, Exchange, SweepEnds
<1>12. CASE Claim(r)
  <2>1. CASE Goto(r, "withdraw") /\ UNCHANGED job
    <3>1. pc[r] = "claim" /\ pc'[r] = "withdraw"
      BY <1>0, <1>12, <2>1 DEF Claim, At, Goto, Locals
    <3>2. row[j.flow].state # "none"
      BY <3>1 DEF CustodyInv, Deleting, Deciding
    <3> QED BY <1>0, <1>8, <1>9, <2>1, <3>1, <3>2 DEF FlowSteps, Locals
  <2> QED BY <1>4, <1>12, <2>1 DEF Claim
<1>13. ASSUME NEW yes \in BOOLEAN, Decide(r, yes) PROVE Custody'
  <2>1. CASE ~Done(r)
    <3>1. PICK s \in {"claim", "approve"} : Goto(r, s) /\ Set(r, [j EXCEPT !.kind = None]) /\ pc[r] = "decide"
      BY <1>13, <2>1 DEF Decide, At
    <3>2. pc'[r] = s /\ job'[r] = [j EXCEPT !.kind = None]
      BY <1>0, <3>1 DEF Goto, Set, Locals
    <3>3. job'[r].kind = None /\ job'[r].flow = j.flow /\ job'[r].rows = j.rows
      BY <1>0, <3>2 DEF Job
    <3>4. row[j.flow].state # "none"
      BY <3>1 DEF CustodyInv, Deleting, Deciding
    <3> HIDE DEF j
    <3> QED BY <1>0, <1>8, <1>9, <3>1, <3>2, <3>3, <3>4 DEF FlowSteps, Locals
  <2> QED BY <1>4, <2>1
\* the lists: what is found has a row
<1>14. ASSUME NEW S \in SUBSET Flow, \A f \in S : RowThere(f), pc'[r] \in {"rows_call", "purge_call"},
              job'[r].rows = S, job'[r].kind # "authorize",
              pc'[r] = "rows_call" => job'[r].client = None,
              pc'[r] = "purge_call" => \A f \in Flow : RowThere(f) => f \in S
       PROVE  Custody'
  <2>1. \A f \in Flow : ClientOf[f] # None
    BY SignInAssumption DEF SignInAssumption
  <2>2. Deleting(r)'
    BY <1>1, <1>14, <2>1 DEF Deleting, Deciding, Sweeping, Purging, RowThere
  <2> QED BY <1>0, <1>1, <1>2, <1>3, <1>14, <2>2, Aside DEF Hands
<1>15. CASE SweepList(r)
  <2>1. PICK S \in SUBSET Abandoned : Set(r, [j EXCEPT !.rows = S])
    BY <1>15 DEF SweepList, OldestOf
  <2>2. pc[r] = "sweep_list" /\ Goto(r, "rows_call")
    BY <1>15 DEF SweepList, At
  <2>3. S \in SUBSET Flow /\ \A f \in S : RowThere(f)
    BY DEF Abandoned, RowThere
  <2>4. j.client = None /\ j.kind # "authorize"
    BY <1>0, <2>2 DEF CustodyInv, Deleting, Locals
  <2>5. pc'[r] = "rows_call" /\ job'[r] = [j EXCEPT !.rows = S]
    BY <1>0, <2>1, <2>2 DEF Goto, Set, Locals
  <2>6. job'[r].rows = S /\ job'[r].client = None /\ job'[r].kind # "authorize"
    BY <1>0, <2>4, <2>5 DEF Job
  <2> HIDE DEF j
  <2> QED BY <1>14, <2>3, <2>5, <2>6
<1>16. CASE PurgeList(r)
  <2> DEFINE found == {f \in Flow : RowThere(f)}
  <2>1. PICK b \in BOOLEAN : Set(r, [j EXCEPT !.rows = found, !.back = b])
    BY <1>16 DEF PurgeList
  <2>2. pc[r] = "purge_list" /\ Goto(r, "purge_call")
    BY <1>16 DEF PurgeList, At
  <2>3. pc'[r] = "purge_call" /\ job'[r] = [j EXCEPT !.rows = found, !.back = b]
    BY <1>0, <2>1, <2>2 DEF Goto, Set, Locals
  <2>4. job'[r].rows = found /\ job'[r].kind # "authorize"
    BY <1>0, <2>2, <2>3 DEF Job, Locals
  <2> HIDE DEF j
  <2> QED BY <1>14, <2>3, <2>4
<1>17. CASE SweepClients(r)
  <2>1. PICK C \in SUBSET Client : Set(r, [j EXCEPT !.clients = C])
    BY <1>17 DEF SweepClients, OldestOf
  <2>2. pc[r] = "sweep_clients" /\ Goto(r, "expire_list")
    BY <1>17 DEF SweepClients, At
  <2> DEFINE k == [j EXCEPT !.clients = C]
  <2>3. k \in Job /\ k.kind # "authorize" /\ k.rows = j.rows
    BY <1>0, <2>2 DEF Job, Locals
  <2> HIDE DEF j, k
  <2> QED BY <1>0, <1>1, <1>2, <1>3, <1>5, <2>1, <2>2, <2>3, CalmOn DEF j, k
\* nothing is left to hand back
<1>18. ASSUME NEW s \in {"expire_client", "purge_wipe"}, pc'[r] = s, UNCHANGED job, j.rows = {},
              pc[r] \in IF s = "expire_client" THEN {"rows_call"} ELSE {"purge_call"}
       PROVE  Custody'
  <2>1. Deleting(r)'
    BY <1>1, <1>18 DEF CustodyInv, Deleting, Deciding, Sweeping, Purging, RowThere, Known
  <2> QED BY <1>0, <1>1, <1>2, <1>3, <1>18, <2>1, Aside DEF Hands, Locals
<1>19. CASE RowsDone(r)
  <2>1. pc[r] = "rows_call" /\ j.rows = {} /\ UNCHANGED job
        /\ (Goto(r, "sweep_clients") \/ Goto(r, "expire_client"))
    BY <1>19 DEF RowsDone, At
  <2>2. CASE Goto(r, "sweep_clients")
    BY <1>5, <1>6, <2>1, <2>2
  <2>3. CASE Goto(r, "expire_client")
    BY <1>0, <1>18, <2>1, <2>3 DEF Goto, Locals
  <2> QED BY <2>1, <2>2, <2>3
<1>20. CASE PurgeDone(r)
  <2>1. CASE Goto(r, "purge_wipe") /\ UNCHANGED job
    BY <1>0, <1>18, <1>20, <2>1 DEF PurgeDone, At, Goto, Locals
  <2> QED BY <1>4, <1>20, <2>1 DEF PurgeDone
<1> QED BY <1>7, <1>10, <1>11, <1>12, <1>13, <1>15, <1>16, <1>17, <1>19, <1>20

-----------------------------------------------------------------------------
(* A request asks Nextcloud, or lists what it is going to ask for.          *)
LEMMA Asks ==
  ASSUME CustodyInv, NEW r \in Request, NEW yes \in BOOLEAN,
         \/ Withdraw(r, yes) \/ HandCall(r, yes)
         \/ (\E f \in Flow : HandRow(r, f, yes) \/ PurgeCall(r, f, yes))
         \/ \E c \in Client : ExpireList(r, c, yes)
  PROVE  Custody'
<1> DEFINE j == job[r]
<1>0. Moved(r) /\ Locals(r) /\ j \in Job /\ row \in [Flow -> AuthRow]
  BY SMTT(40), AdvanceMoves, Held, TypedTables DEF CustodyInv, TypeInv, Tables, Advance, Locals
<1>1. UNCHANGED row
  BY ZenonT(60) DEF Withdraw, HandCall, HandRow, PurgeCall, ExpireList, store
<1>2. pc[r] \notin Hands /\ j.kind # "authorize"
  BY <1>0 DEF Withdraw, HandCall, HandRow, PurgeCall, ExpireList, At, Hands, Locals
<1>3. ASSUME NEW f, Ask(f, yes) \/ AskNobody \/ Unread(f)
      PROVE  KnowsMore /\ UNCHANGED nextcloud /\ (Ask(f, yes) \/ Unread(f) => f \in Known')
  BY <1>3, Asked, NothingAsked DEF AskNobody, outside, history
<1>4. ASSUME KnowsMore PROVE KeepsRows /\ (\A f \in Flow : f \in Known => f \in Known')
  <2> HIDE DEF Known
  <2> QED BY <1>1, <1>4, RowsUntouched DEF KnowsMore
\* a row that was there once and is no longer there is gone
<1>5. \A f \in Flow : row[f].state # "none" /\ ~RowThere(f) => row[f].state = "gone"
  BY <1>0 DEF RowThere, AuthRow
<1>6. Deleting(r)
  BY DEF CustodyInv
<1>7. CASE Withdraw(r, yes)
  <2>1. /\ pc[r] = "withdraw" /\ Goto(r, "drop_row") /\ UNCHANGED job
        /\ (IF RowThere(j.flow) THEN Ask(j.flow, yes) \/ Unread(j.flow) ELSE AskNobody)
    BY <1>7 DEF Withdraw, AskFor, Unread, At
  <2>2. j.flow \in Flow /\ row[j.flow].state # "none"
    BY <1>6, <2>1 DEF CustodyInv, TypeInv, JobBound, Bound, FlowSteps, Deleting, Deciding
  <2>3. pc'[r] = "drop_row" /\ job'[r] = j
    BY <1>0, <2>1 DEF Goto, Locals
  <2>4. KnowsMore /\ UNCHANGED nextcloud /\ (row[j.flow].state = "gone" \/ j.flow \in Known')
    BY <1>3, <1>5, <2>1, <2>2
  <2> HIDE DEF Known
  <2>5. Deleting(r)'
    BY <1>1, <1>6, <2>2, <2>3, <2>4 DEF Deleting, Deciding, Sweeping, Purging
  <2> QED BY <1>0, <1>2, <1>4, <2>3, <2>4, <2>5, Aside DEF Hands
<1>8. CASE HandCall(r, yes)
  <2>1. /\ (Ask(j.flow, yes) \/ AskNobody)
        /\ (Done(r) \/ (Goto(r, "hand_clear") /\ UNCHANGED job))
    BY <1>8 DEF HandCall, AskFor
  <2>2. KnowsMore /\ UNCHANGED nextcloud /\ KeepsRows
    BY <1>3, <1>4, <2>1
  <2>3. "hand_clear" \in CalmSteps
    BY DEF CalmSteps, Step, Hands, Deciding, Sweeping, Purging
  <2> QED BY <1>0, <1>2, <2>1, <2>2, <2>3, CalmEnd, CalmOn
<1>9. ASSUME NEW f \in Flow, HandRow(r, f, yes) PROVE Custody'
  <2> DEFINE k == [j EXCEPT !.rows = @ \ {f}, !.one = f]
  <2>1. /\ pc[r] = "rows_call" /\ f \in j.rows /\ Goto(r, "rows_drop") /\ Set(r, k)
        /\ (IF RowThere(f) THEN Ask(f, yes) \/ Unread(f) ELSE AskNobody)
    BY <1>9 DEF HandRow, AskFor, Unread, At
  <2>2. pc'[r] = "rows_drop" /\ job'[r] = k
    BY <1>0, <2>1 DEF Goto, Set, Locals
  <2>3. k.rows = j.rows \ {f} /\ k.one = f /\ k.kind = j.kind /\ k.client = j.client
    BY <1>0 DEF Job
  <2>4. KnowsMore /\ UNCHANGED nextcloud /\ (RowThere(f) => f \in Known')
    BY <1>3, <2>1
  <2> HIDE DEF Known, k, j
  <2>5. \A g \in j.rows : row[g].state # "none"
    BY <1>6 DEF Deleting, j
  <2>6. \A g \in Flow : RowThere(g) /\ ClientOf[g] = j.client => g \in Known' \cup k.rows
    BY <1>4, <1>6, <2>1, <2>3, <2>4 DEF Deleting, Sweeping, j
  <2>7. Deleting(r)'
    BY <1>1, <1>5, <2>1, <2>2, <2>3, <2>4, <2>5, <2>6
       DEF Deleting, Deciding, Sweeping, Purging, RowThere
  <2> QED BY <1>0, <1>2, <1>4, <2>2, <2>3, <2>4, <2>7, Aside DEF Hands
<1>10. ASSUME NEW f \in Flow, PurgeCall(r, f, yes) PROVE Custody'
  <2>1. PICK k \in {[j EXCEPT !.rows = @ \ {f}, !.back = @ \/ (RowThere(f) /\ yes)],
                   [j EXCEPT !.rows = @ \ {f}]} :
          /\ pc[r] = "purge_call" /\ f \in j.rows /\ UNCHANGED pc /\ Set(r, k)
          /\ (IF RowThere(f) THEN Ask(f, yes) \/ Unread(f) ELSE AskNobody)
    BY <1>10 DEF PurgeCall, AskFor, Unread, At
  <2>2. pc'[r] = "purge_call" /\ job'[r] = k
    BY <1>0, <2>1 DEF Set, Locals
  <2>3. k.rows = j.rows \ {f} /\ k.kind = j.kind
    BY <1>0 DEF Job
  <2>4. KnowsMore /\ UNCHANGED nextcloud /\ (RowThere(f) => f \in Known')
    BY <1>3, <2>1
  <2> HIDE DEF Known, j
  <2>5. \A g \in j.rows : row[g].state # "none"
    BY <1>6 DEF Deleting, j
  <2>6. \A g \in Flow : RowThere(g) => g \in Known' \cup k.rows
    BY <1>4, <1>6, <2>1, <2>3, <2>4 DEF Deleting, Purging, j
  <2>7. Deleting(r)'
    BY <1>1, <2>2, <2>3, <2>5, <2>6 DEF Deleting, Deciding, Sweeping, Purging, RowThere
  <2> QED BY <1>0, <1>2, <1>4, <2>2, <2>3, <2>4, <2>7, Aside DEF Hands
<1>11. ASSUME NEW c \in Client, ExpireList(r, c, yes) PROVE Custody'
  <2> DEFINE S == IF yes THEN RowsOf(c) ELSE {}
             k == [j EXCEPT !.client = c, !.rows = S]
  <2>1. /\ Goto(r, "rows_call") /\ Set(r, k) /\ UNCHANGED nextcloud /\ KnowsMore
        /\ (yes \/ RowsOf(c) \subseteq Known')
    BY <1>11 DEF ExpireList, outside, KnowsMore, Known
  <2>2. pc'[r] = "rows_call" /\ job'[r] = k
    BY <1>0, <2>1 DEF Goto, Set, Locals
  <2>3. S \in SUBSET Flow /\ \A f \in S : RowThere(f)
    BY DEF RowsOf
  <2>4. k.rows = S /\ k.client = c /\ k.kind = j.kind
    BY <1>0 DEF Job
  <2>5. \A f \in Flow : RowThere(f) /\ ClientOf[f] = c => f \in RowsOf(c)
    BY DEF RowsOf
  <2>6. \A f \in Flow : RowThere(f) /\ ClientOf[f] = c => f \in Known' \cup S
    BY <2>1, <2>5
  <2> HIDE DEF Known, k, j, S
  <2>7. Deleting(r)'
    BY <1>1, <2>2, <2>3, <2>4, <2>6 DEF Deleting, Deciding, Sweeping, Purging, RowThere
  <2> QED BY <1>0, <1>2, <1>4, <2>1, <2>2, <2>4, <2>7, Aside DEF Hands
<1> QED BY <1>7, <1>8, <1>9, <1>10, <1>11

-----------------------------------------------------------------------------
(* A request deletes rows: every one of them has been asked back, or was    *)
(* never seen.                                                              *)
LEMMA DeletedKnown ==
  ASSUME CustodyInv, NEW S, row' = RowsWithout(S), KnowsMore,
         \A f \in Flow : f \in S /\ RowThere(f) => f \in Known
  PROVE  KeepsRows
<1> HIDE DEF Known
<1>1. row \in [Flow -> AuthRow] /\ \A f \in Flow : row'[f] = IF f \in S /\ RowThere(f) THEN NoRow ELSE row[f]
  BY TypedTables DEF CustodyInv, TypeInv, Tables, RowsWithout
<1>2. \A f \in Flow : f \in Known => f \in Known'
  BY DEF KnowsMore
<1> QED BY <1>1, <1>2 DEF KeepsRows, RowThere, NoRow

LEMMA Deletes ==
  ASSUME CustodyInv, NEW r \in Request,
         DropRow(r) \/ DropOne(r) \/ ExpireClient(r) \/ PurgeWipe(r) \/ HandClear(r)
  PROVE  Custody'
<1> DEFINE j == job[r]
<1>0. Moved(r) /\ Locals(r) /\ j \in Job /\ row \in [Flow -> AuthRow]
  BY AdvanceMoves, Held, TypedTables DEF CustodyInv, TypeInv, Tables, Advance, Locals
<1>1. /\ UNCHANGED <<nextcloud, asked, unseen>> /\ pc[r] \notin Hands /\ pc[r] \notin {"client", "create_flow"}
  BY DEF DropRow, DropOne, ExpireClient, PurgeWipe, HandClear, outside, history, At, Hands
<1>2. KnowsMore /\ Known' = Known
  BY <1>1, NothingAsked DEF Known
<1>3. Deleting(r) /\ {"forget_flow", "expire_list"} \subseteq CalmSteps
  BY DEF CustodyInv, CalmSteps, Step, Hands, Deciding, Sweeping, Purging
<1>4. CASE DropRow(r)
  <2>1. /\ pc[r] = "drop_row" /\ Goto(r, "forget_flow") /\ UNCHANGED job /\ row' = RowsWithout({j.flow})
    BY <1>4 DEF DropRow, DeleteAuthorization, At
  <2>2. \A f \in Flow : f \in {j.flow} /\ RowThere(f) => f \in Known
    BY <1>3, <2>1 DEF Deleting, RowThere
  <2>3. KeepsRows
    BY <1>2, <2>1, <2>2, DeletedKnown
  <2> QED BY <1>0, <1>1, <1>2, <1>3, <2>1, <2>3, CalmOn DEF Locals
<1>5. CASE DropOne(r)
  <2> DEFINE k == [j EXCEPT !.one = None]
  <2>1. /\ pc[r] = "rows_drop" /\ Goto(r, "rows_call") /\ Set(r, k) /\ row' = RowsWithout({j.one})
    BY <1>5 DEF DropOne, DeleteAuthorization, At
  <2>2. \A f \in Flow : f \in {j.one} /\ RowThere(f) => f \in Known
    BY <1>3, <2>1 DEF Deleting, RowThere
  <2>3. KeepsRows
    BY <1>2, <2>1, <2>2, DeletedKnown
  <2>4. pc'[r] = "rows_call" /\ job'[r] = k
    BY <1>0, <2>1 DEF Goto, Set, Locals
  <2>5. k.rows = j.rows /\ k.client = j.client /\ k.kind = j.kind
    BY <1>0 DEF Job
  <2>6. \A f \in Flow : RowThere(f)' => RowThere(f)
    BY <1>0, <2>1 DEF RowsWithout, RowThere, NoRow
  <2>7. \A f \in Flow : row[f].state # "none" => row'[f].state # "none"
    BY <2>3 DEF KeepsRows
  <2> HIDE DEF Known, k
  <2>8. \A f \in Flow : RowThere(f)' /\ ClientOf[f] = k.client => f \in Known' \cup k.rows
    BY <1>2, <1>3, <2>1, <2>5, <2>6 DEF Deleting, Sweeping
  <2>9. \A f \in k.rows : row'[f].state # "none"
    BY <1>0, <1>3, <2>5, <2>7 DEF Deleting, Job
  <2>10. Deleting(r)'
    BY <2>4, <2>8, <2>9 DEF Deleting, Deciding, Sweeping, Purging, RowThere
  <2> QED BY <1>0, <1>1, <1>2, <2>3, <2>4, <2>5, <2>10, Aside DEF Hands, Locals
<1>6. CASE ExpireClient(r)
  <2> DEFINE k == [j EXCEPT !.clients = @ \ {j.client}, !.client = None]
             S == {f \in Flow : ClientOf[f] = j.client}
  <2>1. /\ pc[r] = "expire_client" /\ Goto(r, "expire_list") /\ Set(r, k) /\ row' = RowsWithout(S)
    BY <1>6 DEF ExpireClient, At
  <2>2. \A f \in Flow : f \in S /\ RowThere(f) => f \in Known
    BY <1>3, <2>1 DEF Deleting, Sweeping
  <2>3. k \in Job /\ k.kind = j.kind /\ k.rows = j.rows
    BY <1>0 DEF Job
  <2> HIDE DEF Known, k, S
  <2>4. KeepsRows
    BY <1>2, <2>1, <2>2, DeletedKnown
  <2> QED BY <1>0, <1>1, <1>2, <1>3, <2>1, <2>3, <2>4, CalmOn DEF Locals
<1>7. CASE PurgeWipe(r)
  <2>1. pc[r] = "purge_wipe" /\ Done(r) /\ row' = RowsWithout(Flow)
    BY <1>7 DEF PurgeWipe, At
  <2>2. \A f \in Flow : f \in Flow /\ RowThere(f) => f \in Known
    BY <1>3, <2>1 DEF Deleting, Purging
  <2>3. KeepsRows
    BY <1>2, <2>1, <2>2, DeletedKnown
  <2> QED BY <1>1, <1>2, <2>1, <2>3, CalmEnd
<1>8. CASE HandClear(r)
  <2>1. Done(r) /\ \A f \in Flow : row'[f].state = row[f].state
    BY <1>0, <1>8 DEF HandClear, AuthRow
  <2>2. KeepsRows
    BY <2>1 DEF KeepsRows
  <2> QED BY <1>1, <1>2, <2>1, <2>2, CalmEnd
<1> QED BY <1>4, <1>5, <1>6, <1>7, <1>8

-----------------------------------------------------------------------------
(* A password passes through the hands of a request.                        *)
LEMMA HandsStep ==
  ASSUME CustodyInv, NEW r \in Request, Moved(r), KnowsMore,
         pc'[r] # "create_flow", job'[r].kind # "authorize", Deleting(r)',
         \A g \in Flow :
           /\ nextcloud[g] = "collected" => nextcloud'[g] = "collected"
           /\ nextcloud[g] = "none" => nextcloud'[g] = "none"
           /\ nextcloud'[g] = "collected" =>
                nextcloud[g] = "collected" \/ g \in Known' \/ InHands(r, g)'
           /\ row'[g].state = "none" => row[g].state = "none"
           /\ row'[g].state = "gone" <=> row[g].state = "gone"
           /\ RowThere(g)' /\ ~RowThere(g) => g \in Known' \/ ~Behind(g)
           /\ row[g].state = "none" /\ row'[g].state # "none" => InHands(r, g)
           /\ InHands(r, g) => g \in Known' \/ row'[g].state # "none" \/ InHands(r, g)'
           /\ InHands(r, g)' =>
                /\ nextcloud'[g] = "collected" /\ row'[g].state = "none"
                /\ \A q \in Request \ {r} : ~InHands(q, g)
  PROVE  Custody'
<1>1. \A q \in Request \ {r} : pc'[q] = pc[q] /\ job'[q] = job[q]
  BY MovedTypes DEF CustodyInv
<1>2. \A q \in Request : Deleting(q)'
  BY <1>1, OthersKeep
<1>3. \A q \in Request \ {r} : \A g : InHands(q, g)' <=> InHands(q, g)
  BY <1>1 DEF InHands
<1>4. \A q \in Request : job[q].kind = "authorize" => job[q].flow \in Flow
  BY DEF CustodyInv, TypeInv, JobBound, Bound, FreshId, FlowSteps
<1>5. FreshId'
  BY <1>1, <1>4 DEF CustodyInv, FreshId
<1> HIDE DEF InHands, Known
<1>6. \A f \in Flow : f \in Known => f \in Known'
  BY DEF KnowsMore
<1>7. /\ \A f \in Flow : nextcloud[f] # "collected" => row[f].state = "none"
      /\ \A q \in Request : \A f \in Flow : InHands(q, f) =>
           /\ nextcloud[f] = "collected" /\ row[f].state = "none"
           /\ \A p \in Request : InHands(p, f) => p = q
      /\ \A f \in Flow : nextcloud[f] = "collected" /\ row[f].state = "none" =>
           f \in Known \/ \E q \in Request : InHands(q, f)
      /\ \A f \in Flow : row[f].state = "gone" => f \in Known
  BY DEF CustodyInv, CollectedOnce, InCustody
<1>8. \A f \in Flow : nextcloud'[f] # "collected" => row'[f].state = "none"
  BY <1>7
<1>9. \A q \in Request : \A f \in Flow : InHands(q, f)' =>
           /\ nextcloud'[f] = "collected" /\ row'[f].state = "none"
           /\ \A p \in Request : InHands(p, f)' => p = q
  BY <1>3, <1>7
<1>10. \A f \in Flow : nextcloud'[f] = "collected" /\ row'[f].state = "none" =>
         f \in Known' \/ \E q \in Request : InHands(q, f)'
  BY <1>3, <1>6, <1>7
<1>11. \A f \in Flow : row'[f].state = "gone" => f \in Known'
  BY <1>6, <1>7
<1> QED BY <1>2, <1>5, <1>8, <1>9, <1>10, <1>11 DEF Custody, CollectedOnce, InCustody

LEMMA InTheHands ==
  ASSUME CustodyInv, NEW r \in Request,
         Crash(r) \/ \E yes \in BOOLEAN : Poll(r, yes) \/ Vet(r, yes) \/ Create(r, yes) \/ Return(r, yes)
  PROVE  Custody'
<1> DEFINE f == job[r].flow
<1>0. Moved(r) /\ Locals(r) /\ row \in [Flow -> AuthRow]
      /\ nextcloud \in [Flow -> {"none", "waiting", "granted", "collected"}]
      /\ job[r].rows \subseteq Flow /\ ClientOf \in [Flow -> Client]
  BY StartMoves, AdvanceMoves, Held, TypedTables, SignInAssumption
     DEF CustodyInv, TypeInv, TypeOK, Tables, Advance, Locals, Job, SignInAssumption
<1>1. pc[r] \in FlowSteps => f \in Flow
  BY DEF CustodyInv, TypeInv, JobBound, Bound
<1>2. /\ Deleting(r)
      /\ \A g \in Flow : nextcloud[g] # "collected" => row[g].state = "none"
      /\ \A q \in Request : \A g \in Flow : InHands(q, g) =>
           /\ nextcloud[g] = "collected" /\ row[g].state = "none"
           /\ \A p \in Request : InHands(p, g) => p = q
  BY DEF CustodyInv, CollectedOnce
<1>3. ASSUME pc'[r] \in Hands \cup {"idle", "forget_flow"}, job'[r] = job[r] \/ job'[r] = NoJob,
             \A g \in Flow : row[g].state # "none" => row'[g].state # "none"
      PROVE  Deleting(r)' /\ pc'[r] # "create_flow"
  BY <1>0, <1>2, <1>3 DEF Deleting, Hands, Deciding, Sweeping, Purging, Locals
<1>4. CASE Crash(r)
  <2>1. /\ pc'[r] = "idle" /\ job'[r] = NoJob /\ UNCHANGED <<row, nextcloud, asked>>
        /\ unseen' = unseen \cup {g \in Flow : InHands(r, g)}
    BY <1>0, <1>4 DEF Crash, Done, Goto, Set, Locals, store, outside
  <2>2. KnowsMore /\ \A g \in Flow : InHands(r, g) => g \in Known'
    BY <2>1 DEF KnowsMore, Known
  <2>3. \A g : ~InHands(r, g)'
    BY <2>1 DEF InHands
  <2>4. Deleting(r)'
    BY <1>3, <2>1
  <2> HIDE DEF Known, InHands
  <2> QED BY <1>0, <2>1, <2>2, <2>3, <2>4, HandsStep DEF Locals, RowThere
<1>5. ASSUME NEW yes \in BOOLEAN, Poll(r, yes) PROVE Custody'
  <2>1. pc[r] = "poll" /\ f \in Flow /\ UNCHANGED <<row, asked>>
    BY <1>1, <1>5 DEF Poll, At, FlowSteps, store
  <2>2. CASE nextcloud[f] # "granted"
    BY <1>5, <2>1, <2>2, CalmEnd, RowsUntouched, NothingAsked DEF Poll, Hands
  <2>3. CASE nextcloud[f] = "granted"
    <3>1. /\ nextcloud' = [nextcloud EXCEPT ![f] = "collected"]
          /\ \/ Goto(r, "vet") /\ UNCHANGED <<job, unseen>>
             \/ Done(r) /\ unseen' = unseen \cup {f}
      BY <1>5, <2>3 DEF Poll
    <3>2. \/ pc'[r] = "vet" /\ job'[r] = job[r]
          \/ pc'[r] = "idle" /\ job'[r] = NoJob /\ f \in Known'
      BY <1>0, <3>1 DEF Goto, Done, Set, Locals, Known
    <3>3. Deleting(r)' /\ pc'[r] # "create_flow" /\ KnowsMore
      BY <1>3, <2>1, <3>1, <3>2 DEF Hands, KnowsMore, Known
    <3>4. job'[r].kind # "authorize"
      BY <1>0, <2>1, <3>2 DEF Locals
    <3>5. \A g : InHands(r, g)' <=> g = f /\ pc'[r] = "vet"
      BY <3>2 DEF InHands
    <3>6. \A g : ~InHands(r, g)
      BY <2>1 DEF InHands
    <3>7. \A q \in Request : ~InHands(q, f)
      BY <1>2, <2>1, <2>3
    <3>8. \A g \in Flow : nextcloud'[g] = IF g = f THEN "collected" ELSE nextcloud[g]
      BY <1>0, <3>1
    <3> HIDE DEF Known, InHands, f
    <3> QED BY <1>0, <1>2, <2>1, <2>3, <3>2, <3>3, <3>4, <3>5, <3>6, <3>7, <3>8, HandsStep DEF RowThere
  <2> QED BY <2>2, <2>3
<1>6. ASSUME NEW yes \in BOOLEAN, Vet(r, yes) PROVE Custody'
  <2>1. /\ pc[r] = "vet" /\ UNCHANGED <<row, nextcloud, asked, unseen, job>>
        /\ pc'[r] \in {"create", "return"}
    BY <1>0, <1>6 DEF Vet, At, Goto, Locals, store, outside, history
  <2>2. KnowsMore /\ Deleting(r)' /\ pc'[r] # "create_flow" /\ job'[r].kind # "authorize"
    BY <1>0, <1>3, <2>1, NothingAsked DEF Hands, Locals
  <2>3. \A g : InHands(r, g)' <=> InHands(r, g)
    BY <2>1 DEF InHands
  <2> HIDE DEF Known, InHands
  <2> QED BY <1>0, <1>2, <2>1, <2>2, <2>3, HandsStep DEF RowThere
<1>7. ASSUME NEW yes \in BOOLEAN, Create(r, yes) PROVE Custody'
  <2>1. /\ pc[r] = "create" /\ f \in Flow /\ UNCHANGED <<nextcloud, asked>> /\ InHands(r, f)
        /\ \A g : InHands(r, g) => g = f
    BY <1>1, <1>7 DEF Create, At, FlowSteps, outside, InHands
  <2>2. row[f].state = "none" /\ job[r].kind # "authorize"
    BY <1>0, <1>2, <2>1 DEF Locals
  <2>3. CASE Inserted(f) /\ Done(r)
    <3>1. /\ pc'[r] = "idle" /\ job'[r] = NoJob
          /\ \A g \in Flow \ {f} : row'[g] = row[g]
          /\ row'[f].state = "live"
      BY <1>0, <2>1, <2>3 DEF Inserted, Done, Goto, Set, Locals
    <3>2. KnowsMore /\ (f \in Known' \/ ~Behind(f))
      BY <2>1, <2>3 DEF Inserted, KnowsMore, Known
    <3>3. \A g : ~InHands(r, g)'
      BY <3>1 DEF InHands
    <3>4. Deleting(r)' /\ pc'[r] # "create_flow" /\ job'[r].kind # "authorize"
      BY <1>0, <1>3, <3>1 DEF Locals
    <3> HIDE DEF Known, InHands, f, Behind
    <3> QED BY <1>0, <1>2, <2>1, <2>2, <3>1, <3>2, <3>3, <3>4, HandsStep DEF RowThere
  <2>4. CASE Goto(r, "give_back") /\ UNCHANGED <<row, unseen, job>>
    <3>1. pc'[r] = "give_back" /\ KnowsMore
      BY <1>0, <2>1, <2>4, NothingAsked DEF Goto, Locals
    <3>2. \A g : InHands(r, g)' <=> InHands(r, g)
      BY <2>1, <2>4, <3>1 DEF InHands
    <3>3. Deleting(r)'
      BY <1>3, <2>4, <3>1 DEF Hands
    <3> HIDE DEF Known, InHands
    <3> QED BY <1>0, <1>2, <2>1, <2>2, <2>4, <3>1, <3>2, <3>3, HandsStep DEF RowThere
  <2> QED BY <1>7, <2>3, <2>4 DEF Create
<1>8. ASSUME NEW yes \in BOOLEAN, Return(r, yes) PROVE Custody'
  <2>1. /\ pc[r] \in {"return", "give_back"} /\ UNCHANGED row /\ Ask(f, yes)
        /\ Done(r) \/ (Goto(r, "forget_flow") /\ UNCHANGED job)
    BY <1>8 DEF Return, store
  <2>2. KnowsMore /\ f \in Known' /\ UNCHANGED nextcloud
    BY <2>1, Asked
  <2>3. /\ pc'[r] \in {"idle", "forget_flow"} /\ (job'[r] = job[r] \/ job'[r] = NoJob)
        /\ job'[r].kind # "authorize"
    BY <1>0, <2>1 DEF Done, Goto, Set, Locals
  <2>4. Deleting(r)' /\ pc'[r] # "create_flow"
    BY <1>3, <2>1, <2>3
  <2>5. \A g : ~InHands(r, g)' /\ (InHands(r, g) => g = f)
    BY <2>3 DEF InHands
  <2> HIDE DEF Known, InHands, f
  <2> QED BY <1>0, <1>2, <2>1, <2>2, <2>3, <2>4, <2>5, HandsStep DEF RowThere
<1> QED BY <1>4, <1>5, <1>6, <1>7, <1>8

-----------------------------------------------------------------------------
(* A sign-in that begins passes the check and takes its id to Nextcloud.    *)
LEMMA Beginning ==
  ASSUME CustodyInv, NEW r \in Request, ClientCheck(r) \/ CreateFlow(r)
  PROVE  Custody'
<1> DEFINE f == job[r].flow
<1>0. Moved(r) /\ Locals(r) /\ row \in [Flow -> AuthRow] /\ job[r] \in Job /\ f \in Flow
      /\ nextcloud \in [Flow -> {"none", "waiting", "granted", "collected"}]
      /\ ClientOf \in [Flow -> Client] /\ pc[r] \notin Hands
  BY AdvanceMoves, Held, TypedTables, SignInAssumption
     DEF CustodyInv, TypeInv, TypeOK, Tables, Advance, Locals, SignInAssumption, JobBound, Bound,
         FlowSteps, ClientCheck, CreateFlow, At, Hands
<1>1. UNCHANGED <<row, asked, unseen>> /\ KnowsMore /\ KeepsRows
  BY NothingAsked, RowsUntouched DEF ClientCheck, CreateFlow, store, history
<1>2. \A q \in Request \ {r} : pc'[q] = pc[q] /\ job'[q] = job[q]
  BY <1>0, MovedTypes DEF CustodyInv
<1>3. \A q \in Request \ {r} : Deleting(q)'
  BY <1>1, <1>2, OthersKeep DEF RowThere
<1>4. Deleting(r)
  BY DEF CustodyInv
<1>5. CASE ClientCheck(r)
  <2>1. pc[r] = "client" /\ UNCHANGED nextcloud
    BY <1>5 DEF ClientCheck, At, outside
  <2>2. {"expire_list", "exchange", "row"} \subseteq CalmSteps
    BY DEF CalmSteps, Step, Hands, Deciding, Sweeping, Purging
  <2>3. CASE Done(r)
    BY <1>0, <1>1, <2>1, <2>3, CalmEnd
  <2>4. CASE Goto(r, "expire_list") /\ Set(r, [NoJob EXCEPT !.clients = {ClientOf[f]}])
    <3> DEFINE k == [NoJob EXCEPT !.clients = {ClientOf[f]}]
    <3>1. k \in Job /\ k.kind # "authorize" /\ k.rows = {}
      <4>1. {ClientOf[f]} \in SUBSET Client
        BY <1>0
      <4>2. k \in Job
        BY <4>1, JobForms
      <4>3. k.kind = NoJob.kind /\ k.rows = {}
        BY DEF NoJob
      <4> QED BY <1>0, <4>2, <4>3 DEF Locals
    <3> HIDE DEF k
    <3> QED BY <1>0, <1>1, <2>1, <2>2, <2>4, <3>1, CalmOn DEF k
  <2>5. CASE UNCHANGED job /\ job[r].kind # "authorize" /\ (Goto(r, "exchange") \/ Goto(r, "row"))
    BY <1>0, <1>1, <2>1, <2>2, <2>5, CalmOn
  <2>6. CASE UNCHANGED job /\ job[r].kind = "authorize" /\ Goto(r, "create_flow")
    <3>1. pc'[r] = "create_flow" /\ job'[r] = job[r]
      BY <1>0, <2>6 DEF Goto, Locals
    <3>2. Deleting(r)'
      BY <1>1, <1>4, <3>1 DEF Deleting, Deciding, Sweeping, Purging
    <3>3. FreshId'
      BY <1>2, <2>1, <2>6, <3>1 DEF CustodyInv, FreshId
    <3>4. \A q \in Request : \A g : InHands(q, g)' <=> InHands(q, g)
      BY <1>2, <2>1, <3>1 DEF InHands
    <3>5. CollectedOnce' /\ InCustody'
      BY <1>1, <2>1, <3>4 DEF CustodyInv, CollectedOnce, InCustody, Known
    <3> QED BY <1>3, <3>2, <3>3, <3>5 DEF Custody
  <2> QED BY <1>5, <2>3, <2>4, <2>5, <2>6 DEF ClientCheck
<1>6. CASE CreateFlow(r)
  <2>1. /\ pc[r] = "create_flow" /\ nextcloud' = [nextcloud EXCEPT ![f] = "waiting"]
        /\ pc'[r] \in {"idle", "sweep_list"} /\ job'[r] = NoJob
    BY <1>0, <1>6 DEF CreateFlow, At, Done, Goto, Set, Locals
  <2>2. /\ job[r].kind = "authorize" /\ nextcloud[f] = "none"
        /\ \A q \in Request : job[q].kind = "authorize" /\ job[q].flow = f => q = r
    BY <2>1 DEF CustodyInv, FreshId
  <2>3. Deleting(r)'
    BY <1>0, <2>1 DEF Deleting, Deciding, Sweeping, Purging, Locals, NoJob
  <2>4. \A g \in Flow : /\ nextcloud'[g] = "collected" <=> nextcloud[g] = "collected"
                        /\ g # f => nextcloud'[g] = nextcloud[g]
    BY <1>0, <2>1, <2>2
  <2>5. \A q \in Request : job[q].kind = "authorize" => job[q].flow \in Flow
    BY DEF CustodyInv, TypeInv, JobBound, Bound, FreshId, FlowSteps
  <2>6. FreshId'
    BY <1>0, <1>2, <2>1, <2>2, <2>4, <2>5 DEF CustodyInv, FreshId, Locals
  <2>7. \A q \in Request : \A g : InHands(q, g)' <=> InHands(q, g)
    BY <1>2, <2>1 DEF InHands
  <2>8. CollectedOnce' /\ InCustody'
    BY <1>1, <2>4, <2>7 DEF CustodyInv, CollectedOnce, InCustody, Known
  <2> QED BY <1>3, <2>3, <2>6, <2>8 DEF Custody
<1> QED BY SMTT(40), <1>5, <1>6

-----------------------------------------------------------------------------
LEMMA CustodyStep == CustodyInv /\ [Next]_vars => CustodyInv'
<1> SUFFICES ASSUME CustodyInv, [Next]_vars PROVE CustodyInv'
  OBVIOUS
<1>1. TypeInv'
  BY TypeStep DEF CustodyInv
<1>2. Custody'
  BY BesideRequests, Begins, Looks, Asks, Deletes, InTheHands, Beginning DEF Next, Advance
<1> QED BY <1>1, <1>2 DEF CustodyInv, Custody

(* Whatever requests, sweeps, disconnections and purges run at once, a      *)
(* valid app password drops out of the record without Nextcloud having been *)
(* asked only where its owner died, its one answer was lost, a list could   *)
(* not be read, or its row was written behind the back of a sweep.          *)
THEOREM PasswordsLostOnlyUnseen == Spec => []LostOnlyUnseen
<1>1. CustodyInv => LostOnlyUnseen
  <2> SUFFICES ASSUME CustodyInv, NEW f \in Flow, Lost(f) PROVE f \in unseen
    BY DEF LostOnlyUnseen
  <2>1. row[f].state \in {"none", "gone"}
    BY DEF Lost, RowThere, CustodyInv, TypeInv, TypeOK
  <2>2. f \in Known
    BY <2>1 DEF Lost, CustodyInv, InCustody
  <2> QED BY <2>2 DEF Lost, Known
<1> QED BY <1>1, CustodyInit, CustodyStep, PTL DEF Spec

-----------------------------------------------------------------------------
(* What an approval has granted is kept.  A sign-in that was refused or     *)
(* abandoned is settled: its flow is gone and it has neither code nor       *)
(* token, and it never comes by one again, because a code takes an open     *)
(* flow and a token takes a code or a token.                                *)
Settled(f) == flow[f].state = "gone" /\ ~Pending(f)
OnPages == {"check", "client", "row", "poll", "vet", "create", "decide", "approve", "claim",
            "withdraw", "drop_row"}

OnFlow(r) ==
  LET j == job[r] IN
  /\ pc[r] \in OnPages /\ j.kind # "authorize" => flow[j.flow].state # "none"
  /\ pc[r] \in {"withdraw", "drop_row"} => Settled(j.flow)
  /\ pc[r] = "sweep_list" => j.client = None /\ j.rows = {}
  /\ pc[r] \in {"rows_call", "rows_drop"} /\ j.client = None =>
       /\ \A f \in j.rows : Settled(f)
       /\ pc[r] = "rows_drop" => Settled(j.one)

GrantInv ==
  /\ CustodyInv
  /\ \A f \in Flow : /\ Pending(f) => flow[f].state = "gone"
                     /\ row[f].state # "none" => flow[f].state # "none"
  /\ \A r \in Request : OnFlow(r)

LEMMA GrantInit == Init => GrantInv
<1> SUFFICES ASSUME Init PROVE GrantInv
  OBVIOUS
<1>1. \A f \in Flow : row[f].state = "none" /\ grant[f].state = "none"
  BY DEF Init
<1>2. \A r \in Request : pc[r] = "idle"
  BY DEF Init
<1> QED BY <1>1, <1>2, CustodyInit DEF GrantInv, OnFlow, OnPages, Pending

(* What a step does to the flow and the grant of a sign-in                  *)
FlowStep(f) ==
  /\ flow[f].state # "none" => flow'[f].state # "none"
  /\ flow[f].state = "gone" => flow'[f].state = "gone"
  /\ Pending(f)' => Pending(f) \/ (flow[f].state = "open" /\ flow'[f].state = "gone")

LEMMA FlowsMove ==
  ASSUME GrantInv, [Next]_vars
  PROVE  \A f \in Flow : FlowStep(f)
<1>0. TypeInv /\ Tables /\ \A r \in Request : JobBound(r)
  BY TypedTables DEF GrantInv, CustodyInv, TypeInv
<1>1. ASSUME NEW f \in Flow PROVE flow[f].state = "gone" => flow'[f].state = "gone"
  BY <1>0, StepsDecideOnce DEF TypeInv, Undecided, Decided
<1>2. ASSUME UNCHANGED <<flow, grant>> PROVE \A f \in Flow : FlowStep(f)
  BY <1>2 DEF FlowStep, Pending
\* deletions and clean-ups, of the one or of the other
<1>3. ASSUME UNCHANGED flow \/ flow' = FlowsLeft \/ \E S : flow' = FlowsWithout(S),
             UNCHANGED grant \/ grant' = GrantsLeft \/ \E S : grant' = GrantsWithout(S)
      PROVE  \A f \in Flow : FlowStep(f)
  <2>1. \A f \in Flow : flow'[f] = flow[f] \/ flow'[f] = NoFlow
    BY <1>3 DEF FlowsLeft, FlowsWithout
  <2>2. \A f \in Flow : Pending(f)' => Pending(f)
    BY <1>3 DEF GrantsLeft, GrantsWithout, Pending, NoFlow
  <2> QED BY <2>1, <2>2 DEF FlowStep, NoFlow
<1>4. CASE \/ Tick \/ TogglePause \/ (\E c \in Client : Register(c)) \/ (\E f \in Flow : GrantAccess(f))
           \/ UNCHANGED vars
  BY <1>2, <1>4 DEF Tick, TogglePause, Register, GrantAccess, vars, store
<1>5. ASSUME NEW r \in Request, Start(r) \/ Crash(r) PROVE \A f \in Flow : FlowStep(f)
  BY <1>2, <1>5 DEF Start, Authorize, OpenScreen, UseConnection, Disconnect, OpenDecision, Purge, Crash,
                    store
<1>6. ASSUME NEW r \in Request,
             \/ ClientCheck(r) \/ CheckFlow(r) \/ FindRow(r) \/ ForgetFlow(r) \/ Claim(r) \/ DropRow(r)
             \/ HandClear(r) \/ SweepList(r) \/ DropOne(r) \/ RowsDone(r) \/ SweepClients(r)
             \/ ExpireClient(r) \/ SweepEnds(r) \/ PurgeList(r) \/ PurgeDone(r) \/ PurgeWipe(r)
      PROVE  \A f \in Flow : FlowStep(f)
  <2>1. /\ UNCHANGED flow \/ \E S : flow' = FlowsWithout(S)
        /\ UNCHANGED grant \/ \E S : grant' = GrantsWithout(S)
    BY <1>6 DEF ClientCheck, CheckFlow, FindRow, ForgetFlow, Claim, DropRow, HandClear, SweepList,
                DropOne, RowsDone, SweepClients, ExpireClient, SweepEnds, PurgeList, PurgeDone,
                PurgeWipe, DeleteAuthorization, store
  <2> QED BY <1>3, <2>1
<1>7. ASSUME NEW r \in Request, NEW yes \in BOOLEAN,
             \/ Poll(r, yes) \/ Vet(r, yes) \/ Create(r, yes) \/ Return(r, yes) \/ Decide(r, yes)
             \/ Withdraw(r, yes) \/ HandCall(r, yes)
             \/ (\E f \in Flow : HandRow(r, f, yes) \/ PurgeCall(r, f, yes))
             \/ (\E c \in Client : ExpireList(r, c, yes))
      PROVE  \A f \in Flow : FlowStep(f)
  <2>1. UNCHANGED <<flow, grant>>
    BY <1>7, TablesStay DEF Create, store
  <2> QED BY <1>2, <2>1
<1>8. ASSUME NEW r \in Request, CreateFlow(r) PROVE \A f \in Flow : FlowStep(f)
  <2> DEFINE g == job[r].flow
             x == [state |-> "open", until |-> clock + FLOW_TTL]
  <2>1. CASE flow[g].state = "none" /\ flow' = [FlowsLeft EXCEPT ![g] = x] /\ grant' = GrantsLeft
    <3>1. g \in Flow
      BY <1>0, <1>8 DEF CreateFlow, At, JobBound, Bound, FlowSteps
    <3>2. FlowsLeft \in [Flow -> FlowRow] /\ \A f \in Flow : FlowsLeft[f] = flow[f] \/ FlowsLeft[f] = NoFlow
      BY <1>0, Removing, SignInAssumption
    <3>3. \A f \in Flow : flow'[f] = IF f = g THEN x ELSE FlowsLeft[f]
      BY <2>1, <3>1, <3>2
    <3>4. \A f \in Flow : Pending(f)' => Pending(f)
      BY <2>1 DEF GrantsLeft, Pending, NoFlow
    <3> HIDE DEF g
    <3> QED BY <2>1, <3>2, <3>3, <3>4 DEF FlowStep, NoFlow
  <2> QED BY <1>2, <1>8, <2>1 DEF CreateFlow
<1>9. ASSUME NEW r \in Request, Approve(r) PROVE \A f \in Flow : FlowStep(f)
  <2> DEFINE g == job[r].flow
             x == [state |-> "code", until |-> clock + AUTH_CODE_TTL]
  <2>1. CASE flow[g].state = "open" /\ flow' = [FlowsLeft EXCEPT ![g] = NoFlow]
             /\ grant' = [GrantsLeft EXCEPT ![g] = x]
    <3>1. \A f \in Flow : flow'[f] = flow[f] \/ flow'[f] = NoFlow
      BY <2>1 DEF FlowsLeft
    <3>2. \A f \in Flow : f # g => (Pending(f)' => Pending(f))
      BY <2>1 DEF GrantsLeft, Pending, NoFlow
    <3>3. g \in Flow => flow'[g] = NoFlow
      BY <2>1 DEF FlowsLeft
    <3> HIDE DEF g
    <3> QED BY <2>1, <3>1, <3>2, <3>3 DEF FlowStep, NoFlow
  <2> QED BY <1>2, <1>9, <2>1 DEF Approve, Spendable
<1>10. ASSUME NEW r \in Request, Exchange(r) PROVE \A f \in Flow : FlowStep(f)
  <2> DEFINE g == job[r].flow
             x == [state |-> "tokens", until |-> clock + REFRESH_TOKEN_TTL]
  <2>1. CASE Pending(g) /\ flow' = FlowsLeft /\ grant' = [GrantsLeft EXCEPT ![g] = x]
    <3>1. \A f \in Flow : flow'[f] = flow[f] \/ flow'[f] = NoFlow
      BY <2>1 DEF FlowsLeft
    <3>2. \A f \in Flow : Pending(f)' => Pending(f)
      BY <2>1 DEF GrantsLeft, Pending, NoFlow
    <3> QED BY <3>1, <3>2 DEF FlowStep, NoFlow
  <2> QED BY <1>2, <1>10, <2>1 DEF Exchange
<1> QED BY <1>4, <1>5, <1>6, <1>7, <1>8, <1>9, <1>10 DEF Next, Advance

LEMMA OnFlowKept ==
  ASSUME GrantInv, \A f \in Flow : FlowStep(f), NEW q \in Request, pc'[q] = pc[q], job'[q] = job[q]
  PROVE  OnFlow(q)'
<1>1. /\ OnFlow(q)
      /\ pc[q] \in OnPages => job[q].flow \in Flow
      /\ pc[q] = "rows_drop" => job[q].one \in Flow
      /\ job[q].rows \subseteq Flow
  BY DEF GrantInv, CustodyInv, TypeInv, TypeOK, JobBound, Bound, OnPages, FlowSteps, Job
<1>2. \A f \in Flow : Settled(f) => Settled(f)'
  BY DEF Settled, FlowStep
<1>3. \A f \in Flow : flow[f].state # "none" => flow'[f].state # "none"
  BY DEF FlowStep
<1> HIDE DEF Settled
<1> QED BY <1>1, <1>2, <1>3 DEF OnFlow, OnPages

LEMMA OnFlowMoves ==
  ASSUME GrantInv, \A f \in Flow : FlowStep(f), NEW r \in Request, Start(r) \/ Advance(r) \/ Crash(r)
  PROVE  OnFlow(r)'
<1> DEFINE j == job[r]
<1>0. /\ Locals(r) /\ j \in Job /\ OnFlow(r) /\ j.rows \subseteq Flow /\ TypeInv /\ CustodyInv
      /\ pc[r] \in FlowSteps => j.flow \in Flow
  BY Held DEF GrantInv, CustodyInv, TypeInv, TypeOK, JobBound, Bound, Locals, Job
<1>1. \A f \in Flow : /\ Settled(f) => Settled(f)'
                      /\ flow[f].state # "none" => flow'[f].state # "none"
  BY DEF Settled, FlowStep
<1>2. ASSUME pc'[r] \notin OnPages \cup {"sweep_list", "rows_call", "rows_drop"} PROVE OnFlow(r)'
  BY <1>2 DEF OnFlow, OnPages
<1>3. ASSUME pc[r] \in OnPages, j.kind # "authorize", pc'[r] \in OnPages \ {"withdraw", "drop_row"},
             job'[r].flow = j.flow
      PROVE  OnFlow(r)'
  BY <1>0, <1>1, <1>3 DEF OnFlow, OnPages, FlowSteps
<1>4. CASE Done(r)
  <2>1. pc'[r] = "idle"
    BY <1>0, <1>4 DEF Done, Goto, Locals
  <2> QED BY <1>2, <2>1 DEF OnPages
<1>5. ASSUME NEW s, Goto(r, s) PROVE pc'[r] = s
  BY <1>0, <1>5 DEF Goto, Locals
<1>6. CASE Start(r)
  <2>1. ASSUME NEW f \in Flow, OpenScreen(r, f) \/ UseConnection(r, f)
               \/ \E kind \in {"approve", "deny"} : OpenDecision(r, f, kind)
        PROVE  OnFlow(r)'
    <3>1. pc'[r] \in {"check", "client"} /\ job'[r].flow = f
      BY ZenonT(60), <1>0, <2>1 DEF OpenScreen, UseConnection, OpenDecision, Begin, Goto, Set, Locals, NoJob
    <3>2. flow[f].state # "none"
      BY <2>1 DEF OpenScreen, UseConnection, OpenDecision, Spendable, GrantInv
    <3> QED BY <1>1, <3>1, <3>2 DEF OnFlow, OnPages
  <2>2. ASSUME NEW f \in Flow, Authorize(r, f) PROVE OnFlow(r)'
    <3>1. pc'[r] = "client" /\ job'[r].kind = "authorize"
      BY <1>0, <2>2 DEF Authorize, Begin, Goto, Set, Locals, NoJob
    <3> QED BY <3>1 DEF OnFlow, OnPages
  <2>3. ASSUME NEW f \in Flow, Disconnect(r, f) PROVE OnFlow(r)'
    <3>1. pc'[r] \in {"hand_call", "idle"}
      BY <1>0, <2>3 DEF Disconnect, Begin, At, Goto, Locals
    <3> QED BY <1>2, <3>1 DEF OnPages
  <2>4. CASE Purge(r)
    BY <1>2, <1>5, <2>4 DEF Purge, OnPages
  <2> QED BY <1>6, <2>1, <2>2, <2>3, <2>4 DEF Start
<1>7. CASE Crash(r)
  BY <1>4, <1>7 DEF Crash
\* the pages
<1>8. CASE ClientCheck(r) \/ CheckFlow(r) \/ FindRow(r) \/ \E yes \in BOOLEAN : Poll(r, yes) \/ Vet(r, yes)
  <2>1. \/ Done(r)
        \/ Goto(r, "expire_list")
        \/ /\ UNCHANGED job /\ pc[r] \in OnPages
           /\ \E s \in {"create_flow", "exchange", "row", "client", "poll", "decide", "vet", "create", "return"} :
                /\ Goto(r, s)
                /\ s \in OnPages => j.kind # "authorize"
    <3>1. ClientCheck(r) => \/ Done(r) \/ Goto(r, "expire_list")
                            \/ /\ UNCHANGED job /\ pc[r] = "client"
                               /\ \/ Goto(r, "create_flow") \/ Goto(r, "exchange")
                                  \/ Goto(r, "row") /\ j.kind # "authorize"
      BY DEF ClientCheck, At
    <3>2. CheckFlow(r) => Done(r) \/ (UNCHANGED job /\ pc[r] = "check" /\ Goto(r, "client"))
      BY DEF CheckFlow, At
    <3>3. FindRow(r) => Done(r) \/ (UNCHANGED job /\ pc[r] = "row" /\ (Goto(r, "poll") \/ Goto(r, "decide")))
      BY DEF FindRow, At
    <3>4. ASSUME NEW yes \in BOOLEAN, Poll(r, yes) \/ Vet(r, yes)
          PROVE  \/ Done(r)
                 \/ /\ UNCHANGED job /\ pc[r] \in {"poll", "vet"}
                    /\ (Goto(r, "vet") \/ Goto(r, "create") \/ Goto(r, "return"))
      BY <3>4 DEF Poll, Vet, At
    <3> QED BY <1>0, <1>8, <3>1, <3>2, <3>3, <3>4 DEF Locals, OnPages
  <2>2. CASE Goto(r, "expire_list")
    BY <1>2, <1>5, <2>2 DEF OnPages
  <2>3. ASSUME UNCHANGED job, pc[r] \in OnPages,
               NEW s \in {"create_flow", "exchange", "row", "client", "poll", "decide", "vet", "create", "return"},
               Goto(r, s), s \in OnPages => j.kind # "authorize"
        PROVE  OnFlow(r)'
    BY <1>2, <1>3, <1>5, <2>3 DEF OnPages
  <2> QED BY <1>4, <2>1, <2>2, <2>3
<1>9. ASSUME NEW yes \in BOOLEAN, Create(r, yes) \/ Return(r, yes) \/ HandCall(r, yes) PROVE OnFlow(r)'
  <2>1. Done(r) \/ Goto(r, "give_back") \/ Goto(r, "forget_flow") \/ Goto(r, "hand_clear")
    BY <1>9 DEF Create, Return, HandCall
  <2> QED BY <1>2, <1>4, <1>5, <2>1 DEF OnPages
<1>10. ASSUME NEW yes \in BOOLEAN, Decide(r, yes) PROVE OnFlow(r)'
  <2>1. CASE ~Done(r)
    <3>1. PICK s \in {"claim", "approve"} : Goto(r, s) /\ Set(r, [j EXCEPT !.kind = None]) /\ pc[r] = "decide"
      BY <1>10, <2>1 DEF Decide, At
    <3>2. pc'[r] = s /\ job'[r].flow = j.flow /\ j.kind # "authorize"
      BY <1>0, <3>1 DEF Goto, Set, Locals, Job
    <3> QED BY <1>3, <3>1, <3>2 DEF OnPages
  <2> QED BY <1>4, <2>1
\* the refusal
<1>11. CASE Claim(r)
  <2>1. CASE /\ flow[j.flow].state = "open" /\ flow' = FlowsWithout({j.flow}) /\ UNCHANGED <<job, grant>>
             /\ Goto(r, "withdraw") /\ pc[r] = "claim"
    <3>1. j.flow \in Flow /\ pc'[r] = "withdraw" /\ flow'[j.flow] = NoFlow
      BY <1>0, <1>5, <2>1 DEF FlowSteps, FlowsWithout
    <3>2. ~Pending(j.flow)
      BY <2>1, <3>1 DEF GrantInv
    <3>3. Settled(j.flow)'
      BY <2>1, <3>1, <3>2 DEF Settled, Pending, NoFlow
    <3> QED BY <2>1, <3>1, <3>3 DEF OnFlow, OnPages, NoFlow
  <2> QED BY <1>4, <1>11, <2>1 DEF Claim, Spendable, At
<1>12. ASSUME NEW yes \in BOOLEAN, Withdraw(r, yes) PROVE OnFlow(r)'
  <2>1. pc[r] = "withdraw" /\ pc'[r] = "drop_row" /\ job'[r] = j
    BY <1>5, <1>12 DEF Withdraw, At
  <2>2. PICK g \in Flow : g = j.flow /\ Settled(g)
    BY <1>0, <2>1 DEF OnFlow, FlowSteps
  <2>3. Settled(g)' /\ flow'[g].state # "none"
    BY <1>1, <2>2 DEF Settled
  <2> QED BY <2>1, <2>2, <2>3 DEF OnFlow, OnPages
\* the sweeps
<1>13. CASE CreateFlow(r)
  <2>1. Done(r) \/ (pc'[r] = "sweep_list" /\ job'[r] = NoJob)
    BY <1>0, <1>5, <1>13 DEF CreateFlow, Set, Locals
  <2> QED BY <1>4, <2>1 DEF OnFlow, OnPages, NoJob
<1>14. CASE SweepList(r)
  <2>1. PICK S \in SUBSET Abandoned : Set(r, [j EXCEPT !.rows = S])
    BY <1>14 DEF SweepList, OldestOf
  <2>2. pc'[r] = "rows_call" /\ job'[r].rows = S /\ S \subseteq Flow
    BY <1>0, <1>5, <1>14, <2>1 DEF SweepList, Set, Locals, Job, Abandoned
  <2>3. \A f \in Abandoned : f \in Flow /\ flow[f].state = "gone" /\ ~Pending(f)
    BY DEF Abandoned, GrantInv, CustodyInv, TypeInv, TypeOK
  <2>4. \A f \in S : Settled(f)'
    BY <1>1, <2>2, <2>3 DEF Settled
  <2> QED BY <2>2, <2>4 DEF OnFlow, OnPages
<1>15. ASSUME NEW f \in Flow, NEW yes \in BOOLEAN, HandRow(r, f, yes) PROVE OnFlow(r)'
  <2>1. /\ pc[r] = "rows_call" /\ f \in j.rows /\ Goto(r, "rows_drop")
        /\ Set(r, [j EXCEPT !.rows = @ \ {f}, !.one = f])
    BY <1>15 DEF HandRow, At
  <2>2. /\ pc'[r] = "rows_drop" /\ job'[r].rows = j.rows \ {f} /\ job'[r].one = f
        /\ job'[r].client = j.client
    BY <1>0, <1>5, <2>1 DEF Set, Locals, Job
  <2>3. j.client = None => \A g \in j.rows : Settled(g)'
    BY <1>0, <1>1, <2>1 DEF OnFlow
  <2> QED BY <2>1, <2>2, <2>3 DEF OnFlow, OnPages
<1>16. CASE DropOne(r)
  <2>1. pc[r] = "rows_drop" /\ Goto(r, "rows_call") /\ Set(r, [j EXCEPT !.one = None])
    BY <1>16 DEF DropOne, At
  <2>2. pc'[r] = "rows_call" /\ job'[r].rows = j.rows /\ job'[r].client = j.client
    BY <1>0, <1>5, <2>1 DEF Set, Locals, Job
  <2>3. j.client = None => \A g \in j.rows : Settled(g)'
    BY <1>0, <1>1, <2>1 DEF OnFlow
  <2> QED BY <2>2, <2>3 DEF OnFlow, OnPages
<1>17. ASSUME NEW c \in Client, NEW yes \in BOOLEAN, ExpireList(r, c, yes) PROVE OnFlow(r)'
  <2>1. PICK S : Goto(r, "rows_call") /\ Set(r, [j EXCEPT !.client = c, !.rows = S])
    BY <1>17 DEF ExpireList
  <2>2. pc'[r] = "rows_call" /\ job'[r].client = c
    BY <1>0, <1>5, <2>1 DEF Set, Locals, Job
  <2>3. c # None
    BY SignInAssumption DEF SignInAssumption
  <2> QED BY <2>2, <2>3 DEF OnFlow, OnPages
<1>18. ASSUME \/ ForgetFlow(r) \/ Approve(r) \/ DropRow(r) \/ Exchange(r) \/ HandClear(r) \/ RowsDone(r)
              \/ SweepClients(r) \/ ExpireClient(r) \/ SweepEnds(r) \/ PurgeList(r) \/ PurgeDone(r)
              \/ PurgeWipe(r) \/ \E f \in Flow, yes \in BOOLEAN : PurgeCall(r, f, yes)
       PROVE  OnFlow(r)'
  <2>1. \/ Done(r)
        \/ \E s \in {"forget_flow", "sweep_clients", "expire_client", "expire_list", "purge_call",
                     "purge_wipe"} : Goto(r, s) \/ pc'[r] = s
    BY <1>18 DEF ForgetFlow, Approve, DropRow, Exchange, HandClear, RowsDone, SweepClients, ExpireClient,
                 SweepEnds, PurgeList, PurgeDone, PurgeWipe, PurgeCall, At
  <2> QED BY SMTT(40), <1>2, <1>4, <1>5, <2>1 DEF OnPages
<1> QED BY <1>6, <1>7, <1>8, <1>9, <1>10, <1>11, <1>12, <1>13, <1>14, <1>15, <1>16, <1>17, <1>18
        DEF Advance

(* Rows are written by the requests that are about to, under open flows.    *)
LEMMA RowsWritten ==
  ASSUME TypeInv, [Next]_vars
  PROVE  \A f \in Flow : row'[f].state # "none" =>
           row[f].state # "none" \/ \E r \in Request : pc[r] = "create" /\ job[r].flow = f
<1>0. row \in [Flow -> AuthRow]
  BY TypedTables DEF TypeInv, Tables
<1>1. ASSUME UNCHANGED row \/ \E S : row' = RowsWithout(S)
      PROVE  \A f \in Flow : row'[f].state # "none" => row[f].state # "none"
  BY <1>0, <1>1 DEF RowsWithout, RowThere
<1>2. CASE \/ Tick \/ TogglePause \/ (\E c \in Client : Register(c)) \/ (\E f \in Flow : GrantAccess(f))
           \/ UNCHANGED vars
  BY <1>1, <1>2 DEF Tick, TogglePause, Register, GrantAccess, vars, store
<1>3. ASSUME NEW r \in Request, NEW f \in Flow, Disconnect(r, f)
      PROVE  \A g \in Flow : row'[g].state # "none" => row[g].state # "none"
  BY SMTT(40), <1>0, <1>3 DEF Disconnect, AuthRow
<1>4. ASSUME NEW r \in Request,
             \/ (\E f \in Flow : Authorize(r, f) \/ OpenScreen(r, f) \/ UseConnection(r, f)
                                 \/ \E kind \in {"approve", "deny"} : OpenDecision(r, f, kind))
             \/ Purge(r) \/ Crash(r) \/ ClientCheck(r) \/ CreateFlow(r) \/ CheckFlow(r) \/ FindRow(r)
             \/ ForgetFlow(r) \/ Approve(r) \/ Claim(r) \/ DropRow(r) \/ Exchange(r) \/ SweepList(r)
             \/ DropOne(r) \/ RowsDone(r) \/ SweepClients(r) \/ ExpireClient(r) \/ SweepEnds(r)
             \/ PurgeList(r) \/ PurgeDone(r) \/ PurgeWipe(r)
      PROVE  UNCHANGED row \/ \E S : row' = RowsWithout(S)
  BY <1>4, TablesStay DEF CreateFlow, CheckFlow, ForgetFlow, Approve, Claim, DropRow, Exchange, DropOne,
                          ExpireClient, PurgeWipe, DeleteAuthorization, store
<1>5. ASSUME NEW r \in Request, NEW yes \in BOOLEAN,
             \/ Poll(r, yes) \/ Vet(r, yes) \/ Return(r, yes) \/ Decide(r, yes) \/ Withdraw(r, yes)
             \/ HandCall(r, yes) \/ (\E f \in Flow : HandRow(r, f, yes) \/ PurgeCall(r, f, yes))
             \/ (\E c \in Client : ExpireList(r, c, yes))
      PROVE  UNCHANGED row
  BY <1>5, TablesStay DEF store
<1>6. ASSUME NEW r \in Request, HandClear(r)
      PROVE  \A f \in Flow : row'[f].state # "none" => row[f].state # "none"
  BY <1>0, <1>6 DEF HandClear, AuthRow
<1>7. ASSUME NEW r \in Request, NEW yes \in BOOLEAN, Create(r, yes)
      PROVE  \A f \in Flow : row'[f].state # "none" =>
               row[f].state # "none" \/ (pc[r] = "create" /\ job[r].flow = f)
  BY <1>0, <1>7 DEF Create, Inserted, At
<1> QED BY <1>1, <1>2, <1>3, <1>4, <1>5, <1>6, <1>7 DEF Next, Start, Advance

LEMMA GrantStep == GrantInv /\ [Next]_vars => GrantInv'
<1> SUFFICES ASSUME GrantInv, [Next]_vars PROVE GrantInv'
  OBVIOUS
<1>1. \A f \in Flow : FlowStep(f)
  BY FlowsMove
<1>2. CustodyInv'
  BY CustodyStep DEF GrantInv
<1>3. \A f \in Flow : Pending(f)' => flow'[f].state = "gone"
  BY <1>1 DEF GrantInv, FlowStep
<1>4. \A f \in Flow : row'[f].state # "none" => flow'[f].state # "none"
  <2>1. \A r \in Request : pc[r] = "create" => flow[job[r].flow].state # "none"
    BY Held DEF GrantInv, OnFlow, OnPages, Locals
  <2>2. \A f \in Flow : row'[f].state # "none" => flow[f].state # "none"
    BY <2>1, RowsWritten DEF GrantInv, CustodyInv
  <2> QED BY <1>1, <2>2 DEF FlowStep
<1>5. \A r \in Request : OnFlow(r)'
  <2>1. CASE UNCHANGED <<pc, job>>
    BY <1>1, <2>1, OnFlowKept
  <2>2. ASSUME NEW r \in Request, Start(r) \/ Advance(r) \/ Crash(r)
        PROVE  \A q \in Request : OnFlow(q)'
    <3>1. Moved(r)
      BY <2>2, StartMoves, AdvanceMoves DEF GrantInv, CustodyInv
    <3>2. \A q \in Request \ {r} : pc'[q] = pc[q] /\ job'[q] = job[q]
      BY <3>1, MovedTypes DEF GrantInv, CustodyInv
    <3>3. OnFlow(r)'
      BY <1>1, <2>2, OnFlowMoves
    <3> QED BY <1>1, <3>2, <3>3, OnFlowKept
  <2> QED BY <2>1, <2>2 DEF Next, vars, Tick, TogglePause, Register, GrantAccess
<1> QED BY <1>2, <1>3, <1>4, <1>5 DEF GrantInv

(* Neither a sweep nor a refusal takes back what an approval has granted:   *)
(* a live connection whose code or token still counts goes only with its    *)
(* registration, or in a purge (BL-19).                                     *)
THEOREM GrantedStays == Spec => GrantedIsKept
<1> DEFINE Kept(f) ==
       row[f].state = "live" /\ Pending(f) /\ grant[f].until > clock /\ row'[f].state = "gone"
         => \E r \in Request : WithAll(r)
<1>1. GrantInv /\ [Next]_vars => [\A f \in Flow : Kept(f)]_vars
  <2> SUFFICES ASSUME GrantInv, [Next]_vars PROVE \A f \in Flow : Kept(f)
    OBVIOUS
  <2>0. row \in [Flow -> AuthRow]
    BY TypedTables DEF GrantInv, CustodyInv, TypeInv, Tables
  <2>1. ASSUME \A f \in Flow : row[f].state = "live" /\ Pending(f) => row'[f].state # "gone"
        PROVE  \A f \in Flow : Kept(f)
    BY <2>1
  <2>2. CASE UNCHANGED row
    BY <2>1, <2>2
  <2>3. ASSUME NEW r \in Request, NEW f \in Flow, Disconnect(r, f) PROVE \A g \in Flow : Kept(g)
    BY <2>0, <2>1, <2>3 DEF Disconnect, AuthRow
  <2>4. ASSUME NEW r \in Request, HandClear(r) PROVE \A g \in Flow : Kept(g)
    BY <2>0, <2>1, <2>4 DEF HandClear, AuthRow
  <2>5. ASSUME NEW r \in Request, NEW yes \in BOOLEAN, Create(r, yes) PROVE \A g \in Flow : Kept(g)
    BY <2>0, <2>1, <2>5 DEF Create, Inserted, AuthRow
  <2>6. ASSUME NEW r \in Request, ExpireClient(r) \/ PurgeWipe(r) PROVE \A g \in Flow : Kept(g)
    BY <2>6 DEF ExpireClient, PurgeWipe, At, WithAll
  <2>7. ASSUME NEW r \in Request, DropRow(r) PROVE \A g \in Flow : Kept(g)
    <3>1. row' = RowsWithout({job[r].flow}) /\ Settled(job[r].flow)
      BY <2>7 DEF DropRow, DeleteAuthorization, At, GrantInv, OnFlow
    <3> QED BY <2>0, <2>1, <3>1 DEF RowsWithout, Settled
  <2>8. ASSUME NEW r \in Request, DropOne(r) PROVE \A g \in Flow : Kept(g)
    <3>1. row' = RowsWithout({job[r].one}) /\ (job[r].client # None \/ Settled(job[r].one))
      BY <2>8 DEF DropOne, DeleteAuthorization, At, GrantInv, OnFlow
    <3>2. CASE job[r].client # None
      BY <3>2 DEF WithAll
    <3>3. CASE Settled(job[r].one)
      BY <2>0, <2>1, <3>1, <3>3 DEF RowsWithout, Settled
    <3> QED BY <3>1, <3>2, <3>3
  <2>9. \/ Tick \/ TogglePause \/ (\E c \in Client : Register(c)) \/ (\E f \in Flow : GrantAccess(f))
        \/ UNCHANGED vars
        => UNCHANGED row
    BY DEF Tick, TogglePause, Register, GrantAccess, vars, store
  <2>10. ASSUME NEW r \in Request,
             \/ (\E f \in Flow : Authorize(r, f) \/ OpenScreen(r, f) \/ UseConnection(r, f)
                                 \/ \E kind \in {"approve", "deny"} : OpenDecision(r, f, kind))
             \/ Purge(r) \/ Crash(r) \/ ClientCheck(r) \/ CreateFlow(r) \/ CheckFlow(r) \/ FindRow(r)
             \/ ForgetFlow(r) \/ Approve(r) \/ Claim(r) \/ Exchange(r) \/ SweepList(r) \/ RowsDone(r)
             \/ SweepClients(r) \/ SweepEnds(r) \/ PurgeList(r) \/ PurgeDone(r)
        PROVE  UNCHANGED row
    BY <2>10, TablesStay DEF CreateFlow, CheckFlow, ForgetFlow, Approve, Claim, Exchange, store
  <2>11. ASSUME NEW r \in Request, NEW yes \in BOOLEAN,
             \/ Poll(r, yes) \/ Vet(r, yes) \/ Return(r, yes) \/ Decide(r, yes) \/ Withdraw(r, yes)
             \/ HandCall(r, yes) \/ (\E f \in Flow : HandRow(r, f, yes) \/ PurgeCall(r, f, yes))
             \/ (\E c \in Client : ExpireList(r, c, yes))
        PROVE  UNCHANGED row
    BY <2>11, TablesStay DEF store
  <2> HIDE DEF Kept
  <2> QED BY <2>2, <2>3, <2>4, <2>5, <2>6, <2>7, <2>8, <2>9, <2>10, <2>11 DEF Next, Start, Advance
<1> QED BY <1>1, GrantInit, GrantStep, PTL DEF Spec, GrantedIsKept
=============================================================================
