------------------------ MODULE ConnectionTokensProofs ------------------------
(***************************************************************************)
(* Theorems of ConnectionTokens, for every set of connections, tokens,     *)
(* workers and requests and every value of the windows.                    *)
(***************************************************************************)
EXTENDS ConnectionTokens, TLAPS

(* The locals of a fresh job, and a row that may have been purged           *)
LEMMA JobForType ==
  ASSUME NEW kind \in Operations \cup {"none"}, NEW a \in Auth \cup {None},
         NEW tok \in Refresh \cup Access \cup {None}
  PROVE  /\ JobFor(kind, a, tok) \in Job
         /\ JobFor(kind, a, tok).kind = kind
         /\ JobFor(kind, a, tok).auth = a
         /\ JobFor(kind, a, tok).tok = tok
BY DEF JobFor, Job

LEMMA SetMoment ==
  ASSUME NEW j \in Job, NEW moment \in Int
  PROVE  [j EXCEPT !.at = moment] \in Job /\ [j EXCEPT !.at = moment].auth = j.auth
         /\ [j EXCEPT !.at = moment].kind = j.kind
BY DEF Job

LEMMA SetNext ==
  ASSUME NEW j \in Job, NEW f \in Family, NEW n \in Refresh
  PROVE  /\ WithNext(j, f, n) \in Job
         /\ WithNext(j, f, n).auth = j.auth /\ WithNext(j, f, n).kind = j.kind
         /\ WithNext(j, f, n).tok = j.tok /\ WithNext(j, f, n).fam = f /\ WithNext(j, f, n).next = n
BY DEF Job, WithNext

LEMMA SetAccess ==
  ASSUME NEW j \in Job, NEW k \in Access
  PROVE  /\ WithAccess(j, k) \in Job
         /\ WithAccess(j, k).auth = j.auth /\ WithAccess(j, k).fam = j.fam
         /\ WithAccess(j, k).next = j.next /\ WithAccess(j, k).tok = j.tok
         /\ WithAccess(j, k).acc = k
BY DEF Job, WithAccess

LEMMA NoJobType == NoJob \in Job
BY JobForType DEF NoJob

(* Marking or purging a row keeps it a row of its table, and of its family. *)
SameRow(new, row) == /\ new.auth = row.auth /\ new.fam = row.fam
                     /\ Born(new) <=> Born(row)

LEMMA MarkKeeps ==
  ASSUME NEW s \in RowState \ {"none"}
  PROVE  /\ \A row \in RefreshRow : Marked(row, s) \in RefreshRow /\ SameRow(Marked(row, s), row)
         /\ \A row \in AccessRow : Marked(row, s) \in AccessRow /\ SameRow(Marked(row, s), row)
BY DEF Marked, Present, RefreshRow, AccessRow, RowState, Born, SameRow

LEMMA PurgedKeeps ==
  ASSUME NEW moment \in Int
  PROVE  /\ \A row \in RefreshRow : Purged(row, moment) \in RefreshRow /\ SameRow(Purged(row, moment), row)
         /\ \A row \in AccessRow : Purged(row, moment) \in AccessRow /\ SameRow(Purged(row, moment), row)
BY MarkKeeps DEF Purged, RowState, SameRow

LEMMA SpentKeeps ==
  ASSUME NEW row \in RefreshRow, NEW moment \in Int, NEW n \in Refresh
  PROVE  /\ Spent(row, moment, n) \in RefreshRow
         /\ Spent(row, moment, n).state = "used"
         /\ Spent(row, moment, n).auth = row.auth /\ Spent(row, moment, n).fam = row.fam
         /\ Born(row) => SameRow(Spent(row, moment, n), row)
BY DEF Spent, RefreshRow, RowState, Born, SameRow

LEMMA InitType == Init => TypeOK
BY ConstantsAssumption, NoJobType
   DEF ConstantsAssumption, Init, TypeOK, CodeRow, RefreshRow, AccessRow, RowState, Step,
       NeverUsed, Bound, JobBound, Born

(* What a step leaves behind for the requests it does not move: their       *)
(* locals, and every row that was ever written.                             *)
Kept ==
  /\ \A t \in Refresh : Born(refresh[t]) =>
       Born(refresh'[t]) /\ refresh'[t].auth = refresh[t].auth /\ refresh'[t].fam = refresh[t].fam
  /\ \A k \in Access : Born(access[k]) =>
       Born(access'[k]) /\ access'[k].auth = access[k].auth /\ access'[k].fam = access[k].fam

LEMMA SameRowsBound ==
  ASSUME TypeOK, UNCHANGED cache,
         \A t \in Refresh : SameRow(refresh'[t], refresh[t]),
         \A k \in Access : SameRow(access'[k], access[k])
  PROVE  Kept /\ Bound'
BY DEF TypeOK, Kept, Bound, SameRow, CacheEntry

(* Only request r moves, to a step and with locals of their types.          *)
Moved(r) ==
  /\ pc' \in [Request -> Step] /\ job' \in [Request -> Job]
  /\ \A q \in Request \ {r} : pc'[q] = pc[q] /\ job'[q] = job[q]

LEMMA BeginMoves ==
  ASSUME TypeOK, NEW r \in Request, NEW op, NEW to \in Step, NEW j \in Job, Begin(r, op, to, j)
  PROVE  Moved(r) /\ pc'[r] = to /\ job'[r] = j
BY DEF Begin, Goto, Set, TypeOK, Moved

LEMMA GotoMoves ==
  ASSUME TypeOK, NEW r \in Request, NEW from, NEW to \in Step, NEW j \in Job,
         Goto(r, from, to), Set(r, j)
  PROVE  Moved(r) /\ pc'[r] = to /\ job'[r] = j /\ pc[r] = from
BY DEF Goto, Set, TypeOK, Moved

LEMMA StepsOn ==
  ASSUME TypeOK, NEW r \in Request, NEW from, NEW to \in Step, Goto(r, from, to), UNCHANGED job
  PROVE  Moved(r) /\ pc'[r] = to /\ job'[r] = job[r] /\ pc[r] = from
BY DEF Goto, TypeOK, Moved

LEMMA OthersBound ==
  ASSUME TypeOK, Kept, NEW q \in Request, pc'[q] = pc[q], job'[q] = job[q]
  PROVE  JobBound(q)'
BY DEF TypeOK, Kept, JobBound, Job

LEMMA IdleBound ==
  ASSUME NEW q \in Request, pc'[q] = "idle"
  PROVE  JobBound(q)'
BY DEF JobBound

LEMMA StepType == TypeOK /\ [Next]_vars => TypeOK'
<1> SUFFICES ASSUME TypeOK, [Next]_vars PROVE TypeOK'
  OBVIOUS
<1> USE ConstantsAssumption DEF ConstantsAssumption, rows, tokens
<1>0. \A q \in Request : JobBound(q)
  BY DEF TypeOK
<1>1. ASSUME NEW a \in Auth, Approve(a) PROVE TypeOK'
  <2>1. Kept /\ Bound' BY <1>1 DEF Approve, TypeOK, Kept, Bound
  <2>2. \A q \in Request : JobBound(q)' BY <1>1, <2>1, OthersBound DEF Approve
  <2> QED BY <1>1, <2>1, <2>2 DEF Approve, TypeOK, CodeRow, RowState
<1>2. ASSUME NEW a \in Auth, DeleteAuthorization(a) PROVE TypeOK'
  <2>1. /\ \A t \in Refresh : refresh'[t] \in RefreshRow /\ SameRow(refresh'[t], refresh[t])
        /\ \A k \in Access : access'[k] \in AccessRow /\ SameRow(access'[k], access[k])
    BY <1>2, MarkKeeps DEF DeleteAuthorization, TypeOK, RowState, SameRow
  <2>2. refresh' \in [Refresh -> RefreshRow] /\ access' \in [Access -> AccessRow]
    BY <1>2, <2>1 DEF DeleteAuthorization
  <2>3. Kept /\ Bound'
    BY <1>2, <2>1, SameRowsBound DEF DeleteAuthorization
  <2>4. \A q \in Request : JobBound(q)' BY <1>2, <2>3, OthersBound DEF DeleteAuthorization
  <2> QED BY ZenonT(60), <1>2, <2>2, <2>3, <2>4 DEF DeleteAuthorization, TypeOK, CodeRow, RowState
<1>3. CASE Tick
  <2>1. Kept /\ Bound' BY <1>3 DEF Tick, TypeOK, Kept, Bound
  <2>2. \A q \in Request : JobBound(q)' BY <1>3, <2>1, OthersBound DEF Tick
  <2> QED BY <1>3, <2>1, <2>2 DEF Tick, TypeOK
<1>4. ASSUME NEW w \in Worker, Crash(w) PROVE TypeOK'
  <2>1. Kept /\ Bound' BY <1>4 DEF Crash, TypeOK, Kept, Bound
  <2>2. \A q \in Request : JobBound(q)'
    BY <1>4, <2>1, OthersBound, IdleBound DEF Crash, TypeOK
  <2> QED BY <1>4, <2>1, <2>2, NoJobType DEF Crash, TypeOK, Step
<1>5. ASSUME NEW r \in Request, Start(r) PROVE TypeOK'
  <2>1. UNCHANGED <<clock, rows, tokens, held, cache, granted>>
    BY <1>5 DEF Start, LoadCode, Disconnect, LoadRefresh, Revoke, VerifyCached, VerifyStored
  <2>2. Kept /\ Bound'
    BY <2>1 DEF TypeOK, Kept, Bound
  <2>3. Moved(r) /\ JobBound(r)'
    <3>1. ASSUME NEW a \in Auth, LoadCode(r, a) PROVE Moved(r) /\ JobBound(r)'
      <4>1. JobFor("code", a, None) \in Job /\ JobFor("code", a, None).auth = a
            /\ JobFor("code", a, None).kind = "code"
        BY JobForType DEF Operations
      <4>2. Begin(r, "code", "code_gate", JobFor("code", a, None))
        BY <3>1 DEF LoadCode
      <4> QED BY <4>1, <4>2, BeginMoves DEF JobBound, Step
    <3>2. ASSUME NEW a \in Auth, Disconnect(r, a) PROVE Moved(r) /\ JobBound(r)'
      <4>1. JobFor("disconnect", a, None) \in Job /\ JobFor("disconnect", a, None).auth = a
        BY JobForType DEF Operations
      <4>2. Begin(r, "disconnect", "families", JobFor("disconnect", a, None))
        BY <3>2 DEF Disconnect
      <4> QED BY <4>1, <4>2, BeginMoves DEF JobBound, Step
    <3>3. ASSUME NEW t \in Refresh, LoadRefresh(r, t) PROVE Moved(r) /\ JobBound(r)'
      <4>1. JobFor("refresh", None, t) \in Job /\ JobFor("refresh", None, t).tok = t
        BY JobForType DEF Operations
      <4>2. Begin(r, "refresh", "refresh_gate", JobFor("refresh", None, t))
            /\ Born(refresh[t]) /\ refresh' = refresh
        BY <2>1, <3>3 DEF LoadRefresh, Born
      <4> QED BY <4>1, <4>2, BeginMoves DEF JobBound, Step
    <3>4. ASSUME NEW t \in Refresh \cup Access, Revoke(r, t) PROVE Moved(r) /\ JobBound(r)'
      <4> DEFINE row == IF t \in Refresh THEN refresh[t] ELSE access[t]
                 j0 == JobFor("revoke", row.auth, None)
                 j == [j0 EXCEPT !.fams = {row.fam}]
      <4>1. row.auth \in Auth /\ row.fam \in Family
        BY <3>4 DEF Revoke, TypeOK, Bound, Born, Present, Stored
      <4>2. j0 \in Job /\ j0.auth = row.auth
        BY <4>1, JobForType DEF Operations
      <4>3. j \in Job /\ j.auth = row.auth
        <5> HIDE DEF j0, row
        <5> QED BY <4>1, <4>2 DEF Job
      <4>4. Begin(r, "revoke", "end_family", j)
        BY <3>4 DEF Revoke
      <4> HIDE DEF j, row
      <4> QED BY ZenonT(60), <4>1, <4>3, <4>4, BeginMoves DEF JobBound, Step
    <3>5. ASSUME NEW k \in Access, NEW to \in {"resolve", "remember"}, Born(access[k]),
                 Begin(r, "verify", to, VerifyJob(k))
          PROVE Moved(r) /\ JobBound(r)'
      <4> DEFINE j0 == JobFor("verify", access[k].auth, k)
      <4>1. access[k].auth \in Auth
        BY <3>5 DEF TypeOK, Bound
      <4>2. j0 \in Job /\ j0.auth = access[k].auth /\ j0.tok = k
        BY <4>1, JobForType DEF Operations
      <4>3. VerifyJob(k) = [j0 EXCEPT !.late = Late(k)] /\ Late(k) \in BOOLEAN
        BY DEF VerifyJob, Late
      <4>4. VerifyJob(k) \in Job /\ VerifyJob(k).auth \in Auth /\ VerifyJob(k).tok = k
        <5> HIDE DEF j0
        <5> QED BY <4>1, <4>2, <4>3 DEF Job
      <4>5. to \in Step /\ access' = access
        BY <2>1 DEF Step
      <4> QED BY <3>5, <4>4, <4>5, BeginMoves DEF JobBound
    <3>6. ASSUME NEW k \in Access, VerifyCached(r, k) \/ VerifyStored(r, k) PROVE Moved(r) /\ JobBound(r)'
      BY <3>5, <3>6 DEF VerifyCached, VerifyStored, TypeOK, Bound, Born, Stored
    <3> QED BY <1>5, <3>1, <3>2, <3>3, <3>4, <3>6 DEF Start
  <2>4. \A q \in Request : JobBound(q)'
    BY <2>2, <2>3, OthersBound DEF Moved
  <2> QED BY <2>1, <2>2, <2>3, <2>4 DEF TypeOK, Moved
<1>6. ASSUME NEW r \in Request, Advance(r) PROVE TypeOK'
  <2>0. JobBound(r)
    BY <1>0
  \* steps that only move the request on
  <2>1. ASSUME Moved(r), JobBound(r)', UNCHANGED <<clock, rows, tokens, held, cache, granted>> PROVE TypeOK'
    <3>1. Kept /\ Bound' BY <2>1 DEF TypeOK, Kept, Bound
    <3>2. \A q \in Request : JobBound(q)' BY <2>1, <3>1, OthersBound DEF Moved
    <3> QED BY <2>1, <3>1, <3>2 DEF TypeOK, Moved
  <2>2. ASSUME Done(r) PROVE Moved(r) /\ JobBound(r)'
    BY <2>2, NoJobType, IdleBound DEF Done, Set, TypeOK, Step, Moved
  <2>3. CASE ReadGrant(r)
    <3>1. CASE Done(r) BY <2>1, <2>2, <2>3, <3>1 DEF ReadGrant
    <3>2. CASE ~Done(r)
      <4> DEFINE j == [job[r] EXCEPT !.at = clock, !.auth = refresh[job[r].tok].auth]
      <4>1. /\ Goto(r, "refresh_gate", "redeem") /\ Set(r, j)
            /\ UNCHANGED <<clock, rows, tokens, held, cache, granted>>
            /\ pc[r] = "refresh_gate"
        BY <2>3, <3>2 DEF ReadGrant
      <4>2. job[r] \in Job /\ clock \in Int /\ job[r].tok \in Refresh /\ Born(refresh[job[r].tok])
            /\ refresh[job[r].tok].auth \in Auth
        BY <2>0, <4>1 DEF JobBound, TypeOK, Bound
      <4>3. j \in Job /\ j.auth \in Auth /\ j.tok = job[r].tok
        BY <4>2 DEF Job
      <4> HIDE DEF j
      <4>4. Moved(r) /\ pc'[r] = "redeem" /\ job'[r] = j
        BY <4>1, <4>3, GotoMoves DEF Step
      <4>5. JobBound(r)'
        BY <4>1, <4>2, <4>3, <4>4 DEF JobBound
      <4> QED BY <2>1, <4>1, <4>4, <4>5
    <3> QED BY <3>1, <3>2
  <2>4. CASE RedeemNothing(r)
    <3>1. CASE Done(r) BY <2>1, <2>2, <2>4, <3>1 DEF RedeemNothing
    <3>2. CASE ~Done(r)
      <4> DEFINE row == refresh[job[r].tok]
                 j == [job[r] EXCEPT !.fam = row.fam, !.fams = {row.fam}]
      <4>1. /\ Goto(r, "redeem", "judge") /\ Set(r, j)
            /\ UNCHANGED <<clock, rows, tokens, held, cache, granted>>
            /\ pc[r] = "redeem"
        BY <2>4, <3>2 DEF RedeemNothing
      <4>2. job[r] \in Job /\ job[r].tok \in Refresh /\ Born(row) /\ row.fam \in Family
            /\ job[r].auth \in Auth
        BY <2>0, <4>1 DEF JobBound, TypeOK, Bound
      <4>3. j \in Job /\ j.auth = job[r].auth /\ j.tok = job[r].tok
        BY <4>2 DEF Job
      <4> HIDE DEF j
      <4>4. Moved(r) /\ pc'[r] = "judge" /\ job'[r] = j
        BY <4>1, <4>3, GotoMoves DEF Step
      <4>5. JobBound(r)'
        BY <4>1, <4>2, <4>3, <4>4 DEF JobBound
      <4> QED BY <2>1, <4>1, <4>4, <4>5
    <3> QED BY <3>1, <3>2
  <2>5. CASE ReadFamilies(r)
    <3> DEFINE j == [job[r] EXCEPT !.fams = FamiliesOf(job[r].auth)]
    <3>1. FamiliesOf(job[r].auth) \subseteq Family
      BY DEF FamiliesOf, TypeOK, Bound, Born, Present
    <3>2. Goto(r, "families", "end_family") /\ Set(r, j) /\ pc[r] = "families"
      BY <2>5 DEF ReadFamilies, Goto
    <3>3. job[r] \in Job /\ job[r].auth \in Auth
      BY <2>0, <3>2 DEF TypeOK, JobBound
    <3>4. j \in Job /\ j.auth \in Auth
      BY <3>1, <3>3 DEF Job
    <3> HIDE DEF j
    <3>5. Moved(r) /\ JobBound(r)'
      BY <3>2, <3>4, GotoMoves DEF Step, JobBound
    <3> QED BY <2>1, <2>5, <3>5 DEF ReadFamilies
  <2>6. CASE HandRead(r)
    BY <2>0, <2>1, <2>2, <2>6, StepsOn DEF HandRead, Step, JobBound
  <2>7. CASE ResolveIdentity(r)
    BY <2>0, <2>1, <2>2, <2>7, StepsOn DEF ResolveIdentity, Step, JobBound
  <2>8. CASE Serve(r)
    BY <2>1, <2>2, <2>8 DEF Serve
  \* steps that leave both token tables alone
  <2>9. ASSUME UNCHANGED <<refresh, access, cache>>, Moved(r), JobBound(r)'
        PROVE  Bound' /\ \A q \in Request : JobBound(q)'
    <3>1. Kept /\ Bound' BY <2>9 DEF TypeOK, Kept, Bound
    <3> QED BY <2>9, <3>1, OthersBound DEF Moved
  <2>10. CASE RedeemCode(r)
    <3>0. code' \in [Auth -> CodeRow]
      BY <2>10 DEF RedeemCode, TypeOK, CodeRow, RowState
    <3>1. CASE Done(r)
      <4>1. Moved(r) /\ JobBound(r)'
        BY <2>2, <3>1
      <4>2. UNCHANGED <<clock, rows, refresh, access, held, cache, granted>>
        BY <2>10 DEF RedeemCode
      <4> QED BY <2>9, <3>0, <4>1, <4>2 DEF Moved, TypeOK
    <3>2. CASE ~Done(r)
      <4> DEFINE j == [job[r] EXCEPT !.at = clock]
      <4>1. /\ Goto(r, "code_gate", "first_refresh") /\ Set(r, j) /\ pc[r] = "code_gate"
            /\ code' = [code EXCEPT ![job[r].auth].state = "used"]
            /\ UNCHANGED <<clock, rows, refresh, access, held, cache, granted>>
        BY <2>10, <3>2 DEF RedeemCode
      <4>2. job[r] \in Job /\ clock \in Int /\ job[r].auth \in Auth /\ job[r].kind = "code"
        BY <2>0, <4>1 DEF JobBound, TypeOK
      <4>5. j \in Job /\ j.auth = job[r].auth /\ j.kind = "code"
        BY <4>2, SetMoment
      <4> HIDE DEF j
      <4>3. Moved(r) /\ JobBound(r)'
        BY <4>1, <4>2, <4>5, GotoMoves DEF Step, JobBound
      <4> QED BY <2>9, <3>0, <4>1, <4>3 DEF Moved, TypeOK
    <3> QED BY <3>1, <3>2
  <2>11. CASE Hold(r)
    <3>1. AnswerOf(job[r]) \in Answer
      BY <2>0, <2>11 DEF Hold, JobBound, AnswerOf, Answer
    <3> QED BY <2>2, <2>9, <2>11, <3>1 DEF Hold, TypeOK, Job, HeldAnswer, Moved
  <2>12. CASE Judge(r)
    <3>1. Moved(r) /\ JobBound(r)'
      BY <2>0, <2>2, <2>12, StepsOn DEF Judge, Step, JobBound
    <3>2. /\ job[r].tok \in Refresh
          /\ HeldFor(WorkerOf[r], job[r].tok, job[r].at) \subseteq HeldAnswer
      BY <2>0, <2>12, ConstantsAssumption DEF Judge, JobBound, HeldFor, TypeOK
    <3>3. \A h \in HeldFor(WorkerOf[r], job[r].tok, job[r].at) :
            [h.answer EXCEPT !.tok = job[r].tok] \in Answer
      BY <3>2 DEF HeldAnswer, Answer
    <3>4. granted' \subseteq Answer
      BY <2>12, <3>3 DEF Judge, TypeOK
    <3>5. held' \in [Worker -> SUBSET HeldAnswer]
      <4>1. CASE UNCHANGED held
        BY <4>1 DEF TypeOK
      <4>2. CASE \E S \in SUBSET held[WorkerOf[r]] : held' = [held EXCEPT ![WorkerOf[r]] = S]
        BY <4>2, ConstantsAssumption DEF TypeOK
      <4> DEFINE fresh(S) == {h \in S : h.answer.tok = job[r].tok
                                => h \in HeldFor(WorkerOf[r], job[r].tok, job[r].at)}
      <4>3. fresh(held[WorkerOf[r]]) \in SUBSET held[WorkerOf[r]]
        OBVIOUS
      <4>4. UNCHANGED held \/ held' = [held EXCEPT ![WorkerOf[r]] = fresh(held[WorkerOf[r]])]
        BY <2>12 DEF Judge
      <4> QED BY <4>1, <4>2, <4>3, <4>4
    <3> QED BY <2>9, <2>12, <3>1, <3>4, <3>5 DEF Judge, TypeOK, Moved
  <2>13. CASE EndAuthorization(r)
    <3>1. Moved(r) /\ JobBound(r)'
      BY <2>0, <2>13, StepsOn DEF EndAuthorization, Step, JobBound
    <3> QED BY <2>9, <2>13, <3>1 DEF EndAuthorization, TypeOK, Moved
  <2>14. CASE NoteCleanup(r)
    <3>1. Moved(r) /\ JobBound(r)'
      BY <2>0, <2>14, StepsOn DEF NoteCleanup, Step, JobBound
    <3> QED BY <2>9, <2>14, <3>1 DEF NoteCleanup, TypeOK, Moved, Notable, RowOf
  <2>15. CASE HandClear(r)
    BY <2>2, <2>9, <2>15 DEF HandClear, TypeOK, Moved
  <2>16. ASSUME NEW answered \in BOOLEAN, HandCall(r, answered) PROVE TypeOK'
    <3>1. Moved(r) /\ JobBound(r)'
      BY <2>0, <2>2, <2>16, StepsOn DEF HandCall, Step, JobBound
    <3> QED BY <2>9, <2>16, <3>1 DEF HandCall, TypeOK, Moved
  <2>17. CASE Forget(r)
    <3>1. Moved(r) /\ JobBound(r)'
      BY <2>0, <2>2, <2>17, StepsOn DEF Forget, Step, JobBound
    <3>2. Kept /\ Bound' BY <2>17 DEF Forget, TypeOK, Kept, Bound
    <3> QED BY <2>17, <3>1, <3>2, OthersBound DEF Forget, TypeOK, Moved
  <2>18. CASE Remember(r)
    <3> DEFINE entry == [tok |-> job[r].tok, until |-> clock + CACHE_TTL]
    <3>1. Goto(r, "remember", "resolve") /\ UNCHANGED <<job, refresh, access>> /\ pc[r] = "remember"
      BY <2>18 DEF Remember, Goto
    <3>2. job[r].tok \in Access /\ Born(access[job[r].tok]) /\ entry \in CacheEntry
      BY <2>0, <3>1 DEF JobBound, TypeOK, CacheEntry
    <3>3. Moved(r) /\ JobBound(r)'
      BY <2>0, <3>1, StepsOn DEF Step, JobBound
    <3>4. /\ cache' \in [Worker -> SUBSET CacheEntry]
          /\ \A w \in Worker : cache'[w] \subseteq cache[w] \cup {entry}
      BY <2>18, <3>2 DEF Remember, TypeOK
    <3>5. Kept /\ Bound'
      BY <3>1, <3>2, <3>4 DEF TypeOK, Kept, Bound
    <3> QED BY <2>18, <3>3, <3>4, <3>5, OthersBound DEF Remember, TypeOK, Moved
  \* steps that write tokens
  <2>19. ASSUME NEW n \in Refresh, Redeem(r, n) PROVE TypeOK'
    <3> DEFINE t == job[r].tok
               j == WithNext(job[r], refresh[t].fam, n)
    <3>1. /\ t \in Refresh /\ refresh[t].auth \in Auth /\ refresh[t].fam \in Family /\ t # n
          /\ job[r] \in Job /\ job[r].auth \in Auth
      BY <2>0, <2>19 DEF Redeem, Redeemable, JobBound, TypeOK, Bound, Born
    <3>2. NewRefresh(refresh[t].auth, refresh[t].fam, job[r].at) \in RefreshRow
      BY <3>1 DEF NewRefresh, RefreshRow, RowState, NeverUsed, TypeOK, Job
    <3>3. refresh' \in [Refresh -> RefreshRow]
      <4>1. refresh[t] \in RefreshRow /\ refresh \in [Refresh -> RefreshRow] /\ job[r].at \in Int
        BY <3>1 DEF TypeOK, Job
      <4>2. Spent(refresh[t], job[r].at, n) \in RefreshRow
        BY <4>1, SpentKeeps
      <4>3. refresh' = [refresh EXCEPT ![t] = Spent(refresh[t], job[r].at, n),
                                       ![n] = NewRefresh(refresh[t].auth, refresh[t].fam, job[r].at)]
        BY <2>19 DEF Redeem
      <4> QED BY <3>1, <3>2, <4>1, <4>2, <4>3
    <3>4. Kept /\ Bound'
      <4>1. /\ \A u \in Refresh \ {n, t} : refresh'[u] = refresh[u]
            /\ refresh'[t] = Spent(refresh[t], job[r].at, n) /\ refresh[n].state = "none"
            /\ refresh'[n].auth = refresh[t].auth /\ refresh'[n].fam = refresh[t].fam
            /\ UNCHANGED <<access, cache>>
        BY <2>19, <3>1 DEF Redeem, NewRefresh, TypeOK
      <4>2. SameRow(refresh'[t], refresh[t])
        BY <2>19, <3>1, <4>1, SpentKeeps DEF Redeem, Redeemable, TypeOK, Job, Born
      <4>3. ~Born(refresh[n])
        BY <4>1 DEF Born
      <4>4. Kept
        BY <4>1, <4>2, <4>3 DEF Kept, SameRow
      <4> QED BY <3>1, <4>1, <4>2, <4>3, <4>4 DEF TypeOK, Bound, SameRow
    <3>5. j \in Job /\ j.auth \in Auth /\ j.tok \in Refresh /\ j.fam \in Family /\ j.next \in Refresh
      BY <3>1, SetNext
    <3>6. Moved(r) /\ JobBound(r)'
      <4>1. Goto(r, "redeem", "issue") /\ Set(r, j)
        BY <2>19 DEF Redeem
      <4> HIDE DEF j
      <4> QED BY <3>5, <4>1, GotoMoves DEF JobBound, Step
    <3> QED BY <2>19, <3>3, <3>4, <3>6, OthersBound DEF Redeem, TypeOK, Moved
  <2>20. ASSUME NEW n \in Refresh, NEW f \in Family, FirstRefresh(r, n, f) PROVE TypeOK'
    <3> DEFINE a == job[r].auth
               j == WithNext(job[r], f, n)
    <3>1. a \in Auth /\ job[r].at \in Int /\ job[r] \in Job /\ job[r].kind # "refresh"
      BY <2>0, <2>20 DEF FirstRefresh, JobBound, TypeOK, Job
    <3>2. NewRefresh(a, f, job[r].at) \in RefreshRow
      BY <3>1 DEF NewRefresh, RefreshRow, RowState, NeverUsed
    <3>3. /\ \A t \in Refresh \ {n} : refresh'[t] \in RefreshRow /\ SameRow(refresh'[t], refresh[t])
          /\ \A k \in Access : access'[k] \in AccessRow /\ SameRow(access'[k], access[k])
          /\ refresh'[n] = NewRefresh(a, f, job[r].at) \/ refresh'[n] = refresh[n]
          /\ refresh[n].state = "none"
      BY <2>20, <3>1, PurgedKeeps DEF FirstRefresh, TypeOK, SameRow
    <3>4. refresh' \in [Refresh -> RefreshRow] /\ access' \in [Access -> AccessRow]
      BY <2>20, <3>2, <3>3 DEF FirstRefresh, TypeOK
    <3>5. Kept /\ Bound'
      BY SMTT(40), <2>20, <3>1, <3>3
         DEF FirstRefresh, NewRefresh, TypeOK, Kept, Bound, Born, CacheEntry, SameRow
    <3>6. Moved(r) /\ JobBound(r)'
      <4>1. j \in Job /\ j.auth \in Auth /\ j.fam \in Family /\ j.next \in Refresh
            /\ j.kind # "refresh"
        BY <3>1, SetNext
      <4>2. Done(r) \/ (Goto(r, "first_refresh", "issue") /\ Set(r, j))
        BY <2>20 DEF FirstRefresh
      <4> HIDE DEF j
      <4> QED BY <2>2, <4>1, <4>2, GotoMoves DEF JobBound, Step
    <3> QED BY <2>20, <3>4, <3>5, <3>6, OthersBound DEF FirstRefresh, TypeOK, Moved
  <2>21. ASSUME NEW k \in Access, Issue(r, k) PROVE TypeOK'
    <3> DEFINE j == WithAccess(job[r], k)
               row == [state |-> Stored, auth |-> job[r].auth, fam |-> job[r].fam,
                       until |-> job[r].at + ACCESS_TTL]
    <3>1. /\ job[r].auth \in Auth /\ job[r].fam \in Family /\ job[r].at \in Int
          /\ job[r] \in Job /\ job[r].next \in Refresh /\ pc[r] = "issue"
          /\ job[r].kind = "refresh" => job[r].tok \in Refresh
      BY <2>0, <2>21 DEF Issue, JobBound, TypeOK, Job
    <3>2. row \in AccessRow /\ Born(row)
      BY <3>1 DEF AccessRow, RowState, Stored, Born
    <3>3. /\ \A t \in Refresh : refresh'[t] \in RefreshRow /\ SameRow(refresh'[t], refresh[t])
          /\ \A x \in Access \ {k} : access'[x] \in AccessRow /\ SameRow(access'[x], access[x])
          /\ access'[k] = row \/ access'[k] = access[k]
          /\ access[k].state = "none"
      BY <2>21, <3>1, PurgedKeeps DEF Issue, TypeOK, SameRow
    <3>4. refresh' \in [Refresh -> RefreshRow] /\ access' \in [Access -> AccessRow]
      BY <2>21, <3>2, <3>3 DEF Issue, TypeOK
    <3>5. Kept /\ Bound'
      <4>1. cache' = cache /\ ~Born(access[k]) BY <2>21, <3>3 DEF Issue, Born
      <4>2. Kept BY <3>3, <4>1 DEF Kept, SameRow
      <4>3. row.auth \in Auth /\ row.fam \in Family BY <3>1
      <4> HIDE DEF row
      <4>4. \A t \in Refresh : Born(refresh'[t]) => refresh'[t].auth \in Auth /\ refresh'[t].fam \in Family
        BY <3>3 DEF TypeOK, Bound, SameRow
      <4>5. \A x \in Access : Born(access'[x]) => access'[x].auth \in Auth /\ access'[x].fam \in Family
        BY <3>3, <4>1, <4>3 DEF TypeOK, Bound, SameRow
      <4>6. \A w \in Worker : \A c \in cache'[w] : Born(access'[c.tok])
        BY <4>1, <4>2 DEF TypeOK, Kept, Bound, CacheEntry
      <4> QED BY <4>2, <4>4, <4>5, <4>6 DEF Bound
    <3>6. Moved(r) /\ JobBound(r)'
      <4>1. /\ j \in Job /\ j.auth = job[r].auth /\ j.fam = job[r].fam /\ j.next = job[r].next
            /\ j.tok = job[r].tok /\ j.acc \in Access
        BY <3>1, SetAccess
      <4>2. Done(r) \/ (Goto(r, "issue", "hold") /\ Set(r, j) /\ job[r].kind = "refresh")
        BY <2>21 DEF Issue
      <4> HIDE DEF j
      <4> QED BY <2>2, <3>1, <4>1, <4>2, GotoMoves DEF JobBound, Step
    <3> QED BY <2>21, <3>4, <3>5, <3>6, OthersBound DEF Issue, TypeOK, Moved
  <2>22. ASSUME NEW f \in Family, EndFamily(r, f) PROVE TypeOK'
    <3> DEFINE j == [job[r] EXCEPT !.fams = @ \ {f}]
    <3>1. /\ \A t \in Refresh : refresh'[t] \in RefreshRow /\ SameRow(refresh'[t], refresh[t])
          /\ \A k \in Access : access'[k] \in AccessRow /\ SameRow(access'[k], access[k])
      BY <2>22, MarkKeeps DEF EndFamily, TypeOK, RowState, SameRow
    <3>2. refresh' \in [Refresh -> RefreshRow] /\ access' \in [Access -> AccessRow]
      BY <2>22, <3>1 DEF EndFamily
    <3>3. Kept /\ Bound'
      BY <2>22, <3>1, SameRowsBound DEF EndFamily
    <3>4. Moved(r) /\ JobBound(r)'
      <4>0. pc[r] = "end_family" /\ job[r] \in Job
        BY <2>22 DEF EndFamily, TypeOK
      <4>1. j \in Job /\ j.auth = job[r].auth /\ job[r].auth \in Auth
        BY <2>0, <4>0 DEF JobBound, Job
      <4>2. pc' = pc /\ job' = [job EXCEPT ![r] = j]
        BY <2>22 DEF EndFamily, Set
      <4> HIDE DEF j
      <4> QED BY <4>0, <4>1, <4>2 DEF TypeOK, Moved, JobBound
    <3> QED BY <2>22, <3>2, <3>3, <3>4, OthersBound DEF EndFamily, TypeOK, Moved
  <2> QED
    BY <1>6, <2>3, <2>4, <2>5, <2>6, <2>7, <2>8, <2>10, <2>11, <2>12, <2>13, <2>14, <2>15,
       <2>16, <2>17, <2>18, <2>19, <2>20, <2>21, <2>22 DEF Advance
<1>7. CASE UNCHANGED vars
  BY <1>7 DEF vars, TypeOK, Bound, JobBound
<1> QED
  BY <1>1, <1>2, <1>3, <1>4, <1>5, <1>6, <1>7 DEF Next

(* Every state the program reaches is well typed, a stored row names its    *)
(* connection and family, and a step finds the locals it reads.             *)
THEOREM TypeCorrect == Spec => []TypeOK
<1>1. Init => TypeOK
  BY InitType
<1>2. TypeOK /\ [Next]_vars => TypeOK'
  BY StepType
<1> QED
  BY <1>1, <1>2, PTL DEF Spec

-----------------------------------------------------------------------------
(* A step that writes no new row, and lets a request go on writing only     *)
(* beside a row that is there.                                              *)
QuietRows ==
  /\ \A t \in Refresh : /\ SameRow(refresh'[t], refresh[t])
                        /\ refresh'[t].state = "active" => refresh[t].state = "active"
  /\ \A k \in Access : SameRow(access'[k], access[k])

QuietCode ==
  \A a \in Auth :
    /\ auth'[a] = "none" => auth[a] = "none" /\ code'[a].state = code[a].state
    /\ code'[a].state \in {"none", "active"} => code[a].state \in {"none", "active"}

QuietRequest(r) ==
  /\ \A a \in Auth : FirstFor(r, a)' => FirstFor(r, a)
  /\ pc'[r] \in {"redeem", "judge"} => refresh[job'[r].tok].auth = job'[r].auth
  /\ pc'[r] = "issue" => /\ Born(refresh[job'[r].next])
                         /\ refresh[job'[r].next].auth = job'[r].auth
                         /\ refresh[job'[r].next].fam = job'[r].fam

LEMMA OthersAreQuiet ==
  ASSUME TypeOK, ChainInv, NEW q \in Request, pc'[q] = pc[q], job'[q] = job[q]
  PROVE  QuietRequest(q)
BY DEF QuietRequest, ChainInv, WritesBesideItsRow, FirstFor

LEMMA IdleIsQuiet ==
  ASSUME NEW q \in Request, pc'[q] \notin {"first_refresh", "redeem", "judge", "issue"}
  PROVE  QuietRequest(q)
BY DEF QuietRequest, FirstFor

LEMMA QuietStep ==
  ASSUME TypeOK, TypeOK', ChainInv, QuietRows, QuietCode, \A r \in Request : QuietRequest(r)
  PROVE  ChainInv'
<1>1. \A a \in Auth : Unwritten(a) => Unwritten(a)'
  BY DEF QuietRows, SameRow, Unwritten
<1>2. CodeComesFirst'
  BY <1>1 DEF ChainInv, CodeComesFirst, QuietCode, QuietRequest
<1>3. FirstIsAlone'
  BY <1>1 DEF ChainInv, FirstIsAlone, QuietRequest
<1>4. AccessBesideRefresh'
  BY DEF ChainInv, AccessBesideRefresh, QuietRows, SameRow
<1>5. ASSUME NEW r \in Request PROVE WritesBesideItsRow(r)'
  <2>1. JobBound(r)'
    BY DEF TypeOK
  <2> QED BY <1>5, <2>1 DEF WritesBesideItsRow, JobBound, QuietRequest, QuietRows, SameRow
<1>6. OneFamily'
  BY DEF ChainInv, OneFamily, QuietRows, SameRow
<1>7. SingleBranch'
  BY DEF ChainInv, SingleBranch, QuietRows, SameRow
<1> QED BY <1>2, <1>3, <1>4, <1>5, <1>6, <1>7 DEF ChainInv

LEMMA MarkIsQuiet ==
  ASSUME NEW s \in {"revoked", "gone"}, NEW row
  PROVE  Marked(row, s).state = "active" => row.state = "active"
BY DEF Marked, Present

LEMMA PurgedIsQuiet ==
  ASSUME NEW moment \in Int, NEW row
  PROVE  Purged(row, moment).state = "active" => row.state = "active"
BY MarkIsQuiet DEF Purged

LEMMA ChainInit == Init => ChainInv
BY ConstantsAssumption
   DEF ConstantsAssumption, Init, ChainInv, CodeComesFirst, FirstIsAlone, AccessBesideRefresh,
       WritesBesideItsRow, OneFamily, SingleBranch, Unwritten, FirstFor, Born

LEMMA ChainStep == TypeOK /\ TypeOK' /\ ChainInv /\ [Next]_vars => ChainInv'
<1> SUFFICES ASSUME TypeOK, TypeOK', ChainInv, [Next]_vars PROVE ChainInv'
  OBVIOUS
<1> USE ConstantsAssumption DEF ConstantsAssumption, rows, tokens
<1>0. /\ \A q \in Request : JobBound(q)
      /\ \A q \in Request : WritesBesideItsRow(q)
  BY DEF TypeOK, ChainInv
<1>a. ASSUME UNCHANGED <<refresh, access>> PROVE QuietRows
  BY <1>a DEF QuietRows, SameRow
<1>b. ASSUME UNCHANGED <<auth, code>> PROVE QuietCode
  BY <1>b DEF QuietCode
<1>c. ASSUME NEW r \in Request, Moved(r), QuietRequest(r) PROVE \A q \in Request : QuietRequest(q)
  BY <1>c, OthersAreQuiet DEF Moved
<1>1. ASSUME NEW a \in Auth, Approve(a) PROVE ChainInv'
  <2>1. QuietCode
    BY <1>1 DEF Approve, QuietCode, ChainInv, CodeComesFirst, TypeOK
  <2>2. \A q \in Request : QuietRequest(q)
    BY <1>1, OthersAreQuiet DEF Approve
  <2> QED BY <1>1, <1>a, <2>1, <2>2, QuietStep DEF Approve
<1>2. ASSUME NEW a \in Auth, DeleteAuthorization(a) PROVE ChainInv'
  <2>1. QuietRows
    <3>1. /\ \A t \in Refresh : SameRow(refresh'[t], refresh[t])
          /\ \A k \in Access : SameRow(access'[k], access[k])
      BY <1>2, MarkKeeps DEF DeleteAuthorization, TypeOK, RowState, SameRow
    <3> QED BY <1>2, <3>1, MarkIsQuiet DEF DeleteAuthorization, QuietRows
  <2>2. QuietCode
    BY <1>2 DEF DeleteAuthorization, QuietCode, RowOf, TypeOK, CodeRow
  <2>3. \A q \in Request : QuietRequest(q)
    BY <1>2, OthersAreQuiet DEF DeleteAuthorization
  <2> QED BY <2>1, <2>2, <2>3, QuietStep
<1>3. CASE Tick
  <2>1. \A q \in Request : QuietRequest(q)
    BY <1>3, OthersAreQuiet DEF Tick
  <2> QED BY <1>3, <1>a, <1>b, <2>1, QuietStep DEF Tick
<1>4. ASSUME NEW w \in Worker, Crash(w) PROVE ChainInv'
  <2>1. \A q \in Request : QuietRequest(q)
    BY <1>4, OthersAreQuiet, IdleIsQuiet DEF Crash, TypeOK
  <2> QED BY <1>4, <1>a, <1>b, <2>1, QuietStep DEF Crash
<1>5. ASSUME NEW r \in Request, Start(r) PROVE ChainInv'
  <2>1. /\ UNCHANGED <<clock, rows, tokens, held, cache, granted>>
        /\ \A q \in Request \ {r} : pc'[q] = pc[q] /\ job'[q] = job[q]
        /\ pc'[r] \in {"code_gate", "refresh_gate", "families", "end_family", "remember", "resolve"}
    BY <1>5 DEF Start, LoadCode, Disconnect, LoadRefresh, Revoke, VerifyCached, VerifyStored,
                Begin, Goto, Set, TypeOK
  <2>2. \A q \in Request : QuietRequest(q)
    BY <2>1, OthersAreQuiet, IdleIsQuiet
  <2> QED BY <1>a, <1>b, <2>1, <2>2, QuietStep
<1>6. ASSUME NEW r \in Request, Advance(r) PROVE ChainInv'
  \* steps that only end the request or take it to a step that writes no token
  <2>1. ASSUME UNCHANGED <<refresh, access>>, QuietCode,
               \A q \in Request \ {r} : pc'[q] = pc[q] /\ job'[q] = job[q],
               pc'[r] \notin {"first_refresh", "redeem", "judge", "issue"}
        PROVE ChainInv'
    BY <1>a, <2>1, OthersAreQuiet, IdleIsQuiet, QuietStep
  <2>2. CASE Hold(r) \/ Judge(r) \/ ReadFamilies(r) \/ NoteCleanup(r) \/ Forget(r)
             \/ HandRead(r) \/ HandClear(r) \/ Remember(r) \/ ResolveIdentity(r) \/ Serve(r)
             \/ \E answered \in BOOLEAN : HandCall(r, answered)
    <3>1. /\ UNCHANGED <<auth, code, refresh, access>>
          /\ \A q \in Request \ {r} : pc'[q] = pc[q] /\ job'[q] = job[q]
          /\ pc'[r] \notin {"first_refresh", "redeem", "judge", "issue"}
      BY <2>2 DEF Hold, Judge, ReadFamilies, NoteCleanup, Forget, HandRead, HandClear, Remember,
                  ResolveIdentity, Serve, HandCall, Done, Goto, Set, TypeOK
    <3> QED BY <1>b, <2>1, <3>1
  <2>3. CASE EndAuthorization(r)
    BY <2>1, <2>3 DEF EndAuthorization, Goto, TypeOK, QuietCode
  <2>4. CASE ReadGrant(r)
    <3>1. QuietRequest(r)
      <4>1. CASE pc'[r] = "idle"
        BY <4>1, IdleIsQuiet
      <4>2. CASE pc'[r] # "idle"
        <5>1. pc'[r] = "redeem" /\ job'[r] = [job[r] EXCEPT !.at = clock, !.auth = refresh[job[r].tok].auth]
              /\ job[r] \in Job
          BY <2>4, <4>2 DEF ReadGrant, Done, Goto, Set, TypeOK
        <5>2. job'[r].tok = job[r].tok /\ job'[r].auth = refresh[job[r].tok].auth
          BY <5>1 DEF Job
        <5> QED BY <5>1, <5>2 DEF QuietRequest, FirstFor
      <4> QED BY <4>1, <4>2
    <3>2. \A q \in Request \ {r} : pc'[q] = pc[q] /\ job'[q] = job[q]
      BY <2>4 DEF ReadGrant, Done, Goto, Set, TypeOK
    <3>3. UNCHANGED <<auth, code, refresh, access>>
      BY <2>4 DEF ReadGrant
    <3> QED BY <1>a, <1>b, <3>1, <3>2, <3>3, OthersAreQuiet, QuietStep
  <2>5. CASE RedeemNothing(r)
    <3>1. QuietRequest(r)
      <4>1. CASE pc'[r] = "idle"
        BY <4>1, IdleIsQuiet
      <4>2. CASE pc'[r] # "idle"
        <5> DEFINE fam == refresh[job[r].tok].fam
        <5>1. pc[r] = "redeem" /\ pc'[r] = "judge"
              /\ job'[r] = [job[r] EXCEPT !.fam = fam, !.fams = {fam}] /\ job[r] \in Job
          BY <2>5, <4>2 DEF RedeemNothing, Done, Goto, Set, TypeOK
        <5>2. job'[r].tok = job[r].tok /\ job'[r].auth = job[r].auth
          BY <5>1 DEF Job
        <5> QED BY <1>0, <5>1, <5>2 DEF QuietRequest, FirstFor, WritesBesideItsRow
      <4> QED BY <4>1, <4>2
    <3>2. \A q \in Request \ {r} : pc'[q] = pc[q] /\ job'[q] = job[q]
      BY <2>5 DEF RedeemNothing, Done, Goto, Set, TypeOK
    <3>3. UNCHANGED <<auth, code, refresh, access>>
      BY <2>5 DEF RedeemNothing
    <3> QED BY <1>a, <1>b, <3>1, <3>2, <3>3, OthersAreQuiet, QuietStep
  <2>6. ASSUME NEW f \in Family, EndFamily(r, f) PROVE ChainInv'
    <3>1. QuietRows
      <4>1. /\ \A t \in Refresh : SameRow(refresh'[t], refresh[t])
            /\ \A k \in Access : SameRow(access'[k], access[k])
        BY <2>6, MarkKeeps DEF EndFamily, TypeOK, RowState, SameRow
      <4> QED BY <2>6, <4>1, MarkIsQuiet DEF EndFamily, QuietRows
    <3>2. /\ UNCHANGED <<auth, code>>
          /\ \A q \in Request \ {r} : pc'[q] = pc[q] /\ job'[q] = job[q]
          /\ pc'[r] = "end_family"
      BY <2>6 DEF EndFamily, Set, TypeOK
    <3> QED BY <1>b, <3>1, <3>2, OthersAreQuiet, IdleIsQuiet, QuietStep
  \* the spent code is nobody else's: its connection is untouched
  <2>7. CASE RedeemCode(r)
    <3> DEFINE a == job[r].auth
    <3>1. /\ UNCHANGED <<auth, refresh, access>>
          /\ \A q \in Request \ {r} : pc'[q] = pc[q] /\ job'[q] = job[q]
          /\ pc[r] = "code_gate" /\ a \in Auth
          /\ pc'[r] \in {"idle", "first_refresh"}
      BY <1>0, <2>7 DEF RedeemCode, Done, Goto, Set, TypeOK, JobBound
    <3>2. QuietCode
      <4>1. CASE code' = code
        BY <3>1, <4>1 DEF QuietCode
      <4>2. CASE code' # code
        <5>1. code[a].state = "active" /\ code' = [code EXCEPT ![a].state = "used"]
          BY <2>7, <4>2 DEF RedeemCode, Spendable
        <5>2. auth[a] # "none"
          BY <3>1, <5>1 DEF ChainInv, CodeComesFirst
        <5>3. /\ code'[a].state = "used"
              /\ \A b \in Auth \ {a} : code'[b] = code[b]
          BY <3>1, <5>1 DEF TypeOK, CodeRow
        <5> QED BY <3>1, <5>2, <5>3 DEF QuietCode
      <4> QED BY <4>1, <4>2
    <3>3. CASE pc'[r] = "idle"
      BY <2>1, <3>1, <3>2, <3>3
    <3>4. CASE pc'[r] = "first_refresh"
      <4>1. code[a].state = "active" /\ code'[a].state = "used" /\ job'[r].auth = a
        BY <2>7, <3>1, <3>4 DEF RedeemCode, Spendable, Done, Set, TypeOK, Job, CodeRow
      <4>2. Unwritten(a) /\ \A q \in Request : ~FirstFor(q, a)
        BY <3>1, <4>1 DEF ChainInv, CodeComesFirst
      <4>3. \A b \in Auth : Unwritten(b)' <=> Unwritten(b)
        BY <3>1 DEF Unwritten
      <4>4. \A b \in Auth : FirstFor(r, b)' <=> b = a
        BY <3>1, <3>4, <4>1 DEF FirstFor
      <4>5. \A b \in Auth : \A q \in Request \ {r} : FirstFor(q, b)' <=> FirstFor(q, b)
        BY <3>1 DEF FirstFor
      <4>6. CodeComesFirst'
        BY <3>1, <3>2, <4>1, <4>3, <4>4, <4>5 DEF ChainInv, CodeComesFirst, QuietCode
      <4>7. FirstIsAlone'
        BY <4>2, <4>3, <4>4, <4>5 DEF ChainInv, FirstIsAlone
      <4>8. \A q \in Request : WritesBesideItsRow(q)'
        BY <1>0, <3>1, <3>4 DEF WritesBesideItsRow
      <4>9. AccessBesideRefresh' /\ OneFamily' /\ SingleBranch'
        BY <3>1 DEF ChainInv, AccessBesideRefresh, OneFamily, SingleBranch
      <4> QED BY <4>6, <4>7, <4>8, <4>9 DEF ChainInv
    <3> QED BY <3>1, <3>3, <3>4
  \* the first token of an untouched connection, in a family of its own
  <2>8. ASSUME NEW n \in Refresh, NEW f \in Family, FirstRefresh(r, n, f) PROVE ChainInv'
    <3> DEFINE a == job[r].auth
    <3>1. CASE ~RowOf(a)
      <4>1. Done(r) /\ UNCHANGED <<auth, code, refresh, access>>
        BY <2>8, <3>1 DEF FirstRefresh
      <4>2. /\ \A q \in Request \ {r} : pc'[q] = pc[q] /\ job'[q] = job[q]
            /\ pc'[r] = "idle"
        BY <4>1 DEF Done, Set, TypeOK
      <4> QED BY <1>b, <2>1, <4>1, <4>2
    <3>2. CASE RowOf(a)
      <4>1. /\ a \in Auth /\ pc[r] = "first_refresh" /\ job[r].at \in Int /\ job[r] \in Job
            /\ refresh[n].state = "none" /\ FreshFamily(f) /\ UNCHANGED <<auth, code>>
            /\ refresh' = [t \in Refresh |-> IF t = n THEN NewRefresh(a, f, job[r].at)
                                             ELSE Purged(refresh[t], job[r].at)]
            /\ access' = [k \in Access |-> Purged(access[k], job[r].at)]
            /\ Goto(r, "first_refresh", "issue") /\ Set(r, WithNext(job[r], f, n))
        BY <1>0, <2>8, <3>2 DEF FirstRefresh, JobBound, TypeOK, Job
      <4>2. /\ refresh'[n].auth = a /\ refresh'[n].fam = f /\ Born(refresh'[n])
            /\ \A t \in Refresh \ {n} : /\ SameRow(refresh'[t], refresh[t])
                                        /\ refresh'[t].state = "active" => refresh[t].state = "active"
            /\ \A k \in Access : SameRow(access'[k], access[k])
        BY <4>1, PurgedKeeps, PurgedIsQuiet DEF NewRefresh, Born, TypeOK
      <4>3. /\ job'[r].auth = a /\ job'[r].fam = f /\ job'[r].next = n /\ pc'[r] = "issue"
            /\ \A q \in Request \ {r} : pc'[q] = pc[q] /\ job'[q] = job[q]
        BY <4>1, SetNext DEF Goto, Set, TypeOK
      <4>4. Unwritten(a) /\ ~Born(refresh[n]) /\ \A q \in Request : FirstFor(q, a) => q = r
        BY <4>1 DEF ChainInv, FirstIsAlone, FirstFor, Born
      <4>5. \A b \in Auth \ {a} : Unwritten(b) => Unwritten(b)'
        BY <4>2 DEF Unwritten, SameRow
      <4>6. \A b \in Auth : /\ ~FirstFor(r, b)'
                            /\ \A q \in Request \ {r} : FirstFor(q, b)' <=> FirstFor(q, b)
        BY <4>3 DEF FirstFor
      <4>7. code[a].state \notin {"none", "active"}
        BY <4>1 DEF ChainInv, CodeComesFirst, FirstFor
      <4>8. CodeComesFirst'
        BY <4>1, <4>5, <4>6, <4>7 DEF ChainInv, CodeComesFirst
      <4>9. FirstIsAlone'
        BY <4>4, <4>5, <4>6 DEF ChainInv, FirstIsAlone
      <4>10. ASSUME NEW q \in Request PROVE WritesBesideItsRow(q)'
        <5>1. CASE q = r
          BY <4>2, <4>3, <5>1 DEF WritesBesideItsRow
        <5>2. CASE q # r
          <6>1. JobBound(q) /\ WritesBesideItsRow(q) /\ pc'[q] = pc[q] /\ job'[q] = job[q]
            BY <1>0, <4>3, <5>2
          <6> QED BY <4>2, <4>4, <6>1 DEF WritesBesideItsRow, JobBound, SameRow
        <5> QED BY <5>1, <5>2
      <4>11. AccessBesideRefresh'
        BY <4>2, <4>4 DEF ChainInv, AccessBesideRefresh, SameRow
      <4>12. OneFamily'
        <5>1. /\ \A t \in Refresh \ {n} : refresh'[t].auth # a /\ refresh'[t].fam # f
              /\ \A k \in Access : Born(access'[k]) => access'[k].auth # a /\ access'[k].fam # f
          BY <4>1, <4>2, <4>4 DEF Unwritten, SameRow, FreshFamily, ChainInv, AccessBesideRefresh
        <5> QED BY <4>2, <4>4, <5>1 DEF ChainInv, OneFamily, SameRow
      <4>13. SingleBranch'
        BY <4>2, <4>4 DEF ChainInv, SingleBranch, SameRow, Unwritten
      <4> QED BY <4>8, <4>9, <4>10, <4>11, <4>12, <4>13 DEF ChainInv
    <3> QED BY <3>1, <3>2
  \* the successor stands beside the row it replaces
  <2>9. ASSUME NEW n \in Refresh, Redeem(r, n) PROVE ChainInv'
    <3> DEFINE t == job[r].tok
    <3>1. /\ t \in Refresh /\ t # n /\ pc[r] = "redeem" /\ job[r] \in Job
          /\ refresh[t].state = "active" /\ refresh[n].state = "none"
          /\ refresh[t].auth = job[r].auth /\ refresh[t].auth \in Auth /\ refresh[t].fam \in Family
          /\ UNCHANGED <<auth, code, access>>
          /\ Goto(r, "redeem", "issue") /\ Set(r, WithNext(job[r], refresh[t].fam, n))
      <4>1. /\ pc[r] = "redeem" /\ refresh[t].state = "active" /\ refresh[n].state = "none"
            /\ UNCHANGED <<auth, code, access>>
            /\ Goto(r, "redeem", "issue") /\ Set(r, WithNext(job[r], refresh[t].fam, n))
        BY <2>9 DEF Redeem, Redeemable
      <4>2. job[r] \in Job
        BY DEF TypeOK
      <4>3. t \in Refresh /\ t # n
        BY <1>0, <4>1 DEF JobBound
      <4>4. refresh[t].auth \in Auth /\ refresh[t].fam \in Family
        BY <4>1, <4>3 DEF TypeOK, Bound, Born
      <4>5. refresh[t].auth = job[r].auth
        BY <1>0, <4>1 DEF WritesBesideItsRow
      <4> QED BY <4>1, <4>2, <4>3, <4>4, <4>5
    <3>2. /\ refresh'[n].auth = refresh[t].auth /\ refresh'[n].fam = refresh[t].fam
          /\ Born(refresh'[n]) /\ refresh'[t].state = "used" /\ SameRow(refresh'[t], refresh[t])
          /\ \A u \in Refresh \ {n, t} : refresh'[u] = refresh[u]
      <4>1. refresh' = [refresh EXCEPT ![t] = Spent(refresh[t], job[r].at, n),
                                       ![n] = NewRefresh(refresh[t].auth, refresh[t].fam, job[r].at)]
        BY <2>9 DEF Redeem
      <4>2. refresh[t] \in RefreshRow /\ refresh \in [Refresh -> RefreshRow] /\ job[r].at \in Int
        BY <3>1 DEF TypeOK, Job
      <4>3. refresh'[t] = Spent(refresh[t], job[r].at, n)
            /\ refresh'[n] = NewRefresh(refresh[t].auth, refresh[t].fam, job[r].at)
            /\ \A u \in Refresh \ {n, t} : refresh'[u] = refresh[u]
        BY <3>1, <4>1, <4>2
      <4>4. Born(refresh[t])
        BY <3>1 DEF Born
      <4> QED BY <3>1, <4>2, <4>3, <4>4, SpentKeeps DEF NewRefresh, Born
    <3>3. /\ job'[r].auth = job[r].auth /\ job'[r].fam = refresh[t].fam /\ job'[r].next = n
          /\ pc'[r] = "issue"
          /\ \A q \in Request \ {r} : pc'[q] = pc[q] /\ job'[q] = job[q]
      BY <3>1, SetNext DEF Goto, Set, TypeOK
    <3>4. ~Born(refresh[n]) /\ ~Unwritten(refresh[t].auth) /\ Born(refresh[t])
      BY <3>1 DEF Born, Unwritten
    <3>5. \A b \in Auth : Unwritten(b) => Unwritten(b)'
      BY <3>1, <3>2, <3>4 DEF Unwritten, SameRow
    <3>6. \A b \in Auth : /\ ~FirstFor(r, b)'
                          /\ \A q \in Request \ {r} : FirstFor(q, b)' <=> FirstFor(q, b)
      BY <3>3 DEF FirstFor
    <3>7. CodeComesFirst'
      BY <3>1, <3>5, <3>6 DEF ChainInv, CodeComesFirst
    <3>8. FirstIsAlone'
      BY <3>5, <3>6 DEF ChainInv, FirstIsAlone
    <3>9. ASSUME NEW q \in Request PROVE WritesBesideItsRow(q)'
      <4>1. CASE q = r
        BY <3>1, <3>2, <3>3, <4>1 DEF WritesBesideItsRow
      <4>2. CASE q # r
        <5>1. JobBound(q) /\ WritesBesideItsRow(q) /\ pc'[q] = pc[q] /\ job'[q] = job[q]
          BY <1>0, <3>3, <4>2
        <5> QED BY <3>2, <3>4, <5>1 DEF WritesBesideItsRow, JobBound, SameRow
      <4> QED BY <4>1, <4>2
    <3>10. AccessBesideRefresh'
      <4> SUFFICES ASSUME NEW k \in Access, Born(access[k])
                   PROVE  \E u \in Refresh : /\ Born(refresh'[u]) /\ refresh'[u].auth = access[k].auth
                                             /\ refresh'[u].fam = access[k].fam
        BY <3>1 DEF AccessBesideRefresh
      <4>1. PICK u \in Refresh : /\ Born(refresh[u]) /\ refresh[u].auth = access[k].auth
                                /\ refresh[u].fam = access[k].fam
        BY DEF ChainInv, AccessBesideRefresh
      <4>2. Born(refresh'[u]) /\ refresh'[u].auth = refresh[u].auth /\ refresh'[u].fam = refresh[u].fam
        BY <3>2, <3>4, <4>1 DEF SameRow
      <4> QED BY <4>1, <4>2
    <3>11. OneFamily'
      <4>1. \A u \in Refresh : Born(refresh'[u]) =>
              \E v \in Refresh : /\ Born(refresh[v]) /\ refresh'[u].auth = refresh[v].auth
                                 /\ refresh'[u].fam = refresh[v].fam
        BY <3>1, <3>2, <3>4 DEF SameRow
      <4>2. \A v, x \in Refresh : Born(refresh[v]) /\ Born(refresh[x])
              => (refresh[v].auth = refresh[x].auth <=> refresh[v].fam = refresh[x].fam)
        BY DEF ChainInv, OneFamily
      <4>3. \A v \in Refresh, k \in Access : Born(refresh[v]) /\ Born(access[k])
              => (access[k].auth = refresh[v].auth <=> access[k].fam = refresh[v].fam)
        BY DEF ChainInv, OneFamily
      <4>4. access' = access
        BY <3>1
      <4> QED BY <4>1, <4>2, <4>3, <4>4 DEF OneFamily
    <3>12. SingleBranch'
      BY <3>1, <3>2 DEF ChainInv, SingleBranch, SameRow
    <3> QED BY <3>7, <3>8, <3>9, <3>10, <3>11, <3>12 DEF ChainInv
  \* the access token stands beside the refresh token just written
  <2>10. ASSUME NEW k \in Access, Issue(r, k) PROVE ChainInv'
    <3> DEFINE j == job[r]
    <3>1. CASE ~RowOf(j.auth)
      <4>1. Done(r) /\ UNCHANGED <<auth, code, refresh, access>>
        BY <2>10, <3>1 DEF Issue
      <4>2. /\ \A q \in Request \ {r} : pc'[q] = pc[q] /\ job'[q] = job[q]
            /\ pc'[r] = "idle"
        BY <4>1 DEF Done, Set, TypeOK
      <4> QED BY <1>b, <2>1, <4>1, <4>2
    <3>2. CASE RowOf(j.auth)
      <4>1. /\ pc[r] = "issue" /\ access[k].state = "none" /\ j.at \in Int /\ j.auth \in Auth
            /\ j.next \in Refresh /\ UNCHANGED <<auth, code>>
            /\ access' = [x \in Access |->
                            IF x = k THEN [state |-> Stored, auth |-> j.auth, fam |-> j.fam,
                                           until |-> j.at + ACCESS_TTL]
                            ELSE Purged(access[x], j.at)]
            /\ refresh' = [t \in Refresh |-> Purged(refresh[t], j.at)]
        BY <1>0, <2>10, <3>2 DEF Issue, JobBound, TypeOK, Job
      <4>2. /\ access'[k].auth = j.auth /\ access'[k].fam = j.fam /\ Born(access'[k])
            /\ \A x \in Access \ {k} : SameRow(access'[x], access[x])
            /\ \A t \in Refresh : /\ SameRow(refresh'[t], refresh[t])
                                  /\ refresh'[t].state = "active" => refresh[t].state = "active"
        BY <4>1, PurgedKeeps, PurgedIsQuiet DEF Stored, Born, TypeOK
      <4>3. /\ pc'[r] \in {"idle", "hold"}
            /\ \A q \in Request \ {r} : pc'[q] = pc[q] /\ job'[q] = job[q]
        BY <2>10, <3>2 DEF Issue, Done, Goto, Set, TypeOK
      <4>4. /\ ~Born(access[k]) /\ ~Unwritten(j.auth)
            /\ Born(refresh[j.next]) /\ refresh[j.next].auth = j.auth /\ refresh[j.next].fam = j.fam
        BY <1>0, <4>1 DEF WritesBesideItsRow, Born, Unwritten
      <4>5. \A b \in Auth : Unwritten(b) => Unwritten(b)'
        BY <4>2, <4>4 DEF Unwritten, SameRow
      <4>6. \A b \in Auth : /\ ~FirstFor(r, b)'
                            /\ \A q \in Request \ {r} : FirstFor(q, b)' <=> FirstFor(q, b)
        BY <4>3 DEF FirstFor
      <4>7. CodeComesFirst'
        BY <4>1, <4>5, <4>6 DEF ChainInv, CodeComesFirst
      <4>8. FirstIsAlone'
        BY <4>5, <4>6 DEF ChainInv, FirstIsAlone
      <4>9. ASSUME NEW q \in Request PROVE WritesBesideItsRow(q)'
        <5>1. CASE q = r
          BY <4>3, <5>1 DEF WritesBesideItsRow
        <5>2. CASE q # r
          <6>1. JobBound(q) /\ WritesBesideItsRow(q) /\ pc'[q] = pc[q] /\ job'[q] = job[q]
            BY <1>0, <4>3, <5>2
          <6> QED BY <4>2, <6>1 DEF WritesBesideItsRow, JobBound, SameRow
        <5> QED BY <5>1, <5>2
      <4>10. AccessBesideRefresh'
        <5> SUFFICES ASSUME NEW x \in Access, Born(access'[x])
                     PROVE  \E u \in Refresh : /\ Born(refresh'[u]) /\ refresh'[u].auth = access'[x].auth
                                               /\ refresh'[u].fam = access'[x].fam
          BY DEF AccessBesideRefresh
        <5>1. PICK u \in Refresh : /\ Born(refresh[u]) /\ refresh[u].auth = access'[x].auth
                                  /\ refresh[u].fam = access'[x].fam
          <6>1. CASE x = k
            BY <4>1, <4>2, <4>4, <6>1
          <6>2. CASE x # k
            BY <4>2, <6>2 DEF ChainInv, AccessBesideRefresh, SameRow
          <6> QED BY <6>1, <6>2
        <5> QED BY <4>2, <5>1 DEF SameRow
      <4>11. OneFamily'
        <5>1. /\ \A x, y \in Refresh : Born(refresh'[x]) /\ Born(refresh'[y]) =>
                   (refresh'[x].auth = refresh'[y].auth <=> refresh'[x].fam = refresh'[y].fam)
          BY <4>2 DEF ChainInv, OneFamily, SameRow
        <5>2. \A x \in Refresh, z \in Access : Born(refresh'[x]) /\ Born(access'[z]) =>
                (access'[z].auth = refresh'[x].auth <=> access'[z].fam = refresh'[x].fam)
          <6> SUFFICES ASSUME NEW x \in Refresh, NEW z \in Access, Born(refresh'[x]), Born(access'[z])
                       PROVE  access'[z].auth = refresh'[x].auth <=> access'[z].fam = refresh'[x].fam
            OBVIOUS
          <6>1. Born(refresh[x]) /\ refresh'[x].auth = refresh[x].auth /\ refresh'[x].fam = refresh[x].fam
            BY <4>2 DEF SameRow
          <6>2. CASE z = k
            BY <4>1, <4>2, <4>4, <6>1, <6>2 DEF ChainInv, OneFamily
          <6>3. CASE z # k
            BY <4>2, <6>1, <6>3 DEF ChainInv, OneFamily, SameRow
          <6> QED BY <6>2, <6>3
        <5> QED BY <5>1, <5>2 DEF OneFamily
      <4>12. SingleBranch'
        BY <4>2 DEF ChainInv, SingleBranch, SameRow
      <4> QED BY <4>7, <4>8, <4>9, <4>10, <4>11, <4>12 DEF ChainInv
    <3> QED BY <3>1, <3>2
  <2> QED
    BY <1>6, <2>2, <2>3, <2>4, <2>5, <2>6, <2>7, <2>8, <2>9, <2>10 DEF Advance
<1>7. CASE UNCHANGED vars
  <2>1. \A q \in Request : QuietRequest(q)
    BY <1>7, OthersAreQuiet DEF vars
  <2> QED BY <1>7, <1>a, <1>b, <2>1, QuietStep DEF vars
<1> QED
  BY <1>1, <1>2, <1>3, <1>4, <1>5, <1>6, <1>7 DEF Next

(* No interleaving of exchanges and rotations leaves two refresh tokens of  *)
(* one connection that can be spent (redeem_refresh_token), and all tokens  *)
(* of a connection are of one family (redeem_auth_code).                    *)
THEOREM ChainHolds == Spec => [](SingleBranch /\ OneFamily)
<1>1. Init => ChainInv
  BY ChainInit
<1>2. TypeOK /\ TypeOK' /\ ChainInv /\ [Next]_vars => ChainInv'
  BY ChainStep
<1>3. ChainInv => SingleBranch /\ OneFamily
  BY DEF ChainInv
<1> QED
  BY <1>1, <1>2, <1>3, TypeCorrect, PTL DEF Spec
-----------------------------------------------------------------------------
(* What may become of a connection and of its refresh tokens in one step    *)
Ends ==
  \A a \in Auth : /\ auth[a] # "none" => auth'[a] # "none"
                  /\ auth[a] \in {"revoked", "gone"} => auth'[a] \in {"revoked", "gone"}

FinalRow(new, row) ==
  /\ row.state \in {"used", "revoked"} => new.state \in {"used", "revoked", "gone"}
  /\ row.state = "revoked" => new.state # "used"

LEMMA MarkIsFinal ==
  ASSUME NEW s \in {"revoked", "gone"}, NEW row
  PROVE  FinalRow(Marked(row, s), row)
BY DEF Marked, Present, FinalRow

LEMMA PurgedIsFinal ==
  ASSUME NEW moment \in Int, NEW row
  PROVE  FinalRow(Purged(row, moment), row)
BY MarkIsFinal DEF Purged, FinalRow

LEMMA EndStep ==
  ASSUME TypeOK, [Next]_vars
  PROVE  Ends /\ \A t \in Refresh : FinalRow(refresh'[t], refresh[t])
<1> USE ConstantsAssumption DEF ConstantsAssumption, rows, tokens
<1>0. ASSUME UNCHANGED refresh PROVE \A t \in Refresh : FinalRow(refresh'[t], refresh[t])
  BY <1>0 DEF FinalRow
<1>1. ASSUME NEW a \in Auth, Approve(a) PROVE Ends /\ UNCHANGED refresh
  BY <1>1 DEF Approve, Ends, TypeOK
<1>2. ASSUME NEW a \in Auth, DeleteAuthorization(a)
      PROVE  Ends /\ \A t \in Refresh : FinalRow(refresh'[t], refresh[t])
  <2>1. Ends BY <1>2 DEF DeleteAuthorization, Ends, TypeOK
  <2>2. \A t \in Refresh : FinalRow(refresh'[t], refresh[t])
    BY <1>2, MarkIsFinal DEF DeleteAuthorization, FinalRow
  <2> QED BY <2>1, <2>2
<1>3. ASSUME Tick \/ (\E w \in Worker : Crash(w)) \/ \E r \in Request : Start(r)
      PROVE  Ends /\ UNCHANGED refresh
  BY <1>3 DEF Tick, Crash, Start, LoadCode, Disconnect, LoadRefresh, Revoke, VerifyCached,
              VerifyStored, Ends
<1>4. ASSUME NEW r \in Request, Advance(r)
      PROVE  Ends /\ \A t \in Refresh : FinalRow(refresh'[t], refresh[t])
  <2>0. JobBound(r) BY DEF TypeOK
  <2>1. CASE RedeemCode(r) \/ ReadGrant(r) \/ RedeemNothing(r) \/ Hold(r) \/ Judge(r)
             \/ ReadFamilies(r) \/ NoteCleanup(r) \/ Forget(r) \/ HandRead(r) \/ HandClear(r)
             \/ Remember(r) \/ ResolveIdentity(r) \/ Serve(r)
             \/ \E answered \in BOOLEAN : HandCall(r, answered)
    <3>1. UNCHANGED <<auth, refresh>>
      BY <2>1 DEF RedeemCode, ReadGrant, RedeemNothing, Hold, Judge, ReadFamilies, NoteCleanup,
                  Forget, HandRead, HandClear, Remember, ResolveIdentity, Serve, HandCall
    <3> QED BY <1>0, <3>1 DEF Ends
  <2>2. CASE EndAuthorization(r)
    BY <1>0, <2>2 DEF EndAuthorization, Ends, TypeOK
  <2>3. ASSUME NEW n \in Refresh, Redeem(r, n)
        PROVE  Ends /\ \A t \in Refresh : FinalRow(refresh'[t], refresh[t])
    <3>1. Ends BY <2>3 DEF Redeem, Ends
    <3>2. /\ refresh[n].state = "none" /\ refresh[job[r].tok].state = "active"
          /\ \A t \in Refresh \ {n, job[r].tok} : refresh'[t] = refresh[t]
      BY <2>0, <2>3 DEF Redeem, Redeemable, TypeOK, JobBound
    <3> QED BY <3>1, <3>2 DEF FinalRow
  <2>4. ASSUME NEW n \in Refresh, NEW f \in Family, FirstRefresh(r, n, f)
        PROVE  Ends /\ \A t \in Refresh : FinalRow(refresh'[t], refresh[t])
    <3>1. Ends BY <2>4 DEF FirstRefresh, Ends
    <3>2. refresh[n].state = "none" /\ job[r].at \in Int
      BY <2>4 DEF FirstRefresh, TypeOK, Job
    <3>3. \/ UNCHANGED refresh
          \/ \A t \in Refresh \ {n} : refresh'[t] = Purged(refresh[t], job[r].at)
      BY <2>4 DEF FirstRefresh
    <3>4. \A t \in Refresh \ {n} : FinalRow(refresh'[t], refresh[t])
      BY <1>0, <3>2, <3>3, PurgedIsFinal
    <3> QED BY <3>1, <3>2, <3>4 DEF FinalRow
  <2>5. ASSUME NEW k \in Access, Issue(r, k)
        PROVE  Ends /\ \A t \in Refresh : FinalRow(refresh'[t], refresh[t])
    <3>1. Ends BY <2>5 DEF Issue, Ends
    <3>2. job[r].at \in Int
      BY DEF TypeOK, Job
    <3>3. \/ UNCHANGED refresh
          \/ \A t \in Refresh : refresh'[t] = Purged(refresh[t], job[r].at)
      BY <2>5 DEF Issue
    <3> QED BY <1>0, <3>1, <3>2, <3>3, PurgedIsFinal
  <2>6. ASSUME NEW f \in Family, EndFamily(r, f)
        PROVE  Ends /\ \A t \in Refresh : FinalRow(refresh'[t], refresh[t])
    <3>1. Ends BY <2>6 DEF EndFamily, Ends
    <3>2. \A t \in Refresh : refresh'[t] = Marked(refresh[t], "revoked") \/ refresh'[t] = refresh[t]
      BY <2>6 DEF EndFamily
    <3> QED BY <3>1, <3>2, MarkIsFinal DEF FinalRow
  <2> QED BY <1>4, <2>1, <2>2, <2>3, <2>4, <2>5, <2>6 DEF Advance
<1>5. CASE UNCHANGED vars
  BY <1>0, <1>5 DEF vars, Ends
<1> QED BY <1>0, <1>1, <1>2, <1>3, <1>4, <1>5 DEF Next

(* An ended connection is never live again and a spent or revoked refresh   *)
(* token never spendable again (revoke_authorization, revoke_family).       *)
THEOREM EndsAreFinal == Spec => EndIsFinal
<1>1. TypeOK /\ [Next]_vars =>
        [/\ \A a \in Auth : auth[a] \in {"revoked", "gone"} => auth'[a] \in {"revoked", "gone"}
         /\ \A t \in Refresh : refresh[t].state \in {"used", "revoked"} =>
                                refresh'[t].state \in {"used", "revoked", "gone"}
         /\ \A t \in Refresh : refresh[t].state = "revoked" => refresh'[t].state # "used"]_vars
  BY EndStep DEF Ends, FinalRow
<1> QED BY <1>1, TypeCorrect, PTL DEF Spec, EndIsFinal

LEMMA AdmissionInit == Init => AdmissionInv
BY DEF Init, AdmissionInv, NoLateAdmission, Born

(* The verification steps are the only ones that matter to an admission.    *)
Verifying == {"remember", "resolve", "admitted"}

LEMMA AdvanceMoves ==
  ASSUME TypeOK, NEW r \in Request, Advance(r)
  PROVE  /\ \A q \in Request \ {r} : pc'[q] = pc[q] /\ job'[q] = job[q]
         /\ Remember(r) \/ ResolveIdentity(r) \/ pc'[r] \notin Verifying
<1> DEFINE Goal == /\ \A q \in Request \ {r} : pc'[q] = pc[q] /\ job'[q] = job[q]
                   /\ Remember(r) \/ ResolveIdentity(r) \/ pc'[r] \notin Verifying
<1> USE DEF Done, Goto, Set, TypeOK, Verifying
<1>1. CASE RedeemCode(r) \/ ReadGrant(r) \/ RedeemNothing(r) \/ Hold(r) \/ Judge(r)
  BY <1>1 DEF RedeemCode, ReadGrant, RedeemNothing, Hold, Judge
<1>2. CASE ReadFamilies(r) \/ EndAuthorization(r) \/ NoteCleanup(r) \/ Forget(r)
  BY <1>2 DEF ReadFamilies, EndAuthorization, NoteCleanup, Forget
<1>3. CASE HandRead(r) \/ HandClear(r) \/ Remember(r) \/ ResolveIdentity(r) \/ Serve(r)
  BY <1>3 DEF HandRead, HandClear, Remember, ResolveIdentity, Serve
<1>4. ASSUME NEW n \in Refresh, Redeem(r, n) PROVE Goal
  BY <1>4 DEF Redeem
<1>5. ASSUME NEW n \in Refresh, NEW f \in Family, FirstRefresh(r, n, f) PROVE Goal
  BY <1>5 DEF FirstRefresh
<1>6. ASSUME NEW k \in Access, Issue(r, k) PROVE Goal
  BY <1>6 DEF Issue
<1>7. ASSUME NEW f \in Family, EndFamily(r, f) PROVE Goal
  BY <1>7 DEF EndFamily
<1>8. ASSUME NEW answered \in BOOLEAN, HandCall(r, answered) PROVE Goal
  BY <1>8 DEF HandCall
<1> QED BY <1>1, <1>2, <1>3, <1>4, <1>5, <1>6, <1>7, <1>8 DEF Advance

LEMMA AdmissionStep == TypeOK /\ TypeOK' /\ AdmissionInv /\ [Next]_vars => AdmissionInv'
<1> SUFFICES ASSUME TypeOK, TypeOK', AdmissionInv, [Next]_vars PROVE AdmissionInv'
  OBVIOUS
<1> USE ConstantsAssumption DEF ConstantsAssumption, rows, tokens
<1>1. Ends
  BY EndStep
<1>2. \A q \in Request : JobBound(q)
  BY DEF TypeOK
<1>3. \A k \in Access : Born(access'[k]) => auth'[access'[k].auth] # "none"
  <2>1. ASSUME \A k \in Access : SameRow(access'[k], access[k])
        PROVE  \A k \in Access : Born(access'[k]) => auth'[access'[k].auth] # "none"
    BY <1>1, <2>1 DEF AdmissionInv, Ends, SameRow, TypeOK, Bound
  <2>2. CASE UNCHANGED access
    BY <2>1, <2>2 DEF SameRow
  <2>3. ASSUME NEW a \in Auth, DeleteAuthorization(a)
        PROVE  \A k \in Access : SameRow(access'[k], access[k])
    BY <2>3, MarkKeeps DEF DeleteAuthorization, TypeOK, RowState, SameRow
  <2>4. ASSUME NEW r \in Request, NEW f \in Family, EndFamily(r, f)
        PROVE  \A k \in Access : SameRow(access'[k], access[k])
    BY <2>4, MarkKeeps DEF EndFamily, TypeOK, RowState, SameRow
  <2>5. ASSUME NEW r \in Request, NEW n \in Refresh, NEW f \in Family, FirstRefresh(r, n, f)
        PROVE  \A k \in Access : SameRow(access'[k], access[k])
    <3>1. job[r].at \in Int BY <2>5 DEF TypeOK, Job
    <3> QED BY <2>5, <3>1, PurgedKeeps DEF FirstRefresh, TypeOK, SameRow
  <2>6. ASSUME NEW r \in Request, NEW k \in Access, Issue(r, k)
        PROVE  \A x \in Access : Born(access'[x]) => auth'[access'[x].auth] # "none"
    <3> DEFINE j == job[r]
    <3>1. CASE UNCHANGED access
      BY <2>2, <3>1
    <3>2. CASE ~ UNCHANGED access
      <4>1. /\ RowOf(j.auth) /\ j.auth \in Auth /\ j.at \in Int /\ UNCHANGED auth
            /\ access'[k].auth = j.auth
            /\ \A x \in Access \ {k} : access'[x] = Purged(access[x], j.at)
        <5>1. RowOf(j.auth) /\ pc[r] = "issue" /\ UNCHANGED auth
              /\ access' = [x \in Access |->
                             IF x = k THEN [state |-> Stored, auth |-> j.auth, fam |-> j.fam,
                                            until |-> j.at + ACCESS_TTL]
                             ELSE Purged(access[x], j.at)]
          BY <2>6, <3>2 DEF Issue
        <5>2. j \in Job /\ j.auth \in Auth
          BY <1>2, <5>1 DEF JobBound, TypeOK
        <5> HIDE DEF j
        <5>3. j.at \in Int
          BY <5>2 DEF Job
        <5> QED BY <5>1, <5>2, <5>3
      <4>2. \A x \in Access \ {k} : SameRow(access'[x], access[x])
        BY <4>1, PurgedKeeps DEF TypeOK
      <4> QED BY <4>1, <4>2 DEF RowOf, SameRow, AdmissionInv
    <3> QED BY <3>1, <3>2
  <2>7. \/ UNCHANGED access
        \/ \E a \in Auth : DeleteAuthorization(a)
        \/ \E r \in Request, f \in Family : EndFamily(r, f)
        \/ \E r \in Request, n \in Refresh, f \in Family : FirstRefresh(r, n, f)
        \/ \E r \in Request, k \in Access : Issue(r, k)
    <3>1. CASE UNCHANGED vars
      BY <3>1 DEF vars
    <3>2. ASSUME NEW r \in Request, Start(r) PROVE UNCHANGED access
      BY <3>2 DEF Start, LoadCode, Disconnect, LoadRefresh, Revoke, VerifyCached, VerifyStored
    <3>3. ASSUME NEW r \in Request, Advance(r)
          PROVE  \/ UNCHANGED access
                 \/ \E f \in Family : EndFamily(r, f)
                 \/ \E n \in Refresh, f \in Family : FirstRefresh(r, n, f)
                 \/ \E k \in Access : Issue(r, k)
      <4>1. CASE RedeemCode(r) \/ ReadGrant(r) \/ RedeemNothing(r) \/ Hold(r) \/ Judge(r)
        BY <4>1 DEF RedeemCode, ReadGrant, RedeemNothing, Hold, Judge
      <4>2. CASE ReadFamilies(r) \/ EndAuthorization(r) \/ NoteCleanup(r) \/ Forget(r)
        BY <4>2 DEF ReadFamilies, EndAuthorization, NoteCleanup, Forget
      <4>3. CASE HandRead(r) \/ HandClear(r) \/ Remember(r) \/ ResolveIdentity(r) \/ Serve(r)
        BY <4>3 DEF HandRead, HandClear, Remember, ResolveIdentity, Serve
      <4>4. ASSUME NEW n \in Refresh, Redeem(r, n) PROVE UNCHANGED access
        BY <4>4 DEF Redeem
      <4>5. ASSUME NEW answered \in BOOLEAN, HandCall(r, answered) PROVE UNCHANGED access
        BY <4>5 DEF HandCall
      <4> QED BY <3>3, <4>1, <4>2, <4>3, <4>4, <4>5 DEF Advance
    <3>4. ASSUME NEW a \in Auth, Approve(a) PROVE UNCHANGED access
      BY <3>4 DEF Approve
    <3>5. CASE Tick \/ \E w \in Worker : Crash(w)
      BY <3>5 DEF Tick, Crash
    <3> QED BY <3>1, <3>2, <3>3, <3>4, <3>5 DEF Next
  <2> QED BY <2>1, <2>2, <2>3, <2>4, <2>5, <2>6, <2>7
\* a request that verifies: it went on as it was, began, remembered or was resolved
<1>4. ASSUME NEW r \in Request, pc'[r] \in Verifying
      PROVE  \/ pc'[r] = pc[r] /\ job'[r] = job[r]
             \/ pc[r] = "remember" /\ pc'[r] = "resolve" /\ job'[r] = job[r]
             \/ pc[r] = "resolve" /\ job'[r] = job[r] /\ auth[job[r].auth] = "live"
             \/ \E k \in Access : /\ Born(access[k]) /\ job'[r] = VerifyJob(k)
                                 /\ pc'[r] \in {"remember", "resolve"}
  <2>1. CASE \E q \in Request \ {r} : Start(q) \/ Advance(q)
    <3> PICK q \in Request \ {r} : Start(q) \/ Advance(q)
      BY <2>1
    <3>1. ASSUME Start(q) PROVE pc'[r] = pc[r] /\ job'[r] = job[r]
      BY <3>1 DEF Start, LoadCode, Disconnect, LoadRefresh, Revoke, VerifyCached, VerifyStored,
                  Begin, Goto, Set, TypeOK
    <3>2. ASSUME Advance(q) PROVE pc'[r] = pc[r] /\ job'[r] = job[r]
      BY <3>2, AdvanceMoves
    <3> QED BY <3>1, <3>2
  <2>2. CASE Start(r)
    <3>1. ASSUME NEW k \in Access, VerifyCached(r, k) \/ VerifyStored(r, k)
          PROVE  /\ Born(access[k]) /\ job'[r] = VerifyJob(k)
                 /\ pc'[r] \in {"remember", "resolve"}
      BY <3>1 DEF VerifyCached, VerifyStored, Begin, Goto, Set, TypeOK, Bound, Born, Stored
    <3>2. ASSUME \/ \E a \in Auth : LoadCode(r, a) \/ Disconnect(r, a)
                 \/ \E t \in Refresh : LoadRefresh(r, t)
                 \/ \E t \in Refresh \cup Access : Revoke(r, t)
          PROVE  FALSE
      <4>1. ASSUME NEW a \in Auth, LoadCode(r, a) PROVE pc'[r] = "code_gate"
        BY <4>1 DEF LoadCode, Begin, Goto, TypeOK
      <4>2. ASSUME NEW a \in Auth, Disconnect(r, a) PROVE pc'[r] = "families"
        BY <4>2 DEF Disconnect, Begin, Goto, TypeOK
      <4>3. ASSUME NEW t \in Refresh, LoadRefresh(r, t) PROVE pc'[r] = "refresh_gate"
        BY <4>3 DEF LoadRefresh, Begin, Goto, TypeOK
      <4>4. ASSUME NEW t \in Refresh \cup Access, Revoke(r, t) PROVE pc'[r] = "end_family"
        BY <4>4 DEF Revoke, Begin, Goto, TypeOK
      <4> QED BY <1>4, <3>2, <4>1, <4>2, <4>3, <4>4 DEF Verifying
    <3> QED BY <2>2, <3>1, <3>2 DEF Start
  <2>3. CASE Advance(r)
    <3>1. ASSUME ~Remember(r), ~ResolveIdentity(r) PROVE FALSE
      BY <1>4, <2>3, <3>1, AdvanceMoves
    <3>2. CASE Remember(r)
      BY <3>2 DEF Remember, Goto, TypeOK
    <3>3. CASE ResolveIdentity(r)
      BY <1>4, <3>3 DEF ResolveIdentity, Usable, Done, Goto, TypeOK, Verifying
    <3> QED BY <3>1, <3>2, <3>3
  <2>4. CASE (\E a \in Auth : Approve(a) \/ DeleteAuthorization(a)) \/ Tick \/ UNCHANGED vars
    BY <2>4 DEF Approve, DeleteAuthorization, Tick, vars
  <2>5. CASE \E w \in Worker : Crash(w)
    BY <1>4, <2>5 DEF Crash, Verifying
  <2> QED BY <2>1, <2>2, <2>3, <2>4, <2>5 DEF Next
<1>5. ASSUME NEW k \in Access, Born(access[k]), VerifyJob(k).late
      PROVE  VerifyJob(k).auth = access[k].auth /\ auth[access[k].auth] \in {"revoked", "gone"}
  <2>1. VerifyJob(k).auth = access[k].auth /\ VerifyJob(k).late = Late(k)
    BY DEF VerifyJob, JobFor
  <2>2. access[k].auth \in Auth /\ auth[access[k].auth] # "none"
    BY <1>5 DEF TypeOK, Bound, AdmissionInv
  <2> QED BY <1>5, <2>1, <2>2 DEF Late, TypeOK
<1>6. ASSUME NEW r \in Request, pc'[r] \in {"remember", "resolve"}, job'[r].late
      PROVE  auth'[job'[r].auth] \in {"revoked", "gone"}
  <2>1. job'[r].auth \in Auth
    BY <1>6 DEF TypeOK, JobBound
  <2>2. auth[job'[r].auth] \in {"revoked", "gone"}
    <3>1. CASE \E k \in Access : Born(access[k]) /\ job'[r] = VerifyJob(k)
      BY <1>5, <1>6, <3>1
    <3>2. CASE ~ \E k \in Access : Born(access[k]) /\ job'[r] = VerifyJob(k)
      <4>1. \/ pc[r] \in {"remember", "resolve"} /\ job'[r] = job[r]
        BY <1>4, <1>6, <3>2 DEF Verifying
      <4> QED BY <1>6, <4>1 DEF AdmissionInv
    <3> QED BY <3>1, <3>2
  <2> QED BY <1>1, <2>1, <2>2 DEF Ends
<1>7. ASSUME NEW r \in Request, pc'[r] = "admitted" PROVE ~job'[r].late
  BY <1>4, <1>7 DEF AdmissionInv, NoLateAdmission, Verifying
<1> QED BY <1>3, <1>6, <1>7 DEF AdmissionInv, NoLateAdmission

(* For any number of workers and any age of their caches: a tool call that  *)
(* began after the end of its connection is not admitted (resolve_identity).*)
THEOREM NobodyIsLate == Spec => []NoLateAdmission
<1>1. Init => AdmissionInv
  BY AdmissionInit
<1>2. TypeOK /\ TypeOK' /\ AdmissionInv /\ [Next]_vars => AdmissionInv'
  BY AdmissionStep
<1>3. AdmissionInv => NoLateAdmission
  BY DEF AdmissionInv
<1> QED
  BY <1>1, <1>2, <1>3, TypeCorrect, PTL DEF Spec

-----------------------------------------------------------------------------
(* What a refresh token was answered, how a connection ends, and the chain *)
(* of credentials that ConnectionTokens implements                         *)

(* Every token ever written for a connection belongs to the one family its  *)
(* code started, however exchanges, rotations and ends interleave.          *)
THEOREM FamiliesAreConnections == Spec => []OneFamily
<1>1. SingleBranch /\ OneFamily => OneFamily
  OBVIOUS
<1> QED BY <1>1, ChainHolds, PTL

-----------------------------------------------------------------------------
(* A row that is spent, revoked or deleted keeps the successor it has.      *)
Settled(row) == row.state \in {"used", "revoked", "gone"}

StaysSettled(new, row) == Settled(row) => Settled(new) /\ new.succ = row.succ

LEMMA MarkStaysSettled ==
  ASSUME NEW s \in {"revoked", "gone"}, NEW row \in RefreshRow
  PROVE  StaysSettled(Marked(row, s), row)
BY DEF Marked, Present, StaysSettled, Settled, RefreshRow

LEMMA PurgedStaysSettled ==
  ASSUME NEW moment \in Int, NEW row \in RefreshRow
  PROVE  StaysSettled(Purged(row, moment), row)
BY MarkStaysSettled DEF Purged, StaysSettled

(* No step gives a settled row another successor.                           *)
LEMMA SettledStep ==
  ASSUME TypeOK, [Next]_vars
  PROVE  \A t \in Refresh : StaysSettled(refresh'[t], refresh[t])
<1> DEFINE Goal == \A t \in Refresh : StaysSettled(refresh'[t], refresh[t])
<1> USE DEF rows, tokens
<1>0. ASSUME UNCHANGED refresh PROVE Goal
  BY <1>0 DEF StaysSettled
<1>1. ASSUME NEW a \in Auth, Approve(a) PROVE Goal
  BY <1>0, <1>1 DEF Approve
<1>2. ASSUME NEW a \in Auth, DeleteAuthorization(a) PROVE Goal
  BY <1>2, MarkStaysSettled DEF DeleteAuthorization, StaysSettled, TypeOK
<1>3. ASSUME Tick \/ (\E w \in Worker : Crash(w)) \/ \E r \in Request : Start(r) PROVE Goal
  <2>1. UNCHANGED refresh
    BY <1>3 DEF Tick, Crash, Start, LoadCode, Disconnect, LoadRefresh, Revoke, VerifyCached,
                VerifyStored
  <2> QED BY <1>0, <2>1
<1>4. ASSUME NEW r \in Request, Advance(r) PROVE Goal
  <2>0. JobBound(r) /\ job[r].at \in Int BY DEF TypeOK, Job
  <2>1. CASE RedeemCode(r) \/ ReadGrant(r) \/ RedeemNothing(r) \/ Hold(r) \/ Judge(r)
             \/ ReadFamilies(r) \/ EndAuthorization(r) \/ NoteCleanup(r) \/ Forget(r)
             \/ HandRead(r) \/ HandClear(r) \/ Remember(r) \/ ResolveIdentity(r) \/ Serve(r)
             \/ \E answered \in BOOLEAN : HandCall(r, answered)
    <3>1. UNCHANGED refresh
      BY <2>1 DEF RedeemCode, ReadGrant, RedeemNothing, Hold, Judge, ReadFamilies,
                  EndAuthorization, NoteCleanup, Forget, HandRead, HandClear, Remember,
                  ResolveIdentity, Serve, HandCall
    <3> QED BY <1>0, <3>1
  <2>2. ASSUME NEW n \in Refresh, Redeem(r, n) PROVE Goal
    <3>1. /\ refresh[n].state = "none" /\ refresh[job[r].tok].state = "active"
          /\ \A t \in Refresh \ {n, job[r].tok} : refresh'[t] = refresh[t]
      BY <2>0, <2>2 DEF Redeem, Redeemable, TypeOK, JobBound
    <3> QED BY <3>1 DEF StaysSettled, Settled
  <2>3. ASSUME NEW n \in Refresh, NEW f \in Family, FirstRefresh(r, n, f) PROVE Goal
    <3>1. refresh[n].state = "none"
      BY <2>3 DEF FirstRefresh
    <3>2. \/ UNCHANGED refresh
          \/ \A t \in Refresh \ {n} : refresh'[t] = Purged(refresh[t], job[r].at)
      BY <2>3 DEF FirstRefresh
    <3>3. \A t \in Refresh \ {n} : StaysSettled(refresh'[t], refresh[t])
      BY <1>0, <2>0, <3>2, PurgedStaysSettled DEF TypeOK
    <3> QED BY <3>1, <3>3 DEF StaysSettled, Settled
  <2>4. ASSUME NEW k \in Access, Issue(r, k) PROVE Goal
    <3>1. \/ UNCHANGED refresh
          \/ \A t \in Refresh : refresh'[t] = Purged(refresh[t], job[r].at)
      BY <2>4 DEF Issue
    <3> QED BY <1>0, <2>0, <3>1, PurgedStaysSettled DEF TypeOK
  <2>5. ASSUME NEW f \in Family, EndFamily(r, f) PROVE Goal
    <3>1. \A t \in Refresh : refresh'[t] = Marked(refresh[t], "revoked") \/ refresh'[t] = refresh[t]
      BY <2>5 DEF EndFamily
    <3> QED BY <3>1, MarkStaysSettled DEF StaysSettled, TypeOK
  <2> QED BY <1>4, <2>1, <2>2, <2>3, <2>4, <2>5 DEF Advance
<1>5. CASE UNCHANGED vars
  BY <1>0, <1>5 DEF vars
<1> QED BY <1>1, <1>2, <1>3, <1>4, <1>5 DEF Next
-----------------------------------------------------------------------------
(* The answers.  A rotation on its way to its answer belongs to a token     *)
(* that is spent and names the successor it wrote there; it is the only one *)
(* for that token, and nobody has been answered for it yet.                 *)
Rotating(r) == pc[r] \in {"issue", "hold"} /\ job[r].kind = "refresh"

Given == granted \cup {h.answer : h \in UNION {held[w] : w \in Worker}}

AnswerInv ==
  /\ \A r \in Request : Rotating(r) =>
       /\ Settled(refresh[job[r].tok]) /\ refresh[job[r].tok].succ = job[r].next
       /\ \A q \in Request : Rotating(q) /\ job[q].tok = job[r].tok => q = r
  /\ \A r \in Request : pc[r] = "hold" => job[r].kind = "refresh"
  /\ \A x \in Given :
       /\ Settled(refresh[x.tok]) /\ refresh[x.tok].succ = x.refresh
       /\ \A r \in Request : Rotating(r) => job[r].tok # x.tok
       /\ \A y \in Given : x.tok = y.tok => x = y

(* A request whose step or locals change died, began or went on.            *)
LEMMA WhoMoves ==
  ASSUME TypeOK, [Next]_vars, NEW q \in Request
  PROVE  \/ pc'[q] = pc[q] /\ job'[q] = job[q]
         \/ Crashes /\ pc'[q] = "idle"
         \/ Start(q) \/ Advance(q)
<1> DEFINE Goal == \/ pc'[q] = pc[q] /\ job'[q] = job[q]
                   \/ Crashes /\ pc'[q] = "idle"
                   \/ Start(q) \/ Advance(q)
<1>1. CASE (\E a \in Auth : Approve(a) \/ DeleteAuthorization(a)) \/ Tick \/ UNCHANGED vars
  BY <1>1 DEF Approve, DeleteAuthorization, Tick, vars
<1>2. CASE \E w \in Worker : Crash(w)
  BY <1>2 DEF Crash
<1>3. ASSUME NEW r \in Request \ {q}, Start(r) PROVE Goal
  BY <1>3 DEF Start, LoadCode, Disconnect, LoadRefresh, Revoke, VerifyCached, VerifyStored,
              Begin, Goto, Set, TypeOK
<1>4. ASSUME NEW r \in Request \ {q}, Advance(r) PROVE Goal
  BY <1>4, AdvanceMoves
<1> QED BY <1>1, <1>2, <1>3, <1>4 DEF Next

(* Where a request begins                                                   *)
LEMMA StartMoves ==
  ASSUME TypeOK, NEW r \in Request, Start(r)
  PROVE  /\ pc'[r] \in {"code_gate", "families", "refresh_gate", "end_family", "resolve", "remember"}
         /\ UNCHANGED <<clock, rows, tokens, held, cache, granted>>
BY DEF Start, LoadCode, Disconnect, LoadRefresh, Revoke, VerifyCached, VerifyStored,
       Begin, Goto, TypeOK

(* A first token is no rotation, and an access token leaves one what it is. *)
LEMMA FirstIsNoRotation ==
  ASSUME TypeOK, NEW r \in Request, NEW n \in Refresh, NEW f \in Family, FirstRefresh(r, n, f)
  PROVE  pc'[r] = "idle" \/ (pc'[r] = "issue" /\ job'[r].kind = "code")
<1>1. CASE RowOf(job[r].auth)
  <2>1. /\ pc[r] = "first_refresh" /\ Goto(r, "first_refresh", "issue")
        /\ Set(r, WithNext(job[r], f, n))
    BY <1>1 DEF FirstRefresh
  <2>2. job[r] \in Job /\ job[r].kind = "code"
    BY <2>1 DEF TypeOK, JobBound
  <2> QED BY <2>1, <2>2, SetNext DEF Goto, Set, TypeOK
<1>2. CASE ~RowOf(job[r].auth)
  BY <1>2 DEF FirstRefresh, Done, TypeOK
<1> QED BY <1>1, <1>2

LEMMA IssueGoesOn ==
  ASSUME TypeOK, NEW r \in Request, NEW k \in Access, Issue(r, k)
  PROVE  \/ pc'[r] = "idle"
         \/ /\ pc[r] = "issue" /\ pc'[r] = "hold" /\ job[r].kind = "refresh"
            /\ job'[r].kind = "refresh" /\ job'[r].tok = job[r].tok /\ job'[r].next = job[r].next
<1>1. CASE RowOf(job[r].auth) /\ job[r].kind = "refresh"
  <2>1. pc[r] = "issue" /\ Goto(r, "issue", "hold") /\ Set(r, WithAccess(job[r], k))
    BY <1>1 DEF Issue
  <2>2. job[r] \in Job
    BY DEF TypeOK
  <2>3. WithAccess(job[r], k).kind = job[r].kind
    BY <2>2 DEF WithAccess, Job
  <2> QED BY <1>1, <2>1, <2>2, <2>3, SetAccess DEF Goto, Set, TypeOK
<1>2. CASE ~(RowOf(job[r].auth) /\ job[r].kind = "refresh")
  BY <1>2 DEF Issue, Done, TypeOK
<1> QED BY <1>1, <1>2

LEMMA AnswerInit == Init => AnswerInv
BY DEF Init, AnswerInv, Rotating, Given

(* A step that starts no rotation and gives no answer that was not given    *)
SameRotations ==
  /\ \A q \in Request : Rotating(q)' =>
       Rotating(q) /\ job'[q].tok = job[q].tok /\ job'[q].next = job[q].next
  /\ \A q \in Request : pc'[q] = "hold" => job'[q].kind = "refresh"

LEMMA AnswerTypes ==
  ASSUME TypeOK
  PROVE  /\ \A q \in Request : Rotating(q) => job[q].tok \in Refresh
         /\ \A x \in Given : x \in Answer /\ x.tok \in Refresh
<1>1. \A q \in Request : Rotating(q) => job[q].tok \in Refresh
  BY DEF TypeOK, JobBound, Rotating
<1>2. Given \subseteq Answer
  BY DEF TypeOK, Given, HeldAnswer
<1> QED BY <1>1, <1>2 DEF Answer

LEMMA AnswerQuiet ==
  ASSUME TypeOK, AnswerInv, [Next]_vars, SameRotations, Given' \subseteq Given
  PROVE  AnswerInv'
<1>1. \A t \in Refresh : StaysSettled(refresh'[t], refresh[t])
  BY SettledStep
<1>2. /\ \A q \in Request : Rotating(q) => job[q].tok \in Refresh
      /\ \A x \in Given : x.tok \in Refresh
  BY AnswerTypes
<1>3. \A r \in Request : Rotating(r)' =>
        /\ Settled(refresh'[job'[r].tok]) /\ refresh'[job'[r].tok].succ = job'[r].next
        /\ \A q \in Request : Rotating(q)' /\ job'[q].tok = job'[r].tok => q = r
  BY <1>1, <1>2 DEF AnswerInv, SameRotations, StaysSettled
<1>4. \A x \in Given' :
        /\ Settled(refresh'[x.tok]) /\ refresh'[x.tok].succ = x.refresh
        /\ \A r \in Request : Rotating(r)' => job'[r].tok # x.tok
        /\ \A y \in Given' : x.tok = y.tok => x = y
  BY <1>1, <1>2 DEF AnswerInv, SameRotations, StaysSettled
<1> QED BY <1>3, <1>4 DEF AnswerInv, SameRotations, Settled, Rotating

(* Only a redemption starts a rotation, and only its end gives an answer.   *)
LEMMA RotationsAreSame ==
  ASSUME TypeOK, AnswerInv, [Next]_vars,
         \A r \in Request, n \in Refresh : ~Redeem(r, n)
  PROVE  SameRotations
<1> SUFFICES ASSUME NEW q \in Request
             PROVE  /\ Rotating(q)' => /\ Rotating(q) /\ job'[q].tok = job[q].tok
                                       /\ job'[q].next = job[q].next
                    /\ pc'[q] = "hold" => job'[q].kind = "refresh"
  BY DEF SameRotations
<1>1. CASE pc'[q] = pc[q] /\ job'[q] = job[q]
  BY <1>1 DEF Rotating, AnswerInv
<1>2. CASE pc'[q] = "idle" \/ Start(q)
  BY <1>2, StartMoves DEF Rotating
<1>3. CASE Advance(q)
  <2>1. CASE RedeemCode(q) \/ ReadGrant(q) \/ RedeemNothing(q) \/ Hold(q) \/ Judge(q)
             \/ ReadFamilies(q) \/ EndAuthorization(q) \/ NoteCleanup(q) \/ Forget(q)
    <3>1. pc'[q] \notin {"issue", "hold"}
      BY <2>1 DEF RedeemCode, ReadGrant, RedeemNothing, Hold, Judge, ReadFamilies,
                  EndAuthorization, NoteCleanup, Forget, Goto, Done, TypeOK
    <3> QED BY <3>1 DEF Rotating
  <2>2. CASE HandRead(q) \/ HandClear(q) \/ Remember(q) \/ ResolveIdentity(q) \/ Serve(q)
             \/ (\E f \in Family : EndFamily(q, f))
             \/ \E answered \in BOOLEAN : HandCall(q, answered)
    <3>1. pc'[q] \notin {"issue", "hold"}
      BY <2>2 DEF HandRead, HandClear, Remember, ResolveIdentity, Serve, EndFamily, HandCall,
                  Goto, Done, TypeOK
    <3> QED BY <3>1 DEF Rotating
  <2>3. ASSUME NEW n \in Refresh, NEW f \in Family, FirstRefresh(q, n, f)
        PROVE  pc'[q] # "hold" /\ ~Rotating(q)'
    BY <2>3, FirstIsNoRotation DEF Rotating
  <2>4. ASSUME NEW k \in Access, Issue(q, k)
        PROVE  /\ Rotating(q)' => /\ Rotating(q) /\ job'[q].tok = job[q].tok
                                  /\ job'[q].next = job[q].next
               /\ pc'[q] = "hold" => job'[q].kind = "refresh"
    BY <2>4, IssueGoesOn DEF Rotating
  <2> QED BY <1>3, <2>1, <2>2, <2>3, <2>4 DEF Advance
<1> QED BY <1>1, <1>2, <1>3, WhoMoves

(* The retry window repeats what this worker holds, and nothing else does.  *)
LEMMA JudgeRepeats ==
  ASSUME TypeOK, NEW r \in Request, Judge(r)
  PROVE  Given' \subseteq Given
<1> DEFINE t == job[r].tok
           w == WorkerOf[r]
           answers == HeldFor(w, t, job[r].at)
<1>1. CASE UNCHANGED <<granted, held>>
  BY <1>1 DEF Given
<1>2. CASE ~ UNCHANGED <<granted, held>>
  <2>1. /\ granted' = granted \cup {[h.answer EXCEPT !.tok = t] : h \in answers}
        /\ held' = [held EXCEPT ![w] = {h \in @ : h.answer.tok = t => h \in answers}]
    BY <1>2 DEF Judge
  <2>2. w \in Worker
    BY ConstantsAssumption DEF ConstantsAssumption
  <2>3. \A h \in answers : h \in held[w] /\ h.answer.tok = t /\ h.answer \in Answer
    BY <2>2 DEF HeldFor, TypeOK, HeldAnswer
  <2>4. \A h \in answers : [h.answer EXCEPT !.tok = t] = h.answer
    <3>1. \A x \in Answer : [x EXCEPT !.tok = x.tok] = x
      BY DEF Answer
    <3> QED BY <2>3, <3>1
  <2>5. granted' \subseteq Given
    BY <2>1, <2>2, <2>3, <2>4 DEF Given
  <2>6. \A v \in Worker : held'[v] \subseteq held[v]
    BY <2>1 DEF TypeOK
  <2> QED BY <2>5, <2>6 DEF Given
<1> QED BY <1>1, <1>2

LEMMA OnlyHoldAnswers ==
  ASSUME TypeOK, [Next]_vars, \A r \in Request : ~Hold(r)
  PROVE  Given' \subseteq Given
<1> DEFINE Goal == Given' \subseteq Given
<1> USE DEF rows, tokens
<1>0. ASSUME granted' = granted, \A v \in Worker : held'[v] \subseteq held[v] PROVE Goal
  BY <1>0 DEF Given
<1>1. CASE \/ \E a \in Auth : Approve(a) \/ DeleteAuthorization(a)
           \/ Tick \/ UNCHANGED vars \/ \E r \in Request : Start(r)
  <2>1. UNCHANGED <<held, granted>>
    BY <1>1, StartMoves DEF Approve, DeleteAuthorization, Tick, vars
  <2> QED BY <1>0, <2>1
<1>2. CASE \E w \in Worker : Crash(w)
  BY <1>0, <1>2 DEF Crash, TypeOK
<1>3. ASSUME NEW r \in Request, Advance(r) PROVE Goal
  <2>1. CASE RedeemCode(r) \/ ReadGrant(r) \/ RedeemNothing(r) \/ ReadFamilies(r)
             \/ EndAuthorization(r) \/ NoteCleanup(r) \/ HandRead(r) \/ HandClear(r)
             \/ Remember(r) \/ ResolveIdentity(r) \/ Serve(r)
             \/ (\E n \in Refresh : Redeem(r, n) \/ \E f \in Family : FirstRefresh(r, n, f))
             \/ (\E k \in Access : Issue(r, k)) \/ (\E f \in Family : EndFamily(r, f))
             \/ \E answered \in BOOLEAN : HandCall(r, answered)
    <3>1. UNCHANGED <<held, granted>>
      BY <2>1 DEF RedeemCode, ReadGrant, RedeemNothing, ReadFamilies, EndAuthorization,
                  NoteCleanup, HandRead, HandClear, Remember, ResolveIdentity, Serve, Redeem,
                  FirstRefresh, Issue, EndFamily, HandCall
    <3> QED BY SMTT(40), <1>0, <3>1
  <2>2. CASE Forget(r)
    BY <1>0, <2>2 DEF Forget, TypeOK
  <2>3. CASE Judge(r)
    BY <2>3, JudgeRepeats
  <2>4. ~Hold(r)
    OBVIOUS
  <2> QED BY <1>3, <2>1, <2>2, <2>3, <2>4 DEF Advance
<1> QED BY <1>1, <1>2, <1>3 DEF Next

LEMMA RedeemStartsOne ==
  ASSUME TypeOK, AnswerInv, NEW r \in Request, NEW n \in Refresh, Redeem(r, n)
  PROVE  AnswerInv'
<1> DEFINE t == job[r].tok
<1>1. /\ pc[r] = "redeem" /\ refresh[t].state = "active" /\ refresh[n].state = "none"
      /\ Goto(r, "redeem", "issue") /\ Set(r, WithNext(job[r], refresh[t].fam, n))
      /\ UNCHANGED <<held, granted>>
      /\ refresh' = [refresh EXCEPT ![t] = Spent(refresh[t], job[r].at, n),
                                    ![n] = NewRefresh(refresh[t].auth, refresh[t].fam, job[r].at)]
  BY DEF Redeem, Redeemable
<1>2. /\ job[r] \in Job /\ t \in Refresh /\ refresh[t].fam \in Family /\ job[r].at \in Int
      /\ refresh[t] \in RefreshRow /\ t # n
  <2>1. job[r] \in Job /\ t \in Refresh /\ Born(refresh[t])
    BY <1>1 DEF TypeOK, JobBound
  <2> QED BY <1>1, <2>1 DEF TypeOK, Bound, Job
<1>3. /\ pc'[r] = "issue" /\ job'[r].tok = t /\ job'[r].next = n
      /\ \A q \in Request \ {r} : pc'[q] = pc[q] /\ job'[q] = job[q]
  BY <1>1, <1>2, SetNext DEF Goto, Set, TypeOK
<1>4. /\ Settled(refresh'[t]) /\ refresh'[t].succ = n
      /\ \A u \in Refresh \ {t, n} : refresh'[u] = refresh[u]
  <2>1. Spent(refresh[t], job[r].at, n).state = "used" /\ Spent(refresh[t], job[r].at, n).succ = n
    BY <1>2 DEF Spent, RefreshRow
  <2> QED BY <1>1, <1>2, <2>1 DEF Settled, TypeOK
\* neither the spent row nor the new one was anybody's before
<1>5. ~Settled(refresh[t]) /\ ~Settled(refresh[n])
  BY <1>1 DEF Settled
<1>6. \A q \in Request \ {r} : Rotating(q)' =>
        /\ Rotating(q) /\ job'[q] = job[q] /\ job[q].tok \in Refresh \ {t, n}
        /\ Settled(refresh[job[q].tok])
  BY <1>3, <1>5, AnswerTypes DEF AnswerInv, Rotating
<1>7. \A x \in Given : x.tok \in Refresh \ {t, n}
  BY <1>5, AnswerTypes DEF AnswerInv
<1>8. Given' = Given
  BY <1>1 DEF Given
<1>9. \A q \in Request : Rotating(q)' =>
        /\ Settled(refresh'[job'[q].tok]) /\ refresh'[job'[q].tok].succ = job'[q].next
        /\ \A p \in Request : Rotating(p)' /\ job'[p].tok = job'[q].tok => p = q
  BY <1>3, <1>4, <1>6 DEF AnswerInv
<1>10. \A q \in Request : pc'[q] = "hold" => job'[q].kind = "refresh"
  BY <1>3 DEF AnswerInv
<1>11. \A x \in Given' :
         /\ Settled(refresh'[x.tok]) /\ refresh'[x.tok].succ = x.refresh
         /\ \A q \in Request : Rotating(q)' => job'[q].tok # x.tok
         /\ \A y \in Given' : x.tok = y.tok => x = y
  BY <1>3, <1>4, <1>6, <1>7, <1>8 DEF AnswerInv
<1> QED BY <1>9, <1>10, <1>11 DEF AnswerInv, Settled, Rotating

LEMMA HoldAnswersOnce ==
  ASSUME TypeOK, AnswerInv, NEW r \in Request, Hold(r)
  PROVE  AnswerInv'
<1> DEFINE w == WorkerOf[r]
           kept == IF Cardinality(held[w]) >= HELD_LIMIT THEN {} ELSE held[w]
           entry == [answer |-> AnswerOf(job[r]), until |-> job[r].at + GRACE]
           mine == AnswerOf(job[r])
<1>1. /\ pc[r] = "hold" /\ Done(r) /\ UNCHANGED refresh
      /\ held' = [held EXCEPT ![w] = {h \in kept : h.answer.tok # job[r].tok} \cup {entry}]
      /\ granted' = granted \cup {mine}
  BY DEF Hold, tokens
<1>2. /\ pc'[r] = "idle"
      /\ \A q \in Request \ {r} : pc'[q] = pc[q] /\ job'[q] = job[q]
  BY <1>1 DEF Done, Set, TypeOK
<1>3. /\ mine.tok = job[r].tok /\ mine.refresh = job[r].next /\ entry.answer = mine
      /\ Rotating(r)
  BY <1>1 DEF AnswerOf, AnswerInv, Rotating
<1>4. Given' \subseteq Given \cup {mine}
  <2>1. \A v \in Worker : held'[v] \subseteq held[v] \cup {entry}
    BY <1>1 DEF TypeOK
  <2> HIDE DEF entry, mine
  <2> QED BY <1>1, <1>3, <2>1 DEF Given
<1>5. /\ Settled(refresh[mine.tok]) /\ refresh[mine.tok].succ = mine.refresh
      /\ \A q \in Request \ {r} : Rotating(q) => job[q].tok # mine.tok
      /\ \A x \in Given : x.tok # mine.tok
  BY <1>3 DEF AnswerInv
<1> HIDE DEF mine
<1>6. \A q \in Request : Rotating(q)' => q # r /\ Rotating(q) /\ job'[q] = job[q]
  BY <1>2 DEF Rotating
<1>7. \A q \in Request : pc'[q] = "hold" => job'[q].kind = "refresh"
  BY <1>2 DEF AnswerInv
<1>8. \A x \in Given' :
        /\ Settled(refresh'[x.tok]) /\ refresh'[x.tok].succ = x.refresh
        /\ \A q \in Request : Rotating(q)' => job'[q].tok # x.tok
        /\ \A y \in Given' : x.tok = y.tok => x = y
  BY <1>1, <1>4, <1>5, <1>6 DEF AnswerInv
<1>9. \A q \in Request : Rotating(q)' =>
        /\ Settled(refresh'[job'[q].tok]) /\ refresh'[job'[q].tok].succ = job'[q].next
        /\ \A p \in Request : Rotating(p)' /\ job'[p].tok = job'[q].tok => p = q
  BY <1>1, <1>6 DEF AnswerInv
<1> QED BY <1>7, <1>8, <1>9 DEF AnswerInv, Settled, Rotating

LEMMA AnswerStep == TypeOK /\ AnswerInv /\ [Next]_vars => AnswerInv'
<1> SUFFICES ASSUME TypeOK, AnswerInv, [Next]_vars PROVE AnswerInv'
  OBVIOUS
<1>1. CASE \E r \in Request, n \in Refresh : Redeem(r, n)
  BY <1>1, RedeemStartsOne
<1>2. CASE \E r \in Request : Hold(r)
  BY <1>2, HoldAnswersOnce
<1>3. CASE (\A r \in Request, n \in Refresh : ~Redeem(r, n)) /\ \A r \in Request : ~Hold(r)
  BY <1>3, RotationsAreSame, OnlyHoldAnswers, AnswerQuiet
<1> QED BY <1>1, <1>2, <1>3

(* One refresh token has one answer, whichever workers give it, however     *)
(* many retries come, whoever dies in between (exchange_refresh_token).     *)
THEOREM OneAnswerPerToken == Spec => []GraceRepeatsTheAnswer
<1>1. AnswerInv => GraceRepeatsTheAnswer
  BY DEF AnswerInv, GraceRepeatsTheAnswer, Given
<1> QED BY <1>1, AnswerInit, AnswerStep, TypeCorrect, PTL DEF Spec

-----------------------------------------------------------------------------
(* The note.  Who hands a password back does it for a connection that was   *)
(* approved, and takes the note back after Nextcloud took the password.     *)
NoteInv ==
  /\ \A a \in Auth : credential[a] = "returned" => auth[a] # "none"
  /\ \A r \in Request : pc[r] = "hand_call" => auth[job[r].auth] # "none"
  /\ \A r \in Request : pc[r] = "hand_clear" => credential[job[r].auth] = "returned"

LEMMA NoteInit == Init => NoteInv
BY DEF Init, NoteInv

(* A password is valid from its approval on, and returned by the call that  *)
(* hands it back.                                                           *)
LEMMA CredentialMoves ==
  ASSUME TypeOK, [Next]_vars, NEW a \in Auth
  PROVE  \/ credential'[a] = credential[a]
         \/ auth[a] = "none" /\ credential'[a] = "valid"
         \/ /\ credential'[a] = "returned"
            /\ \E r \in Request : pc[r] = "hand_call" /\ job[r].auth = a
<1> DEFINE Goal == \/ credential'[a] = credential[a]
                   \/ auth[a] = "none" /\ credential'[a] = "valid"
                   \/ /\ credential'[a] = "returned"
                      /\ \E r \in Request : pc[r] = "hand_call" /\ job[r].auth = a
<1> USE DEF rows, tokens
<1>1. ASSUME NEW b \in Auth, Approve(b) PROVE Goal
  BY <1>1 DEF Approve, TypeOK
<1>2. CASE (\E b \in Auth : DeleteAuthorization(b)) \/ Tick \/ UNCHANGED vars
           \/ (\E w \in Worker : Crash(w)) \/ \E r \in Request : Start(r)
  BY <1>2, StartMoves DEF DeleteAuthorization, Tick, vars, Crash
<1>3. ASSUME NEW r \in Request, NEW answered \in BOOLEAN, HandCall(r, answered) PROVE Goal
  <2>1. pc[r] = "hand_call" /\ job[r].auth \in Auth
    BY SMTT(40), <1>3 DEF HandCall, TypeOK, JobBound
  <2> QED BY <1>3, <2>1 DEF HandCall, TypeOK
<1>4. ASSUME NEW r \in Request, Advance(r), \A answered \in BOOLEAN : ~HandCall(r, answered)
      PROVE  Goal
  BY <1>4 DEF Advance, RedeemCode, ReadGrant, RedeemNothing, Hold, Judge, ReadFamilies,
              EndAuthorization, NoteCleanup, Forget, HandRead, HandClear, Remember,
              ResolveIdentity, Serve, Redeem, FirstRefresh, Issue, EndFamily
<1> QED BY <1>1, <1>2, <1>3, <1>4 DEF Next

(* Who gets to the call found the row, and who gets past it had an answer.  *)
LEMMA HandMoves ==
  ASSUME TypeOK, [Next]_vars, NEW q \in Request, pc'[q] \in {"hand_call", "hand_clear"}
  PROVE  /\ job'[q] = job[q]
         /\ \/ pc'[q] = pc[q]
            \/ pc'[q] = "hand_call" /\ RowOf(job[q].auth)
            \/ pc'[q] = "hand_clear" /\ credential'[job[q].auth] = "returned"
<1> DEFINE Goal == /\ job'[q] = job[q]
                   /\ \/ pc'[q] = pc[q]
                      \/ pc'[q] = "hand_call" /\ RowOf(job[q].auth)
                      \/ pc'[q] = "hand_clear" /\ credential'[job[q].auth] = "returned"
<1>1. CASE Start(q)
  BY <1>1, StartMoves
<1>2. CASE Advance(q)
  <2>1. ASSUME \/ RedeemCode(q) \/ ReadGrant(q) \/ RedeemNothing(q) \/ Hold(q) \/ Judge(q)
               \/ ReadFamilies(q) \/ EndAuthorization(q) \/ NoteCleanup(q) \/ Forget(q)
               \/ HandClear(q) \/ Remember(q) \/ ResolveIdentity(q) \/ Serve(q)
        PROVE  FALSE
    BY <2>1 DEF RedeemCode, ReadGrant, RedeemNothing, Hold, Judge, ReadFamilies,
                EndAuthorization, NoteCleanup, Forget, HandClear, Remember, ResolveIdentity,
                Serve, Goto, Done, TypeOK
  <2>2. ASSUME \/ \E n \in Refresh : Redeem(q, n) \/ \E f \in Family : FirstRefresh(q, n, f)
               \/ \E k \in Access : Issue(q, k)
               \/ \E f \in Family : EndFamily(q, f)
        PROVE  FALSE
    BY <2>2 DEF Redeem, FirstRefresh, Issue, EndFamily, Goto, Done, TypeOK
  <2>3. CASE HandRead(q)
    BY <2>3 DEF HandRead, Goto, Done, TypeOK
  <2>4. ASSUME NEW answered \in BOOLEAN, HandCall(q, answered) PROVE Goal
    <3>1. pc[q] = "hand_call" /\ job[q].auth \in Auth
      BY <2>4 DEF HandCall, TypeOK, JobBound
    <3> QED BY <2>4, <3>1 DEF HandCall, Goto, Done, TypeOK
  <2> QED BY <1>2, <2>1, <2>2, <2>3, <2>4 DEF Advance
<1> QED BY <1>1, <1>2, WhoMoves

LEMMA NoteStep == TypeOK /\ NoteInv /\ [Next]_vars => NoteInv'
<1> SUFFICES ASSUME TypeOK, NoteInv, [Next]_vars PROVE NoteInv'
  OBVIOUS
<1>0. Ends
  BY EndStep
<1>1. ASSUME NEW a \in Auth, credential'[a] = "returned" PROVE auth'[a] # "none"
  BY <1>0, <1>1, CredentialMoves DEF NoteInv, Ends
<1>2. ASSUME NEW q \in Request, pc'[q] \in {"hand_call", "hand_clear"}
      PROVE  job'[q] = job[q] /\ job[q].auth \in Auth
  <2>1. TypeOK'
    BY StepType
  <2> QED BY <1>2, <2>1, HandMoves DEF TypeOK, JobBound
<1>3. ASSUME NEW q \in Request, pc'[q] = "hand_call" PROVE auth'[job'[q].auth] # "none"
  BY <1>0, <1>2, <1>3, HandMoves DEF NoteInv, Ends, RowOf
<1>4. ASSUME NEW q \in Request, pc'[q] = "hand_clear" PROVE credential'[job'[q].auth] = "returned"
  <2>1. CASE pc[q] = "hand_clear"
    <3>1. credential[job[q].auth] = "returned" /\ auth[job[q].auth] # "none"
      BY <1>2, <1>4, <2>1 DEF NoteInv
    <3> QED BY <1>2, <1>4, <3>1, CredentialMoves
  <2>2. CASE pc[q] # "hand_clear"
    BY <1>2, <1>4, <2>2, HandMoves
  <2> QED BY <2>1, <2>2
<1> QED BY <1>1, <1>3, <1>4 DEF NoteInv

LEMMA NoteMoves ==
  ASSUME TypeOK, NoteInv, [Next]_vars, NEW a \in Auth, noted[a], ~noted'[a]
  PROVE  credential[a] = "returned" \/ auth'[a] = "gone"
<1> DEFINE Goal == credential[a] = "returned" \/ auth'[a] = "gone"
<1> USE DEF rows, tokens
<1>1. ASSUME NEW b \in Auth, DeleteAuthorization(b) PROVE Goal
  BY <1>1 DEF DeleteAuthorization, TypeOK
<1>2. CASE (\E b \in Auth : Approve(b)) \/ Tick \/ UNCHANGED vars
           \/ (\E w \in Worker : Crash(w)) \/ \E r \in Request : Start(r)
  <2>1. UNCHANGED noted
    BY <1>2, StartMoves DEF Approve, Tick, vars, Crash
  <2> QED BY <2>1
<1>3. ASSUME NEW r \in Request, HandClear(r) PROVE Goal
  <2>1. pc[r] = "hand_clear" /\ noted' = [noted EXCEPT ![job[r].auth] = FALSE]
    BY <1>3 DEF HandClear, Done, Goto
  <2>2. job[r].auth = a
    BY <2>1 DEF TypeOK
  <2> QED BY <2>1, <2>2 DEF NoteInv
<1>4. ASSUME NEW r \in Request, NoteCleanup(r) PROVE Goal
  BY <1>4 DEF NoteCleanup, TypeOK
<1>5. ASSUME NEW r \in Request, Advance(r), ~HandClear(r), ~NoteCleanup(r) PROVE Goal
  <2>1. UNCHANGED noted
    BY <1>5 DEF Advance, RedeemCode, ReadGrant, RedeemNothing, Hold, Judge, ReadFamilies,
                EndAuthorization, Forget, HandRead, HandCall, Remember, ResolveIdentity, Serve,
                Redeem, FirstRefresh, Issue, EndFamily
  <2> QED BY SMTT(40), <2>1
<1> QED BY <1>1, <1>2, <1>3, <1>4, <1>5 DEF Next

(* The note is taken back once Nextcloud took the password or with the row, *)
(* however many ends of one connection overlap (_hand_back).                *)
THEOREM NotesAreHonest == Spec => NoteIsHonest
<1>1. TypeOK /\ NoteInv /\ [Next]_vars =>
        [\A a \in Auth : noted[a] /\ ~noted'[a] =>
           credential[a] = "returned" \/ auth'[a] = "gone"]_vars
  BY NoteMoves
<1> QED BY <1>1, NoteInit, NoteStep, TypeCorrect, PTL DEF Spec, NoteIsHonest

-----------------------------------------------------------------------------
(* The ends.  Every family a request is ending is one of its connection's,  *)
(* and until the connection itself is ended that request stands before it;  *)
(* until the note is written some request stands before that.               *)
Covers(fams, a) == \A f \in fams : \E t \in Refresh :
  Born(refresh[t]) /\ refresh[t].fam = f /\ refresh[t].auth = a

EndInv ==
  /\ \A r \in Request : pc[r] \in {"redeem", "judge", "families", "end_family"} =>
       auth[job[r].auth] # "none"
  /\ \A r \in Request : pc[r] \in {"judge", "end_family"} => Covers(job[r].fams, job[r].auth)
  /\ \A t \in Refresh : refresh[t].state = "revoked" =>
       \/ auth[refresh[t].auth] \in {"revoked", "gone"}
       \/ \E r \in Request : pc[r] = "end_family" /\ job[r].auth = refresh[t].auth
  /\ \A a \in Auth : auth[a] = "revoked" =>
       \/ credential[a] = "returned" \/ noted[a]
       \/ \E r \in Request : pc[r] = "end_note" /\ job[r].auth = a

(* A row that was written keeps its connection and its family.              *)
LEMMA RowsStay ==
  ASSUME TypeOK, [Next]_vars, NEW t \in Refresh, Born(refresh[t])
  PROVE  /\ SameRow(refresh'[t], refresh[t])
         /\ refresh'[t].state = "revoked" =>
              \/ refresh[t].state = "revoked"
              \/ \E r \in Request : EndFamily(r, refresh[t].fam)
<1> DEFINE Goal == /\ SameRow(refresh'[t], refresh[t])
                   /\ refresh'[t].state = "revoked" =>
                        \/ refresh[t].state = "revoked"
                        \/ \E r \in Request : EndFamily(r, refresh[t].fam)
<1> USE DEF rows, tokens
<1>0. ASSUME refresh'[t] = refresh[t] PROVE Goal
  BY <1>0 DEF SameRow
<1>p. ASSUME NEW moment \in Int, refresh'[t] = Purged(refresh[t], moment) PROVE Goal
  <2>1. Purged(refresh[t], moment).state \in {"gone", refresh[t].state}
    BY DEF Purged, Marked, TypeOK, RefreshRow
  <2> QED BY <1>p, <2>1, PurgedKeeps DEF TypeOK
<1>1. CASE \/ (\E a \in Auth : Approve(a)) \/ Tick \/ (\E w \in Worker : Crash(w))
           \/ UNCHANGED vars \/ \E r \in Request : Start(r)
  BY <1>0, <1>1, StartMoves DEF Approve, Tick, Crash, vars
<1>2. ASSUME NEW a \in Auth, DeleteAuthorization(a) PROVE Goal
  <2>1. refresh'[t] \in {refresh[t], Marked(refresh[t], "gone")}
    BY <1>2 DEF DeleteAuthorization
  <2>2. Marked(refresh[t], "gone").state \in {"gone", refresh[t].state}
    BY DEF Marked, TypeOK, RefreshRow
  <2> QED BY <1>0, <2>1, <2>2, MarkKeeps DEF TypeOK, RowState
<1>3. ASSUME NEW r \in Request, Advance(r) PROVE Goal
  <2>0. JobBound(r) /\ job[r].at \in Int BY DEF TypeOK, Job
  <2>1. CASE RedeemCode(r) \/ ReadGrant(r) \/ RedeemNothing(r) \/ Hold(r) \/ Judge(r)
             \/ ReadFamilies(r) \/ EndAuthorization(r) \/ NoteCleanup(r) \/ Forget(r)
             \/ HandRead(r) \/ HandClear(r) \/ Remember(r) \/ ResolveIdentity(r) \/ Serve(r)
             \/ \E answered \in BOOLEAN : HandCall(r, answered)
    <3>1. UNCHANGED refresh
      BY <2>1 DEF RedeemCode, ReadGrant, RedeemNothing, Hold, Judge, ReadFamilies,
                  EndAuthorization, NoteCleanup, Forget, HandRead, HandClear, Remember,
                  ResolveIdentity, Serve, HandCall
    <3> QED BY <1>0, <3>1
  <2>2. ASSUME NEW n \in Refresh, Redeem(r, n) PROVE Goal
    <3> DEFINE u == job[r].tok
    <3>1. /\ refresh[n].state = "none" /\ u \in Refresh /\ n # t
          /\ refresh' = [refresh EXCEPT ![u] = Spent(refresh[u], job[r].at, n),
                         ![n] = NewRefresh(refresh[u].auth, refresh[u].fam, job[r].at)]
      BY <2>0, <2>2 DEF Redeem, TypeOK, JobBound, Born
    <3>2. CASE t = u
      BY <2>0, <3>1, <3>2, SpentKeeps DEF TypeOK
    <3>3. CASE t # u
      <4>1. refresh'[t] = refresh[t]
        BY <3>1, <3>3 DEF TypeOK
      <4> QED BY <1>0, <4>1
    <3> QED BY <3>2, <3>3
  <2>3. ASSUME NEW n \in Refresh, NEW f \in Family, FirstRefresh(r, n, f) PROVE Goal
    <3>1. refresh'[t] = refresh[t] \/ refresh'[t] = Purged(refresh[t], job[r].at)
      BY <2>3 DEF FirstRefresh, Born
    <3> QED BY <1>0, <1>p, <2>0, <3>1
  <2>4. ASSUME NEW k \in Access, Issue(r, k) PROVE Goal
    <3>1. refresh'[t] = refresh[t] \/ refresh'[t] = Purged(refresh[t], job[r].at)
      BY <2>4 DEF Issue
    <3> QED BY <1>0, <1>p, <2>0, <3>1
  <2>5. ASSUME NEW f \in Family, EndFamily(r, f) PROVE Goal
    <3>1. CASE refresh[t].fam = f
      <4>1. refresh'[t] = Marked(refresh[t], "revoked")
        BY <2>5, <3>1 DEF EndFamily
      <4> QED BY <2>5, <3>1, <4>1, MarkKeeps DEF TypeOK, RowState
    <3>2. CASE refresh[t].fam # f
      BY <1>0, <2>5, <3>2 DEF EndFamily
    <3> QED BY <3>1, <3>2
  <2> QED BY <1>3, <2>1, <2>2, <2>3, <2>4, <2>5 DEF Advance
<1> QED BY <1>1, <1>2, <1>3 DEF Next

(* A row is blank until it is written, and it is written active.            *)
LEMMA NewRowsAreActive ==
  ASSUME TypeOK, [Next]_vars, NEW t \in Refresh, refresh[t].state = "none"
  PROVE  refresh'[t] = refresh[t] \/ refresh'[t].state = "active"
<1> DEFINE Goal == refresh'[t] = refresh[t] \/ refresh'[t].state = "active"
<1> USE DEF rows, tokens
<1>0. ASSUME refresh'[t] = refresh[t] PROVE Goal
  BY <1>0
<1>1. CASE \/ (\E a \in Auth : Approve(a)) \/ Tick \/ (\E w \in Worker : Crash(w))
           \/ UNCHANGED vars \/ \E r \in Request : Start(r)
  BY <1>0, <1>1, StartMoves DEF Approve, Tick, Crash, vars
<1>2. ASSUME NEW a \in Auth, DeleteAuthorization(a) PROVE Goal
  BY <1>2 DEF DeleteAuthorization, Marked, Present
<1>3. ASSUME NEW r \in Request, Advance(r) PROVE Goal
  <2>1. CASE RedeemCode(r) \/ ReadGrant(r) \/ RedeemNothing(r) \/ Hold(r) \/ Judge(r)
             \/ ReadFamilies(r) \/ EndAuthorization(r) \/ NoteCleanup(r) \/ Forget(r)
             \/ HandRead(r) \/ HandClear(r) \/ Remember(r) \/ ResolveIdentity(r) \/ Serve(r)
             \/ \E answered \in BOOLEAN : HandCall(r, answered)
    <3>1. UNCHANGED refresh
      BY <2>1 DEF RedeemCode, ReadGrant, RedeemNothing, Hold, Judge, ReadFamilies,
                  EndAuthorization, NoteCleanup, Forget, HandRead, HandClear, Remember,
                  ResolveIdentity, Serve, HandCall
    <3> QED BY <1>0, <3>1
  <2>2. ASSUME NEW n \in Refresh, Redeem(r, n) PROVE Goal
    <3>1. refresh[job[r].tok].state = "active" /\ t # job[r].tok
      BY <2>2 DEF Redeem, Redeemable
    <3>2. CASE t = n
      BY <2>2, <3>2 DEF Redeem, NewRefresh, TypeOK
    <3>3. CASE t # n
      <4>1. refresh'[t] = refresh[t]
        BY <2>2, <3>1, <3>3 DEF Redeem, TypeOK
      <4> QED BY <1>0, <4>1
    <3> QED BY <3>2, <3>3
  <2>3. ASSUME NEW n \in Refresh, NEW f \in Family, FirstRefresh(r, n, f) PROVE Goal
    BY <2>3 DEF FirstRefresh, Purged, Marked, Present, NewRefresh
  <2>4. ASSUME NEW k \in Access, Issue(r, k) PROVE Goal
    BY <2>4 DEF Issue, Purged, Marked, Present
  <2>5. ASSUME NEW f \in Family, EndFamily(r, f) PROVE Goal
    BY <2>5 DEF EndFamily, Marked, Present
  <2> QED BY <1>3, <2>1, <2>2, <2>3, <2>4, <2>5 DEF Advance
<1> QED BY <1>1, <1>2, <1>3 DEF Next

LEMMA EndInit == Init => EndInv
BY DEF Init, EndInv

LEMMA FamilyCovers ==
  ASSUME TypeOK, ChainInv
  PROVE  /\ \A t \in Refresh : Born(refresh[t]) => Covers({refresh[t].fam}, refresh[t].auth)
         /\ \A k \in Access : Born(access[k]) => Covers({access[k].fam}, access[k].auth)
         /\ \A a \in Auth : Covers(FamiliesOf(a), a)
<1>1. \A t \in Refresh : Born(refresh[t]) => Covers({refresh[t].fam}, refresh[t].auth)
  BY DEF Covers
<1>2. \A k \in Access : Born(access[k]) => Covers({access[k].fam}, access[k].auth)
  BY DEF ChainInv, AccessBesideRefresh, Covers
<1>3. ASSUME NEW a \in Auth PROVE Covers(FamiliesOf(a), a)
  BY <1>1, <1>2 DEF FamiliesOf, Present, Born, Covers
<1> QED BY <1>1, <1>2, <1>3

LEMMA WrittenIsApproved ==
  ASSUME TypeOK, ChainInv, NEW t \in Refresh, Born(refresh[t])
  PROVE  auth[refresh[t].auth] # "none"
BY DEF ChainInv, CodeComesFirst, Unwritten, TypeOK, Bound

(* How a request comes to the steps that end something                      *)
Ready(r, step) ==
  /\ step \in {"redeem", "judge", "families", "end_family"} => auth[job'[r].auth] # "none"
  /\ step \in {"judge", "end_family"} => Covers(job'[r].fams, job'[r].auth)

LEMMA StartIsReady ==
  ASSUME TypeOK, ChainInv, NEW r \in Request, Start(r)
  PROVE  Ready(r, pc'[r])
<1>1. ASSUME NEW a \in Auth, LoadCode(r, a) PROVE Ready(r, pc'[r])
  BY <1>1 DEF LoadCode, Begin, Goto, TypeOK, Ready
<1>2. ASSUME NEW a \in Auth, Disconnect(r, a) PROVE Ready(r, pc'[r])
  <2>1. pc'[r] = "families" /\ job'[r] = JobFor("disconnect", a, None) /\ auth[a] = "live"
    BY <1>2 DEF Disconnect, Begin, Goto, Set, TypeOK
  <2> QED BY <2>1 DEF Ready, JobFor
<1>3. ASSUME NEW t \in Refresh, LoadRefresh(r, t) PROVE Ready(r, pc'[r])
  BY <1>3 DEF LoadRefresh, Begin, Goto, TypeOK, Ready
<1>4. ASSUME NEW k \in Access, VerifyCached(r, k) \/ VerifyStored(r, k) PROVE Ready(r, pc'[r])
  BY <1>4 DEF VerifyCached, VerifyStored, Begin, Goto, TypeOK, Ready
<1>5. ASSUME NEW t \in Refresh \cup Access, Revoke(r, t) PROVE Ready(r, pc'[r])
  <2> DEFINE row == IF t \in Refresh THEN refresh[t] ELSE access[t]
  <2>1. /\ pc'[r] = "end_family"
        /\ job'[r] = [JobFor("revoke", row.auth, None) EXCEPT !.fams = {row.fam}]
        /\ RowOf(row.auth) \/ auth[row.auth] = "live"
        /\ IF t \in Refresh THEN Present(row) ELSE row.state = Stored
    BY <1>5 DEF Revoke, Begin, Goto, Set, TypeOK
  <2>2. Covers({row.fam}, row.auth)
    BY <2>1, FamilyCovers DEF Present, Stored, Born
  <2> HIDE DEF row
  <2>3. job'[r].auth = row.auth /\ job'[r].fams = {row.fam}
    BY <2>1 DEF JobFor
  <2> QED BY <2>1, <2>2, <2>3 DEF Ready, RowOf
<1> QED BY <1>1, <1>2, <1>3, <1>4, <1>5 DEF Start

LEMMA AdvanceIsReady ==
  ASSUME TypeOK, ChainInv, EndInv, NEW r \in Request, Advance(r)
  PROVE  Ready(r, pc'[r])
<1> DEFINE j == job[r]
<1>0. j \in Job /\ JobBound(r) /\ WritesBesideItsRow(r)
  BY DEF TypeOK, ChainInv
<1>1. CASE RedeemCode(r) \/ Hold(r) \/ EndAuthorization(r) \/ NoteCleanup(r) \/ Forget(r)
           \/ HandRead(r) \/ HandClear(r) \/ Remember(r) \/ ResolveIdentity(r) \/ Serve(r)
  <2>1. pc'[r] \notin {"redeem", "judge", "families", "end_family"}
    BY <1>1 DEF RedeemCode, Hold, EndAuthorization, NoteCleanup, Forget, HandRead, HandClear,
                Remember, ResolveIdentity, Serve, Goto, Done, TypeOK
  <2> QED BY <2>1 DEF Ready
<1>2. ASSUME \/ \E n \in Refresh : Redeem(r, n) \/ \E f \in Family : FirstRefresh(r, n, f)
             \/ \E k \in Access : Issue(r, k)
             \/ \E answered \in BOOLEAN : HandCall(r, answered)
      PROVE  Ready(r, pc'[r])
  <2>1. pc'[r] \notin {"redeem", "judge", "families", "end_family"}
    BY <1>2 DEF Redeem, FirstRefresh, Issue, HandCall, Goto, Done, TypeOK
  <2> QED BY <2>1 DEF Ready
<1>3. CASE ReadGrant(r)
  <2>1. CASE pc'[r] = "idle"
    BY <2>1 DEF Ready
  <2>2. CASE pc'[r] # "idle"
    <3>1. /\ pc'[r] = "redeem" /\ auth[refresh[j.tok].auth] = "live"
          /\ job'[r] = [j EXCEPT !.at = clock, !.auth = refresh[j.tok].auth]
      BY <1>3, <2>2 DEF ReadGrant, Goto, Set, Done, TypeOK
    <3>2. job'[r].auth = refresh[j.tok].auth
      <4> HIDE DEF j
      <4> QED BY <1>0, <3>1 DEF Job
    <3> QED BY <3>1, <3>2 DEF Ready
  <2> QED BY <2>1, <2>2
<1>4. CASE RedeemNothing(r)
  <2>1. CASE pc'[r] = "idle"
    BY <2>1 DEF Ready
  <2>2. CASE pc'[r] # "idle"
    <3> DEFINE fam == refresh[j.tok].fam
    <3>1. /\ pc[r] = "redeem" /\ pc'[r] = "judge"
          /\ job'[r] = [j EXCEPT !.fam = fam, !.fams = {fam}]
      BY <1>4, <2>2 DEF RedeemNothing, Goto, Set, Done, TypeOK
    <3>2. /\ j.tok \in Refresh /\ Born(refresh[j.tok]) /\ refresh[j.tok].auth = j.auth
          /\ auth[j.auth] # "none"
      BY <1>0, <3>1 DEF JobBound, WritesBesideItsRow, EndInv
    <3>3. Covers({fam}, j.auth)
      BY <3>2, FamilyCovers
    <3>4. job'[r].auth = j.auth /\ job'[r].fams = {fam}
      <4> HIDE DEF j, fam
      <4> QED BY <1>0, <3>1 DEF Job
    <3> QED BY <3>1, <3>2, <3>3, <3>4 DEF Ready
  <2> QED BY <2>1, <2>2
<1>5. CASE Judge(r)
  <2>1. \/ pc'[r] = "idle"
        \/ pc[r] = "judge" /\ pc'[r] = "end_family" /\ job'[r] = j
    BY <1>5 DEF Judge, Goto, Done, TypeOK
  <2> QED BY <2>1 DEF Ready, EndInv, Covers
<1>6. CASE ReadFamilies(r)
  <2>1. /\ pc[r] = "families" /\ pc'[r] = "end_family"
        /\ job'[r] = [j EXCEPT !.fams = FamiliesOf(j.auth)]
    BY <1>6 DEF ReadFamilies, Goto, Set, TypeOK
  <2>2. j.auth \in Auth /\ auth[j.auth] # "none"
    BY <1>0, <2>1 DEF JobBound, EndInv
  <2>3. job'[r].auth = j.auth /\ job'[r].fams = FamiliesOf(j.auth)
    <3> HIDE DEF j
    <3> QED BY <1>0, <2>1 DEF Job
  <2> QED BY <2>1, <2>2, <2>3, FamilyCovers DEF Ready
<1>7. ASSUME NEW f \in Family, EndFamily(r, f) PROVE Ready(r, pc'[r])
  <2>1. /\ pc[r] = "end_family" /\ pc'[r] = pc[r]
        /\ job'[r] = [j EXCEPT !.fams = j.fams \ {f}]
    BY <1>7 DEF EndFamily, Set, TypeOK
  <2>2. job'[r].auth = j.auth /\ job'[r].fams = j.fams \ {f}
    <3> HIDE DEF j
    <3> QED BY <1>0, <2>1 DEF Job
  <2>3. auth[j.auth] # "none" /\ Covers(j.fams, j.auth)
    BY <2>1 DEF EndInv, Covers
  <2> QED BY <2>1, <2>2, <2>3 DEF Ready, Covers
<1> QED BY <1>1, <1>2, <1>3, <1>4, <1>5, <1>6, <1>7 DEF Advance

(* Who ends a connection does not leave before the connection is ended, and *)
(* who notes it does not leave before the note is written.                  *)
LEMMA EndingGoesOn ==
  ASSUME ~Crashes, TypeOK, EndInv, [Next]_vars, NEW r \in Request, pc[r] = "end_family"
  PROVE  \/ pc'[r] = "end_family" /\ job'[r].auth = job[r].auth
         \/ auth'[job[r].auth] \in {"revoked", "gone"}
<1>1. CASE pc'[r] = pc[r] /\ job'[r] = job[r]
  BY <1>1
<1>2. CASE Start(r)
  BY <1>2 DEF Start, LoadCode, Disconnect, LoadRefresh, Revoke, VerifyCached, VerifyStored,
              Begin, Goto
<1>3. CASE \E f \in Family : EndFamily(r, f)
  <2>1. PICK f \in Family : EndFamily(r, f)
    BY <1>3
  <2>2. job[r] \in Job /\ pc'[r] = pc[r] /\ job'[r] = [job[r] EXCEPT !.fams = job[r].fams \ {f}]
    BY <2>1 DEF EndFamily, Set, TypeOK
  <2> QED BY <2>2 DEF Job
<1>4. CASE EndAuthorization(r)
  <2>1. job[r].auth \in Auth /\ auth[job[r].auth] # "none"
    BY DEF TypeOK, JobBound, EndInv
  <2> QED BY <1>4, <2>1 DEF EndAuthorization, TypeOK
<1>5. ASSUME Advance(r), ~EndAuthorization(r), \A f \in Family : ~EndFamily(r, f) PROVE FALSE
  BY <1>5 DEF Advance, RedeemCode, ReadGrant, RedeemNothing, Hold, Judge, ReadFamilies,
              NoteCleanup, Forget, HandRead, HandClear, HandCall, Remember, ResolveIdentity,
              Serve, Redeem, FirstRefresh, Issue, Goto, Done
<1> QED BY <1>1, <1>2, <1>3, <1>4, <1>5, WhoMoves

LEMMA NotingGoesOn ==
  ASSUME ~Crashes, TypeOK, [Next]_vars, NEW r \in Request, pc[r] = "end_note",
         auth[job[r].auth] = "revoked"
  PROVE  \/ pc'[r] = "end_note" /\ job'[r].auth = job[r].auth
         \/ noted'[job[r].auth]
<1>1. CASE pc'[r] = pc[r] /\ job'[r] = job[r]
  BY <1>1
<1>2. CASE Start(r)
  BY <1>2 DEF Start, LoadCode, Disconnect, LoadRefresh, Revoke, VerifyCached, VerifyStored,
              Begin, Goto
<1>3. CASE NoteCleanup(r)
  <2>1. job[r].auth \in Auth
    BY DEF TypeOK, JobBound
  <2> QED BY <1>3, <2>1 DEF NoteCleanup, Notable, RowOf, TypeOK
<1>4. ASSUME Advance(r), ~NoteCleanup(r) PROVE FALSE
  BY <1>4 DEF Advance, RedeemCode, ReadGrant, RedeemNothing, Hold, Judge, ReadFamilies,
              EndAuthorization, EndFamily, Forget, HandRead, HandClear, HandCall, Remember,
              ResolveIdentity, Serve, Redeem, FirstRefresh, Issue, Goto, Done
<1> QED BY <1>1, <1>2, <1>3, <1>4, WhoMoves

(* A connection is revoked by a request that then notes it.                 *)
LEMMA RevokedByNoting ==
  ASSUME TypeOK, [Next]_vars, NEW a \in Auth, auth'[a] = "revoked", auth[a] # "revoked"
  PROVE  \E r \in Request : pc'[r] = "end_note" /\ job'[r].auth = a
<1> DEFINE Goal == \E r \in Request : pc'[r] = "end_note" /\ job'[r].auth = a
<1> USE DEF rows, tokens
<1>1. CASE \/ (\E b \in Auth : Approve(b) \/ DeleteAuthorization(b)) \/ Tick \/ UNCHANGED vars
           \/ (\E w \in Worker : Crash(w)) \/ \E r \in Request : Start(r)
  <2>1. auth'[a] # "revoked"
    BY <1>1, StartMoves DEF Approve, DeleteAuthorization, Tick, vars, Crash, TypeOK
  <2> QED BY <2>1
<1>2. ASSUME NEW r \in Request, EndAuthorization(r) PROVE Goal
  BY <1>2 DEF EndAuthorization, Goto, TypeOK
<1>3. ASSUME NEW r \in Request, Advance(r), ~EndAuthorization(r) PROVE FALSE
  <2>1. UNCHANGED auth
    BY <1>3 DEF Advance, RedeemCode, ReadGrant, RedeemNothing, Hold, Judge, ReadFamilies,
                NoteCleanup, EndFamily, Forget, HandRead, HandClear, HandCall, Remember,
                ResolveIdentity, Serve, Redeem, FirstRefresh, Issue
  <2> QED BY SMTT(40), <2>1
<1> QED BY <1>1, <1>2, <1>3 DEF Next

LEMMA EndInvStep ==
  ASSUME ~Crashes
  PROVE  TypeOK /\ TypeOK' /\ ChainInv /\ NoteInv /\ EndInv /\ [Next]_vars => EndInv'
<1> SUFFICES ASSUME TypeOK, TypeOK', ChainInv, NoteInv, EndInv, [Next]_vars PROVE EndInv'
  OBVIOUS
<1>0. Ends
  BY EndStep
<1>1. \A t \in Refresh : Born(refresh[t]) =>
        /\ Born(refresh'[t]) /\ refresh'[t].auth = refresh[t].auth
        /\ refresh'[t].fam = refresh[t].fam
  BY RowsStay DEF SameRow
<1>2. ASSUME NEW r \in Request PROVE Ready(r, pc'[r])
  <2>1. CASE pc'[r] = pc[r] /\ job'[r] = job[r]
    BY <2>1 DEF Ready, EndInv
  <2> QED BY <2>1, WhoMoves, StartIsReady, AdvanceIsReady
<1>3. ASSUME NEW r \in Request, pc'[r] \in {"redeem", "judge", "families", "end_family"}
      PROVE  auth'[job'[r].auth] # "none"
  <2>1. job'[r].auth \in Auth
    BY <1>3 DEF TypeOK, JobBound
  <2> QED BY <1>0, <1>2, <1>3, <2>1 DEF Ends, Ready
<1>4. ASSUME NEW r \in Request, pc'[r] \in {"judge", "end_family"}
      PROVE  Covers(job[r].fams, job[r].auth)'
  BY <1>1, <1>2, <1>4 DEF Ready, Covers
<1>5. ASSUME NEW t \in Refresh, refresh'[t].state = "revoked"
      PROVE  \/ auth'[refresh'[t].auth] \in {"revoked", "gone"}
             \/ \E r \in Request : pc'[r] = "end_family" /\ job'[r].auth = refresh'[t].auth
  <2>1. Born(refresh[t])
    BY <1>5, NewRowsAreActive DEF Born
  <2>2. refresh[t].auth \in Auth /\ refresh'[t].auth = refresh[t].auth
    BY <1>1, <2>1 DEF TypeOK, Bound
  <2>3. CASE refresh[t].state = "revoked"
    <3>1. CASE auth[refresh[t].auth] \in {"revoked", "gone"}
      BY <1>0, <2>2, <3>1 DEF Ends
    <3>2. CASE \E r \in Request : pc[r] = "end_family" /\ job[r].auth = refresh[t].auth
      BY <2>2, <3>2, EndingGoesOn
    <3> QED BY <2>3, <3>1, <3>2 DEF EndInv
  <2>4. CASE refresh[t].state # "revoked"
    <3>1. PICK r \in Request : EndFamily(r, refresh[t].fam)
      BY <1>5, <2>1, <2>4, RowsStay
    <3>2. pc[r] = "end_family" /\ refresh[t].fam \in job[r].fams
      BY <3>1 DEF EndFamily
    <3>3. PICK u \in Refresh : /\ Born(refresh[u]) /\ refresh[u].fam = refresh[t].fam
                               /\ refresh[u].auth = job[r].auth
      BY <3>2 DEF EndInv, Covers
    <3>4. job[r].auth = refresh[t].auth
      BY <2>1, <3>3 DEF ChainInv, OneFamily
    <3> QED BY <2>2, <3>2, <3>4, EndingGoesOn
  <2> QED BY <2>3, <2>4
<1>6. ASSUME NEW a \in Auth, auth'[a] = "revoked"
      PROVE  \/ credential'[a] = "returned" \/ noted'[a]
             \/ \E r \in Request : pc'[r] = "end_note" /\ job'[r].auth = a
  <2>1. CASE auth[a] # "revoked"
    BY <1>6, <2>1, RevokedByNoting
  <2>2. CASE auth[a] = "revoked"
    <3>1. CASE credential[a] = "returned"
      BY <2>2, <3>1, CredentialMoves
    <3>2. CASE noted[a]
      BY <1>6, <2>2, <3>1, <3>2, NoteMoves
    <3>3. CASE \E r \in Request : pc[r] = "end_note" /\ job[r].auth = a
      BY <2>2, <3>3, NotingGoesOn
    <3> QED BY <2>2, <3>1, <3>2, <3>3 DEF EndInv
  <2> QED BY <2>1, <2>2
<1> QED BY <1>3, <1>4, <1>5, <1>6 DEF EndInv

LEMMA EndsHold ==
  ASSUME ~Crashes
  PROVE  Spec => []EndInv
<1>1. TypeOK /\ TypeOK' /\ ChainInv /\ NoteInv /\ EndInv /\ [Next]_vars => EndInv'
  BY EndInvStep
<1> QED BY <1>1, EndInit, NoteInit, NoteStep, ChainInit, ChainStep, TypeCorrect, PTL DEF Spec

(* As long as nobody dies: a family with a revoked member belongs to a      *)
(* connection that is over or about to be, whoever ends what in which order *)
(* (_end_connection revokes the families first).                            *)
THEOREM DeadFamiliesAreEnded ==
  ASSUME ~Crashes
  PROVE  Spec => []DeadFamilyIsEnded
<1>1. EndInv => DeadFamilyIsEnded
  BY DEF EndInv, DeadFamilyIsEnded, Ending
<1> QED BY <1>1, EndsHold, PTL

(* As long as nobody dies: the password of an ended connection was handed   *)
(* back, or is noted, or somebody is about to note it (_end_connection).    *)
THEOREM EndsAreAccounted ==
  ASSUME ~Crashes
  PROVE  Spec => []EndedIsAccounted
<1>1. EndInv => EndedIsAccounted
  BY DEF EndInv, EndedIsAccounted, Ending
<1> QED BY <1>1, EndsHold, PTL

-----------------------------------------------------------------------------
(***************************************************************************)
(* ConnectionTokens implements CredentialChain: seen through chainPhase,   *)
(* chainTip and chainSpent, every step of the store extends one chain,     *)
(* ends some, or leaves all of them as they are.                           *)
(***************************************************************************)

LEMMA ChainStarts == Init => Chain!Init
<1> SUFFICES ASSUME Init PROVE Chain!Init
  OBVIOUS
<1>1. \A a \in Auth : WrittenFor(a) = {} /\ auth[a] = "none"
  BY ConstantsAssumption DEF ConstantsAssumption, Init, WrittenFor
<1>2. chainPhase = [a \in Auth |-> "new"]
  BY <1>1 DEF chainPhase
<1>3. chainTip = [a \in Auth |-> {}]
  BY <1>1 DEF chainTip
<1>4. chainSpent = {}
  BY DEF Init, chainSpent, Born
<1> QED BY <1>2, <1>3, <1>4 DEF Chain!Init

(* The chain of b: where it was, or over                                    *)
Unmoved(b) == chainPhase'[b] = chainPhase[b] /\ chainTip'[b] = chainTip[b]
IsOver(b) == chainPhase'[b] = "over" /\ chainTip'[b] = {}

LEMMA EndsSome ==
  ASSUME chainSpent' = chainSpent, \A b \in Auth : Unmoved(b) \/ IsOver(b)
  PROVE  Chain!EndSome \/ UNCHANGED Chain!vars
<1> DEFINE S == {b \in Auth : ~Unmoved(b)}
<1>1. /\ chainPhase' = [b \in Auth |-> chainPhase'[b]] /\ chainPhase = [b \in Auth |-> chainPhase[b]]
      /\ chainTip' = [b \in Auth |-> chainTip'[b]] /\ chainTip = [b \in Auth |-> chainTip[b]]
  BY DEF chainPhase, chainTip
<1>2. CASE S = {}
  <2>1. \A b \in Auth : chainPhase'[b] = chainPhase[b] /\ chainTip'[b] = chainTip[b]
    BY <1>2 DEF Unmoved
  <2>2. chainPhase' = chainPhase /\ chainTip' = chainTip
    BY <1>1, <2>1
  <2> QED BY <2>2 DEF Chain!vars
<1>3. CASE S # {}
  <2>1. PICK a \in S : TRUE
    BY <1>3
  <2>2. /\ \A b \in Auth : chainPhase'[b] = IF b \in S THEN "over" ELSE IF b = a THEN "open" ELSE chainPhase[b]
        /\ \A b \in Auth : chainTip'[b] = IF b \in S THEN {} ELSE IF b = a THEN {} ELSE chainTip[b]
    BY <2>1 DEF Unmoved, IsOver
  <2> HIDE DEF S
  <2>3. Chain!Settle(S, a, {})
    BY <1>1, <2>2 DEF Chain!Settle
  <2>4. S \in SUBSET Auth
    BY DEF S
  <2> QED BY <2>1, <2>3, <2>4 DEF Chain!EndSome
<1> QED BY <1>2, <1>3

LEMMA ExtendsOne ==
  ASSUME NEW a \in Auth, NEW n \in Refresh, n \notin chainSpent,
         chainSpent' = chainSpent \cup {n},
         \A b \in Auth \ {a} : Unmoved(b) \/ IsOver(b),
         \/ chainPhase[a] \in {"new", "open"} /\ chainPhase'[a] = "open" /\ chainTip'[a] = {n}
         \/ chainPhase[a] = "over" /\ IsOver(a)
  PROVE  Chain!Extend(a, n)
<1> DEFINE S == {b \in Auth \ {a} : ~Unmoved(b)}
<1>1. /\ chainPhase' = [b \in Auth |-> chainPhase'[b]]
      /\ chainTip' = [b \in Auth |-> chainTip'[b]]
  BY DEF chainPhase, chainTip
<1>2. S \in SUBSET Auth /\ a \notin S
  OBVIOUS
<1>3. \A b \in Auth \ {a} : IF b \in S THEN IsOver(b) ELSE Unmoved(b)
  OBVIOUS
<1> HIDE DEF S
<1>4. CASE chainPhase[a] \in {"new", "open"} /\ chainPhase'[a] = "open" /\ chainTip'[a] = {n}
  <2>1. /\ \A b \in Auth : chainPhase'[b] = IF b \in S \ {a} THEN "over"
                                             ELSE IF b = a THEN "open" ELSE chainPhase[b]
        /\ \A b \in Auth : chainTip'[b] = IF b \in S \ {a} THEN {}
                                           ELSE IF b = a THEN {n} ELSE chainTip[b]
    BY <1>2, <1>3, <1>4 DEF Unmoved, IsOver
  <2>2. Chain!Settle(S \ {a}, a, {n})
    BY <1>1, <2>1 DEF Chain!Settle
  <2> QED BY <1>2, <1>4, <2>2 DEF Chain!Extend
<1>5. CASE chainPhase[a] = "over" /\ IsOver(a)
  <2>1. /\ \A b \in Auth : chainPhase'[b] = IF b \in S \cup {a} THEN "over"
                                             ELSE IF b = a THEN "open" ELSE chainPhase[b]
        /\ \A b \in Auth : chainTip'[b] = IF b \in S \cup {a} THEN {}
                                           ELSE IF b = a THEN {} ELSE chainTip[b]
    BY <1>2, <1>3, <1>5 DEF Unmoved, IsOver
  <2>2. Chain!Settle(S \cup {a}, a, {})
    BY <1>1, <2>1 DEF Chain!Settle
  <2> QED BY <1>2, <1>5, <2>2 DEF Chain!Extend
<1> QED BY <1>4, <1>5

(* A step that writes no refresh token, revives none and reopens nothing    *)
QuietChains ==
  /\ \A t \in Refresh : /\ refresh'[t].auth = refresh[t].auth
                        /\ Born(refresh'[t]) <=> Born(refresh[t])
                        /\ refresh'[t].state = "active" => refresh[t].state = "active"
  /\ \A a \in Auth : auth'[a] # auth[a] =>
       auth'[a] \in {"revoked", "gone"} \/ (auth[a] = "none" /\ auth'[a] = "live")

(* A chain nobody writes to stays, or runs out.                             *)
LEMMA ChainStays ==
  ASSUME TypeOK, ChainInv, NEW a \in Auth,
         \A t \in Refresh : /\ refresh'[t].auth = a <=> refresh[t].auth = a
                            /\ refresh'[t].auth = a /\ refresh'[t].state = "active" =>
                                 refresh[t].state = "active",
         auth'[a] # auth[a] =>
           auth'[a] \in {"revoked", "gone"} \/ (auth[a] = "none" /\ auth'[a] = "live")
  PROVE  Unmoved(a) \/ IsOver(a)
<1>1. WrittenFor(a)' = WrittenFor(a)
  BY DEF WrittenFor
<1>2. ActiveFor(a)' \subseteq ActiveFor(a)
  BY <1>1 DEF ActiveFor, WrittenFor
<1>3. ActiveFor(a)' = ActiveFor(a) \/ ActiveFor(a)' = {}
  BY <1>2 DEF ChainInv, SingleBranch, ActiveFor, WrittenFor
<1>4. CASE auth'[a] \in {"revoked", "gone"}
  BY <1>4 DEF chainPhase, chainTip, IsOver
<1>5. CASE auth[a] = "none" /\ auth'[a] = "live"
  <2>1. WrittenFor(a) = {} /\ ActiveFor(a) = {}
    BY <1>5 DEF ChainInv, CodeComesFirst, Unwritten, WrittenFor, ActiveFor
  <2> QED BY <1>1, <1>3, <1>5, <2>1 DEF chainPhase, chainTip, Unmoved
<1>6. CASE auth'[a] = auth[a] /\ auth'[a] \notin {"revoked", "gone"}
  <2>1. CASE ActiveFor(a)' = ActiveFor(a)
    BY <1>1, <1>6, <2>1 DEF chainPhase, chainTip, Unmoved
  <2>2. CASE ActiveFor(a)' = {} /\ ActiveFor(a) # {}
    <3>1. WrittenFor(a) # {}
      BY <2>2 DEF ActiveFor
    <3> QED BY <1>1, <1>6, <2>2, <3>1 DEF chainPhase, chainTip, IsOver
  <2> QED BY <1>3, <2>1, <2>2
<1> QED BY <1>4, <1>5, <1>6

LEMMA QuietStays ==
  ASSUME TypeOK, ChainInv, QuietChains
  PROVE  Chain!EndSome \/ UNCHANGED Chain!vars
<1>1. chainSpent' = chainSpent
  BY DEF QuietChains, chainSpent
<1>2. \A a \in Auth : Unmoved(a) \/ IsOver(a)
  BY ChainStays DEF QuietChains
<1> QED BY <1>1, <1>2, EndsSome

LEMMA PurgedIsQuieter ==
  ASSUME NEW row \in RefreshRow, NEW moment \in Int
  PROVE  /\ Purged(row, moment).auth = row.auth
         /\ Born(Purged(row, moment)) <=> Born(row)
         /\ Purged(row, moment).state = "active" => row.state = "active"
BY PurgedKeeps, PurgedIsQuiet DEF SameRow

(* A token that was never written belongs to no connection.                 *)
BlankRows == \A t \in Refresh : ~Born(refresh[t]) => refresh[t].auth = None

LEMMA BlankInit == Init => BlankRows
BY DEF Init, BlankRows

LEMMA BlankStep == TypeOK /\ BlankRows /\ [Next]_vars => BlankRows'
<1> SUFFICES ASSUME TypeOK, BlankRows, [Next]_vars, NEW t \in Refresh, ~Born(refresh'[t])
             PROVE  refresh'[t].auth = None
  BY DEF BlankRows, Born
<1>1. ~Born(refresh[t])
  BY RowsStay DEF SameRow
<1> QED BY <1>1, NewRowsAreActive DEF BlankRows, Born

(* A rotation extends a chain that is open, or comes too late to count.     *)
LEMMA RedeemExtends ==
  ASSUME TypeOK, ChainInv, BlankRows, NEW r \in Request, NEW n \in Refresh, Redeem(r, n)
  PROVE  \E a \in Auth : Chain!Extend(a, n)
<1>0. job[r].tok \in Refresh /\ refresh[job[r].tok].auth \in Auth
  BY DEF Redeem, TypeOK, JobBound, Bound
<1> PICK t \in Refresh, a \in Auth : t = job[r].tok /\ a = refresh[t].auth
  BY <1>0
<1>1. /\ refresh[t].state = "active" /\ refresh[n].state = "none" /\ UNCHANGED auth
      /\ pc[r] = "redeem"
      /\ refresh' = [refresh EXCEPT ![t] = Spent(refresh[t], job[r].at, n),
                                    ![n] = NewRefresh(a, refresh[t].fam, job[r].at)]
  BY DEF Redeem, Redeemable, rows
<1>2. t \in Refresh /\ refresh[t] \in RefreshRow /\ a \in Auth /\ job[r].at \in Int /\ t # n
  BY <1>1 DEF TypeOK, JobBound, Bound, Born, Job
<1>3. /\ refresh'[t].state = "used" /\ refresh'[t].auth = a
      /\ refresh'[n].state = "active" /\ refresh'[n].auth = a
      /\ \A u \in Refresh \ {t, n} : refresh'[u] = refresh[u]
  BY <1>1, <1>2, SpentKeeps DEF NewRefresh, TypeOK
<1>4. \A u \in Refresh \ {t} : refresh[u].auth = a => refresh[u].state # "active"
  BY <1>1, <1>2 DEF ChainInv, SingleBranch
<1>5. WrittenFor(a)' # {} /\ ActiveFor(a)' = {n}
  BY <1>2, <1>3, <1>4 DEF WrittenFor, ActiveFor
<1>6. t \in ActiveFor(a) /\ t \in WrittenFor(a)
  BY <1>1, <1>2 DEF WrittenFor, ActiveFor
<1>7. auth[a] \in {"live", "revoked", "gone"}
  <2>1. auth[a] # "none"
    BY <1>1, <1>2, WrittenIsApproved DEF Born
  <2> QED BY <1>2, <2>1 DEF TypeOK
<1>8. \/ chainPhase[a] \in {"new", "open"} /\ chainPhase'[a] = "open" /\ chainTip'[a] = {n}
      \/ chainPhase[a] = "over" /\ IsOver(a)
  <2>1. CASE auth[a] = "live"
    BY SMTT(40), <1>1, <1>2, <1>5, <1>6, <2>1 DEF chainPhase, chainTip
  <2>2. CASE auth[a] \in {"revoked", "gone"}
    BY SMTT(40), <1>1, <1>2, <2>2 DEF chainPhase, chainTip, IsOver
  <2> QED BY SMTT(40), <1>7, <2>1, <2>2
<1>9. n \notin chainSpent /\ chainSpent' = chainSpent \cup {n}
  BY ZenonT(60), <1>1, <1>2, <1>3 DEF chainSpent, Born
<1>10. ASSUME NEW b \in Auth \ {a} PROVE Unmoved(b) \/ IsOver(b)
  <2>1. refresh[n].auth # b
    BY <1>1, ConstantsAssumption DEF ConstantsAssumption, BlankRows, Born
  <2>2. \A u \in Refresh : /\ refresh'[u].auth = b <=> refresh[u].auth = b
                           /\ refresh'[u].auth = b /\ refresh'[u].state = "active" =>
                                refresh[u].state = "active"
    BY <1>2, <1>3, <2>1
  <2> QED BY <1>1, <2>2, ChainStays
<1> QED BY <1>2, <1>8, <1>9, <1>10, ExtendsOne

(* The first token opens the chain, or comes too late to count; whatever    *)
(* ran out by its moment ends with it.                                      *)
LEMMA FirstExtends ==
  ASSUME TypeOK, ChainInv, BlankRows, NEW r \in Request, NEW n \in Refresh, NEW f \in Family,
         FirstRefresh(r, n, f), RowOf(job[r].auth)
  PROVE  \E a \in Auth : Chain!Extend(a, n)
<1>0. job[r].auth \in Auth
  BY DEF FirstRefresh, TypeOK, JobBound
<1> PICK a \in Auth : a = job[r].auth
  BY <1>0
<1>1. /\ pc[r] = "first_refresh" /\ refresh[n].state = "none" /\ UNCHANGED auth
      /\ refresh' = [t \in Refresh |-> IF t = n THEN NewRefresh(a, f, job[r].at)
                                       ELSE Purged(refresh[t], job[r].at)]
  BY DEF FirstRefresh, rows
<1>2. a \in Auth /\ job[r].at \in Int /\ auth[a] \in {"live", "revoked"}
  BY <1>1 DEF TypeOK, JobBound, Job, RowOf
<1>3. /\ refresh'[n].state = "active" /\ refresh'[n].auth = a
      /\ \A t \in Refresh \ {n} :
           /\ refresh'[t].auth = refresh[t].auth
           /\ Born(refresh'[t]) <=> Born(refresh[t])
           /\ refresh'[t].state = "active" => refresh[t].state = "active"
  BY <1>1, <1>2, PurgedIsQuieter DEF NewRefresh, TypeOK
<1>4. \A t \in Refresh : refresh[t].auth # a
  BY <1>1, <1>2 DEF ChainInv, FirstIsAlone, FirstFor, Unwritten
<1>5. WrittenFor(a) = {} /\ WrittenFor(a)' = {n} /\ ActiveFor(a)' = {n}
  BY <1>3, <1>4 DEF WrittenFor, ActiveFor
<1>6. \/ chainPhase[a] \in {"new", "open"} /\ chainPhase'[a] = "open" /\ chainTip'[a] = {n}
      \/ chainPhase[a] = "over" /\ IsOver(a)
  <2>1. CASE auth[a] = "live"
    BY <1>1, <1>2, <1>5, <2>1 DEF chainPhase, chainTip
  <2>2. CASE auth[a] = "revoked"
    BY <1>1, <1>2, <2>2 DEF chainPhase, chainTip, IsOver
  <2> QED BY <1>2, <2>1, <2>2
<1>7. n \notin chainSpent /\ chainSpent' = chainSpent \cup {n}
  BY <1>1, <1>3 DEF chainSpent, Born
<1>8. ASSUME NEW b \in Auth \ {a} PROVE Unmoved(b) \/ IsOver(b)
  <2>1. refresh[n].auth # b
    BY <1>1, ConstantsAssumption DEF ConstantsAssumption, BlankRows, Born
  <2>2. \A t \in Refresh : /\ refresh'[t].auth = b <=> refresh[t].auth = b
                           /\ refresh'[t].auth = b /\ refresh'[t].state = "active" =>
                                refresh[t].state = "active"
    BY <1>3, <2>1
  <2> QED BY <1>1, <2>2, ChainStays
<1> QED BY <1>2, <1>6, <1>7, <1>8, ExtendsOne

LEMMA StepSimulates ==
  ASSUME TypeOK, ChainInv, BlankRows, [Next]_vars
  PROVE  [Chain!Next]_(Chain!vars)
<1> DEFINE Goal == [Chain!Next]_(Chain!vars)
<1> USE DEF rows, tokens
<1>q. ASSUME QuietChains PROVE Goal
  BY <1>q, QuietStays DEF Chain!Next
<1>0. ASSUME UNCHANGED <<auth, refresh>> PROVE Goal
  BY <1>0, <1>q DEF QuietChains
<1>1. CASE Tick \/ UNCHANGED vars \/ (\E w \in Worker : Crash(w)) \/ \E r \in Request : Start(r)
  <2>1. UNCHANGED <<auth, refresh>>
    BY <1>1, StartMoves DEF Tick, Crash, vars
  <2> QED BY <1>0, <2>1
<1>2. ASSUME NEW a \in Auth, Approve(a) PROVE Goal
  BY <1>2, <1>q DEF Approve, QuietChains, TypeOK
<1>3. ASSUME NEW a \in Auth, DeleteAuthorization(a) PROVE Goal
  <2>1. \A t \in Refresh : /\ refresh'[t].auth = refresh[t].auth
                           /\ Born(refresh'[t]) <=> Born(refresh[t])
                           /\ refresh'[t].state = "active" => refresh[t].state = "active"
    BY <1>3, MarkKeeps, MarkIsQuiet DEF DeleteAuthorization, SameRow, TypeOK, RowState
  <2> QED BY <1>3, <1>q, <2>1 DEF DeleteAuthorization, QuietChains, TypeOK
<1>4. ASSUME NEW r \in Request, Advance(r) PROVE Goal
  <2>0. job[r].at \in Int BY DEF TypeOK, Job
  <2>1. CASE RedeemCode(r) \/ ReadGrant(r) \/ RedeemNothing(r) \/ Hold(r) \/ Judge(r)
             \/ ReadFamilies(r) \/ NoteCleanup(r) \/ Forget(r) \/ HandRead(r) \/ HandClear(r)
             \/ Remember(r) \/ ResolveIdentity(r) \/ Serve(r)
             \/ \E answered \in BOOLEAN : HandCall(r, answered)
    <3>1. UNCHANGED <<auth, refresh>>
      BY <2>1 DEF RedeemCode, ReadGrant, RedeemNothing, Hold, Judge, ReadFamilies, NoteCleanup,
                  Forget, HandRead, HandClear, Remember, ResolveIdentity, Serve, HandCall
    <3> QED BY <1>0, <3>1
  <2>2. CASE EndAuthorization(r)
    BY <2>2, <1>q DEF EndAuthorization, QuietChains, TypeOK
  <2>3. ASSUME NEW f \in Family, EndFamily(r, f) PROVE Goal
    <3>1. \A t \in Refresh : /\ refresh'[t].auth = refresh[t].auth
                             /\ Born(refresh'[t]) <=> Born(refresh[t])
                             /\ refresh'[t].state = "active" => refresh[t].state = "active"
      BY <2>3, MarkKeeps, MarkIsQuiet DEF EndFamily, SameRow, TypeOK, RowState
    <3> QED BY <2>3, <1>q, <3>1 DEF EndFamily, QuietChains
  <2>4. ASSUME NEW k \in Access, Issue(r, k) PROVE Goal
    <3>1. UNCHANGED auth /\ \/ UNCHANGED refresh
                            \/ \A t \in Refresh : refresh'[t] = Purged(refresh[t], job[r].at)
      BY <2>4 DEF Issue
    <3> QED BY <1>0, <1>q, <2>0, <3>1, PurgedIsQuieter DEF QuietChains, TypeOK
  <2>5. ASSUME NEW n \in Refresh, Redeem(r, n) PROVE Goal
    BY <2>5, RedeemExtends DEF Chain!Next
  <2>6. ASSUME NEW n \in Refresh, NEW f \in Family, FirstRefresh(r, n, f) PROVE Goal
    <3>1. CASE RowOf(job[r].auth)
      BY <2>6, <3>1, FirstExtends DEF Chain!Next
    <3>2. CASE ~RowOf(job[r].auth)
      BY <1>0, <2>6, <3>2 DEF FirstRefresh
    <3> QED BY <3>1, <3>2
  <2> QED BY <1>4, <2>1, <2>2, <2>3, <2>4, <2>5, <2>6 DEF Advance
<1> QED BY <1>1, <1>2, <1>3, <1>4 DEF Next

(* The token endpoint keeps its promise for any number of connections,      *)
(* workers and requests: no interleaving of exchanges, rotations, ends and  *)
(* deletions forks a chain, spends a token twice or reopens what is over.   *)
THEOREM TheChainIsImplemented == Spec => ImplementsChain
<1>1. TypeOK /\ ChainInv /\ BlankRows /\ [Next]_vars => [Chain!Next]_(Chain!vars)
  BY StepSimulates
<1> QED
  BY <1>1, ChainStarts, ChainInit, ChainStep, BlankInit, BlankStep, TypeCorrect, PTL
     DEF Spec, ImplementsChain, Chain!Spec
=============================================================================
