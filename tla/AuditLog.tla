-------------------------------- MODULE AuditLog --------------------------------
(***************************************************************************)
(* The audit log: one hash chain per account, one for refused token        *)
(* exchanges and one for the instance itself, in one table.  Rows that     *)
(* grew old, or that are over the size limit, or whose account is gone,    *)
(* give way; a marker in the instance chain then says how many rows of     *)
(* which chain went and where the block ended, so that a check of the      *)
(* chains can tell a sweep from a manipulation.  Every store method is one *)
(* transaction, or one per batch; tasks interleave between them.           *)
(*                                                                         *)
(* The hash of a row is as good as its number: numbers are never reused.   *)
(* A row whose content no longer fits its hash is not whole.               *)
(***************************************************************************)
EXTENDS Integers, FiniteSets, FiniteSetsExt

CONSTANTS
  User,          \* accounts with a chain; the chain of an account has its name
  Instance,      \* the chain of the instance, which explains the gaps
  Exchange,      \* the chain of refused token exchanges
  Rank,          \* chains in the order of their names
  Task,          \* tool calls, refusals and checks in flight
  Scenario,      \* what may be started and what may go wrong, in one behaviour or another
  RETENTION_DAYS, USER_SILENCE_DAYS,
  SIZE_LIMIT,    \* in rows
  SWEEP_EVERY, SWEEP_USER_CHECK_EVERY, SWEEP_BATCH_ROWS, SWEEP_MAX_ROUNDS,
  REFUSAL_WINDOW_SECONDS,
  MaxClock, MaxSeq, MaxSwallowed   \* bounds of the clock, the table and the brake

Chain == User \cup {Instance, Exchange}

ASSUME AuditAssumption ==
  /\ Instance # Exchange /\ User \cap {Instance, Exchange} = {}
  /\ IsFiniteSet(User)
  /\ Rank \in [Chain -> Nat]
  /\ \A c, d \in Chain : Rank[c] = Rank[d] => c = d
  /\ {SWEEP_EVERY, SWEEP_USER_CHECK_EVERY, SWEEP_BATCH_ROWS} \subseteq Nat \ {0}
  /\ {RETENTION_DAYS, USER_SILENCE_DAYS, SIZE_LIMIT, SWEEP_MAX_ROUNDS, REFUSAL_WINDOW_SECONDS,
      MaxClock, MaxSeq, MaxSwallowed} \subseteq Nat
  /\ Scenario \subseteq SUBSET {"call", "refusal", "off", "check", "tear", "alter", "drift",
                                "accounts", "fail", "crash"}

VARIABLES
  offered,       \* the scenario of this behaviour
  clock,         \* the wall clock, which may step back
  known,         \* the accounts Nextcloud has
  log,           \* the process: "down", "starting", or serving with the log "on" or "off"
  seq,           \* the highest number ever handed out
  entries,       \* the rows of the table
  window,        \* the refusal brake of this process
  task,          \* where a task stands, with its local variables
  gone,          \* history: rows each chain gave up
  unsaid,        \* history: refusals no row stands for yet
  drops,         \* history: chains dropped whole
  torn           \* history: rows removed by hand

table == <<seq, entries>>
history == <<gone, unsaid, drops, torn>>
vars == <<offered, clock, known, log, table, window, task, history>>

Genesis == 0
NoWindow == [opened |-> -1, swallowed |-> 0]
Idle == [step |-> "idle"]

(* No statement reads the moment of an instance row, so it has none.        *)
Row == [seq: 1..MaxSeq, chain: Chain, kind: {"call", "refusal", "on", "off", "tombstone"},
        at: 0..MaxClock, prev: 0..MaxSeq, whole: BOOLEAN, removed: Nat,
        gap: Chain \cup {Genesis}, end: 0..MaxSeq]

Gaps == SUBSET (Chain \X (1..MaxSeq))
Then == {"accounts", "done", "on", "off"}    \* what follows a sweep

Job == {Idle}
  \cup [step: {"boot"}, then: {"on", "off"}]
  \cup [step: {"append"}, chain: Chain \ {Instance}, at: 0..MaxClock, stands: Nat]
  \cup [step: {"expire"}, moment: 0..MaxClock, then: Then]
  \cup [step: {"measure", "trim"}, moment: 0..MaxClock, then: Then, round: 0..SWEEP_MAX_ROUNDS]
  \cup [step: {"accounts"}, moment: 0..MaxClock]
  \cup [step: {"silent"}, moment: 0..MaxClock, known: SUBSET User]
  \cup [step: {"drop"}, moment: 0..MaxClock, todo: SUBSET User]
  \cup [step: {"list"}, gaps: Gaps, hurt: SUBSET (1..MaxSeq)]
  \cup [step: {"walk"}, gaps: Gaps, hurt: SUBSET (1..MaxSeq), todo: SUBSET Chain,
        found: SUBSET Chain]

-----------------------------------------------------------------------------
(* What the statements find *)

Of(c) == {e \in entries : e.chain = c}
Sweepable == {e \in entries : e.chain # Instance}
Tombstones == {e \in Of(Instance) : e.kind = "tombstone"}
Newest(S) == CHOOSE e \in S : \A d \in S : d.seq <= e.seq
FirstByName(C) == CHOOSE c \in C : \A d \in C : Rank[c] <= Rank[d]

(* ORDER BY seq LIMIT n *)
FirstRows(S, n) == {e \in S : Cardinality({d \in S : d.seq <= e.seq}) <= n}

(* The hash a new row of a chain attaches to *)
LastHash(S, c) ==
  LET rows == {e \in S : e.chain = c} IN IF rows = {} THEN Genesis ELSE Newest(rows).seq

(* A row not younger than the cutoff goes only with every row before it;    *)
(* a bare predicate on the moment would tear holes.                         *)
ExpiredAnywhere(cutoff) == {e \in Sweepable : e.at <= cutoff}
ExpiredBehind(cutoff) ==
  {e \in Sweepable : \E d \in Of(e.chain) : d.at <= cutoff /\ e.seq <= d.seq}
ExpiredPrefix(cutoff) ==
  {e \in Sweepable : \A s \in Of(e.chain) : s.at > cutoff => e.seq < s.seq}

(* The removal takes the rows of its predicate up to the end of the batch   *)
UpToBefore(S, batch) == {e \in S : e.seq < Newest(batch).seq}
UpTo(S, batch) == {e \in S : e.seq <= Newest(batch).seq}

SilentUsers(moment) ==
  {u \in User : Of(u) # {} /\ \A e \in Of(u) : e.at <= moment - USER_SILENCE_DAYS}

ExplainedGaps == {<<m.gap, m.end>> : m \in Tombstones}

(* _first_finding: a chain has one if a row lost its content, if its head   *)
(* points behind a gap nobody explains, or if a link is missing.            *)
HasFindingInside(c, gaps) ==
  \E e \in Of(c) :
    LET before == {d \in Of(c) : d.seq < e.seq} IN
    \/ ~e.whole
    \/ before # {} /\ e.prev # Newest(before).seq
HasFinding(c, gaps) ==
  \E e \in Of(c) :
    LET before == {d \in Of(c) : d.seq < e.seq} IN
    \/ ~e.whole
    \/ before = {} /\ e.prev # Genesis /\ <<c, e.prev>> \notin gaps
    \/ before # {} /\ e.prev # Newest(before).seq

(* What a check would answer on the table as it stands *)
Findings == {c \in Chain : HasFinding(c, ExplainedGaps)}
Untouched == torn = {} /\ \A e \in entries : e.whole

SwitchRows == {e \in Of(Instance) : e.kind \in {"on", "off"}}
LastSwitch == IF SwitchRows = {} THEN "off" ELSE Newest(SwitchRows).kind

-----------------------------------------------------------------------------
TypeOK ==
  /\ offered \in Scenario
  /\ clock \in 0..MaxClock
  /\ known \subseteq User
  /\ log \in {"down", "starting", "on", "off"}
  /\ seq \in 0..MaxSeq
  /\ entries \subseteq Row
  /\ \A e \in entries : e.seq <= seq
  /\ \A e, d \in entries : e.seq = d.seq => e = d
  /\ window \in {NoWindow} \cup [opened: 0..MaxClock, swallowed: 0..MaxSwallowed]
  /\ task \in [Task -> Job]
  /\ gone \in [Chain -> 0..MaxSeq]
  /\ unsaid \in Nat
  /\ drops \in Nat
  /\ torn \subseteq 1..MaxSeq

Init ==
  /\ offered \in Scenario
  /\ clock = 0
  /\ known = User
  /\ log = "down"
  /\ seq = 0
  /\ entries = {}
  /\ window = NoWindow
  /\ task = [t \in Task |-> Idle]
  /\ gone = [c \in Chain |-> 0]
  /\ unsaid = 0
  /\ drops = 0
  /\ torn = {}

At(t, step) == task[t].step = step
Become(t, job) == task' = [task EXCEPT ![t] = job]

NewRow(c, kind, at, stands) ==
  [seq |-> seq + 1, chain |-> c, kind |-> kind, at |-> at, prev |-> LastHash(entries, c),
   whole |-> TRUE, removed |-> stands, gap |-> Genesis, end |-> Genesis]

Marker(number, prev, c, count, end) ==
  [seq |-> number, chain |-> Instance, kind |-> "tombstone", at |-> 0, prev |-> prev,
   whole |-> TRUE, removed |-> count, gap |-> c, end |-> end]

(* A sweep is over: a start begins to serve, a tool call may have to ask    *)
(* for the accounts.                                                        *)
Finish(t, then, moment) ==
  /\ Become(t, IF then = "accounts" THEN [step |-> "accounts", moment |-> moment] ELSE Idle)
  /\ log' = IF then \in {"on", "off"} THEN then ELSE log

-----------------------------------------------------------------------------
(* _audit_startup: the start records that the switch was moved, then sweeps *)
(* a file that was already there.                                           *)
Start(t, setting) ==
  /\ log = "down"
  /\ setting = "off" => "off" \in offered
  /\ log' = "starting"
  /\ Become(t, [step |-> "boot", then |-> setting])
  /\ UNCHANGED <<offered, clock, known, table, window, history>>

Boot(t) ==
  LET setting == task[t].then IN
  /\ At(t, "boot")
  /\ IF LastSwitch = setting THEN UNCHANGED table
     ELSE /\ seq < MaxSeq
          /\ entries' = entries \cup {NewRow(Instance, setting, 0, 0)}
          /\ seq' = seq + 1
  /\ IF seq > 0 THEN /\ Become(t, [step |-> "expire", moment |-> clock, then |-> setting])
                     /\ UNCHANGED log
     ELSE Finish(t, setting, clock)
  /\ UNCHANGED <<offered, clock, known, window, history>>

(* note: the moment of the row is read before the store is asked            *)
Note(t, u) ==
  /\ log = "on" /\ At(t, "idle") /\ u \in known
  /\ Become(t, [step |-> "append", chain |-> u, at |-> clock, stands |-> 0])
  /\ UNCHANGED <<offered, clock, known, log, table, window, history>>

(* note_refusal: the first of a window is written, the others are counted.  *)
(* The window is armed before the write.                                    *)
StandsForFormer == window.swallowed
StandsFor == window.swallowed + 1

NoteRefusal(t) ==
  LET inside == window # NoWindow /\ 0 <= clock - window.opened
                  /\ clock - window.opened < REFUSAL_WINDOW_SECONDS
  IN
  /\ log = "on" /\ At(t, "idle")
  /\ unsaid' = unsaid + 1
  /\ IF inside
     THEN /\ window.swallowed < MaxSwallowed
          /\ window' = [window EXCEPT !.swallowed = @ + 1]
          /\ UNCHANGED task
     ELSE /\ window' = [opened |-> clock, swallowed |-> 0]
          /\ Become(t, [step |-> "append", chain |-> Exchange, at |-> clock,
                        stands |-> StandsFor])
  /\ UNCHANGED <<offered, clock, known, log, table, gone, drops, torn>>

(* append, and whether this number is the turn of a sweep.  A refusal never *)
(* asks for the accounts.                                                   *)
Append(t) ==
  LET j == task[t]
      refusal == j.chain = Exchange
      number == seq + 1
  IN
  /\ At(t, "append")
  /\ seq < MaxSeq
  /\ seq' = number
  /\ entries' = entries \cup
       {NewRow(j.chain, IF refusal THEN "refusal" ELSE "call", j.at, j.stands)}
  /\ unsaid' = unsaid - j.stands
  /\ Become(t, IF number % SWEEP_EVERY # 0 THEN Idle
               ELSE [step |-> "expire", moment |-> IF refusal THEN j.at ELSE clock,
                     then |-> IF ~refusal /\ number % (SWEEP_EVERY * SWEEP_USER_CHECK_EVERY) = 0
                              THEN "accounts" ELSE "done"])
  /\ UNCHANGED <<offered, clock, known, log, window, gone, drops, torn>>

-----------------------------------------------------------------------------
(* The sweep *)

(* The markers at the end of the instance chain, behind the last switch     *)
TrailingRun(S) ==
  {m \in S : /\ m.chain = Instance /\ m.kind = "tombstone"
             /\ \A s \in S : s.chain = Instance /\ s.kind # "tombstone" => s.seq < m.seq}

RemovedOf(e) == e.removed

CountOfBatch(c, batch, run) == Cardinality({e \in batch : e.chain = c})
CountOf(c, batch, run) ==
  Cardinality({e \in batch : e.chain = c})
    + MapThenSumSet(RemovedOf, {m \in run : m.gap = c})

EndOf(c, batch, run) ==
  LET lost == {e \in batch : e.chain = c} IN
  IF lost # {} THEN Newest(lost).seq ELSE Newest({m \in run : m.gap = c}).end

(* _write_markers: the trailing run is absorbed, and one marker per chain   *)
(* takes its place, in the order of the names.                              *)
MarkersFor(rest, batch, run) ==
  LET kept == rest \ run
      named == {e.chain : e \in batch} \cup {m.gap : m \in run}
      place(c) == Cardinality({d \in named : Rank[d] <= Rank[c]})
  IN kept \cup
       {Marker(seq + place(c),
               IF place(c) = 1 THEN LastHash(kept, Instance) ELSE seq + place(c) - 1,
               c, CountOf(c, batch, run), EndOf(c, batch, run)) : c \in named}

WithMarkersAppended(rest, batch) == MarkersFor(rest, batch, {})
WithMarkers(rest, batch) == MarkersFor(rest, batch, TrailingRun(rest))

(* One batch: the removal and the markers that explain it, in one           *)
(* transaction; or with numbers the counter does not know.                  *)
GiveUpUncounted(batch, lost) ==
  LET after == WithMarkers(entries \ lost, batch) IN
  /\ Newest(after).seq <= MaxSeq
  /\ entries' = after
  /\ gone' = [c \in Chain |-> gone[c] + Cardinality({e \in lost : e.chain = c})]
  /\ UNCHANGED seq
GiveUp(batch, lost) ==
  LET after == WithMarkers(entries \ lost, batch)
      last == Newest(after).seq
  IN
  /\ last <= MaxSeq
  /\ entries' = after
  /\ seq' = last
  /\ gone' = [c \in Chain |-> gone[c] + Cardinality({e \in lost : e.chain = c})]

(* _sweep_expired *)
ExpireBatch(t) ==
  LET expired == ExpiredPrefix(task[t].moment - RETENTION_DAYS)
      batch == FirstRows(expired, SWEEP_BATCH_ROWS)
  IN
  /\ At(t, "expire") /\ batch # {}
  /\ GiveUp(batch, UpTo(expired, batch))
  /\ UNCHANGED <<offered, clock, known, log, window, task, unsaid, drops, torn>>

ExpireEnd(t) ==
  LET j == task[t] IN
  /\ At(t, "expire") /\ ExpiredPrefix(j.moment - RETENTION_DAYS) = {}
  /\ Become(t, [step |-> "measure", moment |-> j.moment, then |-> j.then, round |-> 0])
  /\ UNCHANGED <<offered, clock, known, log, table, window, history>>

(* _sweep_over_limit: the size is read before the transaction of a round    *)
Measure(t) ==
  LET j == task[t] IN
  /\ At(t, "measure")
  /\ IF j.round < SWEEP_MAX_ROUNDS /\ Cardinality(entries) > SIZE_LIMIT
     THEN Become(t, [j EXCEPT !.step = "trim"]) /\ UNCHANGED log
     ELSE Finish(t, j.then, j.moment)
  /\ UNCHANGED <<offered, clock, known, table, window, history>>

TrimBatch(t) ==
  LET j == task[t]
      batch == FirstRows(Sweepable, SWEEP_BATCH_ROWS)
  IN
  /\ At(t, "trim") /\ batch # {}
  /\ GiveUp(batch, UpTo(Sweepable, batch))
  /\ Become(t, [j EXCEPT !.step = "measure", !.round = @ + 1])
  /\ UNCHANGED <<offered, clock, known, log, window, unsaid, drops, torn>>

TrimEnd(t) ==
  /\ At(t, "trim") /\ Sweepable = {}
  /\ Finish(t, task[t].then, task[t].moment)
  /\ UNCHANGED <<offered, clock, known, table, window, history>>

-----------------------------------------------------------------------------
(* The account check: one list from Nextcloud, then one transaction per     *)
(* silent chain that is not on it.  A list that was not read, or names      *)
(* nobody, keeps all; the instance has accounts beside those in User.       *)
ReadAccounts(t, read) ==
  /\ At(t, "accounts")
  /\ ~read => "fail" \in offered
  /\ Become(t, IF read
               THEN [step |-> "silent", moment |-> task[t].moment, known |-> known] ELSE Idle)
  /\ UNCHANGED <<offered, clock, known, log, table, window, history>>

ReadSilent(t) ==
  LET j == task[t] IN
  /\ At(t, "silent")
  /\ Become(t, [step |-> "drop", moment |-> j.moment,
                todo |-> SilentUsers(j.moment) \ j.known])
  /\ UNCHANGED <<offered, clock, known, log, table, window, history>>

DropUserChain(t) ==
  LET todo == task[t].todo
      u == FirstByName(todo)
      lost == Of(u)
  IN
  /\ At(t, "drop")
  /\ IF todo = {} THEN Become(t, Idle) /\ UNCHANGED <<table, gone, drops>>
     ELSE /\ Become(t, [task[t] EXCEPT !.todo = @ \ {u}])
          /\ IF lost = {} THEN UNCHANGED <<table, gone, drops>>
             ELSE /\ seq < MaxSeq
                  /\ seq' = seq + 1
                  /\ entries' = (entries \ lost) \cup
                       {Marker(seq + 1, LastHash(entries, Instance), u, Cardinality(lost),
                               Newest(lost).seq)}
                  /\ gone' = [gone EXCEPT ![u] = @ + Cardinality(lost)]
                  /\ drops' = drops + 1
  /\ UNCHANGED <<offered, clock, known, log, window, unsaid, torn>>

-----------------------------------------------------------------------------
(* verify_chains: the explained gaps, the names of the chains, and then     *)
(* each chain, in statements of their own.                                  *)
ReadGaps(t) ==
  /\ log \in {"on", "off"} /\ At(t, "idle")
  /\ Become(t, [step |-> "list", gaps |-> ExplainedGaps,
                hurt |-> torn \cup {e.seq : e \in {d \in entries : ~d.whole}}])
  /\ UNCHANGED <<offered, clock, known, log, table, window, history>>

ListChains(t) ==
  /\ At(t, "list")
  /\ Become(t, [step |-> "walk", gaps |-> task[t].gaps, hurt |-> task[t].hurt,
                todo |-> {e.chain : e \in entries}, found |-> {}])
  /\ UNCHANGED <<offered, clock, known, log, table, window, history>>

WalkChain(t) ==
  LET j == task[t]
      c == FirstByName(j.todo)
  IN
  /\ At(t, "walk") /\ j.todo # {}
  /\ Become(t, [j EXCEPT !.todo = @ \ {c},
                         !.found = @ \cup (IF HasFinding(c, j.gaps) THEN {c} ELSE {})])
  /\ UNCHANGED <<offered, clock, known, log, table, window, history>>

Reported(t) == At(t, "walk") /\ task[t].todo = {}

Report(t) ==
  /\ Reported(t)
  /\ Become(t, Idle)
  /\ UNCHANGED <<offered, clock, known, log, table, window, history>>

-----------------------------------------------------------------------------
(* What goes wrong, and what happens outside *)

StandsOf(j) == IF j.step = "append" THEN j.stands ELSE 0

(* A store error ends the task and is logged; a start that fails serves.    *)
Fail(t) ==
  LET j == task[t] IN
  /\ j.step \in {"boot", "append", "expire", "measure", "trim", "silent", "drop", "list", "walk"}
  /\ unsaid' = unsaid - StandsOf(j)
  /\ Become(t, Idle)
  /\ log' = IF j.step \in {"boot", "expire", "measure", "trim"} /\ j.then \in {"on", "off"}
            THEN j.then ELSE log
  /\ UNCHANGED <<offered, clock, known, table, window, gone, drops, torn>>

Crash ==
  /\ log # "down"
  /\ log' = "down"
  /\ task' = [t \in Task |-> Idle]
  /\ window' = NoWindow
  /\ unsaid' = 0
  /\ UNCHANGED <<offered, clock, known, table, gone, drops, torn>>

Clock ==
  /\ clock' \in {clock + 1} \cup (IF "drift" \in offered THEN {clock - 1} ELSE {})
  /\ clock' \in 0..MaxClock
  /\ UNCHANGED <<offered, known, log, table, window, task, history>>

Administrate(u) ==
  /\ known' = IF u \in known THEN known \ {u} ELSE known \cup {u}
  /\ UNCHANGED <<offered, clock, log, table, window, task, history>>

(* Whoever can write the file: one row removed, or one row altered          *)
Tear(e) ==
  /\ Untouched
  /\ entries' = entries \ {e}
  /\ torn' = {e.seq}
  /\ UNCHANGED <<offered, clock, known, log, seq, window, task, gone, unsaid, drops>>

Alter(e) ==
  /\ Untouched
  /\ entries' = (entries \ {e}) \cup {[e EXCEPT !.whole = FALSE]}
  /\ UNCHANGED <<offered, clock, known, log, seq, window, task, history>>

Work(t) ==
  \/ Boot(t) \/ Append(t)
  \/ ExpireBatch(t) \/ ExpireEnd(t) \/ Measure(t) \/ TrimBatch(t) \/ TrimEnd(t)
  \/ \E read \in BOOLEAN : ReadAccounts(t, read)
  \/ ReadSilent(t) \/ DropUserChain(t)
  \/ ListChains(t) \/ WalkChain(t) \/ Report(t)

Next ==
  \/ \E t \in Task :
       \/ \E setting \in {"on", "off"} : Start(t, setting)
       \/ "call" \in offered /\ \E u \in User : Note(t, u)
       \/ "refusal" \in offered /\ NoteRefusal(t)
       \/ "check" \in offered /\ ReadGaps(t)
       \/ Work(t)
       \/ "fail" \in offered /\ Fail(t)
  \/ "crash" \in offered /\ Crash
  \/ "accounts" \in offered /\ \E u \in User : Administrate(u)
  \/ "tear" \in offered /\ \E e \in entries : Tear(e)
  \/ "alter" \in offered /\ \E e \in entries : Alter(e)
  \/ Clock

Spec == Init /\ [][Next]_vars

-----------------------------------------------------------------------------
(* Properties *)

(* No false alarm: a table nobody touched has no finding, whatever swept,   *)
(* dropped, failed or died, and however the clock stepped (WR-01, WR-02).   *)
Linked == Untouched => Findings = {}

(* The markers account for every row a chain gave up, although they are     *)
(* absorbed and rewritten by every later batch.                             *)
GapsAreCounted ==
  torn = {} => \A c \in Chain : gone[c] = MapThenSumSet(RemovedOf, {m \in Tombstones : m.gap = c})

(* The register grows with switches and chains, and with chains dropped     *)
(* whole, never with sweeps (WR-03).                                        *)
RegisterIsBounded ==
  torn = {} => Cardinality(Tombstones)
                 <= (Cardinality(SwitchRows) + 1) * Cardinality(Chain \ {Instance}) + drops

(* Every refused exchange is swallowed by the open window or in flight, or  *)
(* a row stands for it, or a logged failure or a dead process lost it.      *)
RefusalsAreCounted ==
  unsaid = window.swallowed
             + MapThenSumSet(LAMBDA t : StandsOf(task[t]), Task)

(* A check that began after a row was altered, or removed by hand, names    *)
(* the chain of that row, or of the row behind the hole, if it is still     *)
(* there; whatever sweeps meanwhile.                                        *)
ManipulationIsFound ==
  \A t \in Task : Reported(t) =>
    \A e \in entries :
      \/ ~e.whole /\ e.seq \in task[t].hurt
      \/ e.prev \in task[t].hurt \cap torn
      => e.chain \in task[t].found

(* verify_chains: "An untouched store answers with an empty list."          *)
CheckIsHonest == \A t \in Task : Reported(t) /\ Untouched => task[t].found = {}

(* The retention window takes no row that is younger than it.               *)
YoungRowsStay ==
  [][\A t \in Task : ExpireBatch(t) =>
       \A e \in Sweepable \ entries' : e.at <= task[t].moment - RETENTION_DAYS]_vars

(* Every batch takes at least one row, so the two loops end by themselves,  *)
(* and however two sweeps share the work.                                   *)
SweepGainsGround ==
  [][\A t \in Task : ExpireBatch(t) \/ TrimBatch(t) =>
       Cardinality(Sweepable') < Cardinality(Sweepable)]_vars
=============================================================================
