-------------------------------- MODULE Throttle --------------------------------
(***************************************************************************)
(* The throttle of the authorization paths.  A counter is asked before a   *)
(* request is served and told after it, with the whole request in between; *)
(* counters live for one window and there are only so many of them.        *)
(***************************************************************************)
EXTENDS Integers, FiniteSets

CONSTANTS
  Request,       \* requests in flight
  Class,         \* path classes
  Counts,        \* what a class counts: "refusals", "all" requests, or per "account"
  Source,        \* addresses; for a class per account, accounts
  Limit,         \* the limit of one source, per class
  PATH_CEILING, WINDOW, SOURCE_LIMIT,
  MaxClock,      \* bound of the clock
  Whole, None    \* the counter of a whole class; nobody

VARIABLES
  clock,
  counters,      \* Throttle._counters
  owed,          \* history: refusals less successes in the life of a counter
  pc, job        \* a request, its class and its source

vars == <<clock, counters, owed, pc, job>>

ThrottleAssumption ==
  /\ Counts \in [Class -> {"refusals", "all", "account"}]
  /\ Limit \in [Class -> Nat \ {0}]
  /\ {PATH_CEILING, WINDOW, SOURCE_LIMIT} \subseteq Nat \ {0}
  /\ Whole \notin Source /\ None \notin Class

Key == Class \X (Source \cup {Whole})
NoCounter == [seen |-> 0, until |-> -1]
NoJob == [class |-> None, source |-> None]
Held == {k \in Key : counters[k] # NoCounter}

TypeOK ==
  /\ clock \in 0..MaxClock
  /\ counters \in [Key -> [seen: Nat, until: 0..(MaxClock + WINDOW) \cup {-1}]]
  /\ owed \in [Key -> Nat]
  /\ pc \in [Request -> {"idle", "serving"}]
  /\ Cardinality(Held) <= SOURCE_LIMIT + 1

Init ==
  /\ clock = 0
  /\ counters = [k \in Key |-> NoCounter] /\ owed = [k \in Key |-> 0]
  /\ pc = [r \in Request |-> "idle"] /\ job = [r \in Request |-> NoJob]

Tick == clock < MaxClock /\ clock' = clock + 1 /\ UNCHANGED <<counters, owed, pc, job>>

-----------------------------------------------------------------------------
Shared(c) == Counts[c] # "account"
Running(k) == counters[k].until > clock
Full(k, bound) == Running(k) /\ counters[k].seen >= bound

(* retry_after: 0 when the caller may go ahead *)
MayGo(c, s) == ~Full(<<c, s>>, Limit[c]) /\ (Shared(c) => ~Full(<<c, Whole>>, PATH_CEILING))

(* _sweep with only its first half *)
WithoutWhatRanOut == IF Cardinality(Held) < SOURCE_LIMIT THEN Held ELSE {k \in Held : Running(k)}

(* _sweep: what has run out goes, and everything when that is not enough *)
AfterSweep ==
  IF Cardinality(Held) < SOURCE_LIMIT THEN Held
  ELSE LET living == {k \in Held : Running(k)}
       IN IF Cardinality(living) < SOURCE_LIMIT THEN living ELSE {}

(* record_attempt *)
Record(c, s) ==
  LET told == {<<c, s>>} \cup (IF Shared(c) THEN {<<c, Whole>>} ELSE {})
      left == AfterSweep
      goesOn(k) == k \in left /\ Running(k)
  IN
  /\ counters' = [k \in Key |->
       IF k \in told
       THEN IF goesOn(k) THEN [counters[k] EXCEPT !.seen = @ + 1]
            ELSE [seen |-> 1, until |-> clock + WINDOW]
       ELSE IF k \in left THEN counters[k] ELSE NoCounter]
  /\ owed' = [k \in Key |-> IF k \in told THEN IF goesOn(k) THEN owed[k] + 1 ELSE 1
                            ELSE IF k \in left THEN owed[k] ELSE 0]

(* forgive: one failure is paid back, never the whole window *)
PayAll(n) == 0
PayOne(n) == n - 1

Forgive(c, s) ==
  LET k == <<c, s>> IN
  IF counters[k].seen > 0
  THEN /\ counters' = [counters EXCEPT ![k].seen = PayOne(@)]
       /\ owed' = [owed EXCEPT ![k] = @ - 1]
  ELSE UNCHANGED <<counters, owed>>

(* Throttled: refused, counted before the work, or served and judged afterwards *)
Arrive(r, c, s) ==
  /\ pc[r] = "idle" /\ MayGo(c, s)
  /\ IF Counts[c] = "all"
     THEN Record(c, s) /\ UNCHANGED <<pc, job>>
     ELSE /\ pc' = [pc EXCEPT ![r] = "serving"]
          /\ job' = [job EXCEPT ![r] = [class |-> c, source |-> s]]
          /\ UNCHANGED <<counters, owed>>
  /\ UNCHANGED clock

Answer(r, refused) ==
  /\ pc[r] = "serving"
  /\ IF refused THEN Record(job[r].class, job[r].source) ELSE Forgive(job[r].class, job[r].source)
  /\ pc' = [pc EXCEPT ![r] = "idle"] /\ job' = [job EXCEPT ![r] = NoJob]
  /\ UNCHANGED clock

(* a handler that raises is neither counted nor forgiven *)
Raise(r) ==
  /\ pc[r] = "serving"
  /\ pc' = [pc EXCEPT ![r] = "idle"] /\ job' = [job EXCEPT ![r] = NoJob]
  /\ UNCHANGED <<clock, counters, owed>>

Next ==
  \/ Tick
  \/ \E r \in Request : \/ \E c \in Class, s \in Source : Arrive(r, c, s)
                        \/ \E refused \in BOOLEAN : Answer(r, refused)
                        \/ Raise(r)

Spec == Init /\ [][Next]_vars

-----------------------------------------------------------------------------
(* In the life of one counter, refusals exceed successes by no more than    *)
(* the limit and the requests that were under way together when it filled;  *)
(* where the request itself is counted, by not even one more than the limit *)
(* (retry_after, record_attempt and forgive, with the request between them).*)
Allowed(k) == IF k[2] = Whole THEN PATH_CEILING ELSE Limit[k[1]]
Overlap(c) == IF Counts[c] = "all" THEN 0 ELSE Cardinality(Request) - 1

BurstIsBounded == \A k \in Key : owed[k] <= Allowed(k) + Overlap(k[1])
=============================================================================
