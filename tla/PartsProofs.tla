------------------------------ MODULE PartsProofs ------------------------------
(***************************************************************************)
(* What the small services around the authorization server promise, for    *)
(* every number of requests, accounts, files and keys.  One instance per   *)
(* service, over the variables of its own module; a variable that several  *)
(* of them have stands for a different thing in each.                      *)
(***************************************************************************)
EXTENDS Integers, FiniteSets, Sequences, TLAPS, FiniteSetTheorems, SequenceTheorems,
        NaturalsInduction, WellFoundedInduction

CONSTANTS
  None,
  (* Throttle *)
  Request, Class, Counts, Source, Limit, PATH_CEILING, WINDOW, SOURCE_LIMIT, Whole,
  (* DataKey *)
  Worker, Key, Mode,
  (* Onboarding *)
  Flow, Wait, Account, FLOW_TTL,
  MaxClock,       \* bound of the clock of the throttle and of the onboarding
  (* Deployment *)
  Address, Environments, MaxChanges,
  (* RequestPath *)
  Bearer, Basic, Owner, Way,
  (* AccountPage: its accounts and the owners of its connections *)
  Visitor, Conn, OwnerOfConn, Tab, MaxHour,
  (* ToolWrites: what its calls are and want, and how much people rename *)
  Call, Makes, Wants, Title, Column, Mandatory, Room, Calendar, Default, Renames,
  (* FileWrites *)
  Client, Plan, Does, MIN_UPLOAD_CHUNK_BYTES, HARD_UPLOAD_CHUNK_BYTES, MaxVersions,
  (* ClientDocuments: the return addresses, and bounds of its own *)
  Caller, ReturnAddress, Registrable, Offers, Rules, CACHE_MIN, CACHE_MAX, Seconds,
  DocChanges, Never,
  (* OidcClient: its sign-ins, and a bound of its own *)
  Visit, RETRY, LEEWAY, LIFETIME, Ticks,
  (* Extraction, and its calls *)
  Conversion, Documents, MAX_CONCURRENT, MAX_SOURCE_BYTES, MAX_PAGES, MAX_ROWS, MAX_COLS,
  MAX_OUTPUT_CHARS

VARIABLES
  clock, pc, job, call, changes, paused,
  counters, owed,                                             \* Throttle
  kept, checked, rows, worker, used, lost,                    \* DataKey
  record, login, owner, password, wait, shown, mishap,        \* Onboarding
  deploy, stored, enabled, proc, log,                         \* Deployment
  entry, env, up, alive,                                      \* RequestPath
  hour, state, held, offered, tab,                            \* AccountPage
  titles, create, rooms, names, calls, made, meant,           \* ToolWrites
  file, versions, upload, staging, knows, replaced,           \* FileWrites
  document, named, host, policy, row, contacted,              \* ClientDocuments
  metadata, failedAt, lock, begun,                            \* OidcClient
  queue, body, process                                        \* Extraction

TH == INSTANCE Throttle
KE == INSTANCE DataKey
OB == INSTANCE Onboarding
DP == INSTANCE Deployment
RP == INSTANCE RequestPath
AP == INSTANCE AccountPage WITH Account <- Visitor, Owner <- OwnerOfConn
WR == INSTANCE ToolWrites WITH Does <- Makes, MaxChanges <- Renames
FW == INSTANCE FileWrites
CD == INSTANCE ClientDocuments WITH Address <- ReturnAddress, MaxClock <- Seconds,
  MaxChanges <- DocChanges
OC == INSTANCE OidcClient WITH Call <- Visit, MaxClock <- Ticks
EX == INSTANCE Extraction WITH Request <- Conversion

-----------------------------------------------------------------------------
(* The throttle: a counter that runs leaves room for every request that is   *)
(* being served under it, and what it has seen is what is owed.              *)
ServedUnder(k) ==
  {r \in Request : pc[r] = "serving" /\ job[r].class = k[1] /\ k[2] \in {job[r].source, Whole}}

ThrottleTypes ==
  /\ clock \in Nat
  /\ counters \in [TH!Key -> [seen : Nat, until : Int]]
  /\ owed = [k \in TH!Key |-> counters[k].seen]
  /\ pc \in [Request -> {"idle", "serving"}]
  /\ job \in [Request -> [class : Class \cup {None}, source : Source \cup {None}]]
  /\ \A r \in Request : pc[r] = "serving" =>
       job[r].class \in Class /\ job[r].source \in Source /\ Counts[job[r].class] # "all"

KeyIsBounded(k) ==
  /\ counters[k].seen <= TH!Allowed(k) + TH!Overlap(k[1])
  /\ Counts[k[1]] = "account" /\ k[2] = Whole => counters[k] = TH!NoCounter
  /\ Counts[k[1]] # "all" /\ TH!Running(k) =>
       counters[k].seen + Cardinality(ServedUnder(k)) <= TH!Allowed(k) + Cardinality(Request) - 1

ThrottleInv == ThrottleTypes /\ \A k \in TH!Key : KeyIsBounded(k)

(* The library counts for the throttle as it does here.                      *)
LEMMA ThrottleCounts == ASSUME NEW S PROVE TH!Cardinality(S) = Cardinality(S)
BY DEF TH!Cardinality, Cardinality

LEMMA OverlapIs ==
  ASSUME NEW c PROVE TH!Overlap(c) = IF Counts[c] = "all" THEN 0 ELSE Cardinality(Request) - 1
BY ThrottleCounts DEF TH!Overlap

(* Some of the requests: how many they are at most *)
LEMMA SomeRequests ==
  ASSUME IsFiniteSet(Request), NEW S \in SUBSET Request, NEW T \in SUBSET S
  PROVE  /\ IsFiniteSet(S) /\ Cardinality(S) \in Nat /\ Cardinality(Request) \in Nat
         /\ Cardinality(T) \in Nat /\ Cardinality(S) <= Cardinality(Request)
         /\ Cardinality(T) <= Cardinality(S)
         /\ \A r \in S : r \notin T => Cardinality(T) + 1 <= Cardinality(S)
         /\ \A r \in Request : r \notin S => Cardinality(S) + 1 <= Cardinality(Request)
<1>1. IsFiniteSet(S) /\ IsFiniteSet(T)
  BY FS_Subset
<1>2. Cardinality(S) \in Nat /\ Cardinality(Request) \in Nat /\ Cardinality(T) \in Nat
  BY <1>1, FS_CardinalityType
<1>3. Cardinality(S) <= Cardinality(Request) /\ Cardinality(T) <= Cardinality(S)
  BY <1>1, FS_Subset
<1>4. ASSUME NEW r \in S, r \notin T PROVE Cardinality(T) + 1 <= Cardinality(S)
  <2>1. T \cup {r} \in SUBSET S
    BY <1>4
  <2>2. Cardinality(T \cup {r}) = Cardinality(T) + 1
    BY <1>1, <1>4, FS_AddElement
  <2> QED BY <1>1, <2>1, <2>2, FS_Subset
<1>5. ASSUME NEW r \in Request, r \notin S PROVE Cardinality(S) + 1 <= Cardinality(Request)
  <2>1. S \cup {r} \in SUBSET Request
    BY <1>5
  <2>2. Cardinality(S \cup {r}) = Cardinality(S) + 1
    BY <1>1, <1>5, FS_AddElement
  <2> QED BY <2>1, <2>2, FS_Subset
<1> QED BY <1>1, <1>2, <1>3, <1>4, <1>5

LEMMA AllowedIs ==
  ASSUME TH!ThrottleAssumption, NEW k \in TH!Key
  PROVE  /\ TH!Allowed(k) \in Nat \ {0} /\ k[1] \in Class /\ k[2] \in Source \cup {Whole}
         /\ k = <<k[1], k[2]>>
BY DEF TH!ThrottleAssumption, TH!Key, TH!Allowed

(* What a refusal, or an attempt that is counted, does to the counters       *)
ToldOf(c, s) == {<<c, s>>} \cup (IF TH!Shared(c) THEN {<<c, Whole>>} ELSE {})

LEMMA RecordCounts ==
  ASSUME TH!ThrottleAssumption, ThrottleTypes, NEW c \in Class, NEW s \in Source,
         TH!Record(c, s)
  PROVE  /\ counters' \in [TH!Key -> [seen : Nat, until : Int]]
         /\ owed' = [k \in TH!Key |-> counters'[k].seen]
         /\ \A k \in TH!Key \ ToldOf(c, s) : counters'[k] \in {counters[k], TH!NoCounter}
         /\ \A k \in ToldOf(c, s) :
              \/ TH!Running(k) /\ counters'[k].seen = counters[k].seen + 1
              \/ counters'[k].seen = 1
<1> DEFINE told == {<<c, s>>} \cup (IF TH!Shared(c) THEN {<<c, Whole>>} ELSE {})
           left == TH!AfterSweep
           goesOn(k) == k \in left /\ TH!Running(k)
           new(k) == IF k \in told
                     THEN IF goesOn(k) THEN [counters[k] EXCEPT !.seen = @ + 1]
                          ELSE [seen |-> 1, until |-> clock + WINDOW]
                     ELSE IF k \in left THEN counters[k] ELSE TH!NoCounter
<1>1. /\ counters' = [k \in TH!Key |-> new(k)]
      /\ owed' = [k \in TH!Key |-> IF k \in told THEN IF goesOn(k) THEN owed[k] + 1 ELSE 1
                                   ELSE IF k \in left THEN owed[k] ELSE 0]
  BY DEF TH!Record
<1>2. WINDOW \in Nat /\ clock + WINDOW \in Int
  BY DEF TH!ThrottleAssumption, ThrottleTypes
<1>3. told \subseteq TH!Key /\ told = ToldOf(c, s)
  BY DEF TH!Key, ToldOf
<1> HIDE DEF left
<1>4. ASSUME NEW k \in TH!Key
      PROVE  /\ new(k) \in [seen : Nat, until : Int]
             /\ k \in told /\ goesOn(k) => new(k).seen = counters[k].seen + 1
             /\ k \in told /\ ~ goesOn(k) => new(k).seen = 1
             /\ k \notin told => new(k) \in {counters[k], TH!NoCounter}
             /\ k \notin told /\ k \notin left => new(k).seen = 0
             /\ k \notin told /\ k \in left => new(k) = counters[k]
             /\ owed[k] = counters[k].seen
  <2>1. counters[k] \in [seen : Nat, until : Int] /\ owed[k] = counters[k].seen
    BY <1>4 DEF ThrottleTypes
  <2>2. TH!NoCounter \in [seen : Nat, until : Int] /\ TH!NoCounter.seen = 0
    BY DEF TH!NoCounter
  <2> HIDE DEF told
  <2> QED BY <1>2, <2>1, <2>2
<1>5. \A k \in TH!Key : counters'[k] = new(k)
  BY <1>1
<1> HIDE DEF new, told, goesOn
<1>6. counters' \in [TH!Key -> [seen : Nat, until : Int]]
  BY <1>1, <1>4
<1>7. owed' = [k \in TH!Key |-> counters'[k].seen]
  BY <1>1, <1>4, <1>5
<1>8. \A k \in TH!Key \ told : counters'[k] \in {counters[k], TH!NoCounter}
  BY <1>4, <1>5
<1>9. \A k \in told : \/ TH!Running(k) /\ counters'[k].seen = counters[k].seen + 1
                      \/ counters'[k].seen = 1
  BY <1>3, <1>4, <1>5 DEF goesOn
<1> QED BY <1>3, <1>6, <1>7, <1>8, <1>9

(* A counter that is left alone while no further request comes under it      *)
LEMMA LeftAlone ==
  ASSUME TH!ThrottleAssumption, IsFiniteSet(Request), ThrottleTypes, NEW k \in TH!Key,
         KeyIsBounded(k), clock' = clock,
         counters'[k] \in {counters[k], TH!NoCounter}, ServedUnder(k)' \subseteq ServedUnder(k)
  PROVE  KeyIsBounded(k)'
<1>1. /\ ServedUnder(k) \in SUBSET Request /\ ServedUnder(k)' \in SUBSET ServedUnder(k)
  BY DEF ServedUnder
<1> DEFINE S == ServedUnder(k)
           T == ServedUnder(k)'
<1>2. S \in SUBSET Request /\ T \in SUBSET S
  BY <1>1
<1> HIDE DEF S, T
<1>3. /\ Cardinality(S) \in Nat /\ Cardinality(T) \in Nat /\ Cardinality(Request) \in Nat
      /\ Cardinality(T) <= Cardinality(S)
  BY <1>2, SomeRequests
<1>4. counters[k].seen \in Nat /\ counters[k].until \in Int
  BY DEF ThrottleTypes
<1>5. TH!Allowed(k) \in Nat \ {0} /\ k[1] \in Class
  BY AllowedIs
<1>6. CASE counters'[k] = counters[k]
  BY <1>3, <1>4, <1>5, <1>6 DEF KeyIsBounded, TH!Running, TH!Allowed, TH!Overlap, S, T
<1>7. CASE counters'[k] = TH!NoCounter
  <2>1. ~ (counters'[k].until > clock') /\ counters'[k].seen = 0
    BY <1>7 DEF ThrottleTypes, TH!NoCounter
  <2>2. TH!Overlap(k[1]) \in {0, Cardinality(Request) - 1}
    BY <1>3, OverlapIs
  <2> QED BY <1>3, <1>5, <1>7, <2>1, <2>2 DEF KeyIsBounded, TH!Running, TH!Allowed, TH!Overlap
<1> QED BY <1>6, <1>7

LEMMA ThrottleBegins ==
  ASSUME TH!ThrottleAssumption, IsFiniteSet(Request), TH!Init
  PROVE  ThrottleInv
<1>1. ThrottleTypes
  BY DEF TH!Init, ThrottleTypes, TH!NoCounter, TH!NoJob
<1>2. ASSUME NEW k \in TH!Key PROVE KeyIsBounded(k)
  <2>1. counters[k] = TH!NoCounter /\ ~ TH!Running(k) /\ counters[k].seen = 0
    BY DEF TH!Init, TH!NoCounter, TH!Running
  <2>3. Cardinality(Request) \in Nat
    BY FS_CardinalityType
  <2>2. TH!Overlap(k[1]) \in {0, Cardinality(Request) - 1}
    BY <2>3, OverlapIs
  <2> QED BY <2>1, <2>2, <2>3, AllowedIs DEF KeyIsBounded
<1> QED BY <1>1, <1>2 DEF ThrottleInv

(* An attempt that is counted, or a refusal, by a request that is no longer  *)
(* being served                                                              *)
LEMMA CountedOnce ==
  ASSUME TH!ThrottleAssumption, IsFiniteSet(Request), ThrottleInv, NEW c \in Class,
         NEW s \in Source, NEW k \in TH!Key, TH!Record(c, s), clock' = clock,
         ServedUnder(k)' \subseteq ServedUnder(k),
         Counts[c] = "all" => TH!MayGo(c, s),
         Counts[c] # "all" => \A x \in ToldOf(c, s) : \E r \in ServedUnder(x) : r \notin ServedUnder(x)'
  PROVE  KeyIsBounded(k)'
<1>1. /\ \A x \in TH!Key \ ToldOf(c, s) : counters'[x] \in {counters[x], TH!NoCounter}
      /\ \A x \in ToldOf(c, s) : \/ TH!Running(x) /\ counters'[x].seen = counters[x].seen + 1
                                 \/ counters'[x].seen = 1
  BY RecordCounts DEF ThrottleInv
<1>2. CASE k \notin ToldOf(c, s)
  BY <1>1, <1>2, LeftAlone DEF ThrottleInv
<1>3. CASE k \in ToldOf(c, s)
  <2> DEFINE S == ServedUnder(k)
             T == ServedUnder(k)'
  <2>1. S \in SUBSET Request /\ T \in SUBSET S
    BY DEF ServedUnder
  <2>2. Counts[c] # "all" => \E r \in S : r \notin T
    BY <1>3
  <2>3. KeyIsBounded(k) /\ counters[k].seen \in Nat
    BY DEF ThrottleInv, ThrottleTypes
  <2>4. k[1] = c /\ k[2] \in {s, Whole} /\ (k[2] = Whole => Counts[c] # "account")
    BY <1>3 DEF ToldOf, TH!Shared, TH!ThrottleAssumption
  <2>5. TH!Allowed(k) \in Nat \ {0} /\ TH!Allowed(k)' = TH!Allowed(k)
    BY AllowedIs DEF TH!Allowed
  <2>6. ASSUME Counts[c] = "all"
        PROVE  counters'[k].seen <= TH!Allowed(k) /\ TH!Overlap(c) = 0
    <3>1. TH!Running(k) => counters[k].seen < TH!Allowed(k)
      <4>1. ~ TH!Full(<<c, s>>, Limit[c]) /\ ~ TH!Full(<<c, Whole>>, PATH_CEILING)
        BY <2>6 DEF TH!MayGo, TH!Shared
      <4>2. k = <<c, s>> \/ k = <<c, Whole>>
        BY <1>3 DEF ToldOf
      <4> QED BY <2>3, <2>5, <4>1, <4>2 DEF TH!Full, TH!Allowed, TH!ThrottleAssumption
    <3> QED BY <1>1, <1>3, <2>3, <2>5, <2>6, <3>1 DEF TH!Overlap
  <2>7. ASSUME Counts[c] # "all"
        PROVE  /\ counters'[k].seen + Cardinality(T) <= TH!Allowed(k) + Cardinality(Request) - 1
               /\ counters'[k].seen <= TH!Allowed(k) + Cardinality(Request) - 1
    <3> HIDE DEF S, T
    <3>1. /\ Cardinality(S) \in Nat /\ Cardinality(T) \in Nat /\ Cardinality(Request) \in Nat
          /\ Cardinality(T) + 1 <= Cardinality(S) /\ Cardinality(S) <= Cardinality(Request)
      BY <2>1, <2>2, <2>7, SomeRequests
    <3>2. TH!Running(k) => counters[k].seen + Cardinality(S) <= TH!Allowed(k) + Cardinality(Request) - 1
      BY <2>3, <2>4, <2>7 DEF KeyIsBounded, S
    <3> QED BY <1>1, <1>3, <2>3, <2>5, <3>1, <3>2
  <2> HIDE DEF S
  <2>8. CASE Counts[c] = "all"
    BY <2>4, <2>5, <2>6, <2>8 DEF KeyIsBounded, TH!Overlap
  <2>9. CASE Counts[c] # "all"
    BY <2>4, <2>5, <2>7, <2>9, OverlapIs DEF KeyIsBounded, T
  <2> QED BY <2>8, <2>9
<1> QED BY <1>2, <1>3

LEMMA ServingSteps ==
  ASSUME TH!ThrottleAssumption, IsFiniteSet(Request), ThrottleInv, TH!Next
  PROVE  ThrottleInv'
<1>1. ASSUME TH!Tick PROVE ThrottleInv'
  <2>1. ThrottleTypes'
    BY <1>1 DEF TH!Tick, ThrottleInv, ThrottleTypes
  <2>2. ASSUME NEW k \in TH!Key PROVE KeyIsBounded(k)'
    <3>1. clock \in Nat /\ clock' = clock + 1 /\ counters' = counters /\ pc' = pc /\ job' = job
      BY <1>1 DEF TH!Tick, ThrottleInv, ThrottleTypes
    <3>2. counters[k].until \in Int
      BY DEF ThrottleInv, ThrottleTypes
    <3>3. TH!Running(k)' => TH!Running(k)
      BY <3>1, <3>2 DEF TH!Running
    <3>4. ServedUnder(k)' = ServedUnder(k)
      BY <3>1 DEF ServedUnder
    <3> QED BY <3>1, <3>3, <3>4 DEF ThrottleInv, KeyIsBounded, TH!Allowed, TH!Overlap
  <2> QED BY <2>1, <2>2 DEF ThrottleInv
<1>2. ASSUME NEW r \in Request, NEW c \in Class, NEW s \in Source, TH!Arrive(r, c, s)
      PROVE  ThrottleInv'
  <2>1. pc[r] = "idle" /\ TH!MayGo(c, s) /\ clock' = clock
    BY <1>2 DEF TH!Arrive
  <2>2. CASE Counts[c] = "all"
    <3>1. TH!Record(c, s) /\ pc' = pc /\ job' = job
      BY <1>2, <2>2 DEF TH!Arrive
    <3>2. ThrottleTypes'
      BY <2>1, <3>1, RecordCounts DEF ThrottleInv, ThrottleTypes
    <3>3. \A k \in TH!Key : ServedUnder(k)' = ServedUnder(k)
      BY <3>1 DEF ServedUnder
    <3>4. ASSUME NEW k \in TH!Key PROVE KeyIsBounded(k)'
      BY <2>1, <2>2, <3>1, <3>3, CountedOnce
    <3> QED BY <3>2, <3>4 DEF ThrottleInv
  <2>3. CASE Counts[c] # "all"
    <3>1. /\ pc' = [pc EXCEPT ![r] = "serving"]
          /\ job' = [job EXCEPT ![r] = [class |-> c, source |-> s]]
          /\ counters' = counters /\ owed' = owed
      BY <1>2, <2>3 DEF TH!Arrive
    <3>2. ThrottleTypes'
      BY <2>1, <2>3, <3>1 DEF ThrottleInv, ThrottleTypes
    <3>3. ASSUME NEW k \in TH!Key PROVE KeyIsBounded(k)'
      <4>1. r \notin ServedUnder(k)
        BY <2>1 DEF ServedUnder
      <4>2. ASSUME ~ (k[1] = c /\ k[2] \in {s, Whole}) PROVE KeyIsBounded(k)'
        <5>1. ServedUnder(k)' \subseteq ServedUnder(k)
          BY <3>1, <4>2 DEF ThrottleInv, ThrottleTypes, ServedUnder
        <5> QED BY <2>1, <3>1, <5>1, LeftAlone DEF ThrottleInv
      <4>3. ASSUME k[1] = c /\ k[2] \in {s, Whole} PROVE KeyIsBounded(k)'
        <5> DEFINE S == ServedUnder(k)
                   T == ServedUnder(k)'
        <5>1. S \in SUBSET Request /\ T \in SUBSET Request
          BY DEF ServedUnder
        <5>2. KeyIsBounded(k) /\ counters[k].seen \in Nat /\ counters[k].until \in Int
          BY DEF ThrottleInv, ThrottleTypes
        <5>3. TH!Allowed(k) \in Nat \ {0} /\ k = <<k[1], k[2]>> /\ TH!Allowed(k)' = TH!Allowed(k)
          BY AllowedIs DEF TH!Allowed
        <5>4. TH!Running(k) => counters[k].seen < TH!Allowed(k)
          <6>1. CASE k[2] = Whole /\ Counts[c] = "account"
            BY <4>3, <5>2, <6>1 DEF KeyIsBounded, TH!NoCounter, TH!Running, ThrottleInv, ThrottleTypes
          <6>2. CASE k[2] = Whole /\ Counts[c] # "account"
            BY <2>1, <4>3, <5>2, <5>3, <6>2 DEF TH!MayGo, TH!Shared, TH!Full, TH!Allowed
          <6>3. CASE k[2] # Whole
            BY <2>1, <4>3, <5>2, <5>3, <6>3 DEF TH!MayGo, TH!Full, TH!Allowed
          <6> QED BY <6>1, <6>2, <6>3
        <5>5. Cardinality(T) \in Nat /\ Cardinality(Request) \in Nat /\ Cardinality(T) <= Cardinality(Request)
          <6> HIDE DEF S, T
          <6> QED BY <5>1, SomeRequests
        <5>6. TH!Running(k)' = TH!Running(k)
          BY <2>1, <3>1 DEF TH!Running
        <5> HIDE DEF S
        <5> QED BY <3>1, <4>3, <5>2, <5>3, <5>4, <5>5, <5>6 DEF KeyIsBounded, TH!Overlap, T
      <4> QED BY <4>2, <4>3
    <3> QED BY <3>2, <3>3 DEF ThrottleInv
  <2> QED BY <2>2, <2>3
<1>3. ASSUME NEW r \in Request, pc[r] = "serving", pc' = [pc EXCEPT ![r] = "idle"],
             job' = [job EXCEPT ![r] = TH!NoJob], clock' = clock
      PROVE  /\ pc' \in [Request -> {"idle", "serving"}] /\ pc'[r] = "idle"
             /\ job' \in [Request -> [class : Class \cup {None}, source : Source \cup {None}]]
             /\ \A q \in Request : pc'[q] = "serving" =>
                  job'[q].class \in Class /\ job'[q].source \in Source /\ Counts[job'[q].class] # "all"
             /\ \A k \in TH!Key : ServedUnder(k)' \subseteq ServedUnder(k) \ {r}
  <2>1. TH!NoJob \in [class : Class \cup {None}, source : Source \cup {None}]
    BY DEF TH!NoJob
  <2> QED BY <1>3, <2>1 DEF ThrottleInv, ThrottleTypes, ServedUnder
<1>4. ASSUME NEW r \in Request, TH!Answer(r, TRUE) PROVE ThrottleInv'
  <2> DEFINE c == job[r].class
             s == job[r].source
  <2>1. /\ pc[r] = "serving" /\ pc' = [pc EXCEPT ![r] = "idle"]
        /\ job' = [job EXCEPT ![r] = TH!NoJob] /\ clock' = clock /\ TH!Record(c, s)
    BY <1>4 DEF TH!Answer
  <2>2. c \in Class /\ s \in Source /\ Counts[c] # "all"
    BY <2>1 DEF ThrottleInv, ThrottleTypes
  <2>3. \A x \in ToldOf(c, s) : r \in ServedUnder(x) /\ x \in TH!Key
    BY <2>1, <2>2 DEF ToldOf, ServedUnder, TH!Key
  <2>4. \A k \in TH!Key : ServedUnder(k)' \subseteq ServedUnder(k) /\ r \notin ServedUnder(k)'
    BY <1>3, <2>1
  <2> HIDE DEF c, s
  <2>5. ThrottleTypes'
    BY <1>3, <2>1, <2>2, RecordCounts DEF ThrottleInv, ThrottleTypes
  <2>6. ASSUME NEW k \in TH!Key PROVE KeyIsBounded(k)'
    BY <2>1, <2>2, <2>3, <2>4, CountedOnce
  <2> QED BY <2>5, <2>6 DEF ThrottleInv
<1>5. ASSUME NEW r \in Request, TH!Answer(r, FALSE) PROVE ThrottleInv'
  <2> DEFINE c == job[r].class
             s == job[r].source
             p == <<c, s>>
  <2>1. /\ pc[r] = "serving" /\ pc' = [pc EXCEPT ![r] = "idle"]
        /\ job' = [job EXCEPT ![r] = TH!NoJob] /\ clock' = clock /\ TH!Forgive(c, s)
    BY <1>5 DEF TH!Answer
  <2>2. c \in Class /\ s \in Source /\ p \in TH!Key /\ p[2] # Whole
    BY <2>1 DEF ThrottleInv, ThrottleTypes, TH!Key, TH!ThrottleAssumption
  <2>3. \A k \in TH!Key : ServedUnder(k)' \subseteq ServedUnder(k)
    BY <1>3, <2>1
  <2>4. CASE ~ counters[p].seen > 0
    <3>1. counters' = counters /\ owed' = owed
      BY <2>1, <2>4 DEF TH!Forgive
    <3>2. ThrottleTypes'
      BY <1>3, <2>1, <3>1 DEF ThrottleInv, ThrottleTypes
    <3>3. ASSUME NEW k \in TH!Key PROVE KeyIsBounded(k)'
      BY <2>1, <2>3, <3>1, LeftAlone DEF ThrottleInv
    <3> QED BY <3>2, <3>3 DEF ThrottleInv
  <2>5. CASE counters[p].seen > 0
    <3>1. /\ counters' = [counters EXCEPT ![p].seen = counters[p].seen - 1]
          /\ owed' = [owed EXCEPT ![p] = owed[p] - 1]
      BY <2>1, <2>5 DEF TH!Forgive, TH!PayOne
    <3> HIDE DEF c, s, p
    <3>2. counters \in [TH!Key -> [seen : Nat, until : Int]] /\ owed = [k \in TH!Key |-> counters[k].seen]
      BY DEF ThrottleInv, ThrottleTypes
    <3>3. /\ counters' \in [TH!Key -> [seen : Nat, until : Int]]
          /\ counters'[p].seen = counters[p].seen - 1 /\ counters'[p].until = counters[p].until
          /\ \A k \in TH!Key : k # p => counters'[k] = counters[k]
      BY <2>2, <2>5, <3>1, <3>2
    <3>4. owed' = [k \in TH!Key |-> counters'[k].seen]
      BY <2>2, <3>1, <3>2, <3>3
    <3>5. ThrottleTypes'
      BY <1>3, <2>1, <3>3, <3>4 DEF ThrottleInv, ThrottleTypes
    <3>6. ASSUME NEW k \in TH!Key, k # p PROVE KeyIsBounded(k)'
      BY <2>1, <2>3, <3>3, <3>6, LeftAlone DEF ThrottleInv
    <3>7. ASSUME NEW k \in TH!Key, k = p PROVE KeyIsBounded(k)'
      <4> DEFINE S == ServedUnder(k)
                 T == ServedUnder(k)'
      <4>1. S \in SUBSET Request /\ T \in SUBSET S
        BY <2>3 DEF ServedUnder
      <4>2. KeyIsBounded(k) /\ TH!Allowed(k) \in Nat \ {0} /\ TH!Allowed(k)' = TH!Allowed(k)
        BY AllowedIs DEF ThrottleInv, TH!Allowed
      <4>3. counters[k].seen \in Nat /\ (TH!Running(k)' <=> TH!Running(k))
        BY <2>1, <3>2, <3>3, <3>7 DEF TH!Running
      <4>4. /\ Cardinality(S) \in Nat /\ Cardinality(T) \in Nat /\ Cardinality(Request) \in Nat
            /\ Cardinality(T) <= Cardinality(S)
        <5> HIDE DEF S, T
        <5> QED BY <4>1, SomeRequests
      <4>5. TH!Overlap(k[1]) \in {0, Cardinality(Request) - 1} /\ TH!Overlap(k[1])' = TH!Overlap(k[1])
        BY <4>4, OverlapIs DEF TH!Overlap
      <4>6. counters'[k].seen = counters[k].seen - 1 /\ k[2] # Whole
        BY <2>2, <3>3, <3>7
      <4> QED BY <4>2, <4>3, <4>4, <4>5, <4>6 DEF KeyIsBounded
    <3> QED BY <3>5, <3>6, <3>7 DEF ThrottleInv
  <2> QED BY <2>4, <2>5
<1>6. ASSUME NEW r \in Request, TH!Raise(r) PROVE ThrottleInv'
  <2>1. /\ pc[r] = "serving" /\ pc' = [pc EXCEPT ![r] = "idle"] /\ job' = [job EXCEPT ![r] = TH!NoJob]
        /\ clock' = clock /\ counters' = counters /\ owed' = owed
    BY <1>6 DEF TH!Raise
  <2>2. ThrottleTypes'
    BY <1>3, <2>1 DEF ThrottleInv, ThrottleTypes
  <2>3. ASSUME NEW k \in TH!Key PROVE KeyIsBounded(k)'
    BY <1>3, <2>1, LeftAlone DEF ThrottleInv
  <2> QED BY <2>2, <2>3 DEF ThrottleInv
<1> QED BY <1>1, <1>2, <1>4, <1>5, <1>6 DEF TH!Next

(* In the life of a counter, refusals exceed successes by its limit and the  *)
(* requests under way together at most (retry_after asks, record_attempt     *)
(* counts, a whole request lies between), for any number of classes and      *)
(* sources.                                                                  *)
THEOREM NoBurstGetsPast ==
  ASSUME TH!ThrottleAssumption, IsFiniteSet(Request) PROVE TH!Spec => []TH!BurstIsBounded
<1>1. TH!Init => ThrottleInv
  BY ThrottleBegins
<1>2. ThrottleInv /\ [TH!Next]_(TH!vars) => ThrottleInv'
  <2>1. ASSUME ThrottleInv, UNCHANGED TH!vars PROVE ThrottleInv'
    <3>1. clock' = clock /\ counters' = counters /\ owed' = owed /\ pc' = pc /\ job' = job
      BY <2>1 DEF TH!vars
    <3>2. ThrottleTypes'
      BY <2>1, <3>1 DEF ThrottleInv, ThrottleTypes
    <3>3. ASSUME NEW k \in TH!Key PROVE KeyIsBounded(k)'
      <4>1. ServedUnder(k)' = ServedUnder(k)
        BY <3>1 DEF ServedUnder
      <4> QED BY <2>1, <3>1, <4>1, LeftAlone DEF ThrottleInv
    <3> QED BY <3>2, <3>3 DEF ThrottleInv
  <2> QED BY <2>1, ServingSteps
<1>3. ThrottleInv => TH!BurstIsBounded
  BY DEF ThrottleInv, ThrottleTypes, KeyIsBounded, TH!BurstIsBounded
<1> QED BY <1>1, <1>2, <1>3, PTL DEF TH!Spec

-----------------------------------------------------------------------------
(* The data key: whoever has read a key has the one that is kept, or one     *)
(* that was taken away; with a key file, whoever opened has the recorded one *)
(* and until there is one, all rows are of one key.                          *)
KeyForms ==
  /\ KE!TypeOK
  /\ \A w \in Worker :
       /\ worker[w].at = "write" => Mode = "exapp" /\ worker[w].made \in Key
       /\ worker[w].at \in {"read back", "open"} => worker[w].key \in Key
       /\ Mode = "file" => worker[w].at \in {"closed", "read", "read back", "open"}
  /\ Mode = "file" => kept \in Key

KeptKeyInv ==
  Mode = "exapp" =>
    /\ rows \subseteq {kept} \cup lost
    /\ \A w \in Worker : worker[w].at \in {"read back", "open"} => worker[w].key \in {kept} \cup lost

RecordedKeyInv ==
  Mode = "file" =>
    /\ \A w \in Worker : worker[w].at = "open" => worker[w].key = checked
    /\ checked = None => \A a, b \in rows : a = b
    /\ checked # None => rows \subseteq {checked}

DataKeyInv == KeyForms /\ KeptKeyInv /\ RecordedKeyInv

LEMMA DataKeyBegins ==
  ASSUME KE!DataKeyAssumption, IsFiniteSet(Key), KE!Init PROVE DataKeyInv
<1>1. Mode \in {"exapp", "file"} /\ None \notin Key
  BY DEF KE!DataKeyAssumption
<1>2. /\ worker = [w \in Worker |-> KE!Closed] /\ checked = None /\ lost = {}
      /\ used = rows \cup ({kept} \ {None}) /\ rows \in SUBSET Key /\ kept \in KE!Maybe
  BY <1>1 DEF KE!Init, KE!Maybe
<1>3. Mode = "file" => kept \in Key /\ KE!Cardinality(rows) <= 1
  BY <1>1 DEF KE!Init
<1>4. KeyForms
  BY <1>1, <1>2, <1>3 DEF KeyForms, KE!TypeOK, KE!Maybe, KE!Closed
<1>5. KeptKeyInv
  <2>1. Mode = "exapp" => rows = {}
    BY DEF KE!Init
  <2>2. \A w \in Worker : worker[w].at = "closed"
    BY <1>2 DEF KE!Closed
  <2> QED BY <2>1, <2>2 DEF KeptKeyInv
<1>6. ASSUME Mode = "file", NEW a \in rows, NEW b \in rows, a # b PROVE FALSE
  <2>1. KE!Cardinality(rows) = Cardinality(rows)
    BY DEF KE!Cardinality, Cardinality
  <2>2. IsFiniteSet(rows) /\ IsFiniteSet({a, b}) /\ {a, b} \subseteq rows
    BY <1>2, FS_Subset
  <2>3. Cardinality({a, b}) = 2
    <3>1. IsFiniteSet({a}) /\ Cardinality({a}) = 1
      BY FS_Singleton
    <3>2. {a, b} = {a} \cup {b} /\ b \notin {a}
      BY <1>6
    <3>3. Cardinality({a} \cup {b}) = Cardinality({a}) + 1
      BY <3>1, <3>2, FS_AddElement
    <3> QED BY <3>1, <3>2, <3>3
  <2> QED BY <1>3, <1>6, <2>1, <2>2, <2>3, FS_Subset, FS_CardinalityType
<1>7. RecordedKeyInv
  BY <1>2, <1>6 DEF RecordedKeyInv, KE!Closed
<1> QED BY <1>4, <1>5, <1>7 DEF DataKeyInv

WorkerStates ==
  [at : {"closed", "read", "write", "confirm", "again", "read back", "open"},
   made : Key \cup {None}, key : Key \cup {None}]

(* One process moves, and what it reads is the key that is kept.             *)
LEMMA WorkerMoves ==
  ASSUME KE!DataKeyAssumption, DataKeyInv, NEW w \in Worker, NEW new \in WorkerStates,
         worker' = [worker EXCEPT ![w] = new],
         kept' = kept, checked' = checked, rows' = rows, lost' = lost, used' \in SUBSET Key,
         new.at = "write" => Mode = "exapp" /\ new.made \in Key,
         new.at \in {"read back", "open"} =>
           new.key \in Key /\ (Mode = "exapp" => new.key \in {kept} \cup lost),
         Mode = "file" => new.at \in {"closed", "read", "read back", "open"},
         Mode = "file" /\ new.at = "open" => new.key = checked
  PROVE  DataKeyInv'
<1>1. worker \in [Worker -> WorkerStates]
  BY DEF DataKeyInv, KeyForms, KE!TypeOK, KE!Maybe, WorkerStates
<1>2. /\ worker' \in [Worker -> WorkerStates] /\ worker'[w] = new
      /\ \A x \in Worker : x # w => worker'[x] = worker[x]
  BY <1>1
<1>3. KE!TypeOK'
  BY <1>2 DEF DataKeyInv, KeyForms, KE!TypeOK, KE!Maybe, WorkerStates
<1>4. KeyForms'
  BY <1>2, <1>3 DEF DataKeyInv, KeyForms
<1>5. KeptKeyInv'
  BY <1>2 DEF DataKeyInv, KeptKeyInv
<1>6. RecordedKeyInv'
  BY <1>2 DEF DataKeyInv, RecordedKeyInv
<1> QED BY <1>4, <1>5, <1>6 DEF DataKeyInv

LEMMA KeySteps ==
  ASSUME KE!DataKeyAssumption, DataKeyInv, KE!Next PROVE DataKeyInv'
<1>0. /\ Mode \in {"exapp", "file"} /\ None \notin Key
      /\ kept \in Key \cup {None} /\ rows \in SUBSET Key /\ used \in SUBSET Key /\ lost \in SUBSET Key
      /\ checked \in Key \cup {None} /\ (Mode = "file" => kept \in Key)
      /\ \A w \in Worker :
           /\ worker[w] \in WorkerStates
           /\ worker[w].at = "write" => Mode = "exapp" /\ worker[w].made \in Key
           /\ worker[w].at \in {"read back", "open"} =>
                worker[w].key \in Key /\ (Mode = "exapp" => worker[w].key \in {kept} \cup lost)
           /\ Mode = "file" => worker[w].at \in {"closed", "read", "read back", "open"}
  BY DEF KE!DataKeyAssumption, DataKeyInv, KeyForms, KeptKeyInv, KE!TypeOK, KE!Maybe, WorkerStates
<1>1. KE!Closed \in WorkerStates /\ KE!Closed.at = "closed"
  BY DEF KE!Closed, WorkerStates
<1>2. ASSUME NEW w \in Worker, KE!Close(w), UNCHANGED <<kept, checked, rows, used, lost>>
      PROVE  DataKeyInv'
  BY <1>0, <1>1, <1>2, WorkerMoves DEF KE!Close
<1>3. ASSUME NEW w \in Worker,
             NEW step \in {"read", "confirm", "again", "open"}, KE!Goto(w, step),
             UNCHANGED <<kept, checked, rows, used, lost>>,
             step = "open" => worker[w].at = "read back" /\ (Mode = "file" => worker[w].key = checked),
             Mode = "file" => step \in {"read", "open"}
      PROVE  DataKeyInv'
  <2> DEFINE new == [worker[w] EXCEPT !.at = step]
  <2>1. worker' = [worker EXCEPT ![w] = new]
    BY <1>3 DEF KE!Goto
  <2>2. new \in WorkerStates /\ new.at = step /\ new.key = worker[w].key
    BY <1>0 DEF WorkerStates
  <2> HIDE DEF new
  <2> QED BY <1>0, <1>3, <2>1, <2>2, WorkerMoves
<1>4. ASSUME NEW w \in Worker, NEW k \in Key, KE!Adopt(w, k), kept = k,
             UNCHANGED <<kept, checked, rows, used, lost>>
      PROVE  DataKeyInv'
  <2> DEFINE new == [worker[w] EXCEPT !.at = "read back", !.key = k]
  <2>1. worker' = [worker EXCEPT ![w] = new]
    BY <1>0, <1>4 DEF KE!Adopt, WorkerStates
  <2>2. new \in WorkerStates /\ new.at = "read back" /\ new.key = k
    BY <1>0 DEF WorkerStates
  <2> HIDE DEF new
  <2> QED BY <1>0, <1>4, <2>1, <2>2, WorkerMoves
<1>5. ASSUME NEW w \in Worker, KE!Open(w) \/ KE!Raise(w) \/ KE!Restart(w) PROVE DataKeyInv'
  BY <1>2, <1>3, <1>5 DEF KE!Open, KE!Raise, KE!Restart
<1>6. ASSUME NEW w \in Worker, KE!ReadKey(w) PROVE DataKeyInv'
  <2>1. CASE kept # None
    <3>1. KE!Adopt(w, kept) /\ UNCHANGED <<kept, checked, rows, used, lost>>
      BY <1>6, <2>1 DEF KE!ReadKey
    <3> QED BY <1>0, <1>4, <2>1, <3>1
  <2>2. CASE kept = None
    <3>1. PICK k \in Key : /\ worker' = [worker EXCEPT ![w].at = "write", ![w].made = k]
                           /\ used' = used \cup {k}
      BY <1>6, <2>2 DEF KE!ReadKey
    <3>2. UNCHANGED <<kept, checked, rows, lost>> /\ Mode = "exapp"
      BY <1>6 DEF KE!ReadKey
    <3> DEFINE new == [worker[w] EXCEPT !.at = "write", !.made = k]
    <3>3. worker' = [worker EXCEPT ![w] = new]
      BY <1>0, <3>1 DEF WorkerStates
    <3>4. new \in WorkerStates /\ new.at = "write" /\ new.made = k
      BY <1>0 DEF WorkerStates
    <3> HIDE DEF new
    <3> QED BY <1>0, <3>1, <3>2, <3>3, <3>4, WorkerMoves
  <2> QED BY <2>1, <2>2
<1>7. ASSUME NEW w \in Worker, KE!WriteKey(w) PROVE DataKeyInv'
  <2>1. Mode = "exapp" /\ worker[w].at = "write" /\ kept' = worker[w].made /\ kept' \in Key
    BY <1>0, <1>7 DEF KE!WriteKey, KE!At
  <2>2. /\ checked' = checked /\ rows' = rows /\ used' = used
        /\ lost' = lost \cup ((rows \cup {worker[x].key : x \in KE!HasRead}) \ {kept', None})
    BY <1>7, <2>1 DEF KE!WriteKey, KE!Overtaken
  <2>3. \A x \in Worker : x # w => worker'[x] = worker[x]
    BY <1>7 DEF KE!WriteKey, KE!Goto, KE!Close, DataKeyInv, KeyForms, KE!TypeOK
  <2>4. worker' \in [Worker -> WorkerStates] /\ worker'[w].at \in {"confirm", "closed"}
    <3>1. worker \in [Worker -> WorkerStates]
      BY DEF DataKeyInv, KeyForms, KE!TypeOK, KE!Maybe, WorkerStates
    <3>2. CASE KE!Goto(w, "confirm")
      BY <3>1, <3>2 DEF KE!Goto, WorkerStates
    <3>3. CASE KE!Close(w)
      BY <1>1, <3>1, <3>3 DEF KE!Close
    <3> QED BY <1>7, <3>2, <3>3 DEF KE!WriteKey
  <2>5. lost' \in SUBSET Key /\ lost \subseteq lost'
    <3>1. \A x \in KE!HasRead : worker[x].key \in Key
      BY <1>0 DEF KE!HasRead
    <3> QED BY <1>0, <2>2, <3>1
  <2>6. \A x \in Worker : worker[x].at \in {"read back", "open"} => worker[x].key \in {kept'} \cup lost'
    BY <1>0, <2>2 DEF KE!HasRead
  <2>7. rows' \subseteq {kept'} \cup lost'
    BY <1>0, <2>2
  <2>8. KeyForms'
    BY <1>0, <2>1, <2>2, <2>3, <2>4, <2>5 DEF KeyForms, KE!TypeOK, KE!Maybe, WorkerStates
  <2>9. KeptKeyInv' /\ RecordedKeyInv'
    BY <2>1, <2>3, <2>4, <2>6, <2>7 DEF KeptKeyInv, RecordedKeyInv
  <2> QED BY <2>8, <2>9 DEF DataKeyInv
<1>8. ASSUME NEW w \in Worker, KE!Confirm(w) \/ KE!ConfirmAgain(w) PROVE DataKeyInv'
  <2>1. Mode = "exapp" /\ UNCHANGED <<kept, checked, rows, used, lost>>
    BY <1>0, <1>8 DEF KE!Confirm, KE!ConfirmAgain, KE!At
  <2>2. \/ KE!Close(w) \/ KE!Goto(w, "again")
        \/ kept # None /\ KE!Adopt(w, kept)
    BY <1>8 DEF KE!Confirm, KE!ConfirmAgain, KE!Settled
  <2> QED BY <1>0, <1>2, <1>3, <1>4, <2>1, <2>2
<1>9. ASSUME NEW w \in Worker, KE!Opened(w) \/ KE!ReadFile(w) PROVE DataKeyInv'
  BY <1>0, <1>3, <1>4, <1>9 DEF KE!Opened, KE!ReadFile, KE!At
<1>10. ASSUME NEW w \in Worker, KE!VerifyDataKey(w) PROVE DataKeyInv'
  <2>1. /\ Mode = "file" /\ worker[w].at = "read back" /\ worker[w].key \in Key
        /\ kept' = kept /\ rows' = rows /\ used' = used /\ lost' = lost
    BY <1>0, <1>10 DEF KE!VerifyDataKey, KE!At
  <2>2. CASE KE!Vouches(worker[w].key)
    <3>1. checked = None /\ (rows = {} \/ worker[w].key \in rows)
      BY <2>2 DEF KE!Vouches
    <3>2. checked' = worker[w].key /\ worker' = [worker EXCEPT ![w].at = "open"]
      BY <1>10, <2>2 DEF KE!VerifyDataKey, KE!Goto
    <3>3. /\ worker' \in [Worker -> WorkerStates] /\ worker'[w].at = "open"
          /\ worker'[w].key = worker[w].key
          /\ \A x \in Worker : x # w => worker'[x] = worker[x]
      <4>1. worker \in [Worker -> WorkerStates]
        BY DEF DataKeyInv, KeyForms, KE!TypeOK, KE!Maybe, WorkerStates
      <4> QED BY <3>2, <4>1 DEF WorkerStates
    <3>4. rows \subseteq {checked'} /\ \A x \in Worker : worker[x].at # "open"
      BY <1>0, <2>1, <3>1, <3>2 DEF DataKeyInv, RecordedKeyInv
    <3>5. KeyForms'
      BY <1>0, <2>1, <3>2, <3>3 DEF KeyForms, KE!TypeOK, KE!Maybe, WorkerStates
    <3>6. KeptKeyInv' /\ RecordedKeyInv'
      BY <1>0, <2>1, <3>2, <3>3, <3>4 DEF KeptKeyInv, RecordedKeyInv
    <3> QED BY <3>5, <3>6 DEF DataKeyInv
  <2>3. CASE ~ KE!Vouches(worker[w].key)
    <3>1. checked' = checked /\ (KE!Close(w) \/ (checked = worker[w].key /\ KE!Goto(w, "open")))
      BY <1>10, <2>3 DEF KE!VerifyDataKey
    <3> QED BY <1>2, <1>3, <2>1, <3>1
  <2> QED BY <2>2, <2>3
<1>11. ASSUME NEW w \in Worker, KE!Seal(w) PROVE DataKeyInv'
  <2>1. /\ worker[w].at = "open" /\ worker[w].key \in Key /\ rows' = rows \cup {worker[w].key}
        /\ kept' = kept /\ checked' = checked /\ worker' = worker /\ used' = used /\ lost' = lost
    BY <1>0, <1>11 DEF KE!Seal, KE!At
  <2>2. KeyForms'
    BY <1>0, <2>1 DEF DataKeyInv, KeyForms, KE!TypeOK
  <2>3. KeptKeyInv'
    BY <1>0, <2>1 DEF DataKeyInv, KeptKeyInv
  <2>4. RecordedKeyInv'
    BY <1>0, <2>1 DEF DataKeyInv, RecordedKeyInv
  <2> QED BY <2>2, <2>3, <2>4 DEF DataKeyInv
<1>12. ASSUME NEW k \in Key, KE!Mount(k) PROVE DataKeyInv'
  BY <1>0, <1>12 DEF KE!Mount, DataKeyInv, KeyForms, KeptKeyInv, RecordedKeyInv, KE!TypeOK, KE!Maybe
<1>13. ASSUME NEW wiped \in BOOLEAN, KE!Purge(wiped) PROVE DataKeyInv'
  BY <1>0, <1>13 DEF KE!Purge, DataKeyInv, KeyForms, KeptKeyInv, RecordedKeyInv, KE!TypeOK, KE!Maybe
<1>14. ASSUME KE!DeleteKey PROVE DataKeyInv'
  <2>1. /\ Mode = "exapp" /\ kept' = None /\ checked' = checked /\ rows' = rows /\ worker' = worker
        /\ used' = used /\ lost' = lost \cup rows \cup ({worker[x].key : x \in KE!HasRead} \ {None})
    BY <1>14 DEF KE!DeleteKey
  <2>2. \A x \in Worker : worker[x].at \in {"read back", "open"} => worker[x].key \in lost'
    BY <1>0, <2>1 DEF KE!HasRead
  <2>3. lost' \in SUBSET Key /\ rows \subseteq lost'
    <3>1. \A x \in KE!HasRead : worker[x].key \in Key
      BY <1>0 DEF KE!HasRead
    <3> QED BY <1>0, <2>1, <3>1
  <2>4. KeyForms'
    BY <1>0, <2>1, <2>3 DEF DataKeyInv, KeyForms, KE!TypeOK, KE!Maybe
  <2>5. KeptKeyInv' /\ RecordedKeyInv'
    BY <2>1, <2>2, <2>3 DEF KeptKeyInv, RecordedKeyInv
  <2> QED BY <2>4, <2>5 DEF DataKeyInv
<1> QED BY <1>5, <1>6, <1>7, <1>8, <1>9, <1>10, <1>11, <1>12, <1>13, <1>14 DEF KE!Next

(* Rows are readable with the key the deployment keeps, or recorded, and no  *)
(* worker opens under another, however many start, write, mount and purge    *)
(* (appapi_key, file_key and verify_data_key).                               *)
THEOREM RowsStayReadable ==
  ASSUME KE!DataKeyAssumption, IsFiniteSet(Key) PROVE KE!Spec => [](KE!TypeOK /\ KE!OneKeyOpens)
<1>1. KE!Init => DataKeyInv
  BY DataKeyBegins
<1>2. DataKeyInv /\ [KE!Next]_(KE!vars) => DataKeyInv'
  <2>1. ASSUME DataKeyInv, UNCHANGED KE!vars PROVE DataKeyInv'
    BY <2>1 DEF DataKeyInv, KeyForms, KeptKeyInv, RecordedKeyInv, KE!vars, KE!TypeOK
  <2> QED BY <2>1, KeySteps
<1>3. DataKeyInv => KE!TypeOK /\ KE!OneKeyOpens
  BY DEF DataKeyInv, KeyForms, KeptKeyInv, RecordedKeyInv, KE!OneKeyOpens, KE!Standing, KE!At,
         KE!DataKeyAssumption, KE!TypeOK, KE!Maybe
<1> QED BY <1>1, <1>2, <1>3, PTL DEF KE!Spec

-----------------------------------------------------------------------------
(* The onboarding: one wait at most holds the password of a flow, and while  *)
(* it does, nobody has seen it.                                              *)
WaitStates == [at : OB!Steps, flow : Flow \cup {None}, as : Account \cup {None}]
Holds(w, f) == wait[w].flow = f /\ wait[w].at \in OB!Holding
Seen(f) == \E a \in Account : <<f, a>> \in shown

WaitForms ==
  /\ OB!TypeOK
  /\ \A w \in Wait : /\ wait[w].at # "idle" => wait[w].flow \in Flow /\ wait[w].as \in Account
                     /\ wait[w].at \in {"switch", "delete"} => wait[w].as = owner[wait[w].flow]

FlowInv(f) ==
  /\ \A v, w \in Wait : Holds(v, f) /\ Holds(w, f) => v = w
  /\ \A w \in Wait : Holds(w, f) => login[f] = "collected" /\ password[f] = "alive" /\ ~ Seen(f)
  /\ \A a \in Account : <<f, a>> \in shown =>
       a = owner[f] /\ login[f] = "collected" /\ password[f] = "alive"
  /\ login[f] = "granted" => password[f] = "alive"
  /\ login[f] = "collected" /\ f \notin mishap =>
       (\E w \in Wait : Holds(w, f)) \/ Seen(f) \/ password[f] = "returned"

OnboardingInv == WaitForms /\ \A f \in Flow : FlowInv(f)

(* A wait takes a step and keeps what it holds, or held nothing.             *)
LEMMA WaitSteps ==
  ASSUME OB!OnboardingAssumption, OnboardingInv, NEW w \in Wait, NEW new \in WaitStates,
         wait' = [wait EXCEPT ![w] = new],
         new.at # "idle" => new.flow \in Flow /\ new.as \in Account,
         new.at \in {"switch", "delete"} => new.as = owner[new.flow],
         new.at \in OB!Holding <=> wait[w].at \in OB!Holding,
         new.at \in OB!Holding => new.flow = wait[w].flow,
         UNCHANGED <<clock, login, owner, password, paused, shown, mishap>>,
         record' \in [Flow -> Nat \cup {None}]
  PROVE  OnboardingInv'
<1>1. wait \in [Wait -> WaitStates]
  BY DEF OnboardingInv, WaitForms, OB!TypeOK, WaitStates
<1>2. /\ wait' \in [Wait -> WaitStates] /\ wait'[w] = new
      /\ \A x \in Wait : x # w => wait'[x] = wait[x]
  BY <1>1
<1>3. WaitForms'
  <2>1. OB!TypeOK'
    BY <1>2 DEF OnboardingInv, WaitForms, OB!TypeOK, WaitStates
  <2> QED BY <1>2, <2>1 DEF OnboardingInv, WaitForms
<1>4. \A x \in Wait, f \in Flow : Holds(x, f)' <=> Holds(x, f)
  BY <1>2 DEF Holds
<1>5. \A f \in Flow : Seen(f)' <=> Seen(f)
  BY DEF Seen
<1>6. \A f \in Flow : FlowInv(f)'
  BY <1>4, <1>5 DEF OnboardingInv, FlowInv
<1> QED BY <1>3, <1>6 DEF OnboardingInv

(* A wait ends, or goes on to forget; the password it held, if it did, has   *)
(* been shown, has gone back, or is lost to a mishap.                        *)
LEMMA WaitLetsGo ==
  ASSUME OB!OnboardingAssumption, OnboardingInv, NEW w \in Wait, NEW f \in Flow,
         NEW new \in WaitStates, wait' = [wait EXCEPT ![w] = new],
         Holds(w, f), new.at \in {"idle", "forget"},
         new.at # "idle" => new.flow \in Flow /\ new.as \in Account,
         UNCHANGED <<clock, login, owner, paused>>, record' \in [Flow -> Nat \cup {None}],
         \/ /\ shown' = shown \cup {<<f, owner[f]>>} /\ owner[f] \in Account
            /\ password' = password /\ mishap' = mishap
         \/ shown' = shown /\ password' = [password EXCEPT ![f] = "returned"] /\ mishap' = mishap
         \/ shown' = shown /\ password' = password /\ mishap' = mishap \cup {f}
  PROVE  OnboardingInv'
<1>1. wait \in [Wait -> WaitStates] /\ password \in [Flow -> {"none", "alive", "returned"}]
  BY DEF OnboardingInv, WaitForms, OB!TypeOK, WaitStates
<1>2. /\ wait' \in [Wait -> WaitStates] /\ wait'[w] = new
      /\ \A x \in Wait : x # w => wait'[x] = wait[x]
  BY <1>1
<1>3. /\ password' \in [Flow -> {"none", "alive", "returned"}]
      /\ \A g \in Flow : g # f => password'[g] = password[g]
  BY <1>1
<1>4. shown' \subseteq Flow \X Account /\ mishap' \subseteq Flow
  BY DEF OnboardingInv, WaitForms, OB!TypeOK
<1>5. WaitForms'
  <2>1. OB!TypeOK'
    BY <1>2, <1>3, <1>4 DEF OnboardingInv, WaitForms, OB!TypeOK, WaitStates
  <2> QED BY <1>2, <2>1 DEF OnboardingInv, WaitForms
<1>6. /\ \A x \in Wait : ~ Holds(x, f)'
      /\ \A x \in Wait, g \in Flow : g # f => (Holds(x, g)' <=> Holds(x, g))
  BY <1>2 DEF Holds, OnboardingInv, FlowInv, OB!Holding
<1>7. login[f] = "collected" /\ password[f] = "alive" /\ ~ Seen(f)
  BY DEF OnboardingInv, FlowInv
<1>8. ASSUME NEW g \in Flow, g # f PROVE FlowInv(g)'
  <2>1. Seen(g)' <=> Seen(g)
    BY <1>8 DEF Seen
  <2>2. \A a \in Account : <<g, a>> \in shown' <=> <<g, a>> \in shown
    BY <1>8
  <2>3. g \in mishap' <=> g \in mishap
    BY <1>8
  <2> QED BY <1>3, <1>6, <1>8, <2>1, <2>2, <2>3 DEF OnboardingInv, FlowInv
<1>9. FlowInv(f)'
  <2>1. CASE shown' = shown \cup {<<f, owner[f]>>} /\ owner[f] \in Account /\ password' = password
    <3>1. Seen(f)'
      BY <2>1 DEF Seen
    <3>2. \A a \in Account : <<f, a>> \in shown' => a = owner[f]
      BY <1>7, <2>1 DEF Seen
    <3> QED BY <1>6, <1>7, <2>1, <3>1, <3>2 DEF FlowInv
  <2>2. CASE shown' = shown /\ password' = [password EXCEPT ![f] = "returned"]
    <3>1. password'[f] = "returned" /\ ~ Seen(f)'
      BY <1>1, <1>7, <2>2 DEF Seen
    <3> QED BY <1>6, <1>7, <3>1 DEF FlowInv, Seen
  <2>3. CASE shown' = shown /\ password' = password /\ mishap' = mishap \cup {f}
    BY <1>6, <1>7, <2>3 DEF FlowInv, Seen
  <2> QED BY <2>1, <2>2, <2>3
<1> QED BY <1>5, <1>8, <1>9 DEF OnboardingInv

LEMMA OnboardingSteps ==
  ASSUME OB!OnboardingAssumption, OnboardingInv, OB!Next PROVE OnboardingInv'
<1>0. /\ clock \in Nat /\ clock \in 0..MaxClock /\ MaxClock \in Nat /\ FLOW_TTL \in Nat
      /\ record \in [Flow -> Nat \cup {None}]
      /\ login \in [Flow -> {"none", "open", "granted", "collected"}]
      /\ owner \in [Flow -> Account \cup {None}]
      /\ password \in [Flow -> {"none", "alive", "returned"}]
      /\ wait \in [Wait -> WaitStates]
      /\ \A w \in Wait : /\ wait[w].at # "idle" => wait[w].flow \in Flow /\ wait[w].as \in Account
                         /\ wait[w].at \in {"switch", "delete"} => wait[w].as = owner[wait[w].flow]
  BY DEF OnboardingInv, WaitForms, OB!TypeOK, WaitStates, OB!OnboardingAssumption
<1>1. OB!Idle \in WaitStates /\ OB!Idle.at = "idle"
  BY DEF OB!Idle, WaitStates, OB!Steps
<1>2. ASSUME NEW w \in Wait, NEW step \in OB!Steps
      PROVE  LET new == [wait[w] EXCEPT !.at = step] IN
             new \in WaitStates /\ new.at = step /\ new.flow = wait[w].flow /\ new.as = wait[w].as
  BY <1>0 DEF WaitStates
<1>3. ASSUME NEW w \in Wait, NEW step \in OB!Steps \ {"idle"}, OB!Goto(w, step), ~ OB!At(w, "idle"),
             step \in {"switch", "delete"} => wait[w].as = owner[wait[w].flow],
             step \in OB!Holding <=> wait[w].at \in OB!Holding,
             UNCHANGED <<clock, record, login, owner, password, paused, shown, mishap>>
      PROVE  OnboardingInv'
  <2> DEFINE new == [wait[w] EXCEPT !.at = step]
  <2>1. wait' = [wait EXCEPT ![w] = new]
    BY <1>3 DEF OB!Goto
  <2>2. new \in WaitStates /\ new.at = step /\ new.flow = wait[w].flow /\ new.as = wait[w].as
    BY <1>2
  <2> HIDE DEF new
  <2> QED BY <1>0, <1>3, <2>1, <2>2, WaitSteps DEF OB!At
<1>4. ASSUME NEW w \in Wait, OB!Leave(w), wait[w].at \notin OB!Holding,
             UNCHANGED <<clock, login, owner, password, paused, shown, mishap>>,
             record' \in [Flow -> Nat \cup {None}]
      PROVE  OnboardingInv'
  BY <1>1, <1>4, WaitSteps DEF OB!Leave, OB!Holding
<1>5. ASSUME wait' = wait, shown' = shown, mishap' = mishap, owner' = owner, password' = password,
             login' = login, record' \in [Flow -> Nat \cup {None}], clock' \in 0..MaxClock,
             paused' \in SUBSET Account
      PROVE  OnboardingInv'
  <2>1. WaitForms'
    BY <1>5 DEF OnboardingInv, WaitForms, OB!TypeOK
  <2>2. ASSUME NEW f \in Flow PROVE FlowInv(f)'
    BY <1>5 DEF OnboardingInv, FlowInv, Holds, Seen
  <2> QED BY <2>1, <2>2 DEF OnboardingInv
<1>6. ASSUME NEW f \in Flow, OB!Start(f) PROVE OnboardingInv'
  <2>1. /\ login[f] = "none" /\ login' = [login EXCEPT ![f] = "open"]
        /\ wait' = wait /\ shown' = shown /\ mishap' = mishap /\ owner' = owner
        /\ password' = password /\ clock' = clock /\ paused' = paused
    BY <1>6 DEF OB!Start, OB!History
  <2>2. record' \in [Flow -> Nat \cup {None}]
    BY <1>0, <1>6 DEF OB!Start
  <2>3. WaitForms'
    BY <1>0, <2>1, <2>2 DEF OnboardingInv, WaitForms, OB!TypeOK
  <2>4. ASSUME NEW g \in Flow PROVE FlowInv(g)'
    BY <1>0, <2>1 DEF OnboardingInv, FlowInv, Holds, Seen
  <2> QED BY <2>3, <2>4 DEF OnboardingInv
<1>7. ASSUME NEW f \in Flow, OB!Cancel(f) PROVE OnboardingInv'
  BY <1>0, <1>5, <1>7 DEF OB!Cancel, OB!History, OB!Nextcloud, OnboardingInv, WaitForms, OB!TypeOK
<1>8. ASSUME NEW f \in Flow, NEW a \in Account, OB!Grant(f, a) PROVE OnboardingInv'
  <2>1. /\ login[f] = "open" /\ login' = [login EXCEPT ![f] = "granted"]
        /\ owner' = [owner EXCEPT ![f] = a] /\ password' = [password EXCEPT ![f] = "alive"]
        /\ wait' = wait /\ shown' = shown /\ mishap' = mishap
        /\ clock' = clock /\ paused' = paused /\ record' = record
    BY <1>8 DEF OB!Grant, OB!History
  <2>2. \A w \in Wait : wait[w].at \in OB!Holding => wait[w].flow # f
    BY <1>0, <2>1 DEF OnboardingInv, FlowInv, Holds, OB!Holding
  <2>3. OB!TypeOK'
    BY <1>0, <2>1 DEF OnboardingInv, WaitForms, OB!TypeOK
  <2>4. WaitForms'
    BY <1>0, <2>1, <2>2, <2>3 DEF OnboardingInv, WaitForms, OB!Holding
  <2>5. ASSUME NEW g \in Flow, g # f PROVE FlowInv(g)'
    BY <1>0, <2>1, <2>5 DEF OnboardingInv, FlowInv, Holds, Seen
  <2>6. FlowInv(f)'
    <3>1. login'[f] = "granted" /\ password'[f] = "alive"
      BY <1>0, <2>1
    <3>2. \A b \in Account : <<f, b>> \notin shown
      BY <2>1 DEF OnboardingInv, FlowInv
    <3> QED BY <2>1, <2>2, <3>1, <3>2 DEF FlowInv, Holds, Seen
  <2> QED BY <2>4, <2>5, <2>6 DEF OnboardingInv
<1>9. ASSUME NEW w \in Wait, NEW f \in Flow, NEW a \in Account, OB!Load(w, f, a) PROVE OnboardingInv'
  <2>1. /\ wait[w].at = "idle" /\ UNCHANGED <<clock, login, owner, password, paused, shown, mishap>>
    BY <1>9 DEF OB!Load, OB!At, OB!Nextcloud, OB!History
  <2>2. CASE record[f] <= clock
    BY <1>0, <1>5, <1>9, <2>1, <2>2 DEF OB!Load, OnboardingInv, WaitForms, OB!TypeOK
  <2>3. CASE ~ (record[f] <= clock)
    <3> DEFINE new == [at |-> "poll", flow |-> f, as |-> a]
    <3>1. wait' = [wait EXCEPT ![w] = new] /\ record' = record
      BY <1>9, <2>3 DEF OB!Load
    <3>2. /\ new \in WaitStates /\ new.at \notin {"idle", "switch", "delete"}
          /\ new.flow \in Flow /\ new.as \in Account /\ new.at \notin OB!Holding
          /\ wait[w].at \notin OB!Holding
      BY <2>1 DEF WaitStates, OB!Steps, OB!Holding
    <3> HIDE DEF new
    <3> QED BY <1>0, <2>1, <3>1, <3>2, WaitSteps
  <2> QED BY <2>2, <2>3
<1>10. ASSUME NEW w \in Wait, OB!Poll(w) PROVE OnboardingInv'
  <2>1. /\ wait[w].at = "poll" /\ wait[w].flow \in Flow
        /\ UNCHANGED <<clock, record, owner, password, paused, shown>>
    BY <1>0, <1>10 DEF OB!Poll, OB!At
  <2>2. CASE login[wait[w].flow] # "granted"
    <3>1. OB!Leave(w) /\ login' = login /\ mishap' = mishap
      BY <1>10, <2>2 DEF OB!Poll
    <3> QED BY <1>0, <1>4, <2>1, <3>1 DEF OB!Holding
  <2>3. ASSUME NEW f \in Flow, f = wait[w].flow, login[f] = "granted" PROVE OnboardingInv'
    <3>1. /\ login' = [login EXCEPT ![f] = "collected"]
          /\ \/ OB!Goto(w, "account") /\ mishap' = mishap
             \/ OB!Leave(w) /\ mishap' = mishap \cup {f}
      BY <1>10, <2>3 DEF OB!Poll
    <3>2. \A x \in Wait : x # w => wait'[x] = wait[x]
      BY <1>0, <3>1 DEF OB!Goto, OB!Leave
    <3>3. /\ wait' \in [Wait -> WaitStates]
          /\ \/ /\ wait'[w].at = "account" /\ wait'[w].flow = f /\ wait'[w].as = wait[w].as
                /\ mishap' = mishap
             \/ wait'[w].at = "idle" /\ mishap' = mishap \cup {f}
      <4>1. "account" \in OB!Steps
        BY DEF OB!Steps
      <4>2. CASE OB!Goto(w, "account") /\ mishap' = mishap
        <5>1. wait' = [wait EXCEPT ![w] = [wait[w] EXCEPT !.at = "account"]]
          BY <4>2 DEF OB!Goto
        <5> QED BY <1>0, <1>2, <2>3, <4>1, <4>2, <5>1
      <4>3. CASE OB!Leave(w) /\ mishap' = mishap \cup {f}
        BY <1>0, <1>1, <4>3 DEF OB!Leave
      <4> QED BY <3>1, <4>2, <4>3
    <3>4. OB!TypeOK'
      BY <1>0, <2>1, <3>1, <3>3 DEF OnboardingInv, WaitForms, OB!TypeOK, WaitStates
    <3>5. WaitForms'
      BY <1>0, <2>1, <2>3, <3>2, <3>3, <3>4 DEF OnboardingInv, WaitForms
    <3>6. ASSUME NEW g \in Flow, g # f PROVE FlowInv(g)'
      <4>1. \A x \in Wait : Holds(x, g)' <=> Holds(x, g)
        BY <2>1, <2>3, <3>2, <3>3, <3>6 DEF Holds, OB!Holding
      <4>2. login'[g] = login[g] /\ (g \in mishap' <=> g \in mishap) /\ (Seen(g)' <=> Seen(g))
        BY <1>0, <2>1, <3>1, <3>6 DEF Seen
      <4> QED BY <2>1, <4>1, <4>2 DEF OnboardingInv, FlowInv
    <3>7. FlowInv(f)'
      <4>1. \A x \in Wait : ~ Holds(x, f)
        BY <2>3 DEF OnboardingInv, FlowInv
      <4>2. \A x \in Wait : Holds(x, f)' => x = w
        BY <3>2, <4>1 DEF Holds
      <4>3. Holds(w, f)' \/ f \in mishap'
        BY <3>3 DEF Holds, OB!Holding
      <4>4. login'[f] = "collected" /\ password'[f] = "alive" /\ \A a \in Account : <<f, a>> \notin shown'
        BY <1>0, <2>1, <2>3, <3>1 DEF OnboardingInv, FlowInv
      <4> QED BY <4>2, <4>3, <4>4 DEF FlowInv, Seen
    <3> QED BY <3>5, <3>6, <3>7 DEF OnboardingInv
  <2> QED BY <2>1, <2>2, <2>3
<1>11. ASSUME NEW w \in Wait, OB!Resolve(w) \/ OB!Identify(w) \/ OB!Switch(w) PROVE OnboardingInv'
  <2>1. /\ wait[w].at \in {"account", "identify", "switch"}
        /\ UNCHANGED <<clock, record, login, owner, password, paused, shown, mishap>>
    BY <1>11 DEF OB!Resolve, OB!Identify, OB!Switch, OB!At, OB!Nextcloud, OB!History
  <2>2. \E step \in {"identify", "revoke", "switch", "delete"} :
          OB!Goto(w, step) /\ (step \in {"switch", "delete"} => wait[w].as = owner[wait[w].flow])
    BY <1>0, <1>11 DEF OB!Resolve, OB!Identify, OB!Switch, OB!Refused, OB!Identified, OB!At
  <2> QED BY <1>3, <2>1, <2>2 DEF OB!Holding, OB!Steps, OB!At
<1>12. ASSUME NEW w \in Wait, OB!Show(w) PROVE OnboardingInv'
  <2>1. /\ wait[w].at = "delete" /\ UNCHANGED <<clock, login, owner, password, paused, mishap>>
    BY <1>12 DEF OB!Show, OB!At, OB!Nextcloud
  <2>2. CASE OB!Refused(w) /\ UNCHANGED <<record, shown>>
    BY <1>3, <2>1, <2>2 DEF OB!Refused, OB!Holding, OB!Steps, OB!At
  <2>3. ASSUME NEW f \in Flow, f = wait[w].flow, record' = [record EXCEPT ![f] = None],
               shown' = shown \cup {<<f, wait[w].as>>}, OB!Leave(w)
        PROVE  OnboardingInv'
    <3>1. Holds(w, f) /\ wait[w].as = owner[f] /\ owner[f] \in Account
      BY <1>0, <2>1, <2>3 DEF Holds, OB!Holding
    <3>2. record' \in [Flow -> Nat \cup {None}]
      BY <1>0, <2>3
    <3> QED BY <1>1, <2>1, <2>3, <3>1, <3>2, WaitLetsGo DEF OB!Leave
  <2> QED BY <1>0, <1>12, <2>1, <2>2, <2>3 DEF OB!Show
<1>13. ASSUME NEW w \in Wait, OB!Revoke(w) PROVE OnboardingInv'
  <2>1. ASSUME NEW f \in Flow, f = wait[w].flow, wait[w].at = "revoke" PROVE OnboardingInv'
    <3> DEFINE new == [wait[w] EXCEPT !.at = "forget"]
    <3>1. wait' = [wait EXCEPT ![w] = new]
      BY <1>13 DEF OB!Revoke, OB!Goto
    <3>2. new \in WaitStates /\ new.at = "forget" /\ new.flow = wait[w].flow /\ new.as = wait[w].as
      BY <1>2 DEF OB!Steps
    <3>3. Holds(w, f) /\ wait[w].flow \in Flow /\ wait[w].as \in Account
      BY <1>0, <2>1 DEF Holds, OB!Holding
    <3>4. /\ UNCHANGED <<clock, record, login, owner, paused, shown>>
          /\ \/ password' = [password EXCEPT ![f] = "returned"] /\ mishap' = mishap
             \/ mishap' = mishap \cup {f} /\ password' = password
      BY <1>13, <2>1 DEF OB!Revoke
    <3> HIDE DEF new
    <3> QED BY <1>0, <3>1, <3>2, <3>3, <3>4, WaitLetsGo
  <2> QED BY <1>0, <1>13, <2>1 DEF OB!Revoke, OB!At
<1>14. ASSUME NEW w \in Wait, OB!Forget(w) PROVE OnboardingInv'
  <2>1. /\ wait[w].at = "forget" /\ OB!Leave(w)
        /\ UNCHANGED <<clock, login, owner, password, paused, shown, mishap>>
    BY <1>14 DEF OB!Forget, OB!At, OB!Nextcloud, OB!History
  <2>2. record' \in [Flow -> Nat \cup {None}]
    BY <1>0, <1>14 DEF OB!Forget
  <2> QED BY <1>4, <2>1, <2>2 DEF OB!Holding
<1>15. ASSUME NEW a \in Account, OB!Pause(a) PROVE OnboardingInv'
  <2>1. paused' \in SUBSET Account
    BY <1>15 DEF OB!Pause, OnboardingInv, WaitForms, OB!TypeOK
  <2> QED BY <1>0, <1>5, <1>15, <2>1 DEF OB!Pause, OB!Nextcloud, OB!History
<1>16. ASSUME OB!Crash PROVE OnboardingInv'
  <2>1. /\ wait' = [w \in Wait |-> OB!Idle] /\ mishap' = mishap \cup {f \in Flow : OB!Held(f)}
        /\ UNCHANGED <<clock, record, login, owner, password, paused, shown>>
    BY <1>16 DEF OB!Crash, OB!Nextcloud
  <2>2. OB!TypeOK'
    BY <1>1, <2>1 DEF OnboardingInv, WaitForms, OB!TypeOK, WaitStates
  <2>3. WaitForms'
    BY <1>1, <2>1, <2>2 DEF WaitForms
  <2>4. \A f \in Flow, w \in Wait : ~ Holds(w, f)'
    BY <1>1, <2>1 DEF Holds, OB!Holding
  <2>5. ASSUME NEW f \in Flow PROVE FlowInv(f)'
    <3>1. (\E w \in Wait : Holds(w, f)) => f \in mishap'
      BY <2>1 DEF OB!Held, Holds
    <3>2. mishap \subseteq mishap' /\ (Seen(f)' <=> Seen(f))
      BY <2>1 DEF Seen
    <3> QED BY <2>1, <2>4, <3>1, <3>2 DEF OnboardingInv, FlowInv
  <2> QED BY <2>3, <2>5 DEF OnboardingInv
<1>17. ASSUME OB!Tick PROVE OnboardingInv'
  <2>1. clock' \in 0..MaxClock
    BY <1>0, <1>17 DEF OB!Tick
  <2>2. paused' \in SUBSET Account /\ record' \in [Flow -> Nat \cup {None}]
    BY <1>17 DEF OB!Tick, OnboardingInv, WaitForms, OB!TypeOK
  <2> QED BY <1>5, <1>17, <2>1, <2>2 DEF OB!Tick, OB!Nextcloud, OB!History
<1> QED BY <1>6, <1>7, <1>8, <1>9, <1>10, <1>11, <1>12, <1>13, <1>14, <1>15, <1>16, <1>17 DEF OB!Next

(* The password of a flow is with one wait, was seen once by its owner, or   *)
(* went back (wait, login and revoke_app_password), for any number of flows, *)
(* accounts and waiting pages and whatever expires, is cancelled or dies.    *)
THEOREM PasswordsAreShownOnce ==
  ASSUME OB!OnboardingAssumption PROVE OB!Spec => [](OB!TypeOK /\ OB!ShownOnceOrReturned)
<1>1. OB!Init => OnboardingInv
  BY DEF OB!Init, OnboardingInv, WaitForms, FlowInv, Holds, Seen, OB!TypeOK, OB!Idle, OB!Steps,
         OB!Holding, OB!OnboardingAssumption
<1>2. OnboardingInv /\ [OB!Next]_(OB!vars) => OnboardingInv'
  <2>1. ASSUME OnboardingInv, UNCHANGED OB!vars PROVE OnboardingInv'
    <3>1. WaitForms'
      BY <2>1 DEF OB!vars, OnboardingInv, WaitForms, OB!TypeOK
    <3>2. ASSUME NEW f \in Flow PROVE FlowInv(f)'
      BY <2>1 DEF OB!vars, OnboardingInv, FlowInv, Holds, Seen
    <3> QED BY <3>1, <3>2 DEF OnboardingInv
  <2> QED BY <2>1, OnboardingSteps
<1>3. ASSUME OnboardingInv PROVE OB!TypeOK /\ OB!ShownOnceOrReturned
  <2>1. ASSUME NEW f \in Flow
        PROVE  /\ {e \in shown : e[1] = f} \subseteq {<<f, owner[f]>>}
               /\ {e \in shown : e[1] = f} # {} => password[f] = "alive" /\ ~ OB!Held(f)
               /\ login[f] = "collected" /\ f \notin mishap =>
                    OB!Held(f) \/ {e \in shown : e[1] = f} # {} \/ password[f] = "returned"
    <3>1. FlowInv(f) /\ shown \subseteq Flow \X Account
      BY <1>3 DEF OnboardingInv, WaitForms, OB!TypeOK
    <3>2. \A e \in shown : e[1] = f => e = <<f, e[2]>> /\ e[2] \in Account
      BY <3>1
    <3>3. OB!Held(f) <=> \E w \in Wait : Holds(w, f)
      BY DEF OB!Held, Holds
    <3>4. (\E e \in shown : e[1] = f) => Seen(f)
      BY <3>2 DEF Seen
    <3>5. Seen(f) => \E e \in shown : e[1] = f
      BY DEF Seen
    <3>6. Seen(f) => password[f] = "alive" /\ ~ OB!Held(f)
      BY <3>1, <3>3 DEF FlowInv, Seen
    <3>7. \A e \in shown : e[1] = f => e = <<f, owner[f]>>
      BY <3>1, <3>2 DEF FlowInv
    <3>8. login[f] = "collected" /\ f \notin mishap => OB!Held(f) \/ Seen(f) \/ password[f] = "returned"
      BY <3>1, <3>3 DEF FlowInv
    <3> HIDE DEF Seen
    <3> QED BY <3>4, <3>5, <3>6, <3>7, <3>8
  <2>2. ASSUME NEW f \in Flow
        PROVE  OB!Cardinality({w \in Wait : wait[w].flow = f /\ wait[w].at \in OB!Holding}) <= 1
    <3> DEFINE H == {w \in Wait : wait[w].flow = f /\ wait[w].at \in OB!Holding}
    <3>1. \A v, w \in H : v = w
      BY <1>3 DEF OnboardingInv, FlowInv, Holds
    <3>2. OB!Cardinality(H) = Cardinality(H)
      BY DEF OB!Cardinality, Cardinality
    <3> HIDE DEF H
    <3>3. H = {} => Cardinality(H) <= 1
      BY FS_EmptySet
    <3>4. ASSUME NEW w \in H PROVE Cardinality(H) <= 1
      <4>1. H = {w}
        BY <3>1
      <4>2. Cardinality({w}) = 1
        BY FS_Singleton
      <4> QED BY <4>1, <4>2
    <3>5. OB!Cardinality(H) <= 1
      BY <3>2, <3>3, <3>4
    <3> QED BY <3>5 DEF H
  <2> QED BY <1>3, <2>1, <2>2 DEF OB!ShownOnceOrReturned, OnboardingInv, WaitForms
<1> QED BY <1>1, <1>2, <1>3, PTL DEF OB!Spec

-----------------------------------------------------------------------------
(* The settings of the ExApp: what a process has in force, by how far its    *)
(* start has come and by whether it could read what is stored.               *)
ProcStates ==
  [at : {"down", "read", "settings", "record", "build", "rebuild", "serving", "stopping"},
   read : BOOLEAN, url : DP!Url, switch : {None, "on", "off"}, noted : BOOLEAN,
   compared : BOOLEAN, fresh : BOOLEAN]

Wanted == DP!Resolved(DP!OverlayOf(stored))
Unread == DP!Resolved(DP!Nothing)
Served(url) == IF url \in DP!NoIssuer THEN DP!Derived ELSE url

DeploymentForms ==
  /\ DP!TypeOK /\ proc \in ProcStates
  /\ call # "none" => proc.at = "serving"

Starting ==
  /\ proc.at \notin {"serving", "stopping"} => ~ proc.compared
  /\ proc.at \in {"settings", "record", "build", "rebuild"} =>
       /\ proc.read /\ proc.fresh => proc.url = Wanted.url /\ proc.switch = Wanted.switch
       /\ ~ proc.read => proc.url = Unread.url /\ proc.switch = Unread.switch
       /\ proc.at = "rebuild" => ~ deploy.exchange /\ proc.url \in DP!NoIssuer

InForce ==
  proc.at = "serving" =>
    /\ proc.read /\ proc.fresh => proc.url = Served(Wanted.url) /\ proc.switch = Wanted.switch
    /\ ~ proc.read => proc.url = Served(Unread.url) /\ proc.switch = Unread.switch
    /\ proc.url = None \/ proc.url \notin DP!NoIssuer
    /\ proc.compared /\ proc.fresh => proc.url = Served(Wanted.url) /\ proc.switch = Wanted.switch

RowRight ==
  /\ proc.noted => log = DP!Effective \/ (log = None /\ DP!Effective = "off")
  /\ proc.at \in {"read", "settings", "record"} => ~ proc.noted

DeploymentInv ==
  /\ DeploymentForms /\ Starting /\ InForce /\ RowRight
  /\ DP!StopsAreDue /\ DP!NobodysAudience

(* What is stored, read and resolved                                         *)
LEMMA ResolvedForms ==
  ASSUME DP!DeploymentAssumption, DeploymentForms
  PROVE  /\ Wanted \in [url : DP!Url, switch : {None, "on", "off"}]
         /\ Unread \in [url : DP!Url, switch : {None, "on", "off"}]
         /\ DP!Derived \in {None, "derived"}
         /\ DP!UsableUrl(stored) \in Address \cup {None, "odd"}
         /\ DP!UsableSwitch(stored) \in {None, "on", "off"}
         /\ DP!OverlayOf(stored).url = DP!UsableUrl(stored)
         /\ DP!OverlayOf(stored).switch = DP!UsableSwitch(stored)
         /\ Wanted.url = DP!Over(DP!Over(DP!UsableUrl(stored), deploy.url), DP!Derived)
         /\ Wanted.switch = DP!Over(DP!UsableSwitch(stored), deploy.switch)
         /\ Unread.url = DP!Over(deploy.url, DP!Derived)
         /\ Unread.switch = deploy.switch
         /\ stored.url # "odd" => DP!UsableUrl(stored) \in Address \cup {None}
<1>1. /\ stored.url \in Address \cup {None, "blank", "bad", "odd"}
      /\ stored.switch \in {None, "blank", "bad", "on", "off"}
      /\ deploy.url \in {None, "variable", "unchecked"} /\ deploy.switch \in {None, "on"}
  BY DEF DeploymentForms, DP!TypeOK, DP!Stored, DP!Deploy
<1>2. DP!Derived \in {None, "derived"}
  BY DEF DP!Derived
<1>3. /\ DP!UsableUrl(stored) \in Address \cup {None, "odd"}
      /\ stored.url # "odd" => DP!UsableUrl(stored) \in Address \cup {None}
  BY <1>1 DEF DP!UsableUrl
<1>4. DP!UsableSwitch(stored) \in {None, "on", "off"}
  BY <1>1 DEF DP!UsableSwitch
<1>5. /\ DP!OverlayOf(stored).url = DP!UsableUrl(stored)
      /\ DP!OverlayOf(stored).switch = DP!UsableSwitch(stored)
      /\ DP!Nothing.url = None /\ DP!Nothing.switch = None
  BY DEF DP!OverlayOf, DP!Nothing
<1>6. /\ Wanted.url = DP!Over(DP!Over(DP!UsableUrl(stored), deploy.url), DP!Derived)
      /\ Wanted.switch = DP!Over(DP!UsableSwitch(stored), deploy.switch)
      /\ Wanted = [url |-> Wanted.url, switch |-> Wanted.switch]
  BY <1>5 DEF Wanted, DP!Resolved
<1>7. /\ Unread.url = DP!Over(deploy.url, DP!Derived) /\ Unread.switch = deploy.switch
      /\ Unread = [url |-> Unread.url, switch |-> Unread.switch]
  BY <1>5 DEF Unread, DP!Resolved, DP!Over
<1>8. Wanted.url \in DP!Url /\ Unread.url \in DP!Url
  BY <1>1, <1>2, <1>3, <1>6, <1>7 DEF DP!Over, DP!Url
<1>9. Wanted.switch \in {None, "on", "off"} /\ Unread.switch \in {None, "on", "off"}
  BY <1>1, <1>4, <1>6, <1>7 DEF DP!Over
<1> QED BY <1>2, <1>3, <1>4, <1>5, <1>6, <1>7, <1>8, <1>9

(* A process that is down promises nothing.                                  *)
LEMMA DownIsWell ==
  ASSUME DP!DeploymentAssumption, DeploymentInv, proc' = DP!Down,
         call' = "none", deploy' = deploy, stored' = stored, enabled' \in BOOLEAN,
         log' = log, changes' = changes
  PROVE  DeploymentInv'
<1>1. proc' \in ProcStates /\ proc'.at = "down" /\ proc'.noted = FALSE /\ proc'.compared = FALSE
  BY DEF DP!Down, ProcStates, DP!Url
<1>2. DeploymentForms'
  BY <1>1 DEF DeploymentInv, DeploymentForms, DP!TypeOK, ProcStates
<1> QED BY <1>1, <1>2 DEF DeploymentInv, Starting, InForce, RowRight, DP!StopsAreDue, DP!NobodysAudience

LEMMA DeploymentSteps ==
  ASSUME DP!DeploymentAssumption, DeploymentInv, DP!Next PROVE DeploymentInv'
<1>0. /\ proc \in ProcStates /\ stored \in DP!Stored /\ deploy \in DP!Deploy /\ enabled \in BOOLEAN
      /\ call \in {"none", "forms", "compare"} /\ changes \in 0..MaxChanges /\ MaxChanges \in Nat
      /\ log \in {None, "on", "off"} /\ (call # "none" => proc.at = "serving")
  BY DEF DeploymentInv, DeploymentForms, DP!TypeOK, DP!DeploymentAssumption
<1>1. ASSUME NEW settings \in DP!Stored, DP!Store(settings) PROVE DeploymentInv'
  <2>1. /\ stored' = settings /\ changes' \in 0..MaxChanges
        /\ deploy' = deploy /\ enabled' = enabled /\ call' = call /\ log' = log
        /\ proc' = [proc EXCEPT !.fresh = FALSE]
    BY <1>0, <1>1 DEF DP!Store
  <2>2. /\ proc' \in ProcStates /\ proc'.fresh = FALSE /\ proc'.at = proc.at /\ proc'.read = proc.read
        /\ proc'.url = proc.url /\ proc'.switch = proc.switch /\ proc'.noted = proc.noted
        /\ proc'.compared = proc.compared
    BY <1>0, <2>1 DEF ProcStates
  <2>3. DeploymentForms'
    BY <1>0, <2>1, <2>2 DEF DeploymentInv, DeploymentForms, DP!TypeOK, ProcStates
  <2>4. Unread' = Unread /\ (\A u : Served(u)' = Served(u))
    BY <2>1 DEF Unread, Served, DP!Resolved, DP!Derived, DP!Nothing
  <2> QED BY <2>1, <2>2, <2>3, <2>4 DEF DeploymentInv, Starting, InForce, RowRight, DP!Effective,
             DP!StopsAreDue, DP!NobodysAudience
<1>2. ASSUME proc' = proc, deploy' = deploy, stored' = stored, enabled' \in BOOLEAN,
             call' \in {"none", "forms", "compare"}, call' # "none" => proc.at = "serving",
             log' = log, changes' = changes
      PROVE  DeploymentInv'
  <2>1. DeploymentForms'
    BY <1>0, <1>2 DEF DeploymentInv, DeploymentForms, DP!TypeOK
  <2>2. Wanted' = Wanted /\ Unread' = Unread /\ (\A u : Served(u)' = Served(u))
    BY <1>2 DEF Wanted, Unread, Served, DP!Resolved, DP!Derived, DP!Nothing
  <2> QED BY <1>2, <2>1, <2>2 DEF DeploymentInv, Starting, InForce, RowRight, DP!Effective,
             DP!StopsAreDue, DP!NobodysAudience
<1>3. ASSUME DP!SetEnabled \/ DP!Enabled \/ DP!RegisterForms PROVE DeploymentInv'
  BY <1>0, <1>2, <1>3 DEF DP!SetEnabled, DP!Enabled, DP!RegisterForms
<1>4. ASSUME DP!Disable PROVE DeploymentInv'
  BY <1>0, <1>2, <1>4, DownIsWell DEF DP!Disable
<1>5. ASSUME DP!Crash \/ DP!RestartThisProcess PROVE DeploymentInv'
  BY <1>0, <1>5, DownIsWell DEF DP!Crash, DP!RestartThisProcess
<1>6. ASSUME deploy' = deploy, stored' = stored, enabled' = enabled, call' = call, changes' = changes,
             call = "none", log' \in {None, "on", "off"}, proc' \in ProcStates
      PROVE  /\ DeploymentForms'
             /\ Wanted' = Wanted /\ Unread' = Unread /\ (\A u : Served(u)' = Served(u))
  <2>1. DeploymentForms'
    BY <1>0, <1>6 DEF DeploymentInv, DeploymentForms, DP!TypeOK, ProcStates
  <2>2. Wanted' = Wanted /\ Unread' = Unread /\ (\A u : Served(u)' = Served(u))
    BY <1>6 DEF Wanted, Unread, Served, DP!Resolved, DP!Derived, DP!Nothing
  <2> QED BY <2>1, <2>2
<1>7. ASSUME DP!StartContainer PROVE DeploymentInv'
  <2>1. proc' \in ProcStates /\ proc'.at = "read" /\ proc'.noted = FALSE /\ proc'.compared = FALSE
    BY <1>7 DEF DP!StartContainer, DP!Down, ProcStates, DP!Url
  <2>2. /\ deploy' = deploy /\ stored' = stored /\ enabled' = enabled /\ call' = call
        /\ changes' = changes /\ log' = log /\ call = "none"
    BY <1>0, <1>7 DEF DP!StartContainer
  <2>3. DeploymentForms'
    BY <1>0, <1>6, <2>1, <2>2
  <2> QED BY <2>1, <2>3 DEF DeploymentInv, Starting, InForce, RowRight, DP!StopsAreDue, DP!NobodysAudience
<1>8. ASSUME DP!ReadValues PROVE DeploymentInv'
  <2>1. /\ deploy' = deploy /\ stored' = stored /\ enabled' = enabled /\ call' = call
        /\ changes' = changes /\ log' = log /\ call = "none" /\ proc.at = "read"
    BY <1>0, <1>8 DEF DP!ReadValues
  <2>2. PICK ok \in BOOLEAN :
          LET force == DP!Resolved(IF ok THEN DP!OverlayOf(stored) ELSE DP!Nothing) IN
          proc' = [proc EXCEPT !.at = "settings", !.read = ok, !.url = force.url, !.switch = force.switch]
    BY <1>8 DEF DP!ReadValues
  <2> DEFINE force == IF ok THEN Wanted ELSE Unread
  <2>3. proc' = [proc EXCEPT !.at = "settings", !.read = ok, !.url = force.url, !.switch = force.switch]
    BY <2>2 DEF Wanted, Unread
  <2>4. force.url \in DP!Url /\ force.switch \in {None, "on", "off"}
    BY ResolvedForms DEF DeploymentInv
  <2> HIDE DEF force
  <2>5. /\ proc' \in ProcStates /\ proc'.at = "settings" /\ proc'.read = ok /\ proc'.url = force.url
        /\ proc'.switch = force.switch /\ proc'.noted = proc.noted /\ proc'.compared = proc.compared
    BY <1>0, <2>3, <2>4 DEF ProcStates
  <2>6. /\ DeploymentForms' /\ Wanted' = Wanted /\ Unread' = Unread
    BY <1>0, <1>6, <2>1, <2>5
  <2>7. Starting'
    BY <2>1, <2>5, <2>6 DEF DeploymentInv, Starting, force
  <2>8. RowRight' /\ InForce' /\ DP!StopsAreDue' /\ DP!NobodysAudience'
    BY <2>1, <2>5 DEF DeploymentInv, RowRight, InForce, DP!StopsAreDue, DP!NobodysAudience
  <2> QED BY <2>6, <2>7, <2>8 DEF DeploymentInv
<1>9. ASSUME DP!Settings PROVE DeploymentInv'
  <2>1. CASE proc' = DP!Down
    BY <1>0, <1>9, <2>1, DownIsWell DEF DP!Settings
  <2>2. CASE proc' = [proc EXCEPT !.at = "record"]
    <3>1. /\ deploy' = deploy /\ stored' = stored /\ enabled' = enabled /\ call' = call
          /\ changes' = changes /\ log' = log /\ call = "none" /\ proc.at = "settings"
      BY <1>0, <1>9 DEF DP!Settings
    <3>2. /\ proc' \in ProcStates /\ proc'.at = "record" /\ proc'.read = proc.read /\ proc'.url = proc.url
          /\ proc'.switch = proc.switch /\ proc'.noted = proc.noted /\ proc'.fresh = proc.fresh
          /\ proc'.compared = proc.compared
      BY <1>0, <2>2 DEF ProcStates
    <3>3. /\ DeploymentForms' /\ Wanted' = Wanted /\ Unread' = Unread
      BY <1>0, <1>6, <3>1, <3>2
    <3> QED BY <3>1, <3>2, <3>3 DEF DeploymentInv, Starting, InForce, RowRight, DP!StopsAreDue,
               DP!NobodysAudience
  <2> QED BY <1>9, <2>1, <2>2 DEF DP!Settings
<1>10. ASSUME DP!RecordTheSwitch PROVE DeploymentInv'
  <2>1. /\ deploy' = deploy /\ stored' = stored /\ enabled' = enabled /\ call' = call
        /\ changes' = changes /\ call = "none" /\ proc.at = "record"
    BY <1>0, <1>10 DEF DP!RecordTheSwitch
  <2>2. log' \in {None, "on", "off"}
    BY <1>0, <1>10 DEF DP!RecordTheSwitch, DP!Effective
  <2>3. /\ proc' \in ProcStates /\ proc'.at = "build" /\ proc'.read = proc.read /\ proc'.url = proc.url
        /\ proc'.switch = proc.switch /\ proc'.fresh = proc.fresh
        /\ proc'.compared = proc.compared
    BY <1>0, <1>10 DEF DP!RecordTheSwitch, ProcStates
  <2>4. DeploymentForms' /\ Wanted' = Wanted /\ Unread' = Unread
    BY <1>0, <1>6, <2>1, <2>2, <2>3
  <2>5. DP!Effective' = DP!Effective
    BY <2>3 DEF DP!Effective
  <2>6. proc'.noted => log' = IF log = None /\ DP!Effective = "off" THEN None ELSE DP!Effective
    BY <1>0, <1>10, <2>1 DEF DP!RecordTheSwitch, DeploymentInv, RowRight, ProcStates
  <2>7. RowRight'
    BY <2>3, <2>5, <2>6 DEF RowRight
  <2> QED BY <2>1, <2>3, <2>4, <2>7 DEF DeploymentInv, Starting, InForce, DP!StopsAreDue,
             DP!NobodysAudience
<1>11. ASSUME DP!Build PROVE DeploymentInv'
  <2>1. /\ deploy' = deploy /\ stored' = stored /\ enabled' = enabled /\ call' = call
        /\ changes' = changes /\ log' = log /\ call = "none" /\ proc.at = "build"
    BY <1>0, <1>11 DEF DP!Build
  <2>2. \/ proc' = DP!Down
        \/ ~ DP!Unbound /\ proc.url \notin DP!NoIssuer /\ proc' = [proc EXCEPT !.at = "serving"]
        \/ /\ ~ DP!Unbound /\ proc.url \in DP!NoIssuer /\ ~ deploy.exchange
           /\ proc' = [proc EXCEPT !.at = "rebuild"]
    <3>1. CASE DP!Unbound
      BY <1>11, <3>1 DEF DP!Build, DP!Unbound
    <3>2. CASE ~ DP!Unbound /\ proc.url \notin DP!NoIssuer
      BY <1>11, <3>2 DEF DP!Build, DP!Unbound
    <3>3. CASE ~ DP!Unbound /\ proc.url \in DP!NoIssuer /\ deploy.exchange
      BY <1>11, <3>3 DEF DP!Build, DP!Unbound
    <3>4. CASE ~ DP!Unbound /\ proc.url \in DP!NoIssuer /\ ~ deploy.exchange
      BY <1>11, <3>4 DEF DP!Build, DP!Unbound
    <3> QED BY <3>1, <3>2, <3>3, <3>4
  <2>3. CASE proc' = DP!Down
    BY <1>0, <2>1, <2>3, DownIsWell
  <2>4. CASE ~ DP!Unbound /\ proc.url \notin DP!NoIssuer /\ proc' = [proc EXCEPT !.at = "serving"]
    <3>1. /\ proc' \in ProcStates /\ proc'.at = "serving" /\ proc'.read = proc.read /\ proc'.url = proc.url
          /\ proc'.switch = proc.switch /\ proc'.noted = proc.noted /\ proc'.fresh = proc.fresh
          /\ proc'.compared = proc.compared
      BY <1>0, <2>4 DEF ProcStates
    <3>2. DeploymentForms' /\ Wanted' = Wanted /\ Unread' = Unread /\ (\A u : Served(u)' = Served(u))
      BY <1>0, <1>6, <2>1, <3>1
    <3>3. /\ proc.read /\ proc.fresh => proc.url = Wanted.url /\ proc.switch = Wanted.switch
          /\ ~ proc.read => proc.url = Unread.url /\ proc.switch = Unread.switch
      BY <2>1 DEF DeploymentInv, Starting
    <3>4. ~ proc'.compared
      BY <2>1, <3>1 DEF DeploymentInv, Starting
    <3>5. InForce'
      BY <2>4, <3>1, <3>2, <3>3, <3>4 DEF InForce, Served, DP!NoIssuer
    <3>6. RowRight'
      BY <2>1, <3>1 DEF DeploymentInv, RowRight, DP!Effective
    <3>7. DP!NobodysAudience'
      BY <2>1, <2>4, <3>1 DEF DP!NobodysAudience, DP!Unbound
    <3> QED BY <3>1, <3>2, <3>5, <3>6, <3>7 DEF DeploymentInv, Starting, DP!StopsAreDue
  <2>5. CASE /\ ~ DP!Unbound /\ proc.url \in DP!NoIssuer /\ ~ deploy.exchange
             /\ proc' = [proc EXCEPT !.at = "rebuild"]
    <3>1. /\ proc' \in ProcStates /\ proc'.at = "rebuild" /\ proc'.read = proc.read /\ proc'.url = proc.url
          /\ proc'.switch = proc.switch /\ proc'.noted = proc.noted /\ proc'.fresh = proc.fresh
          /\ proc'.compared = proc.compared
      BY <1>0, <2>5 DEF ProcStates
    <3>2. DeploymentForms' /\ Wanted' = Wanted /\ Unread' = Unread
      BY <1>0, <1>6, <2>1, <3>1
    <3>3. Starting'
      BY <2>1, <2>5, <3>1, <3>2 DEF DeploymentInv, Starting, DP!NoIssuer
    <3>4. RowRight'
      BY <2>1, <3>1 DEF DeploymentInv, RowRight, DP!Effective
    <3> QED BY <3>1, <3>2, <3>3, <3>4 DEF DeploymentInv, InForce, DP!StopsAreDue, DP!NobodysAudience
  <2> QED BY <2>2, <2>3, <2>4, <2>5
<1>12. ASSUME DP!Rebuild PROVE DeploymentInv'
  <2>1. /\ deploy' = deploy /\ stored' = stored /\ enabled' = enabled /\ call' = call
        /\ changes' = changes /\ log' = log /\ call = "none" /\ proc.at = "rebuild"
    BY <1>0, <1>12 DEF DP!Rebuild
  <2>2. DP!Derived \in {None, "derived"}
    BY DEF DP!Derived
  <2>3. /\ proc' \in ProcStates /\ proc'.at = "serving" /\ proc'.read = proc.read
        /\ proc'.url = DP!Derived
        /\ proc'.switch = proc.switch /\ proc'.noted = proc.noted /\ proc'.fresh = proc.fresh
        /\ proc'.compared = proc.compared
    BY <1>0, <1>12, <2>2 DEF DP!Rebuild, ProcStates, DP!Url
  <2>4. DeploymentForms' /\ Wanted' = Wanted /\ Unread' = Unread /\ (\A u : Served(u)' = Served(u))
    BY <1>0, <1>6, <2>1, <2>3
  <2>5. /\ proc.read /\ proc.fresh => proc.url = Wanted.url /\ proc.switch = Wanted.switch
        /\ ~ proc.read => proc.url = Unread.url /\ proc.switch = Unread.switch
        /\ ~ deploy.exchange /\ proc.url \in DP!NoIssuer /\ ~ proc.compared
    BY <2>1 DEF DeploymentInv, Starting
  <2>6. InForce'
    BY <2>2, <2>3, <2>4, <2>5 DEF InForce, Served, DP!NoIssuer
  <2>7. RowRight'
    BY <2>1, <2>3 DEF DeploymentInv, RowRight, DP!Effective
  <2> QED BY <2>1, <2>3, <2>4, <2>5, <2>6, <2>7 DEF DeploymentInv, Starting, DP!StopsAreDue,
             DP!NobodysAudience
<1>13. ASSUME DP!StoredValuesDiffer PROVE DeploymentInv'
  <2>1. /\ deploy' = deploy /\ stored' = stored /\ enabled' = enabled /\ call' = "none"
        /\ changes' = changes /\ log' = log /\ proc.at = "serving"
    BY <1>0, <1>13 DEF DP!StoredValuesDiffer
  <2>2. CASE proc' = proc
    BY <1>0, <1>2, <2>1, <2>2
  <2>3. /\ Wanted.url = DP!Over(DP!Over(DP!UsableUrl(stored), deploy.url), DP!Derived)
        /\ Wanted.switch = DP!Over(DP!UsableSwitch(stored), deploy.switch)
        /\ Unread.url = DP!Over(deploy.url, DP!Derived) /\ Unread.switch = deploy.switch
        /\ DP!UsableUrl(stored) \in Address \cup {None, "odd"}
        /\ stored.url # "odd" => DP!UsableUrl(stored) \in Address \cup {None}
        /\ DP!OverlayOf(stored).url = DP!UsableUrl(stored)
        /\ DP!OverlayOf(stored).switch = DP!UsableSwitch(stored)
    BY ResolvedForms DEF DeploymentInv
  <2>4. /\ proc.read /\ proc.fresh => proc.url = Served(Wanted.url) /\ proc.switch = Wanted.switch
        /\ ~ proc.read => proc.url = Served(Unread.url) /\ proc.switch = Unread.switch
        /\ proc.url = None \/ proc.url \notin DP!NoIssuer
    BY <2>1 DEF DeploymentInv, InForce
  <2>5. /\ Wanted' = Wanted /\ Unread' = Unread /\ (\A u : Served(u)' = Served(u))
    BY <2>1 DEF Wanted, Unread, Served, DP!Resolved, DP!Derived, DP!Nothing
  <2>6. CASE DP!Differs(DP!OverlayOf(stored)) /\ proc' = [proc EXCEPT !.at = "stopping"]
    <3>1. /\ proc' \in ProcStates /\ proc'.at = "stopping" /\ proc'.read = proc.read /\ proc'.url = proc.url
          /\ proc'.switch = proc.switch /\ proc'.noted = proc.noted /\ proc'.fresh = proc.fresh
          /\ proc'.compared = proc.compared
      BY <1>0, <2>6 DEF ProcStates
    <3>2. \/ DP!UsableUrl(stored) # None /\ DP!UsableUrl(stored) # proc.url
          \/ DP!UsableSwitch(stored) # None /\ DP!UsableSwitch(stored) # proc.switch
      BY <2>3, <2>6 DEF DP!Differs
    <3>3. proc.read /\ proc.fresh => DP!UsableUrl(stored) # None /\ DP!UsableUrl(stored) # proc.url
      BY <2>3, <2>4, <3>2 DEF DP!Over
    <3>4. proc.read /\ proc.fresh => DP!UsableUrl(stored) \in DP!NoIssuer
      BY <2>3, <2>4, <3>3 DEF DP!Over, Served
    <3>5. proc.read /\ proc.fresh => stored.url = "odd"
      BY <2>3, <3>3, <3>4 DEF DP!NoIssuer, DP!DeploymentAssumption
    <3>6. DP!StopsAreDue'
      BY <2>1, <3>1, <3>5 DEF DP!StopsAreDue
    <3>7. DeploymentForms'
      BY <1>0, <2>1, <3>1 DEF DeploymentInv, DeploymentForms, DP!TypeOK, ProcStates
    <3>8. RowRight'
      BY <2>1, <3>1 DEF DeploymentInv, RowRight, DP!Effective
    <3> QED BY <3>1, <3>6, <3>7, <3>8 DEF DeploymentInv, Starting, InForce, DP!NobodysAudience
  <2>7. CASE ~ DP!Differs(DP!OverlayOf(stored)) /\ proc' = [proc EXCEPT !.compared = TRUE]
    <3>1. /\ proc' \in ProcStates /\ proc'.at = "serving" /\ proc'.read = proc.read /\ proc'.url = proc.url
          /\ proc'.switch = proc.switch /\ proc'.noted = proc.noted /\ proc'.fresh = proc.fresh
      BY <1>0, <2>1, <2>7 DEF ProcStates
    <3>2. /\ DP!UsableUrl(stored) = None \/ DP!UsableUrl(stored) = proc.url
          /\ DP!UsableSwitch(stored) = None \/ DP!UsableSwitch(stored) = proc.switch
      BY <2>3, <2>7 DEF DP!Differs
    <3>3. ~ proc.read => proc.url = Served(Wanted.url) /\ proc.switch = Wanted.switch
      BY <2>3, <2>4, <3>2 DEF DP!Over, Served
    <3>4. InForce'
      BY <2>4, <2>5, <3>1, <3>3 DEF InForce
    <3>5. DeploymentForms'
      BY <1>0, <2>1, <3>1 DEF DeploymentInv, DeploymentForms, DP!TypeOK, ProcStates
    <3>6. RowRight'
      BY <2>1, <3>1 DEF DeploymentInv, RowRight, DP!Effective
    <3>7. DP!NobodysAudience'
      BY <2>1, <3>1 DEF DeploymentInv, DP!NobodysAudience
    <3> QED BY <3>1, <3>4, <3>5, <3>6, <3>7 DEF DeploymentInv, Starting, DP!StopsAreDue
  <2> QED BY <1>13, <2>2, <2>6, <2>7 DEF DP!StoredValuesDiffer
<1> QED BY <1>1, <1>3, <1>4, <1>5, <1>7, <1>8, <1>9, <1>10, <1>11, <1>12, <1>13 DEF DP!Next

(* One enable is enough for the settings an administrator stored: a process  *)
(* it compared and nobody changed anything for since serves with all of      *)
(* them; it is stopped only over settings that differ; it never serves under *)
(* the audience of nobody; and the log has the switch that is in force.      *)
THEOREM StoredSettingsApply ==
  ASSUME DP!DeploymentAssumption PROVE DP!Spec => [](DP!TypeOK /\ DP!SettingsApply)
<1>1. DP!Init => DeploymentInv
  <2> SUFFICES ASSUME DP!Init PROVE DeploymentInv OBVIOUS
  <2>1. /\ proc \in ProcStates /\ proc.at = "down" /\ proc.noted = FALSE /\ proc.compared = FALSE
        /\ MaxChanges \in Nat
    BY DEF DP!Init, DP!Down, ProcStates, DP!Url, DP!DeploymentAssumption
  <2>2. /\ deploy \in DP!Deploy /\ enabled \in BOOLEAN /\ call = "none"
        /\ log = None /\ changes \in 0..MaxChanges
    <3>1. deploy \in DP!Deploy
      BY DEF DP!Init, DP!DeploymentAssumption
    <3>2. call = "none" /\ log = None /\ enabled = FALSE /\ changes = 0
      BY DEF DP!Init
    <3>3. changes \in 0..MaxChanges
      BY <2>1, <3>2
    <3> QED BY <3>1, <3>2, <3>3
  <2>3. stored \in DP!Stored
    BY DEF DP!Init, DP!Stored
  <2>4. DeploymentForms
    BY <2>1, <2>2, <2>3 DEF DeploymentForms, DP!TypeOK, ProcStates
  <2> QED BY <2>1, <2>4 DEF DeploymentInv, Starting, InForce, RowRight, DP!StopsAreDue,
             DP!NobodysAudience
<1>2. DeploymentInv /\ [DP!Next]_(DP!vars) => DeploymentInv'
  <2> SUFFICES ASSUME DeploymentInv, [DP!Next]_(DP!vars) PROVE DeploymentInv' OBVIOUS
  <2>1. CASE DP!Next
    BY <2>1, DeploymentSteps
  <2>2. CASE UNCHANGED DP!vars
    <3>1. /\ proc' = proc /\ deploy' = deploy /\ stored' = stored /\ enabled' = enabled /\ call' = call
          /\ log' = log /\ changes' = changes
      BY <2>2 DEF DP!vars
    <3>2. Wanted' = Wanted /\ Unread' = Unread /\ (\A u : Served(u)' = Served(u))
      BY <3>1 DEF Wanted, Unread, Served, DP!Resolved, DP!Derived, DP!Nothing
    <3> QED BY <3>1, <3>2 DEF DeploymentInv, DeploymentForms, DP!TypeOK, Starting, InForce, RowRight,
               DP!Effective, DP!StopsAreDue, DP!NobodysAudience
  <2> QED BY <2>1, <2>2
<1>3. DeploymentInv => DP!TypeOK /\ DP!SettingsApply
  <2> SUFFICES ASSUME DeploymentInv PROVE DP!TypeOK /\ DP!SettingsApply OBVIOUS
  <2>1. DP!OneEnableIsEnough
    BY DEF DeploymentInv, InForce, DP!OneEnableIsEnough, Wanted, Served
  <2>2. DP!LogKnows
    BY DEF DeploymentInv, RowRight, DP!LogKnows
  <2> QED BY <2>1, <2>2 DEF DeploymentInv, DeploymentForms, DP!SettingsApply
<1> QED BY <1>1, <1>2, <1>3, PTL DEF DP!Spec

-----------------------------------------------------------------------------
(* Whose account a call acts on: what the guard, the credentials inside and  *)
(* the row behind know of one request, step by step.                         *)
Inside == {"tool", "work", "record", "done"}
Requests ==
  [at : {"free", "guard", "verify", "identify", "switch", "tool", "work", "record", "done", "refused"},
   app : RP!AppHeader, auth : RP!AuthHeader, user : Account \cup {None, "app"},
   identity : Bearer \cup {None}, ended : BOOLEAN, asked : Account \cup {None},
   acts : Account \cup {None, "configured"}, row : Account \cup {None}, ran : BOOLEAN]

RequestForms == RP!TypeOK /\ call \in Requests

Entered ==
  /\ call.at # "free" => up = "serving"
  /\ up = "serving" => ~ RP!Conflicts

(* Before the tool: who is named, and by what.                               *)
Guarded ==
  /\ call.at \in {"guard", "verify", "identify"} => call.identity = None
  /\ call.at = "guard" => call.user = None
  /\ call.at = "identify" => call.auth \in Bearer
  /\ entry = "exapp" /\ call.at \in {"verify", "identify"} => call.user = "app"
  /\ entry = "exapp" /\ call.at \in {"verify", "identify", "switch"} \cup Inside =>
       call.app \in {"app"} \cup Account /\ call.user = call.app
  /\ entry = "oauth" /\ call.at \in {"verify", "identify", "switch"} \cup Inside => call.user = None
  /\ entry \in {"http", "stdio"} => call.at \notin {"verify", "identify", "switch"}
  /\ entry = "http" /\ "static" \in env /\ call.at \in Inside => call.auth = "static"

Identified ==
  call.at \in {"switch"} \cup Inside =>
    /\ entry = "oauth" => call.identity = call.auth /\ call.auth \in Bearer
    /\ entry = "exapp" /\ call.app = "app" => call.identity = call.auth /\ call.auth \in Bearer
    /\ entry = "exapp" /\ call.app \in Account => call.identity = None
    /\ entry \in {"http", "stdio"} => call.identity = None

(* In the tool and behind it.                                                *)
Acting ==
  /\ entry \in {"exapp", "oauth"} /\ call.at \in Inside => call.asked = RP!Subject
  /\ call.ran => call.at \in {"record", "done"}
  /\ call.at = "work" \/ call.ran => call.acts = RP!Resolved /\ call.acts # None
  /\ call.at # "done" => call.row = None
  /\ call.row # None => entry = "exapp" /\ call.row = RP!ResolveCaller

RequestInv == RequestForms /\ Entered /\ Guarded /\ Identified /\ Acting

(* The account the three of them arrive at                                   *)
LEMMA OneCaller ==
  ASSUME RP!RequestPathAssumption, RequestInv PROVE RP!ActsForItsCaller
<1> SUFFICES ASSUME call.ran PROVE RP!ActsForItsCaller
  BY DEF RP!ActsForItsCaller
<1>1. /\ entry \in RP!Entry /\ env \in SUBSET RP!Flag /\ call \in Requests
      /\ call.at \in {"record", "done"} /\ call.at \in Inside /\ ~ RP!Conflicts
      /\ call.acts = RP!Resolved /\ call.acts # None
  BY DEF RequestInv, RequestForms, RP!TypeOK, Entered, Acting, Inside
<1>2. /\ Owner \in [Bearer \cup Basic -> Account] /\ None \notin Account
      /\ "none" \notin Account /\ "broken" \notin Account /\ "app" \notin Account
      /\ "configured" \notin Account
  BY DEF RP!RequestPathAssumption
<1>3. \A f \in BOOLEAN : RP!FromOAuth(f) # None =>
        call.identity # None /\ call.identity \in Bearer /\ RP!FromOAuth(f) = Owner[call.identity]
  BY <1>1 DEF RP!FromOAuth, Requests
<1>4. ASSUME entry = "exapp" PROVE RP!ActsForItsCaller
  <2>1. RP!SelectMode = "exapp" /\ "appapi" \in env
    BY <1>1, <1>4 DEF RP!SelectMode, RP!Conflicts, RP!ExAppConflicts
  <2>2. call.acts = RP!FromAppApi
    BY <1>1, <2>1 DEF RP!Resolved
  <2>3. /\ call.app \in {"app"} \cup Account /\ call.user = call.app
        /\ call.app = "app" => call.identity = call.auth /\ call.auth \in Bearer
        /\ call.app \in Account => call.identity = None
        /\ call.asked = RP!Subject
        /\ call.row # None => call.row = RP!ResolveCaller
    BY <1>1, <1>4 DEF RequestInv, Guarded, Identified, Acting
  <2>4. CASE call.app \in Account
    <3>1. call.acts = call.app
      BY <1>2, <2>2, <2>4 DEF RP!FromAppApi
    <3>2. call.asked = call.app /\ (call.row # None => call.row = call.app)
      BY <1>1, <2>1, <2>3, <2>4 DEF RP!Subject, RP!ResolveCaller, RequestInv, Acting
    <3> QED BY <1>2, <1>4, <2>4, <3>1, <3>2 DEF RP!ActsForItsCaller, RP!Proved
  <2>5. CASE call.app = "app"
    <3>1. call.acts = RP!FromOAuth(TRUE)
      BY <1>2, <2>2, <2>5 DEF RP!FromAppApi
    <3>2. call.identity # None /\ call.acts = Owner[call.identity] /\ Owner[call.identity] \in Account
      BY <1>1, <1>2, <1>3, <3>1
    <3>3. call.asked = Owner[call.identity] /\ (call.row # None => call.row = Owner[call.identity])
      BY <1>2, <1>1, <2>3, <2>5, <3>2 DEF RP!Subject, RP!ResolveCaller, RequestInv, Acting
    <3> QED BY <1>2, <1>4, <2>3, <2>5, <3>2, <3>3 DEF RP!ActsForItsCaller, RP!Proved
  <2> QED BY <2>3, <2>4, <2>5
<1>5. ASSUME entry = "oauth" PROVE RP!ActsForItsCaller
  <2>1. RP!SelectMode = "oauth"
    BY <1>1, <1>5 DEF RP!SelectMode, RP!Conflicts, RP!OAuthConflicts
  <2>2. call.acts = RP!FromOAuth(FALSE)
    BY <1>1, <2>1 DEF RP!Resolved
  <2>3. call.identity # None /\ call.acts = Owner[call.identity] /\ Owner[call.identity] \in Account
    BY <1>1, <1>2, <1>3, <2>2
  <2>4. /\ call.user = None /\ call.identity = call.auth /\ call.auth \in Bearer
        /\ call.asked = RP!Subject /\ call.row = None
    BY <1>1, <1>5 DEF RequestInv, Guarded, Identified, Acting
  <2>5. call.asked = Owner[call.identity]
    BY <1>2, <2>3, <2>4 DEF RP!Subject
  <2> QED BY <1>2, <1>5, <2>3, <2>4, <2>5 DEF RP!ActsForItsCaller
<1>6. ASSUME entry \in {"http", "stdio"} PROVE RP!ActsForItsCaller
  <2>1. call.row = None /\ call.identity = None /\ (entry = "http" /\ "static" \in env => call.auth = "static")
    BY <1>1, <1>6 DEF RequestInv, Guarded, Identified, Acting
  <2>2. ASSUME entry = "http", call.acts = "configured" PROVE call.auth = "static"
    <3>1. "appapi" \notin env
      BY <1>1, <2>2 DEF RP!Conflicts, RP!HttpConflicts
    <3>2. RP!FromOAuth(FALSE) = None
      BY <2>1 DEF RP!FromOAuth
    <3>3. RP!FromBasic # "configured" \/ RP!FromBasic = None
      BY <1>2 DEF RP!FromBasic
    <3>4. RP!SelectMode \in {"oauth", "static", "passthrough"} /\ (RP!SelectMode = "static" => "static" \in env)
      BY <2>2, <3>1 DEF RP!SelectMode
    <3>5. RP!SelectMode = "static"
      BY <1>1, <2>2, <3>2, <3>3, <3>4 DEF RP!Resolved
    <3> QED BY <2>1, <2>2, <3>4, <3>5
  <2> QED BY <1>6, <2>1, <2>2 DEF RP!ActsForItsCaller
<1> QED BY <1>1, <1>4, <1>5, <1>6 DEF RP!Entry

LEMMA RequestSteps ==
  ASSUME RP!RequestPathAssumption, RequestInv, RP!Next PROVE RequestInv'
<1>0. /\ entry \in RP!Entry /\ env \in SUBSET RP!Flag /\ up \in {"starting", "serving", "refused"}
      /\ alive \subseteq Bearer /\ paused \subseteq Account /\ call \in Requests
  BY DEF RequestInv, RequestForms, RP!TypeOK
<1>1. ASSUME entry' = entry, env' = env, call' = call, up' \in {"starting", "serving", "refused"},
             call.at # "free" => up' = "serving", up' = "serving" => ~ RP!Conflicts,
             alive' \subseteq Bearer, paused' \subseteq Account
      PROVE  RequestInv'
  <2>1. RequestForms'
    BY <1>1 DEF RequestInv, RequestForms, RP!TypeOK
  <2>2. RP!Conflicts' = RP!Conflicts
    BY <1>1 DEF RP!Conflicts, RP!ExAppConflicts, RP!OAuthConflicts, RP!HttpConflicts, RP!StdioConflicts
  <2>3. RP!Resolved' = RP!Resolved /\ RP!Subject' = RP!Subject /\ RP!ResolveCaller' = RP!ResolveCaller
    BY <1>1 DEF RP!Resolved, RP!SelectMode, RP!FromAppApi, RP!FromOAuth, RP!FromBasic, RP!FromStdio,
       RP!Subject, RP!ResolveCaller
  <2> QED BY <1>1, <2>1, <2>2, <2>3 DEF RequestInv, Entered, Guarded, Identified, Acting
<1>2. ASSUME RP!Main PROVE RequestInv'
  BY <1>0, <1>1, <1>2 DEF RP!Main, RequestInv, Entered
<1>3. ASSUME NEW b \in Bearer, RP!EndConnection(b) PROVE RequestInv'
  BY <1>0, <1>1, <1>3 DEF RP!EndConnection, RequestInv, Entered
<1>4. ASSUME NEW a \in Account, RP!FlipSwitch(a) PROVE RequestInv'
  BY <1>0, <1>1, <1>4 DEF RP!FlipSwitch, RequestInv, Entered
<1>5. ASSUME UNCHANGED RP!world, call' \in Requests, call'.at # "free" => up = "serving"
      PROVE  /\ entry' = entry /\ env' = env /\ RequestForms' /\ Entered'
             /\ RP!SelectMode' = RP!SelectMode
  <2>1. entry' = entry /\ env' = env /\ up' = up /\ alive' = alive /\ paused' = paused
    BY <1>5 DEF RP!world
  <2>2. RequestForms'
    BY <1>0, <1>5, <2>1 DEF RequestForms, RP!TypeOK, Requests
  <2>3. RP!Conflicts' = RP!Conflicts
    BY <2>1 DEF RP!Conflicts, RP!ExAppConflicts, RP!OAuthConflicts, RP!HttpConflicts, RP!StdioConflicts
  <2>4. Entered'
    BY <1>5, <2>1, <2>3 DEF RequestInv, Entered
  <2>5. RP!SelectMode' = RP!SelectMode
    BY <2>1 DEF RP!SelectMode
  <2> QED BY <2>1, <2>2, <2>4, <2>5
<1>6. ASSUME RP!Again PROVE RequestInv'
  <2>1. /\ call' \in Requests /\ call'.at = "free" /\ call'.ran = FALSE /\ call'.row = None
        /\ UNCHANGED RP!world
    BY <1>6 DEF RP!Again, RP!Free, Requests, RP!AppHeader, RP!AuthHeader
  <2> QED BY <1>5, <2>1 DEF RequestInv, Guarded, Identified, Acting, Inside
<1>7. ASSUME NEW app \in RP!AppHeader, NEW auth \in RP!AuthHeader, RP!Arrive(app, auth)
      PROVE  RequestInv'
  <2>1. /\ call' \in Requests /\ call'.at = "guard" /\ call'.ran = FALSE /\ call'.row = None
        /\ call'.user = None /\ call'.identity = None /\ UNCHANGED RP!world /\ up = "serving"
    BY <1>7 DEF RP!Arrive, RP!Free, Requests
  <2> QED BY <1>5, <2>1 DEF RequestInv, Guarded, Identified, Acting, Inside
<1>8. ASSUME UNCHANGED RP!world, call.at \notin {"free", "record", "done"}, call.at # "work",
             NEW to \in {"verify", "identify", "switch", "tool", "refused"},
             call' = [call EXCEPT !.at = to]
      PROVE  /\ call' \in Requests /\ call'.at = to /\ up = "serving"
             /\ call'.app = call.app /\ call'.auth = call.auth /\ call'.user = call.user
             /\ call'.identity = call.identity /\ call'.row = None /\ ~ call'.ran
             /\ call'.asked = call.asked /\ RP!Subject' = RP!Subject
  <2>1. /\ call' \in Requests /\ call'.at = to
        /\ call'.app = call.app /\ call'.auth = call.auth /\ call'.user = call.user
        /\ call'.identity = call.identity /\ call'.row = call.row /\ call'.ran = call.ran
        /\ call'.asked = call.asked
    BY <1>0, <1>8 DEF Requests
  <2>2. RP!Subject' = RP!Subject
    BY <2>1 DEF RP!Subject
  <2> QED BY <1>8, <2>1, <2>2 DEF RequestInv, Entered, Acting
<1>9. ASSUME UNCHANGED RP!world, call.at \notin {"free", "record", "done"}, call.at # "work",
             call' = [call EXCEPT !.at = "refused"]
      PROVE  RequestInv'
  BY <1>5, <1>8, <1>9 DEF RequestInv, Guarded, Identified, Acting, Inside
<1>10. ASSUME RP!RequireAppApi PROVE RequestInv'
  <2>1. CASE call.app \in {"none", "broken"}
    BY <1>9, <1>10, <2>1 DEF RP!RequireAppApi, RP!At
  <2>2. CASE call.app \notin {"none", "broken"}
    <3>1. /\ call.at = "guard" /\ entry = "exapp" /\ UNCHANGED RP!world /\ call.identity = None
          /\ call.app \in {"app"} \cup Account /\ ~ call.ran /\ call.row = None /\ up = "serving"
      BY <1>0, <1>10, <2>2 DEF RP!RequireAppApi, RP!At, Requests, RP!AppHeader, RequestInv, Guarded, Acting,
         Entered
    <3> DEFINE to == IF call.app = "app" THEN "verify" ELSE "switch"
    <3>2. call' = [call EXCEPT !.user = call.app, !.at = to]
      BY <1>10, <2>2 DEF RP!RequireAppApi, RP!NeedsBearer
    <3>3. to \in {"verify", "switch"} /\ (to = "verify" <=> call.app = "app")
      OBVIOUS
    <3> HIDE DEF to
    <3>4. /\ call' \in Requests /\ call'.at = to /\ call'.app = call.app /\ call'.user = call.app
          /\ call'.identity = None /\ call'.ran = FALSE /\ call'.row = None
      BY <1>0, <3>1, <3>2, <3>3 DEF Requests
    <3> QED BY <1>5, <3>1, <3>3, <3>4 DEF RequestInv, Guarded, Identified, Acting, Inside,
               RP!RequestPathAssumption
  <2> QED BY <2>1, <2>2
<1>11. ASSUME RP!RequireOAuthBearer PROVE RequestInv'
  <2>1. /\ call.at = "guard" /\ entry = "oauth" /\ UNCHANGED RP!world
        /\ call' = [call EXCEPT !.at = "verify"]
    BY <1>11 DEF RP!RequireOAuthBearer, RP!At, RP!Goto
  <2> QED BY <1>5, <1>8, <2>1 DEF RequestInv, Guarded, Identified, Acting, Inside
<1>12. ASSUME RP!BuildAuth PROVE RequestInv'
  <2>1. /\ call.at = "guard" /\ entry \in {"http", "stdio"} /\ UNCHANGED RP!world
        /\ \/ call' = [call EXCEPT !.at = "refused"]
           \/ /\ call' = [call EXCEPT !.at = "tool"]
              /\ entry = "http" /\ "static" \in env => call.auth = "static"
    BY <1>12 DEF RP!BuildAuth, RP!At, RP!Goto
  <2>2. CASE call' = [call EXCEPT !.at = "refused"]
    BY <1>9, <2>1, <2>2
  <2>3. CASE /\ call' = [call EXCEPT !.at = "tool"]
             /\ entry = "http" /\ "static" \in env => call.auth = "static"
    BY <1>5, <1>8, <2>1, <2>3 DEF RequestInv, Guarded, Identified, Acting, Inside
  <2> QED BY <2>1, <2>2, <2>3
<1>13. ASSUME RP!BearerIsValid PROVE RequestInv'
  <2>1. /\ call.at = "verify" /\ UNCHANGED RP!world /\ entry \in {"exapp", "oauth"}
        /\ call.user \notin Account
    BY <1>0, <1>13 DEF RP!BearerIsValid, RP!At, RequestInv, Guarded, RP!Entry, RP!RequestPathAssumption
  <2>2. \/ call' = [call EXCEPT !.at = "refused"]
        \/ (call.auth \in Bearer /\ call' = [call EXCEPT !.at = "identify"])
    BY <1>0, <1>13, <2>1 DEF RP!BearerIsValid, RP!Goto
  <2>3. CASE call' = [call EXCEPT !.at = "refused"]
    BY <1>9, <2>1, <2>3
  <2>4. CASE call.auth \in Bearer /\ call' = [call EXCEPT !.at = "identify"]
    BY <1>5, <1>8, <2>1, <2>4 DEF RequestInv, Guarded, Identified, Acting, Inside
  <2> QED BY <2>2, <2>3, <2>4
<1>14. ASSUME RP!Deposit PROVE RequestInv'
  <2>1. /\ call.at = "identify" /\ UNCHANGED RP!world /\ entry \in {"exapp", "oauth"}
        /\ call.auth \in Bearer /\ call.row = None /\ ~ call.ran /\ up = "serving"
    BY <1>0, <1>14 DEF RP!Deposit, RP!At, RequestInv, Guarded, RP!Entry, Acting, Entered
  <2>2. CASE call' = [call EXCEPT !.at = "refused"]
    BY <1>9, <2>1, <2>2
  <2>3. CASE call' = [call EXCEPT !.at = "switch", !.identity = call.auth,
                                  !.ended = call.auth \notin alive]
    <3> DEFINE gone == call.auth \notin alive
    <3>1. gone \in BOOLEAN /\ call' = [call EXCEPT !.at = "switch", !.identity = call.auth, !.ended = gone]
      BY <2>3
    <3> HIDE DEF gone
    <3>2. /\ call' \in Requests /\ call'.at = "switch" /\ call'.app = call.app /\ call'.auth = call.auth
          /\ call'.user = call.user /\ call'.identity = call.auth /\ call'.ran = FALSE /\ call'.row = None
      BY ZenonT(60), <1>0, <2>1, <3>1 DEF Requests
    <3> QED BY <1>0, <1>5, <2>1, <3>2 DEF RequestInv, Guarded, Identified, Acting, Inside,
               RP!RequestPathAssumption
  <2> QED BY <1>14, <2>2, <2>3 DEF RP!Deposit, RP!Goto
<1>15. ASSUME RP!SwitchRefusal PROVE RequestInv'
  <2>1. /\ call.at = "switch" /\ UNCHANGED RP!world /\ entry \in {"exapp", "oauth"}
        /\ call.row = None /\ ~ call.ran /\ up = "serving"
    BY <1>0, <1>15 DEF RP!SwitchRefusal, RP!At, RequestInv, Guarded, RP!Entry, Acting, Entered
  <2>2. CASE call' = [call EXCEPT !.at = "refused"]
    BY <1>9, <2>1, <2>2
  <2>3. CASE call' = [call EXCEPT !.at = "tool", !.asked = RP!Subject]
    <3>1. RP!Subject \in Account \cup {None}
      BY <1>0 DEF RP!Subject, Requests, RP!RequestPathAssumption
    <3>2. /\ call' \in Requests /\ call'.at = "tool" /\ call'.app = call.app /\ call'.auth = call.auth
          /\ call'.user = call.user /\ call'.identity = call.identity /\ call'.ran = FALSE
          /\ call'.row = None /\ call'.asked = RP!Subject
      BY ZenonT(60), <1>0, <2>1, <2>3, <3>1 DEF Requests
    <3>3. RP!Subject' = RP!Subject
      BY <3>2 DEF RP!Subject
    <3> QED BY <1>0, <1>5, <2>1, <3>2, <3>3 DEF RequestInv, Guarded, Identified, Acting, Inside
  <2> QED BY <1>15, <2>2, <2>3 DEF RP!SwitchRefusal, RP!Goto
<1>16. ASSUME UNCHANGED RP!world, call.at \in Inside, call' \in Requests, call'.at \in Inside,
              call'.app = call.app, call'.auth = call.auth, call'.user = call.user,
              call'.identity = call.identity, call'.asked = call.asked, call'.ended = call.ended
       PROVE  /\ RequestForms' /\ Entered' /\ Guarded' /\ Identified'
              /\ RP!Subject' = RP!Subject /\ RP!Resolved' = RP!Resolved
              /\ RP!ResolveCaller' = RP!ResolveCaller /\ entry' = entry
              /\ (entry' \in {"exapp", "oauth"} => call'.asked = RP!Subject')
  <2>1. up = "serving"
    BY <1>16 DEF RequestInv, Entered, Inside
  <2>2. RequestForms' /\ Entered' /\ entry' = entry /\ env' = env /\ RP!SelectMode' = RP!SelectMode
    BY <1>5, <1>16, <2>1
  <2>3. Guarded' /\ Identified'
    BY <1>16, <2>2 DEF RequestInv, Guarded, Identified, Inside
  <2>4. RP!Subject' = RP!Subject /\ RP!ResolveCaller' = RP!ResolveCaller
    BY <1>16, <2>2 DEF RP!Subject, RP!ResolveCaller
  <2>5. RP!Resolved' = RP!Resolved
    BY <1>16, <2>2 DEF RP!Resolved, RP!FromAppApi, RP!FromOAuth, RP!FromBasic, RP!FromStdio
  <2> QED BY <1>16, <2>2, <2>3, <2>4, <2>5 DEF RequestInv, Acting
<1>17. ASSUME RP!ResolveCredentials PROVE RequestInv'
  <2>1. /\ call.at = "tool" /\ call.at \in Inside /\ UNCHANGED RP!world /\ call.row = None /\ ~ call.ran
    BY <1>17 DEF RP!ResolveCredentials, RP!At, RequestInv, Acting, Inside
  <2>2. RP!Resolved \in Account \cup {None, "configured"}
    BY <1>0 DEF RP!Resolved, RP!FromAppApi, RP!FromOAuth, RP!FromBasic, RP!FromStdio, Requests,
       RP!RequestPathAssumption
  <2> DEFINE to == IF RP!Resolved = None THEN "record" ELSE "work"
  <2>3. call' = [call EXCEPT !.at = to, !.acts = RP!Resolved]
    BY <1>17 DEF RP!ResolveCredentials
  <2>4. to \in {"record", "work"} /\ (to = "work" => RP!Resolved # None)
    OBVIOUS
  <2> HIDE DEF to
  <2>5. /\ call' \in Requests /\ call'.at = to /\ call'.acts = RP!Resolved
        /\ call'.app = call.app /\ call'.auth = call.auth /\ call'.user = call.user
        /\ call'.identity = call.identity /\ call'.asked = call.asked /\ call'.ended = call.ended
        /\ call'.ran = FALSE /\ call'.row = None
    BY ZenonT(60), <1>0, <2>1, <2>2, <2>3, <2>4 DEF Requests
  <2>6. call'.at \in Inside
    BY <2>4, <2>5 DEF Inside
  <2> QED BY <1>16, <2>1, <2>4, <2>5, <2>6 DEF RequestInv, Acting
<1>18. ASSUME RP!Work PROVE RequestInv'
  <2>1. /\ call.at = "work" /\ call.at \in Inside /\ UNCHANGED RP!world /\ call.row = None
        /\ call.acts = RP!Resolved /\ call.acts # None
    BY <1>18 DEF RP!Work, RP!At, RequestInv, Acting, Inside
  <2>2. /\ call' \in Requests /\ call'.at = "record" /\ call'.acts = call.acts
        /\ call'.app = call.app /\ call'.auth = call.auth /\ call'.user = call.user
        /\ call'.identity = call.identity /\ call'.asked = call.asked /\ call'.ended = call.ended
        /\ call'.ran = TRUE /\ call'.row = None
    BY ZenonT(60), <1>0, <1>18, <2>1 DEF RP!Work, Requests
  <2>3. call'.at \in Inside
    BY <2>2 DEF Inside
  <2> QED BY <1>16, <2>1, <2>2, <2>3 DEF RequestInv, Acting
<1>19. ASSUME RP!Note PROVE RequestInv'
  <2>1. /\ call.at = "record" /\ call.at \in Inside /\ UNCHANGED RP!world /\ call.row = None
        /\ call.ran => call.acts = RP!Resolved /\ call.acts # None
    BY <1>19 DEF RP!Note, RP!At, RequestInv, Acting, Inside
  <2>2. RP!ResolveCaller \in Account \cup {None}
    BY <1>0 DEF RP!ResolveCaller, Requests, RP!RequestPathAssumption
  <2>3. PICK note \in Account \cup {None} :
          /\ call' = [call EXCEPT !.at = "done", !.row = note]
          /\ note # None => entry = "exapp" /\ note = RP!ResolveCaller
    <3>1. CASE call' = [call EXCEPT !.at = "done", !.row = IF entry = "exapp" THEN RP!ResolveCaller ELSE None]
      BY <2>2, <3>1
    <3>2. CASE call' = [call EXCEPT !.at = "done"]
      <4>1. call' = [call EXCEPT !.at = "done", !.row = None]
        BY <1>0, <2>1, <3>2 DEF Requests
      <4> QED BY <4>1
    <3> QED BY <1>19, <3>1, <3>2 DEF RP!Note, RP!Goto
  <2>4. /\ call' \in Requests /\ call'.at = "done" /\ call'.acts = call.acts
        /\ call'.app = call.app /\ call'.auth = call.auth /\ call'.user = call.user
        /\ call'.identity = call.identity /\ call'.asked = call.asked /\ call'.ended = call.ended
        /\ call'.ran = call.ran /\ call'.row = note
    BY <1>0, <2>3 DEF Requests
  <2>5. call'.at \in Inside
    BY <2>4 DEF Inside
  <2> QED BY <1>16, <2>1, <2>3, <2>4, <2>5 DEF RequestInv, Acting
<1> QED BY <1>2, <1>3, <1>4, <1>6, <1>7, <1>10, <1>11, <1>12, <1>13, <1>14, <1>15, <1>17, <1>18, <1>19
        DEF RP!Next

(* However a request arrives and whatever ends or is switched meanwhile, the *)
(* tool acts on the account the request proved, whose switch was asked and   *)
(* which the row names.                                                      *)
THEOREM CallsActForTheirCaller ==
  ASSUME RP!RequestPathAssumption PROVE RP!Spec => [](RP!TypeOK /\ RP!ActsForItsCaller)
<1>1. RP!Init => RequestInv
  <2> SUFFICES ASSUME RP!Init PROVE RequestInv OBVIOUS
  <2>1. /\ call \in Requests /\ call.at = "free" /\ call.ran = FALSE /\ call.row = None
    BY DEF RP!Init, RP!Free, Requests, RP!AppHeader, RP!AuthHeader
  <2>2. RequestForms
    BY <2>1 DEF RP!Init, RequestForms, RP!TypeOK, Requests
  <2> QED BY <2>1, <2>2 DEF RP!Init, RequestInv, Entered, Guarded, Identified, Acting, Inside
<1>2. RequestInv /\ [RP!Next]_(RP!vars) => RequestInv'
  <2> SUFFICES ASSUME RequestInv, [RP!Next]_(RP!vars) PROVE RequestInv' OBVIOUS
  <2>1. CASE RP!Next
    BY <2>1, RequestSteps
  <2>2. CASE UNCHANGED RP!vars
    <3>1. entry' = entry /\ env' = env /\ up' = up /\ alive' = alive /\ paused' = paused /\ call' = call
      BY <2>2 DEF RP!vars
    <3>2. RP!Conflicts' = RP!Conflicts
      BY <3>1 DEF RP!Conflicts, RP!ExAppConflicts, RP!OAuthConflicts, RP!HttpConflicts, RP!StdioConflicts
    <3>3. RP!Resolved' = RP!Resolved /\ RP!Subject' = RP!Subject /\ RP!ResolveCaller' = RP!ResolveCaller
      BY <3>1 DEF RP!Resolved, RP!SelectMode, RP!FromAppApi, RP!FromOAuth, RP!FromBasic, RP!FromStdio,
         RP!Subject, RP!ResolveCaller
    <3> QED BY <3>1, <3>2, <3>3 DEF RequestInv, RequestForms, RP!TypeOK, Entered, Guarded, Identified, Acting
  <2> QED BY <2>1, <2>2
<1>3. RequestInv => RP!TypeOK /\ RP!ActsForItsCaller
  BY OneCaller DEF RequestInv, RequestForms
<1> QED BY <1>1, <1>2, <1>3, PTL DEF RP!Spec

-----------------------------------------------------------------------------
(* The page of an account.  What a form was offered for stays offered, and   *)
(* an ended connection stays ended: so what a tab has found out holds on     *)
(* whatever the other tabs, the clients and the hours do meanwhile.          *)
Tabs ==
  [at : {"free", "owned", "end", "revoke", "flip", "rows", "switch", "render", "page", "failed"},
   who : Visitor \cup {None}, act : {"list", "confirm", "disconnect", "pause", "resume"},
   conn : Conn \cup {None}, value : AP!Value \cup {AP!NoValue}, result : {"", "done", "gone"},
   rows : SUBSET Conn, paused : BOOLEAN, checked : 0..MaxHour \cup {None}]

PageForms ==
  /\ hour \in 0..MaxHour /\ state \in [Conn -> {"flow", "live", "ended"}]
  /\ paused \subseteq Visitor /\ held \in [Visitor -> SUBSET AP!Value]
  /\ offered \in [AP!Handle -> 0..MaxHour \cup {None}] /\ tab \in [Tab -> Tabs]

OfferedAt(h) == offered[h] # None /\ offered[h] <= hour
FromThisPage(v) ==
  v.purpose \in {"disconnect", "switch"} => OfferedAt(v.handle) /\ v.hour <= offered[v.handle]
Due(r, h) == OfferedAt(h) /\ r.checked # None /\ r.checked <= offered[h] + 1

TabRight(r) ==
  /\ FromThisPage(r.value)
  /\ r.at \notin {"free", "page", "failed"} => r.who \in Visitor
  /\ r.at \in {"end", "revoke"} => r.conn \in Conn /\ OwnerOfConn[r.conn] = r.who /\ Due(r, r.conn)
  /\ r.at = "switch" => Due(r, r.who)
  /\ r.at \in {"owned", "end", "revoke", "flip", "switch", "rows"} => r.rows = {}
  /\ r.result = "done" => r.conn \in Conn /\ state[r.conn] = "ended" /\ r.conn \notin r.rows
  /\ \A c \in r.rows : OwnerOfConn[c] = r.who

PageInv ==
  /\ PageForms
  /\ \A h \in AP!Handle : offered[h] # None => offered[h] <= hour
  /\ \A who \in Visitor : \A v \in held[who] : FromThisPage(v)
  /\ \A t \in Tab : TabRight(tab[t])

(* Nothing that happens takes back what was offered or what has ended        *)
Onwards ==
  /\ hour' \in 0..MaxHour /\ hour <= hour'
  /\ state' \in [Conn -> {"flow", "live", "ended"}]
  /\ \A c \in Conn : state[c] = "ended" => state'[c] = "ended"
  /\ offered' \in [AP!Handle -> 0..MaxHour \cup {None}]
  /\ \A h \in AP!Handle : offered'[h] = offered[h] \/ offered'[h] = hour

LEMMA PageGoesOn ==
  ASSUME AP!AccountPageAssumption, PageInv, Onwards
  PROVE  /\ \A h \in AP!Handle : offered'[h] # None => offered'[h] <= hour'
         /\ \A v \in AP!Value \cup {AP!NoValue} : FromThisPage(v) => FromThisPage(v)'
         /\ \A r \in Tabs : TabRight(r) => TabRight(r)'
<1>0. /\ hour \in Int /\ hour' \in Int /\ hour <= hour' /\ hour \in 0..MaxHour /\ None \notin 0..MaxHour
      /\ \A h \in AP!Handle : /\ offered[h] \in 0..MaxHour \cup {None}
                              /\ offered'[h] \in 0..MaxHour \cup {None}
                              /\ offered[h] # None => offered[h] <= hour
  BY DEF PageInv, PageForms, Onwards, AP!AccountPageAssumption
<1>1. \A h \in AP!Handle : offered[h] # None => offered'[h] # None /\ offered[h] <= offered'[h]
  BY <1>0 DEF Onwards
<1>2. \A h \in AP!Handle : offered'[h] # None => offered'[h] <= hour'
  BY <1>0 DEF Onwards
<1>3. ASSUME NEW v \in AP!Value \cup {AP!NoValue}, FromThisPage(v) PROVE FromThisPage(v)'
  <2> SUFFICES ASSUME v.purpose \in {"disconnect", "switch"}
               PROVE  OfferedAt(v.handle)' /\ v.hour <= offered'[v.handle]
    BY DEF FromThisPage
  <2>1. v.handle \in AP!Handle /\ v.hour \in 0..MaxHour
    BY DEF AP!Value, AP!NoValue
  <2>2. OfferedAt(v.handle) /\ v.hour <= offered[v.handle]
    BY <1>3 DEF FromThisPage
  <2> QED BY <1>0, <1>1, <1>2, <2>1, <2>2 DEF OfferedAt
<1>4. ASSUME NEW r \in Tabs, TabRight(r) PROVE TabRight(r)'
  <2>1. /\ r.value \in AP!Value \cup {AP!NoValue} /\ r.checked \in 0..MaxHour \cup {None}
        /\ r.conn \in Conn \cup {None} /\ r.who \in Visitor \cup {None}
    BY DEF Tabs
  <2>2. \A h \in AP!Handle : Due(r, h) => Due(r, h)'
    BY <1>0, <1>1, <1>2, <2>1 DEF Due, OfferedAt
  <2>3. Conn \subseteq AP!Handle /\ Visitor \subseteq AP!Handle
    BY DEF AP!Handle
  <2>4. FromThisPage(r.value)'
    BY <1>3, <1>4, <2>1 DEF TabRight
  <2>5. r.result = "done" => r.conn \in Conn /\ state'[r.conn] = "ended" /\ r.conn \notin r.rows
    BY <1>4 DEF TabRight, Onwards
  <2> QED BY <1>4, <2>2, <2>3, <2>4, <2>5 DEF TabRight
<1> QED BY <1>2, <1>3, <1>4

(* and one tab takes a step that is right of its own.                        *)
LEMMA OneTabMoves ==
  ASSUME AP!AccountPageAssumption, PageInv, Onwards, NEW t \in Tab, NEW new \in Tabs,
         tab' = [tab EXCEPT ![t] = new], TabRight(new)', paused' \subseteq Visitor,
         held' \in [Visitor -> SUBSET AP!Value],
         \A who \in Visitor : \A v \in held'[who] : v \in held[who] \/ FromThisPage(v)'
  PROVE  PageInv'
<1>1. PageForms'
  BY DEF PageInv, PageForms, Onwards
<1>2. \A who \in Visitor : \A v \in held'[who] : FromThisPage(v)'
  BY PageGoesOn DEF PageInv, PageForms
<1>3. ASSUME NEW u \in Tab PROVE TabRight(tab[u])'
  <2>1. tab \in [Tab -> Tabs]
    BY DEF PageInv, PageForms
  <2>2. CASE u = t
    <3>1. tab'[u] = new
      BY <2>1, <2>2
    <3> QED BY <3>1 DEF TabRight, FromThisPage, Due, OfferedAt
  <2>3. CASE u # t
    <3>1. tab'[u] = tab[u] /\ tab[u] \in Tabs
      BY <2>1, <2>3
    <3> DEFINE r == tab[u]
    <3>2. TabRight(r)
      BY DEF PageInv
    <3>3. PICK k \in Tabs : k = r
      BY <3>1
    <3>4. TabRight(k)'
      BY <3>2, <3>3, PageGoesOn
    <3> QED BY <3>1, <3>3, <3>4 DEF TabRight, FromThisPage, Due, OfferedAt
  <2> QED BY <2>2, <2>3
<1> QED BY <1>1, <1>2, <1>3, PageGoesOn DEF PageInv

(* A tab that changes nothing but itself                                     *)
LEMMA TabAlone ==
  ASSUME AP!AccountPageAssumption, PageInv, NEW t \in Tab, NEW new \in Tabs,
         UNCHANGED AP!Shared, AP!Put(t, new), TabRight(new)
  PROVE  PageInv'
<1>1. /\ hour' = hour /\ state' = state /\ paused' = paused /\ held' = held /\ offered' = offered
      /\ tab' = [tab EXCEPT ![t] = new]
  BY DEF AP!Shared, AP!Put
<1>2. Onwards
  BY <1>1 DEF Onwards, PageInv, PageForms
<1>3. TabRight(new)'
  BY <1>2, PageGoesOn
<1> QED BY <1>1, <1>2, <1>3, OneTabMoves DEF PageInv, PageForms

(* The answers every tab may come to                                         *)
LEMMA SameAgain ==
  ASSUME AP!AccountPageAssumption, PageInv, NEW t \in Tab
  PROVE  /\ tab[t] \in Tabs /\ AP!Free \in Tabs /\ TabRight(AP!Free) /\ TabRight(tab[t])
         /\ [AP!Free EXCEPT !.at = "failed"] \in Tabs /\ TabRight([AP!Free EXCEPT !.at = "failed"])
<1>1. tab[t] \in Tabs /\ TabRight(tab[t])
  BY DEF PageInv, PageForms
<1>2. AP!NoValue.purpose \notin {"disconnect", "switch"} /\ AP!NoValue \in AP!Value \cup {AP!NoValue}
  BY DEF AP!NoValue
<1>3. /\ AP!Free \in Tabs /\ AP!Free.at = "free" /\ AP!Free.result = "" /\ AP!Free.rows = {}
      /\ AP!Free.value = AP!NoValue
  BY DEF AP!Free, AP!Serving, Tabs
<1>4. TabRight(AP!Free)
  BY <1>2, <1>3 DEF TabRight, FromThisPage
<1>5. /\ [AP!Free EXCEPT !.at = "failed"] \in Tabs /\ TabRight([AP!Free EXCEPT !.at = "failed"])
  <2> DEFINE new == [AP!Free EXCEPT !.at = "failed"]
  <2>1. /\ new \in Tabs /\ new.at = "failed" /\ new.result = "" /\ new.rows = {}
        /\ new.value = AP!NoValue
    BY <1>3 DEF Tabs
  <2> HIDE DEF new
  <2>2. TabRight(new)
    BY <1>2, <2>1 DEF TabRight, FromThisPage
  <2> QED BY <2>1, <2>2 DEF new
<1> QED BY <1>1, <1>3, <1>4, <1>5

(* "", "gone": the list again                                                *)
LEMMA ListAgain ==
  ASSUME AP!AccountPageAssumption, PageInv, NEW t \in Tab, NEW word \in {"", "gone"},
         tab[t].at \in {"owned", "end", "flip", "switch"}
  PROVE  \E new \in Tabs : /\ TabRight(new)
                           /\ AP!Answer(t, word) => AP!Put(t, new)
<1> DEFINE new == [tab[t] EXCEPT !.at = "rows", !.result = word, !.value = AP!NoValue, !.checked = None]
<1>1. tab[t] \in Tabs /\ TabRight(tab[t])
  BY SameAgain
<1>2. AP!NoValue.purpose \notin {"disconnect", "switch"} /\ AP!NoValue \in AP!Value \cup {AP!NoValue}
  BY DEF AP!NoValue
<1>3. tab[t].rows = {} /\ tab[t].who \in Visitor
  BY <1>1 DEF TabRight
<1>4. /\ new \in Tabs /\ new.at = "rows" /\ new.result = word /\ new.value = AP!NoValue /\ new.rows = {}
      /\ new.who \in Visitor
  BY <1>1, <1>2, <1>3 DEF Tabs
<1>5. AP!Answer(t, word) => AP!Put(t, new)
  BY DEF AP!Answer, AP!Put
<1> HIDE DEF new
<1>6. TabRight(new)
  BY <1>2, <1>4 DEF TabRight, FromThisPage
<1> QED BY <1>4, <1>5, <1>6

(* What a page offers it has offered from then on                            *)
LEMMA Offering ==
  ASSUME AP!AccountPageAssumption, PageInv, NEW who \in Visitor, NEW values \in SUBSET AP!Value,
         \A v \in values : v.hour = hour, AP!Offer(who, values), hour' = hour, state' = state
  PROVE  /\ Onwards /\ held' \in [Visitor -> SUBSET AP!Value]
         /\ \A w \in Visitor : \A v \in held'[w] : v \in held[w] \/ FromThisPage(v)'
<1>0. /\ held \in [Visitor -> SUBSET AP!Value] /\ hour \in 0..MaxHour /\ None \notin 0..MaxHour
      /\ offered \in [AP!Handle -> 0..MaxHour \cup {None}] /\ MaxHour \in Nat
      /\ state \in [Conn -> {"flow", "live", "ended"}]
  BY DEF PageInv, PageForms, AP!AccountPageAssumption
<1>1. /\ held' = [held EXCEPT ![who] = held[who] \cup values]
      /\ offered' = [h \in AP!Handle |-> IF \E v \in values : v.handle = h THEN hour ELSE offered[h]]
  BY <1>0 DEF AP!Offer
<1>2. held' \in [Visitor -> SUBSET AP!Value]
  BY <1>0, <1>1
<1>3. /\ offered' \in [AP!Handle -> 0..MaxHour \cup {None}]
      /\ \A h \in AP!Handle : offered'[h] = offered[h] \/ offered'[h] = hour
  BY <1>0, <1>1
<1>4. Onwards
  BY <1>0, <1>3 DEF Onwards
<1>5. ASSUME NEW v \in values PROVE FromThisPage(v)'
  <2>1. v.handle \in AP!Handle /\ v.hour = hour
    BY DEF AP!Value
  <2>2. offered'[v.handle] = hour
    BY <1>1, <2>1
  <2> QED BY <1>0, <2>1, <2>2 DEF FromThisPage, OfferedAt
<1>6. ASSUME NEW w \in Visitor, NEW v \in held'[w] PROVE v \in held[w] \/ v \in values
  BY <1>0, <1>1, <1>6
<1> QED BY <1>2, <1>4, <1>5, <1>6

(* A tab that a visitor has just begun to use.                              *)
LEMMA OpeningStep ==
  ASSUME AP!AccountPageAssumption, PageInv, NEW t \in Tab, NEW who \in Visitor,
         NEW act \in {"list", "confirm", "disconnect", "pause", "resume"},
         NEW c \in Conn \cup {None}, NEW value \in held[who] \cup {AP!NoValue},
         AP!Act(t, who, act, c, value)
  PROVE  PageInv'
<1> DEFINE to == CASE act \in {"confirm", "disconnect"} -> "owned"
                   [] act \in {"pause", "resume"} -> "flip" [] OTHER -> "rows"
           new == AP!Serving(to, who, act, c, value)
<1>1. to \in {"owned", "flip", "rows"}
  OBVIOUS
<1>2. held \in [Visitor -> SUBSET AP!Value] /\ FromThisPage(AP!NoValue)
  BY DEF PageInv, PageForms, AP!NoValue, FromThisPage
<1>3. value \in AP!Value \cup {AP!NoValue} /\ FromThisPage(value)
  BY <1>2 DEF PageInv
<1>4. UNCHANGED AP!Shared /\ AP!Put(t, new)
  BY DEF AP!Act
<1> HIDE DEF to
<1>5. /\ new \in Tabs /\ new.at = to /\ new.value = value /\ new.result = "" /\ new.rows = {}
      /\ new.who = who
  <2>1. new \in Tabs
    BY <1>1, <1>3 DEF AP!Serving, Tabs
  <2>2. new.at = to /\ new.value = value /\ new.result = "" /\ new.rows = {} /\ new.who = who
    BY DEF AP!Serving
  <2> QED BY <2>1, <2>2
<1> HIDE DEF new
<1>6. TabRight(new)
  BY <1>1, <1>3, <1>5 DEF TabRight
<1> QED BY <1>4, <1>5, <1>6, TabAlone

LEMMA TabSteps ==
  ASSUME AP!AccountPageAssumption, PageInv, NEW t \in Tab,
         \/ \E who \in Visitor :
              \/ AP!Act(t, who, "list", None, AP!NoValue)
              \/ \E value \in held[who] \cup {AP!NoValue} :
                   \/ \E act \in {"confirm", "disconnect"}, c \in Conn : AP!Act(t, who, act, c, value)
                   \/ \E act \in {"pause", "resume"} : AP!Act(t, who, act, None, value)
         \/ AP!Confirm(t) \/ AP!Disconnect(t) \/ AP!EndConnection(t) \/ AP!Revoke(t) \/ AP!Switch(t)
         \/ AP!SetAccess(t) \/ AP!Fail(t) \/ AP!ReadRows(t) \/ AP!Render(t) \/ AP!Leave(t)
  PROVE  PageInv'
<1>0. /\ hour \in 0..MaxHour /\ tab[t] \in Tabs /\ TabRight(tab[t]) /\ None \notin 0..MaxHour
      /\ held \in [Visitor -> SUBSET AP!Value] /\ MaxHour \in Nat
      /\ state \in [Conn -> {"flow", "live", "ended"}] /\ paused \subseteq Visitor
      /\ offered \in [AP!Handle -> 0..MaxHour \cup {None}] /\ OwnerOfConn \in [Conn -> Visitor]
      /\ None \notin AP!Handle /\ Conn \subseteq AP!Handle /\ Visitor \subseteq AP!Handle
  BY SameAgain DEF PageInv, PageForms, AP!AccountPageAssumption, AP!Handle
<1>a. /\ AP!NoValue.purpose \notin {"disconnect", "switch"} /\ AP!NoValue \in AP!Value \cup {AP!NoValue}
      /\ FromThisPage(AP!NoValue)
  BY DEF AP!NoValue, FromThisPage
<1>1. ASSUME NEW who \in Visitor, NEW act \in {"list", "confirm", "disconnect", "pause", "resume"},
             NEW c \in Conn \cup {None}, NEW value \in held[who] \cup {AP!NoValue},
             AP!Act(t, who, act, c, value)
      PROVE  PageInv'
  BY ONLY <1>1, OpeningStep, AP!AccountPageAssumption, PageInv, t \in Tab
<1>2. ASSUME tab[t].at \in {"owned", "end", "flip", "switch"}, UNCHANGED AP!Shared,
             NEW word \in {"", "gone"}, AP!Answer(t, word)
      PROVE  PageInv'
  BY <1>2, ListAgain, TabAlone
<1>3. ASSUME UNCHANGED AP!Shared, AP!Put(t, [AP!Free EXCEPT !.at = "failed"]) PROVE PageInv'
  BY <1>3, SameAgain, TabAlone
<1>4. ASSUME AP!Fail(t) PROVE PageInv'
  BY <1>3, <1>4 DEF AP!Fail
<1>5. ASSUME AP!Leave(t) PROVE PageInv'
  BY <1>5, SameAgain, TabAlone DEF AP!Leave
<1>6. ASSUME AP!Owned(t), NEW purpose \in {"disconnect"},
             AP!FormTokenValid(tab[t].value, purpose, tab[t].conn)
      PROVE  /\ tab[t].conn \in Conn /\ OwnerOfConn[tab[t].conn] = tab[t].who /\ tab[t].who \in Visitor
             /\ OfferedAt(tab[t].conn) /\ hour <= offered[tab[t].conn] + 1
             /\ state[tab[t].conn] = "live"
  <2>1. /\ tab[t].conn \in Conn /\ OwnerOfConn[tab[t].conn] = tab[t].who /\ tab[t].who \in Visitor
        /\ state[tab[t].conn] = "live"
    BY <1>0, <1>6 DEF AP!Owned, Tabs
  <2>2. /\ tab[t].value.purpose = "disconnect" /\ tab[t].value.handle = tab[t].conn
        /\ tab[t].value.hour \in {hour, hour - 1}
    BY <1>6 DEF AP!FormTokenValid
  <2>3. OfferedAt(tab[t].conn) /\ tab[t].value.hour <= offered[tab[t].conn]
    BY <1>0, <2>2 DEF TabRight, FromThisPage
  <2> QED BY <1>0, <2>1, <2>2, <2>3 DEF OfferedAt
<1>7. ASSUME AP!Disconnect(t) PROVE PageInv'
  <2>1. tab[t].at = "owned" /\ UNCHANGED AP!Shared
    BY <1>7 DEF AP!Disconnect
  <2>2. CASE AP!Answer(t, "gone")
    BY <1>2, <2>1, <2>2
  <2>3. CASE /\ AP!Owned(t) /\ AP!FormTokenValid(tab[t].value, "disconnect", tab[t].conn)
             /\ AP!Put(t, [tab[t] EXCEPT !.at = "end", !.value = AP!NoValue, !.checked = hour])
    <3> DEFINE new == [tab[t] EXCEPT !.at = "end", !.value = AP!NoValue, !.checked = hour]
    <3>1. /\ new \in Tabs /\ new.at = "end" /\ new.value = AP!NoValue /\ new.checked = hour
          /\ new.conn = tab[t].conn /\ new.who = tab[t].who /\ new.result = tab[t].result
          /\ new.rows = tab[t].rows
      BY <1>0, <1>a DEF Tabs
    <3> HIDE DEF new
    <3>2. tab[t].rows = {} /\ tab[t].result # "done"
      BY <1>0, <1>6, <2>1, <2>3 DEF TabRight
    <3>3. Due(new, new.conn)
      BY <1>0, <1>6, <2>3, <3>1 DEF Due, OfferedAt
    <3>4. TabRight(new)
      BY <1>a, <1>6, <2>3, <3>1, <3>2, <3>3 DEF TabRight
    <3> QED BY <2>1, <2>3, <3>1, <3>4, TabAlone DEF new
  <2> QED BY <1>7, <2>2, <2>3 DEF AP!Disconnect
<1>8. ASSUME AP!EndConnection(t) PROVE PageInv'
  <2>1. tab[t].at = "end" /\ UNCHANGED AP!Shared
    BY <1>8 DEF AP!EndConnection
  <2>2. CASE AP!Answer(t, "gone")
    BY <1>2, <2>1, <2>2
  <2>3. CASE AP!Put(t, [tab[t] EXCEPT !.at = "revoke"])
    <3> DEFINE new == [tab[t] EXCEPT !.at = "revoke"]
    <3>1. /\ new \in Tabs /\ new.at = "revoke" /\ new.value = tab[t].value /\ new.checked = tab[t].checked
          /\ new.conn = tab[t].conn /\ new.who = tab[t].who /\ new.result = tab[t].result
          /\ new.rows = tab[t].rows
      BY <1>0 DEF Tabs
    <3> HIDE DEF new
    <3>2. TabRight(new)
      BY <1>0, <2>1, <3>1 DEF TabRight, Due
    <3> QED BY <2>1, <2>3, <3>1, <3>2, TabAlone DEF new
  <2> QED BY <1>8, <2>2, <2>3 DEF AP!EndConnection, AP!Goto
<1>9. ASSUME AP!Switch(t) PROVE PageInv'
  <2>1. tab[t].at = "flip" /\ UNCHANGED AP!Shared
    BY <1>9 DEF AP!Switch
  <2>2. CASE AP!Answer(t, "")
    BY <1>2, <2>1, <2>2
  <2>3. CASE /\ AP!FormTokenValid(tab[t].value, "switch", tab[t].who)
             /\ AP!Put(t, [tab[t] EXCEPT !.at = "switch", !.value = AP!NoValue, !.checked = hour])
    <3> DEFINE new == [tab[t] EXCEPT !.at = "switch", !.value = AP!NoValue, !.checked = hour]
    <3>1. /\ new \in Tabs /\ new.at = "switch" /\ new.value = AP!NoValue /\ new.checked = hour
          /\ new.conn = tab[t].conn /\ new.who = tab[t].who /\ new.result = tab[t].result
          /\ new.rows = tab[t].rows
      BY <1>0, <1>a DEF Tabs
    <3> HIDE DEF new
    <3>2. /\ tab[t].value.purpose = "switch" /\ tab[t].value.handle = tab[t].who
          /\ tab[t].value.hour \in {hour, hour - 1}
      BY <2>3 DEF AP!FormTokenValid
    <3>3. OfferedAt(tab[t].who) /\ tab[t].value.hour <= offered[tab[t].who]
      BY <1>0, <3>2 DEF TabRight, FromThisPage
    <3>4. tab[t].who \in Visitor
      BY ZenonT(60), <1>0, <1>a, <3>2 DEF Tabs, AP!Value
    <3>5. Due(new, new.who)
      BY <1>0, <3>1, <3>2, <3>3, <3>4 DEF Due, OfferedAt
    <3>6. TabRight(new)
      BY <1>0, <1>a, <2>1, <3>1, <3>4, <3>5 DEF TabRight
    <3> QED BY <2>1, <2>3, <3>1, <3>6, TabAlone DEF new
  <2> QED BY <1>9, <2>2, <2>3 DEF AP!Switch
<1>10. ASSUME AP!ReadRows(t) PROVE PageInv'
  <2> DEFINE mine == {c \in Conn : state[c] = "live" /\ OwnerOfConn[c] = tab[t].who}
             new == [tab[t] EXCEPT !.at = "render", !.rows = mine]
  <2>1. tab[t].at = "rows" /\ UNCHANGED AP!Shared /\ AP!Put(t, new)
    BY <1>10 DEF AP!ReadRows
  <2>2. /\ mine \in SUBSET Conn /\ (\A c \in mine : state[c] = "live" /\ OwnerOfConn[c] = tab[t].who)
    OBVIOUS
  <2> HIDE DEF mine
  <2>3. /\ new \in Tabs /\ new.at = "render" /\ new.value = tab[t].value /\ new.who = tab[t].who
        /\ new.conn = tab[t].conn /\ new.result = tab[t].result /\ new.rows = mine
    BY <1>0, <2>2 DEF Tabs
  <2> HIDE DEF new
  <2>4. TabRight(new)
    BY <1>0, <2>1, <2>2, <2>3 DEF TabRight
  <2> QED BY <2>1, <2>3, <2>4, TabAlone
<1>11. ASSUME AP!Render(t) PROVE PageInv'
  <2> DEFINE values == {AP!FormToken("disconnect", c) : c \in tab[t].rows}
                         \cup {AP!FormToken("switch", tab[t].who)}
             off == tab[t].who \in paused
             new == [tab[t] EXCEPT !.at = "page", !.paused = off]
  <2>1. /\ tab[t].at = "render" /\ AP!Put(t, new) /\ hour' = hour /\ state' = state
        /\ paused' = paused /\ AP!Offer(tab[t].who, values)
    BY <1>11 DEF AP!Render
  <2>2. tab[t].who \in Visitor
    BY <1>0, <2>1 DEF TabRight
  <2>3. off \in BOOLEAN
    OBVIOUS
  <2> HIDE DEF off
  <2>4. /\ new \in Tabs /\ new.at = "page" /\ new.value = tab[t].value /\ new.who = tab[t].who
        /\ new.conn = tab[t].conn /\ new.result = tab[t].result /\ new.rows = tab[t].rows
    BY <1>0, <2>3 DEF Tabs
  <2> HIDE DEF new
  <2>5. TabRight(new)
    BY <1>0, <2>4 DEF TabRight
  <2>6. values \in SUBSET AP!Value /\ \A v \in values : v.hour = hour
    <3>1. tab[t].rows \subseteq Conn
      BY <1>0 DEF Tabs
    <3> QED BY <1>0, <2>2, <3>1 DEF AP!FormToken, AP!Value, AP!Purpose
  <2> HIDE DEF values
  <2>7. /\ Onwards /\ held' \in [Visitor -> SUBSET AP!Value]
        /\ \A w \in Visitor : \A v \in held'[w] : v \in held[w] \/ FromThisPage(v)'
    BY <2>1, <2>2, <2>6, Offering
  <2>8. PICK k \in Tabs : k = new /\ TabRight(k)
    BY <2>4, <2>5
  <2>9. TabRight(k)' /\ tab' = [tab EXCEPT ![t] = k]
    BY <2>1, <2>7, <2>8, PageGoesOn DEF AP!Put
  <2> QED BY <1>0, <2>1, <2>7, <2>9, OneTabMoves
<1>12. ASSUME AP!Confirm(t) PROVE PageInv'
  <2>1. tab[t].at = "owned" /\ hour' = hour /\ state' = state /\ paused' = paused
    BY <1>12 DEF AP!Confirm
  <2>2. CASE AP!Answer(t, "gone") /\ held' = held /\ offered' = offered
    BY <1>2, <2>1, <2>2 DEF AP!Shared
  <2>3. CASE /\ AP!Owned(t) /\ AP!FormTokenValid(tab[t].value, "disconnect", tab[t].conn)
             /\ AP!Offer(tab[t].who, {AP!FormToken("disconnect", tab[t].conn)})
             /\ AP!Put(t, [AP!Free EXCEPT !.at = "page", !.who = tab[t].who])
    <3> DEFINE values == {AP!FormToken("disconnect", tab[t].conn)}
               new == [AP!Free EXCEPT !.at = "page", !.who = tab[t].who]
    <3>1. tab[t].conn \in Conn /\ tab[t].who \in Visitor
      BY <1>6, <2>3
    <3>2. values \in SUBSET AP!Value /\ \A v \in values : v.hour = hour
      BY <1>0, <3>1 DEF AP!FormToken, AP!Value, AP!Purpose
    <3>3. /\ AP!Free \in Tabs /\ AP!Free.result = "" /\ AP!Free.rows = {} /\ AP!Free.value = AP!NoValue
      BY SameAgain DEF AP!Free, AP!Serving
    <3>4. /\ new \in Tabs /\ new.at = "page" /\ new.result = "" /\ new.rows = {} /\ new.value = AP!NoValue
      BY <3>1, <3>3 DEF Tabs
    <3>5. AP!Offer(tab[t].who, values) /\ AP!Put(t, new)
      BY <2>3
    <3> HIDE DEF values, new
    <3>6. /\ Onwards /\ held' \in [Visitor -> SUBSET AP!Value]
          /\ \A w \in Visitor : \A v \in held'[w] : v \in held[w] \/ FromThisPage(v)'
      BY <2>1, <3>1, <3>2, <3>5, Offering
    <3>7. PICK k \in Tabs : k = new /\ TabRight(k)
      BY <1>a, <3>4 DEF TabRight
    <3>8. TabRight(k)' /\ tab' = [tab EXCEPT ![t] = k]
      BY <3>5, <3>6, <3>7, PageGoesOn DEF AP!Put
    <3> QED BY <1>0, <2>1, <3>6, <3>8, OneTabMoves
  <2> QED BY <1>12, <2>2, <2>3 DEF AP!Confirm
<1>13. ASSUME AP!SetAccess(t) PROVE PageInv'
  <2>1. /\ tab[t].at = "switch" /\ hour' = hour /\ state' = state /\ held' = held /\ offered' = offered
        /\ AP!Answer(t, "")
    BY <1>13 DEF AP!SetAccess
  <2>2. paused' \subseteq Visitor
    BY <1>0, <1>13, <2>1 DEF AP!SetAccess, TabRight
  <2>3. Onwards
    <3>1. hour' = hour /\ state' = state /\ offered' = offered
      BY <2>1
    <3> QED BY <3>1 DEF Onwards, PageInv, PageForms
  <2>4. PICK k \in Tabs : TabRight(k) /\ AP!Put(t, k)
    BY <2>1, ListAgain
  <2>5. TabRight(k)' /\ tab' = [tab EXCEPT ![t] = k]
    BY <2>3, <2>4, PageGoesOn DEF AP!Put
  <2> QED BY <1>0, <2>1, <2>2, <2>3, <2>5, OneTabMoves
<1>14. ASSUME AP!Revoke(t) PROVE PageInv'
  <2>1. /\ tab[t].at = "revoke" /\ hour' = hour /\ paused' = paused /\ held' = held /\ offered' = offered
        /\ state' = [state EXCEPT ![tab[t].conn] = "ended"]
        /\ tab[t].conn \in Conn /\ tab[t].rows = {} /\ tab[t].who \in Visitor
    BY <1>0, <1>14 DEF AP!Revoke, TabRight
  <2>2. Onwards
    <3>1. /\ state' \in [Conn -> {"flow", "live", "ended"}]
          /\ \A c \in Conn : state[c] = "ended" => state'[c] = "ended"
      BY <1>0, <2>1
    <3> QED BY <1>0, <2>1, <3>1 DEF Onwards
  <2>3. CASE AP!Put(t, [AP!Free EXCEPT !.at = "failed"])
    <3>1. PICK k \in Tabs : k = [AP!Free EXCEPT !.at = "failed"] /\ TabRight(k)
      BY SameAgain
    <3>2. TabRight(k)' /\ tab' = [tab EXCEPT ![t] = k]
      BY <2>2, <2>3, <3>1, PageGoesOn DEF AP!Put
    <3> QED BY <1>0, <2>1, <2>2, <3>2, OneTabMoves
  <2>4. CASE AP!Answer(t, "done")
    <3> DEFINE new == [tab[t] EXCEPT !.at = "rows", !.result = "done", !.value = AP!NoValue, !.checked = None]
    <3>1. /\ new \in Tabs /\ new.at = "rows" /\ new.result = "done" /\ new.value = AP!NoValue
          /\ new.rows = {} /\ new.conn = tab[t].conn /\ new.who = tab[t].who
      BY <1>0, <1>a, <2>1 DEF Tabs
    <3>2. tab' = [tab EXCEPT ![t] = new]
      BY <2>4 DEF AP!Answer, AP!Put
    <3> HIDE DEF new
    <3>3. PICK k \in Tabs : k = new
      BY <3>1
    <3>4. state'[k.conn] = "ended" /\ k.conn \in Conn
      BY <1>0, <2>1, <3>1, <3>3
    <3>5. FromThisPage(AP!NoValue)'
      BY <1>a DEF FromThisPage
    <3>6. TabRight(k)'
      BY <2>1, <3>1, <3>3, <3>4, <3>5 DEF TabRight
    <3> QED BY <1>0, <2>1, <2>2, <3>2, <3>3, <3>6, OneTabMoves
  <2> QED BY <1>14, <2>3, <2>4 DEF AP!Revoke
<1>15. ASSUME NEW who \in Visitor, AP!Act(t, who, "list", None, AP!NoValue) PROVE PageInv'
  BY <1>1, <1>15
<1>16. ASSUME NEW who \in Visitor, NEW value \in held[who] \cup {AP!NoValue}, NEW c \in Conn,
              NEW act \in {"confirm", "disconnect"}, AP!Act(t, who, act, c, value) PROVE PageInv'
  BY <1>1, <1>16
<1>17. ASSUME NEW who \in Visitor, NEW value \in held[who] \cup {AP!NoValue},
              NEW act \in {"pause", "resume"}, AP!Act(t, who, act, None, value) PROVE PageInv'
  BY <1>1, <1>17
<1> QED BY <1>4, <1>5, <1>7, <1>8, <1>9, <1>10, <1>11, <1>12, <1>13, <1>14, <1>15, <1>16, <1>17

(* What an account ends or switches through its page was offered to it there *)
(* not more than a window before, and a page that says a connection is ended *)
(* is right and does not list it.                                            *)
THEOREM FormsDoWhatTheyOffered ==
  ASSUME AP!AccountPageAssumption PROVE AP!Spec => [](AP!OnlyWhatWasOffered /\ AP!DoneIsDone)
<1>1. AP!Init => PageInv
  <2> SUFFICES ASSUME AP!Init PROVE PageInv OBVIOUS
  <2>1. /\ AP!Free \in Tabs /\ AP!Free.at = "free" /\ AP!Free.result = "" /\ AP!Free.rows = {}
        /\ AP!Free.value = AP!NoValue /\ AP!NoValue.purpose = "none"
    BY DEF AP!Free, AP!Serving, Tabs, AP!NoValue
  <2>2. TabRight(AP!Free)
    BY <2>1 DEF TabRight, FromThisPage
  <2>3. PageForms
    <3>1. /\ hour \in 0..MaxHour /\ state \in [Conn -> {"flow", "live", "ended"}] /\ paused \subseteq Visitor
      BY DEF AP!Init, AP!AccountPageAssumption
    <3>2. held \in [Visitor -> SUBSET AP!Value] /\ tab \in [Tab -> Tabs]
      BY <2>1 DEF AP!Init
    <3>3. offered \in [AP!Handle -> 0..MaxHour \cup {None}]
      BY DEF AP!Init
    <3> QED BY <3>1, <3>2, <3>3 DEF PageForms
  <2> QED BY <2>2, <2>3 DEF AP!Init, PageInv
<1>2. PageInv /\ [AP!Next]_(AP!vars) => PageInv'
  <2> SUFFICES ASSUME PageInv, [AP!Next]_(AP!vars) PROVE PageInv' OBVIOUS
  <2>0. /\ hour \in 0..MaxHour /\ MaxHour \in Nat /\ state \in [Conn -> {"flow", "live", "ended"}]
        /\ held \in [Visitor -> SUBSET AP!Value] /\ tab \in [Tab -> Tabs] /\ paused \subseteq Visitor
        /\ offered \in [AP!Handle -> 0..MaxHour \cup {None}]
    BY DEF PageInv, PageForms, AP!AccountPageAssumption
  <2>1. ASSUME Onwards, tab' = tab, paused' = paused, held' \in [Visitor -> SUBSET AP!Value],
               \A who \in Visitor : \A v \in held'[who] : v \in held[who] \/ FromThisPage(v)'
        PROVE  PageInv'
    <3>1. PageForms'
      BY <2>0, <2>1 DEF Onwards, PageForms
    <3>2. \A who \in Visitor : \A v \in held'[who] : FromThisPage(v)'
      BY <2>0, <2>1, PageGoesOn DEF PageInv
    <3>3. \A r \in Tabs : TabRight(r) => TabRight(r)'
      BY <2>1, PageGoesOn
    <3>4. ASSUME NEW u \in Tab PROVE TabRight(tab[u])'
      <4>1. PICK k \in Tabs : k = tab[u]
        BY <2>0
      <4>2. TabRight(k)'
        BY <3>3, <4>1 DEF PageInv
      <4>3. tab'[u] = k
        BY <2>1, <4>1
      <4> QED BY <4>2, <4>3 DEF TabRight, FromThisPage, Due, OfferedAt
    <3> QED BY <2>1, <3>1, <3>2, <3>4, PageGoesOn DEF PageInv
  <2>2. CASE UNCHANGED AP!vars
    BY <2>0, <2>1, <2>2 DEF AP!vars, Onwards
  <2>3. ASSUME NEW c \in Conn, AP!Connect(c) \/ AP!EndElsewhere(c) PROVE PageInv'
    BY <2>0, <2>1, <2>3 DEF AP!Connect, AP!EndElsewhere, Onwards
  <2>4. ASSUME NEW c \in Conn, NEW who \in Visitor, AP!ShowConsent(c, who) PROVE PageInv'
    <3> DEFINE new == AP!FormToken("consent", c)
    <3>1. new \in AP!Value /\ new.purpose = "consent"
      BY <2>0 DEF AP!FormToken, AP!Value, AP!Purpose, AP!Handle
    <3>2. held' = [held EXCEPT ![who] = held[who] \cup {new}]
      BY <2>0, <2>4 DEF AP!ShowConsent
    <3> HIDE DEF new
    <3>3. Onwards /\ tab' = tab /\ paused' = paused
      BY <2>0, <2>4 DEF AP!ShowConsent, Onwards
    <3>4. held' \in [Visitor -> SUBSET AP!Value]
      BY <2>0, <3>1, <3>2
    <3>5. ASSUME NEW w \in Visitor, NEW v \in held'[w] PROVE v \in held[w] \/ FromThisPage(v)'
      <4>1. v \in held[w] \/ v = new
        BY <2>0, <3>2, <3>5
      <4> QED BY <3>1, <4>1 DEF FromThisPage
    <3> QED BY <2>1, <3>3, <3>4, <3>5
  <2>5. CASE AP!Tick
    BY <2>0, <2>1, <2>5 DEF AP!Tick, Onwards
  <2> QED BY <2>2, <2>3, <2>4, <2>5, TabSteps DEF AP!Next
<1>3. PageInv => AP!OnlyWhatWasOffered /\ AP!DoneIsDone
  BY DEF PageInv, TabRight, Due, OfferedAt, AP!OnlyWhatWasOffered, AP!Offered, AP!DoneIsDone
<1> QED BY <1>1, <1>2, <1>3, PTL DEF AP!Spec

-----------------------------------------------------------------------------
(* What a tool makes.  What its words mean now they have meant at some       *)
(* moment of the call, and nothing is forgotten of that; so it is enough     *)
(* that the places were looked up at one moment, however long the write      *)
(* takes after that.                                                         *)
CallStates == [at : {"start", "table", "look", "write", "back", "done"}, to : SUBSET WR!Place,
               said : {None, "refused", "failed", "created", "probably"}]

WriteForms ==
  /\ titles \in [Column -> Title \cup {None}] /\ create \in BOOLEAN
  /\ rooms \in [Room -> WR!RoomState] /\ names \in [Calendar -> Title \cup {None}]
  /\ changes \in 0..Renames /\ calls \in [Call -> CallStates]
  /\ meant \in [Call -> SUBSET WR!Place]

MadeRight(m) == m.call \in Call /\ m.at # {} /\ m.at \subseteq meant[m.call]

CallRight(c, mine, r) ==
  /\ r.at \in {"start", "table", "look", "write"} => mine = {}
  /\ r.at # "done" => r.said = None
  /\ r.said = "refused" => mine = {}
  /\ r.at = "back" \/ r.said \in {"created", "probably"} => \E m : mine = {m}
  /\ mine = {} \/ \E m : mine = {m}
  /\ r.at = "write" => r.to # {} /\ r.to \subseteq meant[c]

WritesInv ==
  /\ WriteForms
  /\ \A c \in Call : WR!MeantBy(c, titles, names) \subseteq meant[c]
  /\ \A m \in made : MadeRight(m)
  /\ \A c \in Call : CallRight(c, WR!Of(c), calls[c])

LEMMA WritesAreCounted == ASSUME NEW S PROVE WR!Cardinality(S) = Cardinality(S)
BY DEF WR!Cardinality, Cardinality

LEMMA MeaningIsAPlace ==
  ASSUME WR!ToolWritesAssumption, NEW c \in Call, NEW ts \in [Column -> Title \cup {None}],
         NEW ns \in [Calendar -> Title \cup {None}]
  PROVE  WR!MeantBy(c, ts, ns) \subseteq WR!Place
<1>1. \A S : WR!Alone(S) \subseteq S
  BY DEF WR!Alone
<1>2. CASE Makes[c] = "row"
  <2>1. WR!MeantBy(c, ts, ns) = UNION {WR!Alone({col \in Column : ts[col] = w}) : w \in Wants[c]}
    BY <1>2 DEF WR!MeantBy
  <2> QED BY ZenonT(60), <1>1, <2>1 DEF WR!Place
<1>3. CASE Makes[c] = "message"
  <2>1. WR!MeantBy(c, ts, ns) = {Wants[c]}
    BY <1>3 DEF WR!MeantBy
  <2> QED BY <1>3, <2>1 DEF WR!Place, WR!ToolWritesAssumption
<1>4. CASE Makes[c] \notin {"row", "message"}
  <2>1. WR!MeantBy(c, ts, ns) =
          IF Wants[c] = None THEN {Default} \cup WR!Alone({cal \in Calendar : ns[cal] # None})
          ELSE WR!Alone({cal \in Calendar : ns[cal] # None /\ Wants[c] \in {cal, ns[cal]}})
    BY <1>4 DEF WR!MeantBy
  <2> QED BY <1>1, <2>1 DEF WR!Place, WR!ToolWritesAssumption
<1> QED BY <1>2, <1>3, <1>4

(* What a call takes to write at is what its words mean at that moment.      *)
LEMMA LooksAtWhatIsMeant ==
  ASSUME WR!ToolWritesAssumption, NEW c \in Call
  PROVE  /\ Makes[c] = "row" => WR!ByColumnId(c) \subseteq WR!MeantBy(c, titles, names)
         /\ Makes[c] = "row" /\ WR!Resolves(c) => WR!ByColumnId(c) # {}
         /\ Makes[c] = "message" => {Wants[c]} \subseteq WR!MeantBy(c, titles, names)
         /\ Makes[c] = "event" => WR!PickTarget(Wants[c]) \subseteq WR!MeantBy(c, titles, names)
<1>1. ASSUME Makes[c] = "row" PROVE WR!ByColumnId(c) \subseteq WR!MeantBy(c, titles, names)
  <2>1. \A w : WR!ByTitle(w) = WR!Alone({col \in Column : titles[col] = w})
    BY DEF WR!ByTitle, WR!Alone, WR!Titled
  <2>2. WR!MeantBy(c, titles, names) = UNION {WR!Alone({col \in Column : titles[col] = w}) : w \in Wants[c]}
    BY <1>1 DEF WR!MeantBy
  <2> QED BY <2>1, <2>2 DEF WR!ByColumnId
<1>2. ASSUME Makes[c] = "row", WR!Resolves(c) PROVE WR!ByColumnId(c) # {}
  <2>1. PICK w \in Wants[c] : WR!ByTitle(w) # {}
    BY <1>2 DEF WR!Resolves, WR!ToolWritesAssumption
  <2> QED BY <2>1 DEF WR!ByColumnId
<1>3. Makes[c] = "message" => {Wants[c]} \subseteq WR!MeantBy(c, titles, names)
  BY DEF WR!MeantBy
<1>4. ASSUME Makes[c] = "event" PROVE WR!PickTarget(Wants[c]) \subseteq WR!MeantBy(c, titles, names)
  <2>1. WR!MeantBy(c, titles, names) =
          IF Wants[c] = None THEN {Default} \cup WR!Alone(WR!Existing)
          ELSE WR!Alone({cal \in Calendar : names[cal] # None /\ Wants[c] \in {cal, names[cal]}})
    BY <1>4 DEF WR!MeantBy, WR!Existing
  <2>2. WR!Select(Wants[c]) = {cal \in Calendar : names[cal] # None /\ Wants[c] \in {cal, names[cal]}}
    BY DEF WR!Select
  <2> QED BY <2>1, <2>2 DEF WR!PickTarget, WR!Alone
<1> QED BY <1>1, <1>2, <1>3, <1>4

(* One call moves, and has made what it has made.                            *)
LEMMA OneCallMoves ==
  ASSUME WR!ToolWritesAssumption, WritesInv, NEW c \in Call, NEW new \in CallStates,
         calls' = [calls EXCEPT ![c] = new], UNCHANGED <<WR!world, meant, changes>>,
         \A d \in Call : d # c => WR!Of(d)' = WR!Of(d),
         \A m \in made' : MadeRight(m), CallRight(c, WR!Of(c)', new)
  PROVE  WritesInv'
<1>1. /\ titles' = titles /\ create' = create /\ rooms' = rooms /\ names' = names /\ meant' = meant
      /\ changes' = changes /\ calls \in [Call -> CallStates]
  BY DEF WR!world, WritesInv, WriteForms
<1>2. WriteForms'
  BY <1>1 DEF WritesInv, WriteForms
<1>3. \A d \in Call : WR!MeantBy(d, titles, names)' = WR!MeantBy(d, titles, names)
  BY <1>1
<1>4. ASSUME NEW d \in Call PROVE CallRight(d, WR!Of(d), calls[d])'
  <2>1. CASE d = c
    <3>1. calls'[d] = new
      BY <1>1, <2>1
    <3> QED BY <1>1, <2>1, <3>1 DEF CallRight
  <2>2. CASE d # c
    <3>1. calls'[d] = calls[d] /\ WR!Of(d)' = WR!Of(d)
      BY <1>1, <2>2
    <3> QED BY <1>1, <3>1 DEF CallRight, WritesInv
  <2> QED BY <2>1, <2>2
<1>5. \A m \in made' : MadeRight(m)'
  BY <1>1 DEF MadeRight
<1> QED BY <1>1, <1>2, <1>3, <1>4, <1>5 DEF WritesInv

(* A step of a call that makes nothing                                       *)
LEMMA CallGoesOn ==
  ASSUME WR!ToolWritesAssumption, WritesInv, NEW c \in Call, UNCHANGED <<WR!world, made, meant, changes>>,
         NEW to, NEW places, NEW word,
         calls' = [calls EXCEPT ![c] = [calls[c] EXCEPT !.at = to, !.to = places, !.said = word]],
         places \in SUBSET WR!Place,
         \/ /\ to \in {"table", "look", "write"} /\ calls[c].at \in {"start", "table", "look"}
            /\ word = calls[c].said /\ (to = "write" => places # {} /\ places \subseteq meant[c])
         \/ to = "done" /\ word = "failed" /\ calls[c].at # "done"
         \/ to = "done" /\ word = "refused" /\ calls[c].at \in {"start", "table", "look", "write"}
         \/ to = "done" /\ word = "created" /\ calls[c].at = "back"
  PROVE  WritesInv'
<1> DEFINE new == [calls[c] EXCEPT !.at = to, !.to = places, !.said = word]
<1>1. calls[c] \in CallStates /\ CallRight(c, WR!Of(c), calls[c])
  BY DEF WritesInv, WriteForms
<1>2. new \in CallStates /\ new.at = to /\ new.to = places /\ new.said = word
  BY <1>1 DEF CallStates
<1>3. \A d \in Call : WR!Of(d)' = WR!Of(d)
  BY DEF WR!Of
<1>4. \A m \in made' : MadeRight(m)
  BY DEF WritesInv
<1>5. PICK k \in CallStates : k = new
  BY <1>2
<1> HIDE DEF new
<1>6. CallRight(c, WR!Of(c), k)
  BY <1>1, <1>2, <1>5 DEF CallRight, WR!ToolWritesAssumption
<1>7. calls' = [calls EXCEPT ![c] = k]
  BY <1>5 DEF new
<1> QED BY <1>3, <1>4, <1>6, <1>7, OneCallMoves

LEMMA CallSteps ==
  ASSUME WR!ToolWritesAssumption, WritesInv, NEW c \in Call,
         \/ WR!Start(c) \/ WR!Fail(c) \/ WR!GetTable(c) \/ WR!GetColumns(c) \/ WR!OneRoom(c)
         \/ WR!DiscoverCalendars(c) \/ WR!Write(c) \/ WR!WriteRefused(c) \/ WR!ReadBack(c)
  PROVE  WritesInv'
<1>0. /\ calls \in [Call -> CallStates] /\ calls[c] \in CallStates /\ CallRight(c, WR!Of(c), calls[c])
      /\ meant[c] \subseteq WR!Place /\ WR!MeantBy(c, titles, names) \subseteq meant[c]
      /\ Makes[c] \in {"row", "message", "event"} /\ calls[c].to \subseteq WR!Place
  BY DEF WritesInv, WriteForms, CallStates, WR!ToolWritesAssumption
<1>1. ASSUME UNCHANGED <<WR!world, made, meant, changes>>, NEW to, WR!Goto(c, to),
             to \in {"table", "look"}, calls[c].at \in {"start", "table", "look"}
      PROVE  WritesInv'
  <2>1. calls' = [calls EXCEPT ![c] = [calls[c] EXCEPT !.at = to, !.to = calls[c].to, !.said = calls[c].said]]
    BY <1>0, <1>1 DEF WR!Goto, CallStates
  <2> QED BY <1>0, <1>1, <2>1, CallGoesOn
<1>2. ASSUME UNCHANGED <<WR!world, made, meant, changes>>, NEW word, WR!Say(c, word),
             \/ word = "failed" /\ calls[c].at # "done"
             \/ word = "refused" /\ calls[c].at \in {"start", "table", "look", "write"}
             \/ word = "created" /\ calls[c].at = "back"
      PROVE  WritesInv'
  <2>1. calls' = [calls EXCEPT ![c] = [calls[c] EXCEPT !.at = "done", !.to = calls[c].to, !.said = word]]
    BY <1>0, <1>2 DEF WR!Say, CallStates
  <2> QED BY <1>0, <1>2, <2>1, CallGoesOn
<1>3. ASSUME UNCHANGED <<WR!world, made, meant, changes>>, NEW places, WR!Writing(c, places),
             calls[c].at = "look", places # {}, places \subseteq WR!MeantBy(c, titles, names)
      PROVE  WritesInv'
  <2>1. calls' = [calls EXCEPT ![c] = [calls[c] EXCEPT !.at = "write", !.to = places, !.said = calls[c].said]]
    BY <1>0, <1>3 DEF WR!Writing, CallStates
  <2> QED BY <1>0, <1>3, <2>1, CallGoesOn
<1>4. ASSUME WR!Start(c) PROVE WritesInv'
  BY <1>1, <1>2, <1>4 DEF WR!Start
<1>5. ASSUME WR!Fail(c) PROVE WritesInv'
  BY <1>2, <1>5 DEF WR!Fail
<1>6. ASSUME WR!GetTable(c) PROVE WritesInv'
  BY <1>1, <1>2, <1>6 DEF WR!GetTable, WR!At
<1>7. ASSUME WR!GetColumns(c) PROVE WritesInv'
  <2>1. calls[c].at = "look" /\ Makes[c] = "row" /\ UNCHANGED <<WR!world, made, meant, changes>>
    BY <1>7 DEF WR!GetColumns, WR!At
  <2>2. CASE WR!Say(c, "refused")
    BY <1>2, <2>1, <2>2
  <2>3. CASE WR!Resolves(c) /\ WR!Writing(c, WR!ByColumnId(c))
    BY <1>3, <2>1, <2>3, LooksAtWhatIsMeant
  <2> QED BY <1>7, <2>2, <2>3 DEF WR!GetColumns
<1>8. ASSUME WR!OneRoom(c) PROVE WritesInv'
  <2>1. calls[c].at = "look" /\ Makes[c] = "message" /\ UNCHANGED <<WR!world, made, meant, changes>>
    BY <1>8 DEF WR!OneRoom, WR!At
  <2>2. CASE WR!Say(c, "refused")
    BY <1>2, <2>1, <2>2
  <2>3. CASE WR!Writing(c, {Wants[c]})
    BY <1>3, <2>1, <2>3, LooksAtWhatIsMeant
  <2> QED BY <1>8, <2>2, <2>3 DEF WR!OneRoom
<1>9. ASSUME WR!DiscoverCalendars(c) PROVE WritesInv'
  <2>1. calls[c].at = "look" /\ Makes[c] = "event" /\ UNCHANGED <<WR!world, made, meant, changes>>
    BY <1>9 DEF WR!DiscoverCalendars, WR!At
  <2>2. CASE WR!Say(c, "refused")
    BY <1>2, <2>1, <2>2
  <2>3. CASE WR!PickTarget(Wants[c]) # {} /\ WR!Writing(c, WR!PickTarget(Wants[c]))
    BY <1>3, <2>1, <2>3, LooksAtWhatIsMeant
  <2> QED BY <1>9, <2>2, <2>3 DEF WR!DiscoverCalendars
<1>10. ASSUME WR!WriteRefused(c) PROVE WritesInv'
  BY <1>2, <1>10 DEF WR!WriteRefused
<1>11. ASSUME WR!ReadBack(c) PROVE WritesInv'
  BY <1>2, <1>11 DEF WR!ReadBack, WR!At
<1>12. ASSUME WR!Write(c) PROVE WritesInv'
  <2> DEFINE one == [call |-> c, at |-> calls[c].to, nr |-> WR!Cardinality({m \in made : m.call = c})]
  <2>1. /\ calls[c].at = "write" /\ made' = made \cup {one} /\ UNCHANGED <<WR!world, meant, changes>>
        /\ one.call = c /\ one.at = calls[c].to
    BY <1>12 DEF WR!Write, WR!Made
  <2>2. PICK m1 : m1 = one
    OBVIOUS
  <2> HIDE DEF one
  <2>3. WR!Of(c) = {} /\ calls[c].to # {} /\ calls[c].to \subseteq meant[c] /\ calls[c].said = None
    BY <1>0, <2>1 DEF CallRight
  <2>4. WR!Of(c)' = {m1}
    BY <2>1, <2>2, <2>3 DEF WR!Of
  <2>5. \A d \in Call : d # c => WR!Of(d)' = WR!Of(d)
    BY <2>1, <2>2 DEF WR!Of
  <2>6. \A m \in made' : MadeRight(m)
    BY <2>1, <2>2, <2>3 DEF MadeRight, WritesInv
  <2>7. ASSUME NEW to, NEW word,
               calls' = [calls EXCEPT ![c] = [calls[c] EXCEPT !.at = to, !.said = word]],
               \/ to = "done" /\ word \in {"failed", "created", "probably"}
               \/ to = "back" /\ word = None
        PROVE  WritesInv'
    <3>1. PICK k \in CallStates : /\ calls' = [calls EXCEPT ![c] = k] /\ k.at = to /\ k.said = word
      <4> DEFINE new == [calls[c] EXCEPT !.at = to, !.said = word]
      <4>1. new \in CallStates /\ new.at = to /\ new.said = word
        BY <1>0, <2>7 DEF CallStates
      <4> HIDE DEF new
      <4> QED BY <2>7, <4>1 DEF new
    <3>2. CallRight(c, WR!Of(c)', k)
      BY <2>4, <2>7, <3>1 DEF CallRight, WR!ToolWritesAssumption
    <3> QED BY <2>1, <2>5, <2>6, <3>1, <3>2, OneCallMoves
  <2>8. ASSUME NEW word \in {"failed", "created", "probably"}, WR!Say(c, word) PROVE WritesInv'
    BY <2>7, <2>8 DEF WR!Say
  <2>9. ASSUME WR!Goto(c, "back") PROVE WritesInv'
    <3>1. calls' = [calls EXCEPT ![c] = [calls[c] EXCEPT !.at = "back", !.said = None]]
      BY <1>0, <2>3, <2>9 DEF WR!Goto, CallStates
    <3> QED BY <2>7, <3>1
  <2> QED BY <1>12, <2>8, <2>9 DEF WR!Write
<1> QED BY <1>4, <1>5, <1>6, <1>7, <1>8, <1>9, <1>10, <1>11, <1>12

(* Whoever renames, shares or removes what in between: a tool that says      *)
(* created made one thing, one that refuses made nothing, and what was made  *)
(* is where the words of the call pointed alone at some moment of it.        *)
THEOREM WritesGoWhereTheyWereMeant ==
  ASSUME WR!ToolWritesAssumption PROVE WR!Spec => []WR!WritesWhatWasMeant
<1>1. WR!Init => WritesInv
  <2> SUFFICES ASSUME WR!Init PROVE WritesInv OBVIOUS
  <2>1. /\ titles \in [Column -> Title \cup {None}] /\ names \in [Calendar -> Title \cup {None}]
        /\ create \in BOOLEAN /\ changes \in 0..Renames /\ made = {}
    BY DEF WR!Init, WR!ToolWritesAssumption
  <2>2. rooms \in [Room -> WR!RoomState]
    BY DEF WR!Init, WR!RoomState
  <2>3. \A c \in Call : WR!Begun(c) \in CallStates /\ WR!Begun(c).at = "start" /\ WR!Begun(c).said = None
    BY DEF WR!Begun, CallStates
  <2>4. calls \in [Call -> CallStates] /\ \A c \in Call : calls[c].at = "start" /\ calls[c].said = None
    BY <2>3 DEF WR!Init
  <2>5. meant \in [Call -> SUBSET WR!Place] /\ \A c \in Call : meant[c] = WR!MeantBy(c, titles, names)
    BY <2>1, MeaningIsAPlace DEF WR!Init
  <2>6. \A c \in Call : WR!Of(c) = {}
    BY <2>1 DEF WR!Of
  <2>7. \A c \in Call : CallRight(c, WR!Of(c), calls[c])
    BY <2>4, <2>6 DEF CallRight, WR!ToolWritesAssumption
  <2> QED BY <2>1, <2>2, <2>4, <2>5, <2>7 DEF WritesInv, WriteForms
<1>2. WritesInv /\ [WR!Next]_(WR!vars) => WritesInv'
  <2> SUFFICES ASSUME WritesInv, [WR!Next]_(WR!vars) PROVE WritesInv' OBVIOUS
  <2>1. ASSUME made' = made, calls' = calls, titles' \in [Column -> Title \cup {None}],
               create' \in BOOLEAN, rooms' \in [Room -> WR!RoomState],
               names' \in [Calendar -> Title \cup {None}], changes' \in 0..Renames,
               meant' \in [Call -> SUBSET WR!Place],
               \A c \in Call : /\ meant[c] \subseteq meant'[c]
                               /\ WR!MeantBy(c, titles', names') \subseteq meant'[c]
        PROVE  WritesInv'
    <3>1. WriteForms'
      BY <2>1 DEF WritesInv, WriteForms
    <3>2. \A c \in Call : WR!MeantBy(c, titles, names)' \subseteq meant'[c]
      BY <2>1
    <3>3. \A m \in made' : MadeRight(m)'
      BY <2>1 DEF WritesInv, MadeRight
    <3>4. \A c \in Call : WR!Of(c)' = WR!Of(c)
      BY <2>1 DEF WR!Of
    <3>5. \A c \in Call : CallRight(c, WR!Of(c), calls[c])'
      BY <2>1, <3>4 DEF WritesInv, CallRight
    <3> QED BY <3>1, <3>2, <3>3, <3>5 DEF WritesInv
  <2>2. CASE UNCHANGED WR!vars
    <3>1. /\ made' = made /\ calls' = calls /\ titles' = titles /\ create' = create /\ rooms' = rooms
          /\ names' = names /\ changes' = changes /\ meant' = meant
      BY <2>2 DEF WR!vars, WR!world
    <3> QED BY <2>1, <3>1 DEF WritesInv, WriteForms
  <2>3. CASE WR!People
    <3>0. WriteForms /\ Renames \in Nat
      BY DEF WritesInv, WR!ToolWritesAssumption
    <3>1. /\ titles' \in [Column -> Title \cup {None}] /\ create' \in BOOLEAN
          /\ rooms' \in [Room -> WR!RoomState] /\ names' \in [Calendar -> Title \cup {None}]
      BY <2>3, <3>0 DEF WR!People, WriteForms
    <3>2. changes' \in 0..Renames /\ made' = made /\ calls' = calls
      BY <2>3, <3>0 DEF WR!People, WriteForms
    <3>3. meant' = [c \in Call |-> meant[c] \cup WR!MeantBy(c, titles', names')]
      BY <2>3 DEF WR!People, WR!Watch
    <3>4. \A c \in Call : WR!MeantBy(c, titles', names') \subseteq WR!Place
      BY <3>1, MeaningIsAPlace
    <3>5. meant' \in [Call -> SUBSET WR!Place]
      BY <3>0, <3>3, <3>4 DEF WriteForms
    <3>6. \A c \in Call : meant[c] \subseteq meant'[c] /\ WR!MeantBy(c, titles', names') \subseteq meant'[c]
      BY <3>3
    <3> QED BY <2>1, <3>1, <3>2, <3>5, <3>6
  <2> QED BY <2>2, <2>3, CallSteps DEF WR!Next
<1>3. WritesInv => WR!WritesWhatWasMeant
  <2> SUFFICES ASSUME WritesInv, NEW c \in Call
               PROVE  /\ calls[c].said \in {"created", "probably"} => WR!Cardinality(WR!Of(c)) = 1
                      /\ calls[c].said = "refused" => WR!Of(c) = {}
                      /\ WR!Cardinality(WR!Of(c)) <= 1
                      /\ \A m \in WR!Of(c) : m.at # {} /\ m.at \subseteq meant[c]
    BY DEF WR!WritesWhatWasMeant
  <2>1. CallRight(c, WR!Of(c), calls[c])
    BY DEF WritesInv
  <2>2. Cardinality({}) = 0 /\ \A m : Cardinality({m}) = 1
    BY FS_EmptySet, FS_Singleton
  <2>3. \A m \in WR!Of(c) : m.at # {} /\ m.at \subseteq meant[c]
    BY DEF WR!Of, WritesInv, MadeRight
  <2>4. WR!Cardinality(WR!Of(c)) \in {0, 1}
        /\ (calls[c].said \in {"created", "probably"} => WR!Cardinality(WR!Of(c)) = 1)
    BY <2>1, <2>2, WritesAreCounted DEF CallRight
  <2> QED BY <2>1, <2>3, <2>4 DEF CallRight
<1> QED BY <1>1, <1>2, <1>3, PTL DEF WR!Spec

-----------------------------------------------------------------------------
(* What a file tool writes over is what its caller named: a tool that puts   *)
(* something new finds nothing there, and Nextcloud compares the etag in the *)
(* moment it writes.                                                         *)
LEMMA PutsOver ==
  ASSUME FW!FileWritesAssumption, FW!NoLostUpdate, NEW by, NEW how, NEW parts,
         FW!Put(by, how, parts),
         by = None \/ file = FW!NoFile \/ (how = "update" /\ file.etag = job[by].etag)
  PROVE  FW!NoLostUpdate'
<1>1. replaced' = IF by = None \/ file = FW!NoFile THEN replaced
                  ELSE replaced \cup {[was |-> file.etag, how |-> how, given |-> job[by].etag]}
  BY DEF FW!Put
<1>2. CASE by = None \/ file = FW!NoFile
  BY <1>1, <1>2 DEF FW!NoLostUpdate
<1>3. CASE by # None /\ file # FW!NoFile
  <2>1. replaced' = replaced \cup {[was |-> file.etag, how |-> "update", given |-> file.etag]}
    BY <1>1, <1>3
  <2> QED BY <2>1 DEF FW!NoLostUpdate
<1> QED BY <1>2, <1>3

(* No tool writes over a version its caller did not name, and no upload      *)
(* writes over anything, whoever saves in between.                           *)
THEOREM NoUpdateIsLost ==
  ASSUME FW!FileWritesAssumption PROVE FW!Spec => []FW!NoLostUpdate
<1>1. FW!Init => FW!NoLostUpdate
  BY DEF FW!Init, FW!NoLostUpdate
<1>2. FW!NoLostUpdate /\ [FW!Next]_(FW!vars) => FW!NoLostUpdate'
  <2> SUFFICES ASSUME FW!NoLostUpdate, [FW!Next]_(FW!vars) PROVE FW!NoLostUpdate' OBVIOUS
  <2>1. ASSUME replaced' = replaced PROVE FW!NoLostUpdate'
    BY <2>1 DEF FW!NoLostUpdate
  <2>2. CASE UNCHANGED FW!vars
    BY <2>1, <2>2 DEF FW!vars
  <2>3. CASE FW!Others
    BY <2>1, <2>3, PutsOver DEF FW!Others
  <2>4. ASSUME NEW c \in Client, FW!Replace(c) PROVE FW!NoLostUpdate'
    <3>1. CASE FW!Matches(job[c].etag) /\ FW!Put(c, "update", <<>>)
      BY <3>1, PutsOver DEF FW!Matches
    <3>2. CASE FW!Unwritten
      BY <2>1, <3>2 DEF FW!Unwritten
    <3> QED BY <2>4, <3>1, <3>2 DEF FW!Replace
  <2>5. ASSUME NEW c \in Client, FW!PutNew(c) PROVE FW!NoLostUpdate'
    <3>1. CASE file = FW!NoFile /\ FW!Put(c, "upload", <<>>)
      BY <3>1, PutsOver
    <3>2. CASE FW!Unwritten
      BY <2>1, <3>2 DEF FW!Unwritten
    <3> QED BY <2>5, <3>1, <3>2 DEF FW!PutNew
  <2>6. ASSUME NEW c \in Client, FW!Finish(c) PROVE FW!NoLostUpdate'
    <3>1. CASE FW!Unwritten
      BY <2>1, <3>1 DEF FW!Unwritten
    <3>2. CASE ~ FW!Unwritten
      <4>1. PICK parts : file = FW!NoFile /\ FW!Put(c, "binary", parts)
        BY <2>6, <3>2 DEF FW!Finish
      <4> QED BY <4>1, PutsOver
    <3> QED BY <3>1, <3>2
  <2>7. ASSUME NEW c \in Client,
               \/ FW!Expire(c) \/ FW!Read(c) \/ FW!Fail(c) \/ FW!Update(c) \/ FW!Stat(c)
               \/ FW!Upload(c) \/ FW!Attach(c) \/ FW!Stage(c)
               \/ FW!Chunk(c) \/ FW!Mkcol(c) \/ FW!PutChunk(c)
        PROVE  FW!NoLostUpdate'
    BY <2>1, <2>7 DEF FW!Expire, FW!Read, FW!Fail, FW!Update, FW!Stat, FW!Upload, FW!Attach, FW!Stage,
       FW!Chunk, FW!Mkcol, FW!PutChunk, FW!Unwritten
  <2> QED BY <2>2, <2>3, <2>4, <2>5, <2>6, <2>7 DEF FW!Next
<1> QED BY <1>1, <1>2, PTL DEF FW!Spec

-----------------------------------------------------------------------------
(* The documents of clients.  What a lookup or the row knows of an address   *)
(* stood in the document when it was given out, and that never unhappens:    *)
(* who stops naming an address does so later than every answer that names it.*)
Lookups ==
  [at : {"idle", "load", "lookup", "fetch", "read", "save", "reload", "given"}, may : BOOLEAN,
   to : {Never, "public"}, found : Offers \cup {Never}, asked : 0..Seconds, since : 0..Seconds,
   from : CD!Rows \cup {Never}, when : 0..Seconds]

DocumentForms ==
  /\ clock \in 0..Seconds /\ document \in Offers \cup {Never}
  /\ named \in [ReturnAddress -> -1..Seconds]
  /\ call \in [Caller -> Lookups] /\ row \in CD!Rows \cup {Never}

(* the addresses were named when a server gave them out                      *)
Knew(uses, asked) == asked <= clock /\ \A a \in uses : CD!NamedSince(a, asked)

RowKnows ==
  row # Never => row.expires <= row.fetched + CACHE_MAX /\ Knew(row.uses, row.asked)

LookupRight(r) ==
  /\ r.at \in {"fetch", "read", "save", "reload"} => r.to = "public"
  /\ r.at \in {"read", "save"} => r.found \in Offers /\ Knew(r.found.uses, r.asked)
  /\ r.at = "given" /\ r.may =>
       /\ r.from \in CD!Rows /\ Knew(r.from.uses, r.from.asked)
       /\ r.when - r.from.fetched < CACHE_MAX \/ r.to = "public"

DocumentsInv ==
  /\ DocumentForms /\ RowKnows /\ CD!StaysOutside
  /\ \A c \in Caller : LookupRight(call[c])

LEMMA DocumentBounds ==
  ASSUME CD!ClientDocumentsAssumption, DocumentsInv
  PROVE  /\ clock \in Nat /\ CACHE_MIN \in Nat /\ CACHE_MAX \in Nat /\ Seconds \in Nat
         /\ CACHE_MIN <= CACHE_MAX
         /\ Registrable \subseteq ReturnAddress
         /\ \A offer \in Offers : offer.uses \subseteq ReturnAddress /\ offer.age \in Nat
         /\ \A c \in Caller : call[c] \in Lookups /\ LookupRight(call[c])
BY DEF CD!ClientDocumentsAssumption, DocumentsInv, DocumentForms

(* What is known stays known while the people who run the host go on.        *)
LEMMA KnownForGood ==
  ASSUME CD!ClientDocumentsAssumption, DocumentsInv, clock' \in Nat, clock <= clock',
         \A a \in ReturnAddress, m \in Nat :
            m <= clock /\ CD!NamedSince(a, m) => CD!NamedSince(a, m)',
         NEW uses, uses \subseteq ReturnAddress, NEW asked \in Nat, Knew(uses, asked)
  PROVE  Knew(uses, asked)'
<1>1. clock \in Nat
  BY DocumentBounds
<1> QED BY <1>1 DEF Knew

(* The lookups and the row stand still, or one lookup goes on.               *)
LEMMA WorldGoesOn ==
  ASSUME CD!ClientDocumentsAssumption, DocumentsInv, row' = row, call' = call, contacted' = contacted,
         clock' \in 0..Seconds, clock <= clock', document' \in Offers \cup {Never},
         named' \in [ReturnAddress -> -1..Seconds],
         \A a \in ReturnAddress, m \in Nat :
            m <= clock /\ CD!NamedSince(a, m) => CD!NamedSince(a, m)'
  PROVE  DocumentsInv'
<1>0. clock' \in Nat
  BY DocumentBounds
<1>1. DocumentForms'
  BY DEF DocumentsInv, DocumentForms
<1>2. RowKnows'
  <2> SUFFICES ASSUME row # Never PROVE RowKnows'
    BY DEF RowKnows
  <2>1. /\ row.uses \subseteq ReturnAddress /\ row.asked \in Nat
        /\ row.expires <= row.fetched + CACHE_MAX /\ Knew(row.uses, row.asked)
    BY DocumentBounds DEF DocumentsInv, DocumentForms, RowKnows, CD!Rows
  <2> DEFINE u == row.uses
             m == row.asked
  <2> HIDE DEF u, m
  <2>2. Knew(u, m)'
    BY <1>0, <2>1, KnownForGood DEF u, m
  <2> QED BY <2>1, <2>2 DEF RowKnows, u, m
<1>3. ASSUME NEW c \in Caller PROVE LookupRight(call[c])'
  <2>1. PICK r \in Lookups : r = call[c] /\ LookupRight(r)
    BY DocumentBounds
  <2>2. ASSUME r.at \in {"read", "save"}
        PROVE  r.found \in Offers /\ Knew(r.found.uses, r.asked)'
    <3>1. /\ r.found \in Offers /\ Knew(r.found.uses, r.asked) /\ r.asked \in Nat
          /\ r.found.uses \subseteq ReturnAddress
      BY <2>1, <2>2, DocumentBounds DEF LookupRight, Lookups
    <3> DEFINE u == r.found.uses
               m == r.asked
    <3> HIDE DEF u, m
    <3>2. Knew(u, m)'
      BY <1>0, <3>1, KnownForGood DEF u, m
    <3> QED BY <3>1, <3>2 DEF u, m
  <2>3. ASSUME r.at = "given", r.may
        PROVE  r.from \in CD!Rows /\ Knew(r.from.uses, r.from.asked)'
    <3>1. r.from \in CD!Rows /\ Knew(r.from.uses, r.from.asked)
      BY <2>1, <2>3 DEF LookupRight
    <3>2. r.from.asked \in Nat /\ r.from.uses \subseteq ReturnAddress
      BY <3>1, DocumentBounds DEF CD!Rows
    <3> DEFINE u == r.from.uses
               m == r.from.asked
    <3> HIDE DEF u, m
    <3>3. Knew(u, m)'
      BY <1>0, <3>1, <3>2, KnownForGood DEF u, m
    <3> QED BY <3>1, <3>3 DEF u, m
  <2>4. LookupRight(r)'
    BY <2>1, <2>2, <2>3 DEF LookupRight
  <2> QED BY <2>1, <2>4 DEF LookupRight
<1> QED BY <1>1, <1>2, <1>3 DEF DocumentsInv, CD!StaysOutside

LEMMA LookupGoesOn ==
  ASSUME CD!ClientDocumentsAssumption, DocumentsInv, NEW c \in Caller, NEW new \in Lookups,
         UNCHANGED CD!World, row' \in CD!Rows \cup {Never}, RowKnows',
         call' = [call EXCEPT ![c] = new], LookupRight(new), contacted' \subseteq {"public"}
  PROVE  DocumentsInv'
<1>1. /\ clock' = clock /\ document' = document /\ named' = named
  BY DEF CD!World
<1>2. \A uses, asked : Knew(uses, asked)' <=> Knew(uses, asked)
  BY <1>1 DEF Knew, CD!NamedSince
<1>3. \A r : LookupRight(r) => LookupRight(r)'
  BY <1>1, <1>2 DEF LookupRight
<1>4. DocumentForms'
  BY <1>1 DEF DocumentsInv, DocumentForms
<1>5. ASSUME NEW d \in Caller PROVE LookupRight(call[d])'
  <2>1. PICK r \in Lookups : r = call'[d] /\ LookupRight(r)
    BY DocumentBounds DEF DocumentsInv, DocumentForms
  <2>2. LookupRight(r)'
    BY <1>3, <2>1
  <2> QED BY <2>1, <2>2 DEF LookupRight
<1> QED BY <1>4, <1>5 DEF DocumentsInv, CD!StaysOutside

LEMMA LookupSteps ==
  ASSUME CD!ClientDocumentsAssumption, DocumentsInv, NEW c \in Caller,
         \/ CD!Begin(c) \/ CD!Load(c) \/ CD!Lookup(c) \/ CD!Fetch(c)
         \/ CD!Validate(c) \/ CD!Save(c) \/ CD!Reload(c) \/ CD!Done(c)
  PROVE  DocumentsInv'
<1>0. /\ call \in [Caller -> Lookups] /\ call[c] \in Lookups /\ LookupRight(call[c])
      /\ clock \in Nat /\ clock \in 0..Seconds /\ contacted \subseteq {"public"}
      /\ document \in Offers \cup {Never} /\ row \in CD!Rows \cup {Never} /\ RowKnows
  BY DocumentBounds DEF DocumentsInv, DocumentForms, CD!StaysOutside
<1>a. UNCHANGED CD!World /\ row' = row => RowKnows'
  BY <1>0 DEF CD!World, RowKnows, Knew, CD!NamedSince
<1>1. CD!Idle \in Lookups /\ LookupRight(CD!Idle)
  <2>1. CD!Idle \in Lookups /\ CD!Idle.at = "idle"
    BY DocumentBounds DEF CD!Idle, Lookups
  <2> QED BY <2>1 DEF LookupRight
<1>2. ASSUME UNCHANGED CD!World, row' = row, contacted' \subseteq {"public"}, CD!Refuse(c)
      PROVE  DocumentsInv'
  BY <1>0, <1>a, <1>1, <1>2, LookupGoesOn DEF CD!Refuse
<1>3. ASSUME UNCHANGED CD!World, row' = row, contacted' = contacted, CD!Accept(c, row),
             row # Never => \/ ~ call[c].may
                            \/ clock - row.fetched < CACHE_MAX
                            \/ call[c].to = "public"
      PROVE  DocumentsInv'
  <2> DEFINE new == [CD!Idle EXCEPT !.at = "given", !.may = call[c].may, !.to = call[c].to,
                                    !.from = row, !.when = clock]
  <2>1. CASE row # Never /\ call' = [call EXCEPT ![c] = new]
    <3>1. row \in CD!Rows /\ Knew(row.uses, row.asked)
      BY <1>0, <2>1 DEF RowKnows
    <3>2. call[c].may \in BOOLEAN /\ call[c].to \in {Never, "public"}
      BY <1>0 DEF Lookups
    <3>3. /\ new \in Lookups /\ new.at = "given" /\ new.from = row /\ new.when = clock
          /\ new.may = call[c].may /\ new.to = call[c].to
      BY <1>0, <1>1, <3>1, <3>2 DEF Lookups
    <3> HIDE DEF new
    <3>4. LookupRight(new)
      BY <1>3, <2>1, <3>1, <3>3 DEF LookupRight
    <3> QED BY <1>0, <1>a, <1>3, <2>1, <3>3, <3>4, LookupGoesOn
  <2>2. CASE CD!Refuse(c)
    BY <1>0, <1>2, <1>3, <2>2
  <2> QED BY <1>3, <2>1, <2>2 DEF CD!Accept
<1>4. ASSUME CD!Begin(c) PROVE DocumentsInv'
  <2>1. PICK may \in BOOLEAN : call' = [call EXCEPT ![c] = [CD!Idle EXCEPT !.at = "load", !.may = may]]
    BY <1>4 DEF CD!Begin
  <2> DEFINE new == [CD!Idle EXCEPT !.at = "load", !.may = may]
  <2>2. new \in Lookups /\ new.at = "load"
    BY <1>1 DEF Lookups
  <2>3. UNCHANGED CD!World /\ row' = row /\ contacted' = contacted
    BY <1>4 DEF CD!Begin
  <2> HIDE DEF new
  <2>4. LookupRight(new)
    BY <2>2 DEF LookupRight
  <2> QED BY <1>0, <1>a, <2>1, <2>2, <2>3, <2>4, LookupGoesOn DEF new
<1>5. ASSUME CD!Load(c) PROVE DocumentsInv'
  <2>1. UNCHANGED CD!World /\ row' = row /\ contacted' = contacted
    BY <1>5 DEF CD!Load
  <2>2. \/ CD!Refuse(c) \/ CD!Goto(c, "lookup")
        \/ (CD!IsFresh(row) \/ ~ call[c].may) /\ CD!Accept(c, row)
    BY <1>5 DEF CD!Load
  <2>3. CASE CD!Refuse(c)
    BY <1>0, <1>2, <2>1, <2>3
  <2>4. CASE CD!Goto(c, "lookup")
    <3> DEFINE new == [call[c] EXCEPT !.at = "lookup"]
    <3>1. new \in Lookups /\ new.at = "lookup"
      BY <1>0 DEF Lookups
    <3>2. call' = [call EXCEPT ![c] = new]
      BY <2>4 DEF CD!Goto
    <3> HIDE DEF new
    <3>3. LookupRight(new)
      BY <3>1 DEF LookupRight
    <3> QED BY <1>0, <1>a, <2>1, <3>1, <3>2, <3>3, LookupGoesOn
  <2>5. CASE ~ call[c].may /\ CD!Accept(c, row)
    BY <1>3, <2>1, <2>5
  <2>6. CASE CD!IsFresh(row) /\ CD!Accept(c, row)
    <3>1. row \in CD!Rows /\ clock < row.expires /\ row.expires <= row.fetched + CACHE_MAX
      BY <1>0, <2>6 DEF CD!IsFresh, RowKnows
    <3>2. row.expires \in Nat /\ row.fetched \in Nat
      BY <3>1 DEF CD!Rows
    <3>3. clock - row.fetched < CACHE_MAX
      BY <3>1, <3>2, DocumentBounds
    <3> QED BY <1>3, <2>1, <2>6, <3>3
  <2> QED BY <2>2, <2>3, <2>4, <2>5, <2>6
<1>6. ASSUME CD!Lookup(c) PROVE DocumentsInv'
  <2>1. UNCHANGED CD!World /\ row' = row /\ contacted' = contacted
    BY <1>6 DEF CD!Lookup
  <2>2. CASE CD!Refuse(c)
    BY <1>0, <1>2, <2>1, <2>2
  <2>3. CASE host = "public" /\ call' = [call EXCEPT ![c].at = "fetch", ![c].to = host]
    <3> DEFINE new == [call[c] EXCEPT !.at = "fetch", !.to = "public"]
    <3>1. new \in Lookups /\ new.at = "fetch" /\ new.to = "public"
      BY <1>0 DEF Lookups
    <3>2. call' = [call EXCEPT ![c] = new]
      BY <2>3
    <3> HIDE DEF new
    <3>3. LookupRight(new)
      BY <3>1 DEF LookupRight
    <3> QED BY <1>0, <1>a, <2>1, <3>1, <3>2, <3>3, LookupGoesOn
  <2> QED BY <1>6, <2>2, <2>3 DEF CD!Lookup
<1>7. ASSUME CD!Fetch(c) PROVE DocumentsInv'
  <2>0. call[c].to = "public"
    BY <1>0, <1>7 DEF CD!Fetch, CD!At, LookupRight
  <2>1. UNCHANGED CD!World /\ row' = row /\ contacted' \subseteq {"public"}
    BY <1>0, <1>7, <2>0 DEF CD!Fetch, CD!Target
  <2>2. CASE CD!Refuse(c)
    BY <1>2, <2>1, <2>2
  <2>3. CASE /\ document # Never
             /\ call' = [call EXCEPT ![c].at = "read", ![c].found = document, ![c].asked = clock]
    <3> DEFINE new == [call[c] EXCEPT !.at = "read", !.found = document, !.asked = clock]
    <3>1. /\ new \in Lookups /\ new.at = "read" /\ new.asked = clock /\ new.found = document
          /\ new.to = call[c].to
      BY <1>0 DEF Lookups
    <3>2. call' = [call EXCEPT ![c] = new]
      BY <2>3
    <3> HIDE DEF new
    <3>3. document \in Offers /\ Knew(document.uses, clock)
      BY <1>0, <2>3 DEF Knew, CD!NamedSince
    <3>4. LookupRight(new)
      BY <2>0, <3>1, <3>3 DEF LookupRight
    <3> QED BY <1>0, <1>a, <2>1, <3>1, <3>2, <3>4, LookupGoesOn
  <2> QED BY <1>7, <2>2, <2>3 DEF CD!Fetch
<1>8. ASSUME CD!Validate(c) PROVE DocumentsInv'
  <2>1. UNCHANGED CD!World /\ row' = row /\ contacted' = contacted /\ call[c].at = "read"
    BY <1>8 DEF CD!Validate, CD!At
  <2>2. CASE CD!Refuse(c)
    BY <1>0, <1>2, <2>1, <2>2
  <2>3. CASE call' = [call EXCEPT ![c].at = "save", ![c].since = clock]
    <3> DEFINE new == [call[c] EXCEPT !.at = "save", !.since = clock]
    <3>1. /\ new \in Lookups /\ new.at = "save" /\ new.found = call[c].found
          /\ new.asked = call[c].asked /\ new.to = call[c].to
      BY <1>0 DEF Lookups
    <3>2. call' = [call EXCEPT ![c] = new]
      BY <2>3
    <3> HIDE DEF new
    <3>3. LookupRight(new)
      BY <1>0, <2>1, <3>1 DEF LookupRight
    <3> QED BY <1>0, <1>a, <2>1, <3>1, <3>2, <3>3, LookupGoesOn
  <2> QED BY <1>8, <2>2, <2>3 DEF CD!Validate
<1>9. ASSUME CD!Reload(c) PROVE DocumentsInv'
  <2>1. UNCHANGED CD!World /\ row' = row /\ contacted' = contacted /\ call[c].to = "public"
    BY <1>0, <1>9 DEF CD!Reload, CD!At, LookupRight
  <2>2. CASE CD!Refuse(c)
    BY <1>0, <1>2, <2>1, <2>2
  <2>3. CASE CD!Accept(c, row)
    BY <1>3, <2>1, <2>3
  <2> QED BY <1>9, <2>2, <2>3 DEF CD!Reload
<1>10. ASSUME CD!Done(c) PROVE DocumentsInv'
  BY <1>0, <1>2, <1>10 DEF CD!Done
<1>11. ASSUME CD!Save(c) PROVE DocumentsInv'
  <2>1. UNCHANGED CD!World /\ contacted' = contacted /\ call[c].at = "save"
    BY <1>11 DEF CD!Save, CD!At
  <2>2. CASE CD!Refuse(c) /\ row' = row
    BY <1>0, <1>2, <2>1, <2>2
  <2> DEFINE new == [CD!Idle EXCEPT !.at = "reload", !.may = call[c].may, !.to = call[c].to]
  <2>3. CASE /\ row' = CD!Written(call[c].found, call[c].asked, call[c].since)
             /\ call' = [call EXCEPT ![c] = new]
    <3> DEFINE found == call[c].found
               asked == call[c].asked
               moment == call[c].since
    <3>1. /\ found \in Offers /\ found.age \in Nat /\ moment \in Nat /\ asked \in Nat
          /\ Knew(found.uses, asked) /\ call[c].to = "public" /\ call[c].may \in BOOLEAN
      BY <1>0, <2>1, DocumentBounds DEF LookupRight, Lookups
    <3>2. new \in Lookups /\ new.at = "reload" /\ new.to = "public"
      BY <1>1, <3>1 DEF Lookups
    <3>3. CD!Cached(found.age) \in Nat /\ CD!Cached(found.age) <= CACHE_MAX
      BY <3>1, DocumentBounds DEF CD!Cached
    <3>4. CD!Allows(found.uses \cap Registrable) \in BOOLEAN
      BY DEF CD!Allows
    <3> HIDE DEF new
    <3>5. LookupRight(new)
      BY <3>2 DEF LookupRight
    <3> DEFINE w == found.uses \cap Registrable
               ok == CD!Allows(w)
               until == moment + CD!Cached(found.age)
    <3>6. row' = [uses |-> w, allowed |-> ok, asked |-> asked, fetched |-> moment, expires |-> until]
      BY <2>3 DEF CD!Written
    <3>7. /\ w \in SUBSET Registrable /\ ok \in BOOLEAN /\ until \in Nat
          /\ until <= moment + CACHE_MAX /\ w \subseteq found.uses
      BY <3>1, <3>3, <3>4, DocumentBounds
    <3> HIDE DEF w, ok, until, found, asked, moment
    <3>8. /\ row' \in CD!Rows /\ row'.uses = w /\ row'.asked = asked /\ row'.fetched = moment
          /\ row'.expires = until
      BY <3>1, <3>6, <3>7 DEF CD!Rows
    <3>9. PICK u \in SUBSET Registrable, m \in Nat : u = w /\ m = asked
      BY <3>1, <3>7
    <3>10. m <= clock' /\ \A a \in u : CD!NamedSince(a, m)'
      BY <2>1, <3>1, <3>7, <3>9 DEF Knew, CD!NamedSince, CD!World
    <3>11. row'.uses = u /\ row'.asked = m /\ row'.expires <= row'.fetched + CACHE_MAX
      BY <3>7, <3>8, <3>9
    <3>12. RowKnows'
      BY <3>10, <3>11 DEF RowKnows, Knew, CD!NamedSince
    <3> QED BY <1>0, <2>1, <2>3, <3>2, <3>5, <3>8, <3>12, LookupGoesOn
  <2> QED BY <1>11, <2>2, <2>3 DEF CD!Save
<1> QED BY <1>4, <1>5, <1>6, <1>7, <1>8, <1>9, <1>10, <1>11

(* A return address a request may be sent to stood in a document whose       *)
(* answer was complete less than one lifetime before, however long answers   *)
(* and writes take and whichever request writes last, and no connection is   *)
(* made to an address inside.                                                *)
THEOREM DocumentsStayBounded ==
  ASSUME CD!ClientDocumentsAssumption PROVE CD!Spec => []CD!DocumentsAreBounded
<1>1. CD!Init => DocumentsInv
  <2> SUFFICES ASSUME CD!Init PROVE DocumentsInv OBVIOUS
  <2>1. Seconds \in Nat
    BY DEF CD!ClientDocumentsAssumption
  <2>2. CD!Idle \in Lookups /\ CD!Idle.at = "idle"
    BY <2>1 DEF CD!Idle, Lookups
  <2>3. DocumentForms
    BY <2>1, <2>2 DEF CD!Init, DocumentForms
  <2>4. RowKnows /\ CD!StaysOutside
    BY DEF CD!Init, RowKnows, CD!StaysOutside
  <2>5. \A c \in Caller : LookupRight(call[c])
    BY <2>2 DEF CD!Init, LookupRight
  <2> QED BY <2>3, <2>4, <2>5 DEF DocumentsInv
<1>2. DocumentsInv /\ [CD!Next]_(CD!vars) => DocumentsInv'
  <2> SUFFICES ASSUME DocumentsInv, [CD!Next]_(CD!vars) PROVE DocumentsInv' OBVIOUS
  <2>0. /\ clock \in 0..Seconds /\ clock \in Nat /\ Seconds \in Nat /\ document \in Offers \cup {Never}
        /\ named \in [ReturnAddress -> -1..Seconds]
    BY DocumentBounds DEF DocumentsInv, DocumentForms
  <2>1. ASSUME row' = row, call' = call, contacted' = contacted, clock' \in 0..Seconds, clock <= clock',
               document' = document, named' = named
        PROVE  DocumentsInv'
    <3>1. \A a \in ReturnAddress, m \in Nat : CD!NamedSince(a, m) => CD!NamedSince(a, m)'
      BY <2>1 DEF CD!NamedSince
    <3> QED BY <2>0, <2>1, <3>1, WorldGoesOn
  <2>2. CASE UNCHANGED CD!vars
    BY <2>0, <2>1, <2>2 DEF CD!vars
  <2>3. ASSUME NEW answer, CD!Redirect(answer) PROVE DocumentsInv'
    BY <2>0, <2>1, <2>3 DEF CD!Redirect
  <2>4. ASSUME NEW new \in Offers \cup {Never}, CD!Publish(new) PROVE DocumentsInv'
    <3>1. /\ row' = row /\ call' = call /\ contacted' = contacted /\ clock' = clock /\ document' = new
          /\ named' = [a \in ReturnAddress |->
                         IF document # Never /\ a \in document.uses THEN clock ELSE named[a]]
      BY <2>4 DEF CD!Publish
    <3>2. named' \in [ReturnAddress -> -1..Seconds]
      BY <2>0, <3>1
    <3>3. ASSUME NEW a \in ReturnAddress, NEW m \in Nat, m <= clock, CD!NamedSince(a, m)
          PROVE  CD!NamedSince(a, m)'
      BY <2>0, <3>1, <3>3 DEF CD!NamedSince
    <3> QED BY <2>0, <3>1, <3>2, <3>3, WorldGoesOn
  <2>5. ASSUME NEW rules, CD!Restart(rules) PROVE DocumentsInv'
    <3>1. /\ row' = row /\ contacted' = contacted /\ clock' = clock /\ document' = document
          /\ named' = named /\ call' = [c \in Caller |-> CD!Idle]
      BY <2>5 DEF CD!Restart
    <3>2. CD!Idle \in Lookups /\ CD!Idle.at = "idle"
      BY <2>0 DEF CD!Idle, Lookups
    <3>3. DocumentForms'
      BY <3>1, <3>2 DEF DocumentsInv, DocumentForms
    <3>4. RowKnows'
      BY <3>1 DEF DocumentsInv, RowKnows, Knew, CD!NamedSince
    <3>5. ASSUME NEW c \in Caller PROVE LookupRight(call[c])'
      <4>1. call'[c].at = "idle"
        BY <3>1, <3>2
      <4> QED BY <4>1 DEF LookupRight
    <3> QED BY <3>1, <3>3, <3>4, <3>5 DEF DocumentsInv, CD!StaysOutside
  <2>6. CASE CD!Tick
    BY <2>0, <2>1, <2>6 DEF CD!Tick
  <2> QED BY <2>2, <2>3, <2>4, <2>5, <2>6, LookupSteps DEF CD!Next
<1>3. DocumentsInv => CD!DocumentsAreBounded
  <2> SUFFICES ASSUME DocumentsInv, NEW c \in Caller, call[c].at = "given", call[c].may
               PROVE  LET r == call[c].from IN
                      /\ \A a \in r.uses : CD!NamedSince(a, r.asked)
                      /\ call[c].when - r.fetched < CACHE_MAX \/ call[c].to = "public"
    BY DEF DocumentsInv, CD!DocumentsAreBounded, CD!StaleAddressIsRefused, CD!At
  <2> QED BY DocumentBounds DEF LookupRight, Knew
<1> QED BY <1>1, <1>2, <1>3, PTL DEF CD!Spec

-----------------------------------------------------------------------------
(* The sign-in at the OpenID provider.                                       *)

(* Why attempts at the document are spaced: one runs at a time, and as long as  *)
(* there is no document the last one either runs or stands in the brake.        *)
VisitPlace == {"free", "metadata", "waiting", "locked", "discover", "away", "post",
          "validate", "accepted", "refused"}
VisitRow == [at: VisitPlace, next: {"free", "away", "post"}, from: 0..Ticks, token: OC!Token \cup {None},
        until: 0..Ticks]

VisitsInv ==
  /\ clock \in 0..Ticks
  /\ call \in [Visit -> VisitRow]
  /\ \A r \in Visit : /\ OC!At(r, "validate") => call[r].token \in OC!Token
                      /\ OC!At(r, "accepted") =>
                           LET tk == call[r].token IN
                           /\ tk \in OC!Token /\ tk.to = "this" /\ tk.nonce = r
                           /\ call[r].until < tk.iat + LIFETIME + LEEWAY

LockInv ==
  /\ metadata \in {"none", "known"} /\ lock \in Visit \cup {None}
  /\ \A r \in Visit : call[r].at \in {"locked", "discover"} <=> lock = r

BrakeInv ==
  /\ failedAt \in 0..Ticks \cup {None}
  /\ begun \subseteq 0..clock
  /\ \A r \in Visit : OC!At(r, "discover") => /\ metadata = "none"
                                              /\ \A t \in begun : t <= call[r].from
  /\ metadata = "none" /\ (\A r \in Visit : ~OC!At(r, "discover")) /\ begun # {} =>
       failedAt # None /\ \A t \in begun : t <= failedAt
  /\ OC!DiscoveryIsSpaced

OidcInv == VisitsInv /\ LockInv /\ BrakeInv

(* What the checks leave of the tokens the provider may have signed: one that   *)
(* names this connector was signed for it, or names the party it was signed for *)
LEMMA OnlyOurOwnTokens ==
  ASSUME OC!OidcClientAssumption, NEW tk \in OC!Token, OC!ForThisClient(tk), OC!NamesItsParty(tk)
  PROVE  tk.to = "this"
<1> SUFFICES ASSUME tk.to # "this" PROVE FALSE
  OBVIOUS
<1>1. /\ tk.to = "another" /\ tk.azp \in {None, "another"} /\ tk.aud \subseteq {"this", "another"}
      /\ tk.aud = {"this"} => tk.azp = "another"
  <2>1. tk \in [to: OC!Client, nonce: Visit, aud: SUBSET OC!Client \ {{}}, azp: OC!Client \cup {None},
                iat: 0..Ticks]
    BY DEF OC!Token
  <2>2. tk.to = "another"  BY <2>1 DEF OC!Client
  <2>3. tk.aud \subseteq OC!Client  BY <2>1
  <2> QED BY <2>2, <2>3 DEF OC!Token, OC!Client
<1>2. tk.azp # "another"  BY DEF OC!NamesItsParty, OC!OidcClientAssumption, OC!Client
<1>3. tk.azp = None  BY <1>1, <1>2
<1>4. "this" \in tk.aud  BY DEF OC!ForThisClient
<1>5. tk.aud = {"this", "another"}
  BY <1>1, <1>2, <1>4
<1>6. Cardinality(tk.aud) = 2
  <2>1. IsFiniteSet({"this"}) /\ Cardinality({"this"}) = 1  BY FS_Singleton
  <2>2. Cardinality({"this"} \cup {"another"}) = Cardinality({"this"}) + 1
    BY <2>1, FS_AddElement
  <2> QED BY <1>5, <2>1, <2>2
<1>7. OC!Cardinality(tk.aud) = 2
  BY <1>6 DEF OC!Cardinality, Cardinality
<1> QED BY <1>3, <1>7 DEF OC!NamesItsParty

(* The invariant holds of a process that has no document                         *)
LEMMA OidcInit == ASSUME OC!OidcClientAssumption PROVE OC!Init => OidcInv
<1> SUFFICES ASSUME OC!Init PROVE OidcInv
  OBVIOUS
<1> USE DEF OC!Init, OC!Free, OC!OidcClientAssumption, OC!At
<1>1. VisitsInv  BY DEF VisitsInv, VisitRow, VisitPlace
<1>2. LockInv  BY DEF LockInv
<1>3. BrakeInv  BY DEF BrakeInv, OC!DiscoveryIsSpaced
<1> QED BY <1>1, <1>2, <1>3 DEF OidcInv

(* A step that moves one sign-in, and neither the lock nor the document          *)
VisitMoves(r) ==
  /\ UNCHANGED <<clock, metadata, failedAt, lock, begun>>
  /\ \E there \in VisitRow : /\ OC!Put(r, there)
                             /\ there.at \notin {"locked", "discover"}
                             /\ there.at = "validate" => there.token \in OC!Token
                             /\ there.at = "accepted" =>
                                  LET tk == there.token IN
                                  /\ tk \in OC!Token /\ tk.to = "this" /\ tk.nonce = r
                                  /\ there.until < tk.iat + LIFETIME + LEEWAY

(* Such a step keeps the invariant                                               *)
LEMMA VisitMovesKeep ==
  ASSUME OC!OidcClientAssumption, OidcInv, NEW r \in Visit, VisitMoves(r), lock # r
  PROVE  OidcInv'
<1> USE DEF OidcInv, VisitMoves, OC!Put, OC!At
<1>1. VisitsInv'  BY DEF VisitsInv
<1>2. LockInv'  BY DEF LockInv, VisitsInv
<1>3. BrakeInv'
  <2>1. \A q \in Visit : OC!At(q, "discover")' <=> OC!At(q, "discover")
    BY DEF LockInv, VisitsInv
  <2>2. \A q \in Visit : OC!At(q, "discover") => call'[q] = call[q]
    BY DEF LockInv, VisitsInv
  <2> QED BY <2>1, <2>2 DEF BrakeInv, OC!DiscoveryIsSpaced
<1> QED BY <1>1, <1>2, <1>3

(* The steps of a sign-in that leave lock and document alone                     *)
LEMMA SignInSteps ==
  ASSUME OC!OidcClientAssumption, OidcInv, NEW r \in Visit,
         \/ OC!Start(r) \/ OC!Callback(r) \/ OC!Metadata(r) \/ OC!Exchange(r) \/ OC!Again(r)
         \/ \E signed \in BOOLEAN : OC!ValidateIdToken(r, signed)
  PROVE  OidcInv'
<1> USE DEF OidcInv, OC!Goto, OC!At, OC!Free, OC!OidcClientAssumption
<1>0. call[r] \in VisitRow /\ OC!Free \in VisitRow /\ clock \in 0..Ticks
  BY DEF VisitsInv, VisitRow, VisitPlace
<1>1. lock # r
  BY DEF LockInv, OC!Start, OC!Callback, OC!Metadata, OC!Exchange, OC!Again, OC!ValidateIdToken
<1>2. CASE OC!Start(r)
  <2> DEFINE there == [call[r] EXCEPT !.at = "metadata", !.next = "away"]
  <2>1. there \in VisitRow /\ there.at = "metadata"  BY <1>0 DEF VisitRow, VisitPlace
  <2>2. VisitMoves(r)  BY <1>2, <2>1 DEF OC!Start, VisitMoves
  <2> QED BY <1>1, <2>2, VisitMovesKeep
<1>3. CASE OC!Callback(r)
  <2> DEFINE there == [call[r] EXCEPT !.at = "metadata", !.next = "post"]
  <2>1. there \in VisitRow /\ there.at = "metadata"  BY <1>0 DEF VisitRow, VisitPlace
  <2>2. VisitMoves(r)  BY <1>3, <2>1 DEF OC!Callback, VisitMoves
  <2> QED BY <1>1, <2>2, VisitMovesKeep
<1>4. CASE OC!Metadata(r)
  <2> DEFINE step == IF metadata = "known" THEN call[r].next ELSE "waiting"
             there == [call[r] EXCEPT !.at = step]
  <2>1. step \in {"free", "away", "post", "waiting"}  BY <1>0 DEF VisitRow
  <2>2. there \in VisitRow /\ there.at = step  BY <1>0, <2>1 DEF VisitRow, VisitPlace
  <2>3. OC!Put(r, there) /\ UNCHANGED <<clock, metadata, failedAt, lock, begun>>  BY <1>4 DEF OC!Metadata
  <2> HIDE DEF step, there
  <2>4. VisitMoves(r)  BY <2>1, <2>2, <2>3 DEF VisitMoves
  <2> QED BY <1>1, <2>4, VisitMovesKeep
<1>5. CASE OC!Exchange(r)
  <2>1. CASE OC!Put(r, [OC!Free EXCEPT !.at = "refused"])
    <3>1. [OC!Free EXCEPT !.at = "refused"] \in VisitRow  BY SMTT(40), <1>0 DEF VisitRow, VisitPlace
    <3>2. VisitMoves(r)  BY ZenonT(60), <1>5, <2>1, <3>1 DEF OC!Exchange, VisitMoves
    <3> QED BY <1>1, <3>2, VisitMovesKeep
  <2>2. ASSUME NEW tk \in OC!Token, OC!Put(r, [call[r] EXCEPT !.at = "validate", !.token = tk])
        PROVE  OidcInv'
    <3> DEFINE there == [call[r] EXCEPT !.at = "validate", !.token = tk]
    <3>1. there \in VisitRow /\ there.at = "validate" /\ there.token = tk  BY <1>0 DEF VisitRow, VisitPlace
    <3>2. VisitMoves(r)  BY <1>5, <2>2, <3>1 DEF OC!Exchange, VisitMoves
    <3> QED BY SMTT(40), <1>1, <3>2, VisitMovesKeep
  <2> QED BY ZenonT(60), <1>5, <2>1, <2>2 DEF OC!Exchange
<1>6. CASE OC!Again(r)
  <2>1. VisitMoves(r)  BY <1>0, <1>6 DEF OC!Again, VisitMoves
  <2> QED BY <1>1, <2>1, VisitMovesKeep
<1>7. ASSUME NEW signed \in BOOLEAN, OC!ValidateIdToken(r, signed)
      PROVE  OidcInv'
  <2> DEFINE tk == call[r].token
             there == [call[r] EXCEPT !.at = "accepted", !.until = clock]
  <2>1. tk \in OC!Token  BY <1>7 DEF OC!ValidateIdToken, VisitsInv
  <2>2. CASE signed /\ OC!Validates(r, tk)
    <3>1. there \in VisitRow /\ there.at = "accepted" /\ there.token = tk /\ there.until = clock
      BY <1>0 DEF VisitRow, VisitPlace
    <3>2. tk.to = "this"  BY <2>1, <2>2, OnlyOurOwnTokens DEF OC!Validates
    <3>3. tk.nonce = r /\ clock < tk.iat + LIFETIME + LEEWAY  BY <2>2 DEF OC!Validates, OC!Current
    <3>4. VisitMoves(r)  BY <1>7, <2>1, <2>2, <3>1, <3>2, <3>3 DEF OC!ValidateIdToken, VisitMoves
    <3> QED BY <1>1, <3>4, VisitMovesKeep
  <2>3. CASE ~(signed /\ OC!Validates(r, tk))
    <3>1. [OC!Free EXCEPT !.at = "refused"] \in VisitRow  BY <1>0 DEF VisitRow, VisitPlace
    <3>2. VisitMoves(r)  BY <1>7, <2>3, <3>1 DEF OC!ValidateIdToken, VisitMoves
    <3> QED BY <1>1, <3>2, VisitMovesKeep
  <2> QED BY <2>2, <2>3
<1> QED BY <1>2, <1>3, <1>4, <1>5, <1>6, <1>7

(* The steps of a sign-in that asks for the document                             *)
LEMMA MetadataSteps ==
  ASSUME OC!OidcClientAssumption, OidcInv, NEW r \in Visit,
         OC!Lock(r) \/ OC!Locked(r) \/ \E good \in BOOLEAN : OC!Discover(r, good)
  PROVE  OidcInv'
<1> USE DEF OidcInv, OC!Goto, OC!Put, OC!At, OC!Free, OC!OidcClientAssumption
<1>0. call[r] \in VisitRow /\ OC!Free \in VisitRow /\ clock \in 0..Ticks /\ call \in [Visit -> VisitRow]
  BY DEF VisitsInv, VisitRow, VisitPlace
<1>1. CASE OC!Lock(r)
  <2>1. call' = [call EXCEPT ![r].at = "locked"] /\ lock = None /\ lock' = r
        /\ UNCHANGED <<clock, metadata, failedAt, begun>> /\ call[r].at = "waiting"
    BY <1>0, <1>1 DEF OC!Lock
  <2>2. VisitsInv'  BY <1>0, <2>1 DEF VisitsInv, VisitRow, VisitPlace
  <2>3. LockInv'  BY <1>0, <2>1 DEF LockInv, VisitRow
  <2>4. \A q \in Visit : /\ OC!At(q, "discover")' <=> OC!At(q, "discover")
                         /\ call'[q].from = call[q].from
    BY <1>0, <2>1 DEF VisitRow
  <2>5. BrakeInv'  BY <2>1, <2>4 DEF BrakeInv, OC!DiscoveryIsSpaced
  <2> QED BY <2>2, <2>3, <2>5
<1>2. CASE OC!Locked(r)
  <2>0. lock = r /\ call[r].at = "locked"  BY <1>2 DEF OC!Locked, LockInv
  <2>1. \A q \in Visit : ~OC!At(q, "discover")  BY <2>0 DEF LockInv
  <2>2. CASE metadata = "known" \/ OC!Braked
    <3> DEFINE there == IF metadata = "known" THEN [call[r] EXCEPT !.at = call[r].next]
                        ELSE [OC!Free EXCEPT !.at = "refused"]
    <3>1. there \in VisitRow /\ there.at \in {"free", "away", "post", "refused"}
      BY <1>0 DEF VisitRow, VisitPlace
    <3>2. call' = [call EXCEPT ![r] = there] /\ lock' = None
          /\ UNCHANGED <<clock, metadata, failedAt, begun>>
      BY <1>2, <2>2 DEF OC!Locked
    <3> HIDE DEF there
    <3>3. VisitsInv'  BY <1>0, <3>1, <3>2 DEF VisitsInv
    <3>4. LockInv'  BY <1>0, <2>0, <3>1, <3>2 DEF LockInv
    <3>5. \A q \in Visit : ~OC!At(q, "discover")'  BY <1>0, <2>1, <3>1, <3>2
    <3>6. BrakeInv'  BY <2>1, <3>2, <3>5 DEF BrakeInv, OC!DiscoveryIsSpaced
    <3> QED BY <3>3, <3>4, <3>6
  <2>3. CASE metadata = "none" /\ ~OC!Braked
    <3> DEFINE there == [call[r] EXCEPT !.at = "discover", !.from = clock]
    <3>1. there \in VisitRow /\ there.at = "discover" /\ there.from = clock  BY <1>0 DEF VisitRow, VisitPlace
    <3>2. call' = [call EXCEPT ![r] = there] /\ begun' = begun \cup {clock}
          /\ UNCHANGED <<clock, metadata, failedAt, lock>>
      BY <1>2, <2>3 DEF OC!Locked
    <3> HIDE DEF there
    <3>3. VisitsInv'  BY <1>0, <3>1, <3>2 DEF VisitsInv
    <3>4. LockInv'  BY <1>0, <2>0, <3>1, <3>2 DEF LockInv
    <3>5. \A t \in begun : clock - t >= RETRY
      <4>1. begun # {} => /\ failedAt # None /\ failedAt \in 0..Ticks
                          /\ \A t \in begun : t <= failedAt
        BY <2>1, <2>3 DEF BrakeInv
      <4>2. begun \subseteq 0..clock  BY DEF BrakeInv
      <4>3. begun # {} => clock - failedAt >= RETRY
        BY <1>0, <2>3, <4>1 DEF OC!Braked, OC!OpenWindow
      <4> QED BY <1>0, <4>1, <4>2, <4>3
    <3>6. begun' \subseteq 0..clock' /\ \A t \in begun' : t <= clock
      BY <1>0, <3>2 DEF BrakeInv
    <3>7. OC!DiscoveryIsSpaced'
      BY <1>0, <3>2, <3>5, <3>6 DEF OC!DiscoveryIsSpaced, BrakeInv
    <3>8. \A q \in Visit : OC!At(q, "discover")' <=> q = r
      BY <1>0, <2>1, <3>1, <3>2
    <3>9. BrakeInv'
      BY <1>0, <2>3, <3>1, <3>2, <3>6, <3>7, <3>8 DEF BrakeInv
    <3> QED BY <3>3, <3>4, <3>9
  <2> QED BY <2>2, <2>3 DEF LockInv
<1>3. ASSUME NEW good \in BOOLEAN, OC!Discover(r, good)
      PROVE  OidcInv'
  <2>0. lock = r /\ call[r].at = "discover"  BY <1>3 DEF OC!Discover, LockInv
  <2> DEFINE there == IF good THEN [call[r] EXCEPT !.at = call[r].next] ELSE [OC!Free EXCEPT !.at = "refused"]
  <2>1. there \in VisitRow /\ there.at \in {"free", "away", "post", "refused"}
    BY <1>0 DEF VisitRow, VisitPlace
  <2>2. /\ call' = [call EXCEPT ![r] = there] /\ lock' = None /\ UNCHANGED <<clock, begun>>
        /\ IF good THEN metadata' = "known" /\ UNCHANGED failedAt
           ELSE failedAt' = call[r].from /\ UNCHANGED metadata
    BY <1>3 DEF OC!Discover
  <2> HIDE DEF there
  <2>3. VisitsInv'  BY <1>0, <2>1, <2>2 DEF VisitsInv
  <2>4. LockInv'  BY <1>0, <2>0, <2>1, <2>2 DEF LockInv
  <2>5. \A q \in Visit : ~OC!At(q, "discover")'
    BY <1>0, <2>0, <2>1, <2>2 DEF LockInv
  <2>6. call[r].from \in 0..Ticks /\ call[r].from # None
    BY <1>0 DEF VisitRow
  <2>7. BrakeInv'
    BY <2>0, <2>2, <2>5, <2>6 DEF BrakeInv, OC!DiscoveryIsSpaced
  <2> QED BY <2>3, <2>4, <2>7
<1> QED BY <1>1, <1>2, <1>3

(* No step breaks the invariant                                                  *)
LEMMA OidcStep == ASSUME OC!OidcClientAssumption PROVE OidcInv /\ [OC!Next]_(OC!vars) => OidcInv'
<1> SUFFICES ASSUME OidcInv, [OC!Next]_(OC!vars) PROVE OidcInv'
  OBVIOUS
<1>1. CASE UNCHANGED OC!vars
  BY <1>1 DEF OidcInv, VisitsInv, LockInv, BrakeInv, OC!DiscoveryIsSpaced, OC!At, OC!vars
<1>2. CASE OC!Tick
  <2> USE <1>2 DEF OC!Tick, OidcInv, OC!At, OC!OidcClientAssumption
  <2>1. clock \in Nat /\ clock' \in 0..Ticks /\ clock' = clock + 1  BY DEF VisitsInv
  <2>2. VisitsInv' /\ LockInv'  BY <2>1 DEF VisitsInv, LockInv
  <2>3. BrakeInv'  BY <2>1 DEF BrakeInv, OC!DiscoveryIsSpaced
  <2> QED BY <2>2, <2>3
<1>3. ASSUME NEW r \in Visit,
             \/ OC!Start(r) \/ OC!Callback(r) \/ OC!Metadata(r) \/ OC!Exchange(r) \/ OC!Again(r)
             \/ \E signed \in BOOLEAN : OC!ValidateIdToken(r, signed)
      PROVE  OidcInv'
  BY <1>3, SignInSteps
<1>4. ASSUME NEW r \in Visit, OC!Lock(r) \/ OC!Locked(r) \/ \E good \in BOOLEAN : OC!Discover(r, good)
      PROVE  OidcInv'
  BY <1>4, MetadataSteps
<1> QED BY <1>1, <1>2, <1>3, <1>4 DEF OC!Next

-----------------------------------------------------------------------------
(* Whatever the token endpoint answers with, a sign-in is accepted only by a    *)
(* recent token that the provider signed for this connector and this sign-in.   *)
THEOREM NobodyElsesTokenSignsIn ==
  ASSUME OC!OidcClientAssumption PROVE OC!Spec => []OC!AcceptedIsForThisSignIn
<1>1. OC!Init => OidcInv  BY OidcInit
<1>2. OidcInv /\ [OC!Next]_(OC!vars) => OidcInv'  BY OidcStep
<1>3. OidcInv => OC!AcceptedIsForThisSignIn
  <2> SUFFICES ASSUME OidcInv, NEW r \in Visit, OC!At(r, "accepted")
               PROVE  LET tk == call[r].token IN
                      tk.to = "this" /\ tk.nonce = r /\ call[r].until - tk.iat < LIFETIME + LEEWAY
    BY DEF OC!AcceptedIsForThisSignIn
  <2>1. call[r].token.iat \in Nat /\ call[r].until \in Nat
    BY DEF OidcInv, VisitsInv, OC!Token, VisitRow, OC!OidcClientAssumption
  <2> QED BY <2>1 DEF OidcInv, VisitsInv, OC!OidcClientAssumption
<1> QED BY <1>1, <1>2, <1>3, PTL DEF OC!Spec

(* Any number of sign-ins may wait for a provider that is away: the attempts to *)
(* reach it begin no closer together than the window of a failure.              *)
THEOREM TheProviderIsAskedSparingly ==
  ASSUME OC!OidcClientAssumption PROVE OC!Spec => []OC!DiscoveryIsSpaced
<1>1. OC!Init => OidcInv  BY OidcInit
<1>2. OidcInv /\ [OC!Next]_(OC!vars) => OidcInv'  BY OidcStep
<1>3. OidcInv => OC!DiscoveryIsSpaced  BY DEF OidcInv, BrakeInv
<1> QED BY <1>1, <1>2, <1>3, PTL DEF OC!Spec

-----------------------------------------------------------------------------
(* Recursion along a sequence: what holds at its start and goes on holds at  *)
(* its end, and there is the function that the recursion describes.          *)
LEMMA AllTheWay ==
  ASSUME NEW N \in Nat, NEW S \in SUBSET (0..N), 0 \in S,
         \A n \in S : n < N => n + 1 \in S
  PROVE  \A n \in 0..N : n \in S
<1> DEFINE B == {n \in 0..N : n \notin S}
<1> SUFFICES ASSUME B # {} PROVE FALSE
  OBVIOUS
<1>1. B \subseteq Nat
  OBVIOUS
<1>2. PICK m \in B : \A k \in B : ~(<<k, m>> \in OpToRel(<, Nat))
  BY <1>1, NatLessThanWellFounded, WFMin
<1>3. m \in Nat /\ m # 0 /\ m <= N /\ m \notin S
  OBVIOUS
<1>4. m - 1 \in Nat /\ m - 1 < m /\ m - 1 \in 0..N /\ (m - 1) + 1 = m
  BY <1>3
<1>5. m - 1 \notin B
  BY <1>2, <1>3, <1>4 DEF OpToRel
<1>6. m - 1 \in S /\ m - 1 < N
  BY <1>3, <1>4, <1>5
<1> QED BY <1>3, <1>4, <1>6

Follows(f, m, b, g) == f[0] = b /\ \A n \in 1..m : f[n] = g[<<n, f[n - 1]>>]

LEMMA FunctionExists ==
  ASSUME NEW N \in Nat, NEW V, NEW b \in V, NEW g \in [(1..N) \X V -> V]
  PROVE  \E f \in [0..N -> V] : Follows(f, N, b, g)
<1> DEFINE S == {m \in 0..N : \E f \in [0..m -> V] : Follows(f, m, b, g)}
<1>1. 0 \in S
  <2> DEFINE f == [n \in 0..0 |-> b]
  <2>1. f \in [0..0 -> V] /\ Follows(f, 0, b, g)
    BY DEF Follows
  <2> QED BY <2>1
<1>2. ASSUME NEW m \in S, m < N PROVE m + 1 \in S
  <2>1. PICK f \in [0..m -> V] : Follows(f, m, b, g)
    OBVIOUS
  <2> DEFINE k == m + 1
             v == g[<<k, f[m]>>]
             h == [n \in 0..k |-> IF n = k THEN v ELSE f[n]]
  <2>2. m \in Nat /\ k \in 1..N /\ k \in 0..N /\ k - 1 = m /\ k # 0 /\ m \in 0..m /\ k \in 0..k /\ 0 \in 0..k
    BY <1>2
  <2>3. v \in V
    BY <2>1, <2>2
  <2>4. \A n \in 0..k : n # k => n \in 0..m
    BY <2>2
  <2>5. h \in [0..k -> V]
    <3> HIDE DEF v, k
    <3> QED BY <2>1, <2>3, <2>4
  <2>6. h[0] = b
    BY <2>1, <2>2 DEF Follows
  <2>7. ASSUME NEW n \in 1..k PROVE h[n] = g[<<n, h[n - 1]>>]
    <3>1. CASE n = k
      <4>1. h[n] = v /\ h[n - 1] = f[m]
        BY <2>2, <3>1
      <4> QED BY <3>1, <4>1
    <3>2. CASE n # k
      <4>1. n \in 1..m /\ n \in 0..k /\ n - 1 \in 0..k /\ n - 1 # k
        BY <2>2, <3>2
      <4>2. h[n] = f[n] /\ h[n - 1] = f[n - 1]
        BY <3>2, <4>1
      <4> QED BY <2>1, <4>1, <4>2 DEF Follows
    <3> QED BY <3>1, <3>2
  <2> HIDE DEF h
  <2>8. Follows(h, k, b, g)
    BY <2>6, <2>7 DEF Follows
  <2> QED BY <2>2, <2>5, <2>8
<1> HIDE DEF S
<1>3. N \in S
  <2>1. S \in SUBSET (0..N)
    BY DEF S
  <2>2. \A n \in 0..N : n \in S
    BY <1>1, <1>2, <2>1, AllTheWay
  <2> QED BY <2>2
<1> QED BY <1>3 DEF S

-----------------------------------------------------------------------------
(* Lines and texts.  A text that names no cut is not full.                   *)
Cuts == {"truncated", "rows", "columns", "scan"}
Texts == [length : Nat, full : BOOLEAN, shows : Nat, says : SUBSET Cuts]
LineSet == [size : Nat, own : Nat, says : SUBSET Cuts]
Sound(out) == out \in Texts /\ (out.full => out.says # {})

LEMMA Limits ==
  ASSUME EX!ExtractionAssumption
  PROVE  /\ MAX_CONCURRENT \in Nat /\ MAX_CONCURRENT > 0 /\ MAX_ROWS \in Nat /\ MAX_ROWS > 0
         /\ MAX_COLS \in Nat /\ MAX_COLS > 0 /\ MAX_OUTPUT_CHARS \in Nat
BY DEF EX!ExtractionAssumption

LEMMA OneLine ==
  ASSUME EX!ExtractionAssumption, NEW out, Sound(out), NEW l \in LineSet
  PROVE  /\ Sound(EX!AddLine(out, l))
         /\ EX!AddLine(out, l).says = {} =>
              /\ out.says = {} /\ l.says = {}
              /\ EX!AddLine(out, l).shows = out.shows + l.own
<1> DEFINE w == EX!AddLine(out, l)
           room == IF out.length < MAX_OUTPUT_CHARS THEN MAX_OUTPUT_CHARS - out.length ELSE 0
<1>1. /\ out.length \in Nat /\ out.full \in BOOLEAN /\ out.shows \in Nat /\ out.says \in SUBSET Cuts
      /\ l.size \in Nat /\ l.own \in Nat /\ l.says \in SUBSET Cuts /\ MAX_OUTPUT_CHARS \in Nat
      /\ room \in Nat /\ out.full => out.says # {}
  BY Limits DEF Sound, Texts, LineSet
<1>2. CASE out.full
  <2>1. w = out
    BY <1>2 DEF EX!AddLine
  <2> QED BY <1>1, <1>2, <2>1
<1>3. CASE ~out.full /\ l.size > room
  <2> DEFINE b == out.shows + EX!Less(l.own, room)
             q == out.says \cup {"truncated"}
  <2>1. w = [out EXCEPT !.full = TRUE, !.shows = b, !.says = q]
    BY <1>3 DEF EX!AddLine
  <2>2. out \in Texts /\ b \in Nat /\ q \in SUBSET Cuts /\ q # {}
    BY <1>1 DEF EX!Less, Cuts, Sound
  <2> HIDE DEF w, b, q
  <2>3. w \in Texts /\ w.says = q
    BY <2>1, <2>2 DEF Texts
  <2> QED BY <2>2, <2>3 DEF Sound, w
<1>4. CASE ~out.full /\ ~(l.size > room)
  <2> DEFINE a == out.length + l.size + 1
             b == out.shows + l.own
             q == out.says \cup l.says
  <2>1. w = [out EXCEPT !.length = a, !.shows = b, !.says = q]
    BY <1>4 DEF EX!AddLine
  <2>2. out \in Texts /\ a \in Nat /\ b \in Nat /\ q \in SUBSET Cuts
    BY <1>1 DEF Sound
  <2>3. /\ q = {} => out.says = {} /\ l.says = {}
        /\ b = out.shows + l.own
    OBVIOUS
  <2> HIDE DEF w, a, b, q
  <2>4. w \in Texts /\ w.full = out.full /\ w.shows = b /\ w.says = q
    BY <2>1, <2>2 DEF Texts
  <2> QED BY <1>4, <2>3, <2>4 DEF Sound, w
<1> QED BY <1>1, <1>2, <1>3, <1>4

(* What lines show of the document, line by line.                            *)
Owns(lines, k) ==
  /\ lines \in Seq(LineSet)
  /\ \E c \in [0..Len(lines) -> Nat] :
       c[0] = 0 /\ c[Len(lines)] = k /\ \A n \in 1..Len(lines) : c[n] = c[n - 1] + lines[n].own

IsWritten(text, out, lines) ==
  text = [n \in 0..Len(lines) |-> IF n = 0 THEN out ELSE EX!AddLine(text[n - 1], lines[n])]

LEMMA WrittenByLine ==
  ASSUME EX!ExtractionAssumption, NEW out, Sound(out), NEW lines \in Seq(LineSet)
  PROVE  \E text : IsWritten(text, out, lines) /\ EX!Written(out, lines) = text[Len(lines)]
<1> DEFINE N == Len(lines)
           V == {t \in Texts : Sound(t)}
           g == [p \in (1..N) \X V |-> EX!AddLine(p[2], lines[p[1]])]
<1>1. N \in Nat /\ \A n \in 1..N : lines[n] \in LineSet
  OBVIOUS
<1>2. out \in V
  BY DEF Sound
<1>3. g \in [(1..N) \X V -> V]
  <2>1. ASSUME NEW p \in (1..N) \X V PROVE EX!AddLine(p[2], lines[p[1]]) \in V
    <3>1. p[1] \in 1..N /\ p[2] \in V
      OBVIOUS
    <3>2. Sound(EX!AddLine(p[2], lines[p[1]]))
      BY <1>1, <3>1, OneLine
    <3> QED BY <3>2 DEF Sound
  <2> QED BY <2>1
<1>4. PICK f \in [0..N -> V] : Follows(f, N, out, g)
  <2> HIDE DEF N, V, g
  <2> QED BY <1>1, <1>2, <1>3, FunctionExists
<1>5. IsWritten(f, out, lines)
  <2>1. f = [n \in 0..N |-> f[n]]
    OBVIOUS
  <2>2. ASSUME NEW n \in 0..N
        PROVE  f[n] = IF n = 0 THEN out ELSE EX!AddLine(f[n - 1], lines[n])
    <3>1. CASE n = 0
      BY <1>4, <3>1 DEF Follows
    <3>2. CASE n # 0
      <4>1. n \in 1..N /\ n - 1 \in 0..N
        BY <1>1, <3>2
      <4>2. f[n] = g[<<n, f[n - 1]>>] /\ <<n, f[n - 1]>> \in (1..N) \X V
        BY <1>4, <4>1 DEF Follows
      <4>3. f[n] = EX!AddLine(f[n - 1], lines[n])
        BY <4>2
      <4> QED BY <3>2, <4>3
    <3> QED BY <3>1, <3>2
  <2>3. [n \in 0..N |-> f[n]] = [n \in 0..N |-> IF n = 0 THEN out ELSE EX!AddLine(f[n - 1], lines[n])]
    BY <2>2
  <2> QED BY <2>1, <2>3 DEF IsWritten
<1> DEFINE text == CHOOSE t : IsWritten(t, out, lines)
<1>6. IsWritten(text, out, lines)
  BY <1>5
<1>7. EX!Written(out, lines) = text[Len(lines)]
  BY DEF EX!Written, IsWritten
<1> HIDE DEF text
<1> QED BY <1>6, <1>7

LEMMA ManyLines ==
  ASSUME EX!ExtractionAssumption, NEW out, Sound(out), NEW lines, NEW k, Owns(lines, k)
  PROVE  /\ Sound(EX!Written(out, lines))
         /\ EX!Written(out, lines).says = {} =>
              /\ out.says = {} /\ \A n \in 1..Len(lines) : lines[n].says = {}
              /\ EX!Written(out, lines).shows = out.shows + k
<1> DEFINE N == Len(lines)
<1>1. N \in Nat /\ lines \in Seq(LineSet) /\ \A n \in 1..N : lines[n] \in LineSet
  BY DEF Owns
<1>2. PICK c \in [0..N -> Nat] :
        c[0] = 0 /\ c[N] = k /\ \A n \in 1..N : c[n] = c[n - 1] + lines[n].own
  BY DEF Owns
<1>3. PICK text : IsWritten(text, out, lines) /\ EX!Written(out, lines) = text[N]
  BY <1>1, WrittenByLine
<1> DEFINE Right(n) ==
             /\ Sound(text[n])
             /\ text[n].says = {} =>
                  /\ out.says = {} /\ \A i \in 1..n : lines[i].says = {}
                  /\ text[n].shows = out.shows + c[n]
           S == {n \in 0..N : Right(n)}
<1>4. \A n \in 0..N : text[n] = IF n = 0 THEN out ELSE EX!AddLine(text[n - 1], lines[n])
  BY <1>3 DEF IsWritten
<1>5. Right(0)
  <2>1. text[0] = out /\ out.shows \in Nat
    BY <1>1, <1>4 DEF Sound, Texts
  <2> QED BY <1>2, <2>1
<1>6. ASSUME NEW n \in 0..N, Right(n), n < N PROVE Right(n + 1)
  <2>1. n + 1 \in 1..N /\ n + 1 \in 0..N /\ (n + 1) - 1 = n /\ n + 1 # 0
    BY <1>1, <1>6
  <2>2. text[n + 1] = EX!AddLine(text[n], lines[n + 1])
    BY <1>4, <2>1
  <2>3. c[n + 1] = c[n] + lines[n + 1].own /\ c[n] \in Nat /\ lines[n + 1] \in LineSet
    BY <1>1, <1>2, <2>1
  <2>4. out.shows \in Nat /\ lines[n + 1].own \in Nat
    BY <2>3 DEF Sound, Texts, LineSet
  <2>5. /\ Sound(text[n + 1])
        /\ text[n + 1].says = {} =>
             /\ text[n].says = {} /\ lines[n + 1].says = {}
             /\ text[n + 1].shows = text[n].shows + lines[n + 1].own
    BY <1>6, <2>2, <2>3, OneLine
  <2>6. \A i \in 1..(n + 1) : i = n + 1 \/ i \in 1..n
    BY <2>1
  <2> QED BY <1>6, <2>3, <2>4, <2>5, <2>6
<1>7. Right(N)
  <2> HIDE DEF Right
  <2>1. S \in SUBSET (0..N) /\ 0 \in S
    BY <1>1, <1>5
  <2>2. \A n \in S : n < N => n + 1 \in S
    BY <1>1, <1>6
  <2> HIDE DEF S, N
  <2>3. N \in 0..N
    BY <1>1
  <2>4. N \in S
    BY <1>1, <2>1, <2>2, <2>3, AllTheWay
  <2> QED BY <2>4 DEF S
<1> QED BY <1>2, <1>3, <1>7

Silent(lines) == \A n \in 1..Len(lines) : lines[n].says = {}

LEMMA Joined ==
  ASSUME NEW s, NEW t, NEW a \in Nat, NEW b \in Nat, Owns(s, a), Owns(t, b)
  PROVE  Owns(s \o t, a + b) /\ (Silent(s \o t) => Silent(s) /\ Silent(t))
<1> DEFINE M == Len(s)
           N == Len(t)
           st == s \o t
<1>1. s \in Seq(LineSet) /\ t \in Seq(LineSet) /\ M \in Nat /\ N \in Nat
  BY DEF Owns
<1>2. st \in Seq(LineSet) /\ Len(st) = M + N /\ \A n \in 1..N : t[n].own \in Nat
  <2>1. \A n \in 1..N : t[n] \in LineSet
    BY <1>1
  <2>2. \A l \in LineSet : l.own \in Nat
    BY DEF LineSet
  <2> QED BY <1>1, <2>1, <2>2
<1>3. \A n \in 1..(M + N) : st[n] = IF n <= M THEN s[n] ELSE t[n - M]
  BY <1>1
<1>4. PICK c \in [0..M -> Nat] : c[0] = 0 /\ c[M] = a /\ \A n \in 1..M : c[n] = c[n - 1] + s[n].own
  BY DEF Owns
<1>5. PICK e \in [0..N -> Nat] : e[0] = 0 /\ e[N] = b /\ \A n \in 1..N : e[n] = e[n - 1] + t[n].own
  BY DEF Owns
<1> HIDE DEF M, N, st
<1> DEFINE f == [n \in 0..(M + N) |-> IF n <= M THEN c[n] ELSE a + e[n - M]]
<1>6. f \in [0..(M + N) -> Nat]
  <2>1. ASSUME NEW n \in 0..(M + N) PROVE f[n] \in Nat
    <3>1. CASE n <= M
      <4>1. n \in 0..M
        BY <1>1, <3>1
      <4> QED BY <1>4, <3>1, <4>1
    <3>2. CASE ~(n <= M)
      <4>1. n - M \in 0..N
        BY <1>1, <3>2
      <4> QED BY <1>5, <3>2, <4>1
    <3> QED BY <3>1, <3>2
  <2> QED BY <2>1
<1>7. f[0] = 0 /\ f[M + N] = a + b
  <2>1. 0 \in 0..(M + N) /\ M + N \in 0..(M + N) /\ 0 <= M /\ (M + N) - M = N
    BY <1>1
  <2>2. f[0] = 0
    BY <1>4, <2>1
  <2>3. CASE N = 0
    <3>1. M + N <= M /\ M + N = M /\ b = 0
      BY <1>1, <1>5, <2>3
    <3> QED BY <1>4, <2>1, <2>2, <3>1
  <2>4. CASE N # 0
    <3>1. ~(M + N <= M)
      BY <1>1, <2>4
    <3> QED BY <1>5, <2>1, <2>2, <3>1
  <2> QED BY <2>3, <2>4
<1>8. ASSUME NEW n \in 1..(M + N) PROVE f[n] = f[n - 1] + st[n].own
  <2>1. n \in 0..(M + N) /\ n - 1 \in 0..(M + N)
    BY <1>1
  <2>2. CASE n <= M
    <3>1. n \in 1..M /\ n - 1 <= M
      BY <1>1, <2>2
    <3>2. f[n] = c[n] /\ f[n - 1] = c[n - 1] /\ st[n] = s[n]
      BY <1>3, <2>1, <2>2, <3>1
    <3> QED BY <1>4, <3>1, <3>2
  <2>3. CASE n = M + 1
    <3>1. 1 \in 1..N /\ n - M = 1 /\ ~(n <= M) /\ n - 1 = M /\ n - 1 <= M /\ 1 - 1 = 0
      BY <1>1, <2>3
    <3>2. f[n] = a + e[1] /\ f[n - 1] = a /\ st[n] = t[1]
      BY <1>3, <1>4, <2>1, <3>1
    <3>3. e[1] = 0 + t[1].own /\ e[1] \in Nat
      <4>1. e[1] = e[1 - 1] + t[1].own
        BY <1>5, <3>1
      <4>2. 1 \in 0..N
        BY <3>1
      <4> QED BY <1>5, <3>1, <4>1, <4>2
    <3>4. t[1].own \in Nat
      BY <1>2, <3>1
    <3> QED BY <3>2, <3>3, <3>4
  <2>4. CASE n > M + 1
    <3>1. n - M \in 1..N /\ (n - M) - 1 = (n - 1) - M /\ ~(n <= M) /\ ~(n - 1 <= M)
      BY <1>1, <2>4
    <3>2. f[n] = a + e[n - M] /\ f[n - 1] = a + e[(n - M) - 1] /\ st[n] = t[n - M]
      BY <1>3, <2>1, <3>1
    <3>3. e[n - M] = e[(n - M) - 1] + t[n - M].own
      BY <1>5, <3>1
    <3>4. (n - M) - 1 \in 0..N /\ t[n - M].own \in Nat
      BY <1>1, <1>2, <3>1
    <3>5. e[(n - M) - 1] \in Nat
      BY <3>4
    <3> QED BY <3>2, <3>3, <3>4, <3>5
  <2> QED BY <1>1, <2>2, <2>3, <2>4
<1> HIDE DEF f
<1>9. Owns(st, a + b)
  BY <1>2, <1>6, <1>7, <1>8 DEF Owns
<1>10. ASSUME Silent(st) PROVE Silent(s) /\ Silent(t)
  <2>1. ASSUME NEW n \in 1..M PROVE s[n].says = {}
    <3>1. n \in 1..(M + N) /\ n <= M
      BY <1>1
    <3> QED BY <1>2, <1>3, <1>10, <3>1 DEF Silent
  <2>2. ASSUME NEW n \in 1..N PROVE t[n].says = {}
    <3>1. n + M \in 1..(M + N) /\ ~(n + M <= M) /\ (n + M) - M = n
      BY <1>1
    <3>2. st[n + M] = t[n]
      BY <1>3, <3>1
    <3> QED BY <1>2, <1>10, <3>1, <3>2 DEF Silent
  <2> QED BY <2>1, <2>2 DEF Silent, M, N
<1> QED BY <1>9, <1>10 DEF st

LEMMA Two == ASSUME NEW S, NEW a \in S, NEW b \in S PROVE <<a>> \o <<b>> = <<a, b>>
<1> DEFINE s == <<a>> \o <<b>>
           t == <<a, b>>
<1>1. s \in Seq(S) /\ t \in Seq(S) /\ Len(s) = 2 /\ Len(t) = 2 /\ 1..2 = {1, 2}
  OBVIOUS
<1>2. s[1] = a /\ s[2] = b /\ t[1] = a /\ t[2] = b
  OBVIOUS
<1> HIDE DEF s, t
<1>3. \A i \in 1..Len(s) : s[i] = t[i]
  BY <1>1, <1>2
<1>4. s = t
  BY <1>1, <1>3, SeqEqual
<1> QED BY <1>4 DEF s, t

LEMMA NoLine == Owns(<<>>, 0)
<1> DEFINE c == [n \in 0..0 |-> 0]
<1>1. c \in [0..0 -> Nat] /\ c[0] = 0 /\ Len(<<>>) = 0 /\ <<>> \in Seq(LineSet)
  OBVIOUS
<1> HIDE DEF c
<1> QED BY <1>1 DEF Owns

LEMMA ALine ==
  ASSUME NEW l \in LineSet
  PROVE  Owns(<<l>>, l.own) /\ (Silent(<<l>>) => l.says = {})
<1> DEFINE c == [n \in 0..1 |-> IF n = 0 THEN 0 ELSE l.own]
<1>1. l.own \in Nat
  BY DEF LineSet
<1>2. /\ c \in [0..1 -> Nat] /\ c[0] = 0 /\ c[1] = l.own /\ 1 - 1 = 0
      /\ Len(<<l>>) = 1 /\ <<l>> \in Seq(LineSet) /\ <<l>>[1] = l /\ 1..1 = {1}
  BY <1>1
<1>3. \A n \in 1..1 : c[n] = c[n - 1] + <<l>>[n].own
  BY <1>1, <1>2
<1> HIDE DEF c
<1> QED BY <1>2, <1>3 DEF Owns, Silent

LEMMA LineKinds ==
  ASSUME NEW size \in Nat, NEW own \in Nat, NEW cut \in Cuts
  PROVE  /\ EX!Line(size, own) \in LineSet /\ EX!Line(size, own).own = own
         /\ EX!Note(cut) \in LineSet /\ EX!Note(cut).own = 0 /\ EX!Note(cut).says # {}
         /\ EX!Blank \in LineSet /\ EX!Blank.own = 0 /\ EX!Heading \in LineSet /\ EX!Heading.own = 0
BY DEF EX!Line, EX!Note, EX!Blank, EX!Heading, LineSet

LEMMA OnceMore == ASSUME NEW n \in Nat, NEW c \in Nat, n > 0 PROVE n * c = (n - 1) * c + c
OBVIOUS

LEMMA TableOwns ==
  ASSUME NEW high \in Nat, NEW cols \in Nat
  PROVE  Owns(EX!TableLines(high, cols), high * cols)
<1> DEFINE l == EX!Line(cols, cols)
<1>0. high * cols \in Nat /\ l \in LineSet /\ l.own = cols /\ EX!Heading \in LineSet /\ EX!Heading.own = 0
  BY DEF EX!Line, EX!Heading, LineSet
<1>1. CASE high = 0
  <2>1. EX!TableLines(high, cols) = <<>> /\ high * cols = 0
    BY <1>1 DEF EX!TableLines
  <2> QED BY <2>1, NoLine
<1>2. CASE high # 0
  <2> DEFINE t == [i \in 1..high - 1 |-> l]
             c == [n \in 0..high - 1 |-> n * cols]
  <2>1. high - 1 \in Nat
    BY <1>2
  <2>2. t \in Seq(LineSet) /\ Len(t) = high - 1
    BY <1>0, <2>1
  <2>3. \A n \in 0..high - 1 : n * cols \in Nat
    OBVIOUS
  <2>4. c \in [0..high - 1 -> Nat] /\ c[0] = 0 /\ c[high - 1] = (high - 1) * cols
    BY <2>1, <2>3
  <2>5. ASSUME NEW n \in 1..high - 1 PROVE c[n] = c[n - 1] + t[n].own
    <3>1. n \in 0..high - 1 /\ n - 1 \in 0..high - 1 /\ n \in Nat /\ n > 0
      BY <2>1
    <3>2. n * cols = (n - 1) * cols + cols
      BY <3>1, OnceMore
    <3> QED BY <1>0, <3>1, <3>2
  <2> HIDE DEF c, t, l
  <2>6. Owns(t, (high - 1) * cols)
    BY <2>2, <2>4, <2>5 DEF Owns
  <2>7. Owns(<<l>>, cols) /\ Owns(<<EX!Heading>>, 0)
    BY <1>0, ALine
  <2>8. (high - 1) * cols \in Nat /\ cols + (high - 1) * cols = high * cols
    BY <1>2, <2>1, OnceMore
  <2>9. Owns(<<l>> \o <<EX!Heading>>, cols + 0)
    BY <2>7, Joined
  <2>10. <<l>> \o <<EX!Heading>> = <<l, EX!Heading>> /\ cols + 0 = cols
    BY <1>0, Two
  <2>11. Owns(<<l, EX!Heading>> \o t, cols + (high - 1) * cols)
    BY <2>6, <2>8, <2>9, <2>10, Joined
  <2>12. EX!TableLines(high, cols) = <<l, EX!Heading>> \o t
    BY <1>2 DEF EX!TableLines, t, l
  <2> QED BY <2>8, <2>11, <2>12
<1> QED BY <1>1, <1>2

LEMMA NoteIf ==
  ASSUME NEW p \in BOOLEAN, NEW cut \in Cuts
  PROVE  LET s == IF p THEN <<EX!Note(cut)>> ELSE <<>> IN Owns(s, 0) /\ (Silent(s) => ~p)
<1>1. EX!Note(cut) \in LineSet /\ EX!Note(cut).own = 0 /\ EX!Note(cut).says # {}
  BY LineKinds
<1>2. Owns(<<EX!Note(cut)>>, 0) /\ ~Silent(<<EX!Note(cut)>>)
  BY <1>1, ALine
<1> QED BY <1>2, NoLine

LEMMA SmallLines ==
  /\ Owns(<<EX!Blank>>, 0) /\ Owns(<<EX!Heading, EX!Blank>>, 0)
  /\ \A u \in EX!Unit : Owns(EX!Paragraph(u), u.text)
<1>1. EX!Blank \in LineSet /\ EX!Blank.own = 0 /\ EX!Heading \in LineSet /\ EX!Heading.own = 0
  BY DEF EX!Line, EX!Blank, EX!Heading, LineSet
<1>2. Owns(<<EX!Blank>>, 0) /\ Owns(<<EX!Heading>>, 0)
  BY <1>1, ALine
<1>3. Owns(<<EX!Heading>> \o <<EX!Blank>>, 0 + 0) /\ <<EX!Heading>> \o <<EX!Blank>> = <<EX!Heading, EX!Blank>>
  BY <1>1, <1>2, Joined, Two
<1>4. ASSUME NEW u \in EX!Unit PROVE Owns(EX!Paragraph(u), u.text)
  <2> DEFINE l == EX!Line(u.text, u.text)
  <2>1. u.text \in Nat /\ l \in LineSet /\ l.own = u.text
    BY DEF EX!Unit, EX!Line, LineSet
  <2> HIDE DEF l
  <2>2. Owns(<<l>> \o <<EX!Blank>>, u.text + 0)
    BY <1>2, <2>1, ALine, Joined
  <2>3. <<l>> \o <<EX!Blank>> = <<l, EX!Blank>> /\ u.text + 0 = u.text
    BY <1>1, <2>1, Two
  <2> QED BY <2>1, <2>2, <2>3, NoLine DEF EX!Paragraph, l
<1>5. Owns(<<EX!Heading, EX!Blank>>, 0)
  <2>1. \A k \in Nat : k = 0 => k + k = 0
    OBVIOUS
  <2> QED BY <1>3, <2>1
<1> QED BY <1>2, <1>4, <1>5

LEMMA CappedOwns ==
  ASSUME EX!ExtractionAssumption, NEW u \in EX!Unit
  PROVE  \E k \in Nat : /\ Owns(EX!CappedTable(u), k)
                        /\ Silent(EX!CappedTable(u)) => k = u.rows * u.cols
<1> DEFINE r == EX!Less(u.rows, MAX_ROWS)
           c == EX!Less(u.cols, MAX_COLS)
           nr == IF u.rows > MAX_ROWS THEN <<EX!Note("rows")>> ELSE <<>>
           nc == IF u.cols > MAX_COLS THEN <<EX!Note("columns")>> ELSE <<>>
           t == EX!TableLines(r, c)
<1>1. u.rows \in Nat /\ u.cols \in Nat /\ MAX_ROWS \in Nat /\ MAX_COLS \in Nat
  BY Limits DEF EX!Unit
<1>2. /\ r \in Nat /\ c \in Nat /\ (~(u.rows > MAX_ROWS) => r = u.rows)
      /\ ~(u.cols > MAX_COLS) => c = u.cols
  BY <1>1 DEF EX!Less
<1>3. r * c \in Nat
  <2> HIDE DEF r, c
  <2> QED BY <1>2
<1>4. Owns(t, r * c)
  <2> HIDE DEF r, c
  <2> QED BY <1>2, TableOwns
<1>5. Owns(nr, 0) /\ (Silent(nr) => ~(u.rows > MAX_ROWS))
  <2>1. (u.rows > MAX_ROWS) \in BOOLEAN /\ "rows" \in Cuts
    BY DEF Cuts
  <2> QED BY <2>1, NoteIf
<1>6. Owns(nc, 0) /\ (Silent(nc) => ~(u.cols > MAX_COLS))
  <2>1. (u.cols > MAX_COLS) \in BOOLEAN /\ "columns" \in Cuts
    BY DEF Cuts
  <2> QED BY <2>1, NoteIf
<1>7. EX!CappedTable(u) = t \o nr \o nc
  BY DEF EX!CappedTable, EX!OfTheTable
<1> HIDE DEF r, c, t, nr, nc
<1>8. Owns(t \o nr, r * c + 0) /\ (Silent(t \o nr) => Silent(nr))
  BY <1>3, <1>4, <1>5, Joined
<1>9. r * c + 0 = r * c
  BY <1>3
<1>10. Owns(t \o nr \o nc, r * c + 0) /\ (Silent(t \o nr \o nc) => Silent(t \o nr) /\ Silent(nc))
  BY <1>3, <1>6, <1>8, <1>9, Joined
<1> QED BY <1>2, <1>3, <1>5, <1>6, <1>7, <1>8, <1>9, <1>10

(* A unit of a document shows what is counted of it, or names a cut.         *)
Shows(lines, n) == \E k \in Nat : Owns(lines, k) /\ (Silent(lines) => k = n)

LEMMA ShowsJoined ==
  ASSUME NEW s, NEW t, NEW a \in Nat, NEW b \in Nat, Shows(s, a), Shows(t, b)
  PROVE  Shows(s \o t, a + b)
<1>1. PICK k \in Nat : Owns(s, k) /\ (Silent(s) => k = a)
  BY DEF Shows
<1>2. PICK m \in Nat : Owns(t, m) /\ (Silent(t) => m = b)
  BY DEF Shows
<1>3. Owns(s \o t, k + m) /\ (Silent(s \o t) => Silent(s) /\ Silent(t)) /\ k + m \in Nat
  BY <1>1, <1>2, Joined
<1> QED BY <1>1, <1>2, <1>3 DEF Shows

LEMMA OwnsShows == ASSUME NEW s, NEW a \in Nat, Owns(s, a) PROVE Shows(s, a)
BY DEF Shows

Formats == {"pdf", "docx", "xlsx", "pptx"}

LEMMA UnitShows ==
  ASSUME EX!ExtractionAssumption, NEW d, d.format \in Formats, NEW u \in EX!Unit
  PROVE  EX!Counted(d, u) \in Nat /\ Shows(EX!Lines(d.format, u), EX!Counted(d, u))
<1>1. /\ u.text \in Nat /\ u.rows \in Nat /\ u.cols \in Nat /\ MAX_ROWS \in Nat /\ MAX_COLS \in Nat
      /\ EX!Less(u.cols, MAX_COLS) \in Nat /\ EX!Less(u.rows, MAX_ROWS) \in Nat
      /\ ~(u.rows > MAX_ROWS) => EX!Less(u.rows, MAX_ROWS) = u.rows
  BY Limits DEF EX!Unit, EX!Less
<1>2. \A m, n \in Nat : m * n \in Nat /\ 0 * n = 0 /\ m + 0 = m /\ 0 + m = m
  OBVIOUS
<1>3. 0 \in Nat /\ Shows(<<EX!Blank>>, 0) /\ Shows(<<EX!Heading, EX!Blank>>, 0) /\ Shows(EX!Paragraph(u), u.text)
  BY <1>1, SmallLines, OwnsShows
<1>4. CASE d.format = "pdf"
  <2>1. Shows(<<EX!Heading, EX!Blank>> \o EX!Paragraph(u), 0 + u.text)
    BY <1>1, <1>3, ShowsJoined
  <2>2. EX!Lines(d.format, u) = <<EX!Heading, EX!Blank>> \o EX!Paragraph(u) /\ EX!Counted(d, u) = u.text
    BY <1>4 DEF EX!Lines, EX!PageLines, EX!Counted
  <2> QED BY <1>1, <1>2, <2>1, <2>2
<1>5. CASE d.format = "docx"
  <2> DEFINE k == u.rows * u.cols
             t == IF u.rows > 0 THEN EX!CappedTable(u) \o <<EX!Blank>> ELSE <<>>
  <2>0. k \in Nat
    BY <1>1, <1>2
  <2>1. Shows(EX!CappedTable(u), k)
    BY CappedOwns DEF Shows
  <2> HIDE DEF k
  <2>2. Shows(EX!CappedTable(u) \o <<EX!Blank>>, k + 0)
    BY <1>3, <2>0, <2>1, ShowsJoined
  <2>3. ~(u.rows > 0) => k = 0
    BY <1>1, <1>2 DEF k
  <2>4. Shows(t, k)
    BY <1>2, <1>3, <2>0, <2>2, <2>3, NoLine, OwnsShows
  <2>5. EX!Lines(d.format, u) = EX!Paragraph(u) \o t /\ EX!Counted(d, u) = u.text + k
    BY <1>5 DEF EX!Lines, EX!BlockLines, EX!Counted, k
  <2> HIDE DEF t
  <2> QED BY <1>1, <1>3, <2>0, <2>4, <2>5, ShowsJoined
<1>6. CASE d.format = "xlsx"
  <2> DEFINE c == EX!Less(u.cols, MAX_COLS)
             r == EX!Less(u.rows, MAX_ROWS)
             t == EX!TableLines(r, c)
             note == IF u.rows > MAX_ROWS THEN <<EX!Note("rows")>> ELSE <<>>
  <2>1. c \in Nat /\ r \in Nat /\ (~(u.rows > MAX_ROWS) => r = u.rows)
    BY <1>1
  <2>2. Owns(note, 0) /\ (Silent(note) => ~(u.rows > MAX_ROWS))
    <3>1. (u.rows > MAX_ROWS) \in BOOLEAN /\ "rows" \in Cuts
      BY DEF Cuts
    <3> QED BY <3>1, NoteIf
  <2>3. EX!Lines(d.format, u) = <<EX!Heading, EX!Blank>> \o t \o note \o <<EX!Blank>> /\ EX!Counted(d, u) = u.rows * c
    BY <1>6 DEF EX!Lines, EX!SheetLines, EX!Counted
  <2> HIDE DEF c, r, note
  <2>4. r * c \in Nat /\ u.rows * c \in Nat
    BY <1>1, <1>2, <2>1
  <2>5. Owns(t, r * c)
    BY <2>1, TableOwns
  <2> HIDE DEF t
  <2>6. Owns(t \o note, r * c + 0) /\ (Silent(t \o note) => Silent(note))
    BY <2>2, <2>4, <2>5, Joined
  <2>7. Shows(t \o note, u.rows * c)
    BY <1>2, <2>1, <2>2, <2>4, <2>6 DEF Shows
  <2>8. Shows(<<EX!Heading, EX!Blank>> \o (t \o note), 0 + u.rows * c)
    BY <1>3, <2>4, <2>7, ShowsJoined
  <2>9. <<EX!Heading, EX!Blank>> \o (t \o note) = <<EX!Heading, EX!Blank>> \o t \o note
    <3>1. /\ t \in Seq(LineSet) /\ note \in Seq(LineSet) /\ <<EX!Heading, EX!Blank>> \in Seq(LineSet)
      BY <2>2, <2>5, SmallLines DEF Owns
    <3> QED BY <3>1, ConcatAssociative
  <2>10. Shows(<<EX!Heading, EX!Blank>> \o t \o note \o <<EX!Blank>>, (0 + u.rows * c) + 0)
    BY <1>2, <1>3, <2>4, <2>8, <2>9, ShowsJoined
  <2> QED BY <1>2, <2>3, <2>4, <2>10
<1>7. CASE d.format = "pptx"
  <2> DEFINE k == u.rows * u.cols
             t == IF u.rows > 0 THEN EX!TableLines(u.rows, u.cols) \o <<EX!Blank>> ELSE <<>>
             hp == <<EX!Heading, EX!Blank>> \o EX!Paragraph(u)
  <2>0. k \in Nat
    BY <1>1, <1>2
  <2>1. Shows(EX!TableLines(u.rows, u.cols), k)
    BY <1>1, <2>0, TableOwns, OwnsShows
  <2> HIDE DEF k
  <2>2. Shows(EX!TableLines(u.rows, u.cols) \o <<EX!Blank>>, k + 0)
    BY <1>3, <2>0, <2>1, ShowsJoined
  <2>3. ~(u.rows > 0) => k = 0
    BY <1>1, <1>2 DEF k
  <2>4. Shows(t, k)
    BY <1>2, <1>3, <2>0, <2>2, <2>3, NoLine, OwnsShows
  <2>5. EX!Lines(d.format, u) = hp \o t /\ EX!Counted(d, u) = u.text + k
    BY <1>7 DEF EX!Lines, EX!SlideLines, EX!Counted, k
  <2>6. Shows(hp, 0 + u.text)
    BY <1>1, <1>3, ShowsJoined
  <2> HIDE DEF t, hp
  <2> QED BY <1>1, <1>2, <2>0, <2>4, <2>5, <2>6, ShowsJoined
<1> QED BY <1>4, <1>5, <1>6, <1>7 DEF Formats

-----------------------------------------------------------------------------
(* The text of a document: unit by unit, either a cut is named or all that   *)
(* counts so far is shown.                                                   *)
AddUnit(out, d, u) == IF out.full THEN out ELSE EX!Written(out, EX!Lines(d.format, u))

LEMMA OneUnit ==
  ASSUME EX!ExtractionAssumption, NEW d, d.format \in Formats, NEW u \in EX!Unit, NEW out, Sound(out)
  PROVE  /\ Sound(AddUnit(out, d, u))
         /\ AddUnit(out, d, u).says = {} =>
              out.says = {} /\ AddUnit(out, d, u).shows = out.shows + EX!Counted(d, u)
<1> DEFINE lines == EX!Lines(d.format, u)
<1>1. CASE out.full
  BY <1>1 DEF AddUnit, Sound
<1>2. CASE ~out.full
  <2>1. PICK k \in Nat : Owns(lines, k) /\ (Silent(lines) => k = EX!Counted(d, u))
    BY UnitShows DEF Shows
  <2>2. AddUnit(out, d, u) = EX!Written(out, lines)
    BY <1>2 DEF AddUnit
  <2> HIDE DEF lines
  <2>3. /\ Sound(EX!Written(out, lines))
        /\ EX!Written(out, lines).says = {} =>
             out.says = {} /\ Silent(lines) /\ EX!Written(out, lines).shows = out.shows + k
    BY <2>1, ManyLines DEF Silent
  <2> QED BY <2>1, <2>2, <2>3
<1> QED BY <1>1, <1>2

Grows(text, d) ==
  text = [n \in 0..Len(d.units) |-> IF n = 0 THEN EX!Empty ELSE AddUnit(text[n - 1], d, d.units[n])]
Sums(whole, d) ==
  whole = [n \in 0..Len(d.units) |-> IF n = 0 THEN 0 ELSE whole[n - 1] + EX!Counted(d, d.units[n])]

LEMMA TextByUnit ==
  ASSUME EX!ExtractionAssumption, NEW d \in EX!Document, d.format \in Formats
  PROVE  \E text : /\ Grows(text, d)
                   /\ EX!Markdown(d) = [text[Len(d.units)] EXCEPT !.says = @ \cup
                        (IF d.format = "pdf" /\ \A i \in DOMAIN d.units : d.units[i].text = 0
                         THEN {"scan"} ELSE {})]
<1> DEFINE N == Len(d.units)
           V == {t \in Texts : Sound(t)}
           g == [p \in (1..N) \X V |-> AddUnit(p[2], d, d.units[p[1]])]
<1>1. N \in Nat /\ \A n \in 1..N : d.units[n] \in EX!Unit
  <2>1. d.units \in Seq(EX!Unit)
    BY DEF EX!Document
  <2> QED BY <2>1
<1>2. EX!Empty \in V
  BY DEF Sound, EX!Empty, Texts
<1>3. g \in [(1..N) \X V -> V]
  <2>1. ASSUME NEW p \in (1..N) \X V PROVE AddUnit(p[2], d, d.units[p[1]]) \in V
    <3>1. p[1] \in 1..N /\ p[2] \in V
      OBVIOUS
    <3>2. Sound(AddUnit(p[2], d, d.units[p[1]]))
      BY <1>1, <3>1, OneUnit
    <3> QED BY <3>2 DEF Sound
  <2> QED BY <2>1
<1>4. PICK f \in [0..N -> V] : Follows(f, N, EX!Empty, g)
  <2> HIDE DEF N, V, g
  <2> QED BY <1>1, <1>2, <1>3, FunctionExists
<1>5. Grows(f, d)
  <2>1. f = [n \in 0..N |-> f[n]]
    OBVIOUS
  <2>2. ASSUME NEW n \in 0..N
        PROVE  f[n] = IF n = 0 THEN EX!Empty ELSE AddUnit(f[n - 1], d, d.units[n])
    <3>1. CASE n = 0
      BY <1>4, <3>1 DEF Follows
    <3>2. CASE n # 0
      <4>1. n \in 1..N /\ n - 1 \in 0..N
        BY <1>1, <3>2
      <4>2. f[n] = g[<<n, f[n - 1]>>] /\ <<n, f[n - 1]>> \in (1..N) \X V
        BY <1>4, <4>1 DEF Follows
      <4>3. f[n] = AddUnit(f[n - 1], d, d.units[n])
        BY <4>2
      <4> QED BY <3>2, <4>3
    <3> QED BY <3>1, <3>2
  <2>3. [n \in 0..N |-> f[n]]
          = [n \in 0..N |-> IF n = 0 THEN EX!Empty ELSE AddUnit(f[n - 1], d, d.units[n])]
    BY <2>2
  <2> QED BY <2>1, <2>3 DEF Grows
<1> DEFINE text == CHOOSE t : Grows(t, d)
<1>6. Grows(text, d)
  BY <1>5
<1>7. EX!Markdown(d) = [text[Len(d.units)] EXCEPT !.says = @ \cup
                      (IF d.format = "pdf" /\ \A i \in DOMAIN d.units : d.units[i].text = 0
                       THEN {"scan"} ELSE {})]
  BY DEF EX!Markdown, Grows, AddUnit
<1> HIDE DEF text
<1> QED BY <1>6, <1>7

LEMMA SumByUnit ==
  ASSUME EX!ExtractionAssumption, NEW d \in EX!Document, d.format \in Formats
  PROVE  \E whole : Sums(whole, d) /\ EX!Whole(d) = whole[Len(d.units)]
<1> DEFINE N == Len(d.units)
           g == [p \in (1..N) \X Nat |-> p[2] + EX!Counted(d, d.units[p[1]])]
<1>1. N \in Nat /\ \A n \in 1..N : d.units[n] \in EX!Unit
  <2>1. d.units \in Seq(EX!Unit)
    BY DEF EX!Document
  <2> QED BY <2>1
<1>2. \A n \in 1..N : EX!Counted(d, d.units[n]) \in Nat
  BY <1>1, UnitShows
<1>3. g \in [(1..N) \X Nat -> Nat]
  BY <1>2
<1>4. PICK f \in [0..N -> Nat] : Follows(f, N, 0, g)
  <2> HIDE DEF N, g
  <2> QED BY <1>1, <1>3, FunctionExists
<1>5. Sums(f, d)
  <2>1. f = [n \in 0..N |-> f[n]]
    OBVIOUS
  <2>2. ASSUME NEW n \in 0..N
        PROVE  f[n] = IF n = 0 THEN 0 ELSE f[n - 1] + EX!Counted(d, d.units[n])
    <3>1. CASE n = 0
      BY <1>4, <3>1 DEF Follows
    <3>2. CASE n # 0
      <4>1. n \in 1..N /\ n - 1 \in 0..N
        BY <1>1, <3>2
      <4>2. f[n] = g[<<n, f[n - 1]>>] /\ <<n, f[n - 1]>> \in (1..N) \X Nat
        BY <1>4, <4>1 DEF Follows
      <4>3. f[n] = f[n - 1] + EX!Counted(d, d.units[n])
        BY <4>2
      <4> QED BY <3>2, <4>3
    <3> QED BY <3>1, <3>2
  <2>3. [n \in 0..N |-> f[n]]
          = [n \in 0..N |-> IF n = 0 THEN 0 ELSE f[n - 1] + EX!Counted(d, d.units[n])]
    BY <2>2
  <2> QED BY <2>1, <2>3 DEF Sums
<1> DEFINE whole == CHOOSE f_1 : Sums(f_1, d)
<1>6. Sums(whole, d)
  BY <1>5
<1>7. EX!Whole(d) = whole[Len(d.units)]
  BY DEF EX!Whole, Sums
<1> HIDE DEF whole
<1> QED BY <1>6, <1>7

LEMMA MarkdownHonest ==
  ASSUME EX!ExtractionAssumption, NEW d \in EX!Document, d.format \in Formats
  PROVE  /\ EX!Markdown(d) \in Texts
         /\ EX!Markdown(d).shows < EX!Whole(d) => EX!Markdown(d).says # {}
<1> DEFINE N == Len(d.units)
           q == IF d.format = "pdf" /\ \A i \in DOMAIN d.units : d.units[i].text = 0
                THEN {"scan"} ELSE {}
<1>1. N \in Nat /\ \A n \in 1..N : d.units[n] \in EX!Unit
  <2>1. d.units \in Seq(EX!Unit)
    BY DEF EX!Document
  <2> QED BY <2>1
<1>2. PICK text : Grows(text, d) /\ EX!Markdown(d) = [text[N] EXCEPT !.says = @ \cup q]
  BY TextByUnit
<1>3. PICK whole : Sums(whole, d) /\ EX!Whole(d) = whole[N]
  BY SumByUnit
<1>4. q \in SUBSET Cuts
  BY DEF Cuts
<1> HIDE DEF q
<1>5. \A n \in 0..N : text[n] = IF n = 0 THEN EX!Empty ELSE AddUnit(text[n - 1], d, d.units[n])
  BY <1>2 DEF Grows
<1>6. \A n \in 0..N : whole[n] = IF n = 0 THEN 0 ELSE whole[n - 1] + EX!Counted(d, d.units[n])
  BY <1>3 DEF Sums
<1> HIDE DEF N
<1> DEFINE Right(n) ==
             Sound(text[n]) /\ whole[n] \in Nat /\ (text[n].says = {} => text[n].shows = whole[n])
           S == {n \in 0..N : Right(n)}
<1>7. Right(0)
  <2>1. 0 \in 0..N
    BY <1>1
  <2>2. text[0] = EX!Empty /\ whole[0] = 0
    BY <1>5, <1>6, <2>1
  <2> QED BY <2>2 DEF EX!Empty, Sound, Texts
<1>8. ASSUME NEW n \in 0..N, Right(n), n < N PROVE Right(n + 1)
  <2>1. n + 1 \in 1..N /\ n + 1 \in 0..N /\ (n + 1) - 1 = n /\ n + 1 # 0
    BY <1>1, <1>8
  <2> DEFINE u == d.units[n + 1]
  <2>2. u \in EX!Unit
    BY <1>1, <2>1
  <2>3. text[n + 1] = AddUnit(text[n], d, u) /\ whole[n + 1] = whole[n] + EX!Counted(d, u)
    BY <1>5, <1>6, <2>1
  <2> HIDE DEF u
  <2>4. EX!Counted(d, u) \in Nat
    BY <2>2, UnitShows
  <2>5. /\ Sound(text[n + 1])
        /\ text[n + 1].says = {} =>
             text[n].says = {} /\ text[n + 1].shows = text[n].shows + EX!Counted(d, u)
    BY <1>8, <2>2, <2>3, OneUnit
  <2> QED BY <1>8, <2>3, <2>4, <2>5
<1>9. Right(N)
  <2> HIDE DEF Right
  <2>1. S \in SUBSET (0..N) /\ 0 \in S
    BY <1>1, <1>7
  <2>2. \A n \in S : n < N => n + 1 \in S
    BY <1>1, <1>8
  <2> HIDE DEF S
  <2>3. N \in 0..N
    BY <1>1
  <2>4. N \in S
    BY <1>1, <2>1, <2>2, <2>3, AllTheWay
  <2> QED BY <2>4 DEF S
<1> DEFINE m == [text[N] EXCEPT !.says = @ \cup q]
<1>10. m \in Texts /\ m.shows = text[N].shows /\ (m.says = {} => text[N].says = {})
  BY <1>4, <1>9 DEF Sound, Texts
<1>11. EX!Markdown(d) = m
  BY <1>2
<1> HIDE DEF m
<1>12. m.shows \in Nat
  BY <1>10 DEF Texts
<1>13. ~(m.shows < m.shows)
  BY <1>12
<1> QED BY <1>3, <1>9, <1>10, <1>11, <1>13

-----------------------------------------------------------------------------
(* The library counts for the conversions as it does here.                   *)
LEMMA ConversionCounts == ASSUME NEW S PROVE EX!Cardinality(S) = Cardinality(S)
BY DEF EX!Cardinality, Cardinality

(* The slots.  A request holds one from the moment it is taken to the end of *)
(* its call; its process runs, and its file is in memory, only meanwhile.    *)
Outcomes == {EX!Nothing, EX!Refused, EX!Guarded, EX!Gone} \cup [kind : {"text"}, text : Texts]
Steps == {"free", "stat", "wait", "fetch", "start", "convert", "kill", "done"}
Calls == [at : Steps, doc : Documents \cup {None}, out : Outcomes]
Holders == {r \in Conversion : EX!Holds(r)}
Running == {r \in Conversion : process[r] = "running"}

Said(c) == c.out.kind = "text" /\ c.out.text.shows < EX!Whole(c.doc) => c.out.text.says # {}

CallTypes ==
  /\ call \in [Conversion -> Calls]
  /\ process \in [Conversion -> {"none", "running", "answered", "failed", "killed"}]
  /\ body \subseteq Conversion

CallIsRight(r) ==
  /\ call[r].at = "free" => call[r].out = EX!Nothing
  /\ call[r].at # "free" => call[r].doc \in Documents
  /\ call[r].at \in {"wait", "fetch", "start", "convert", "kill"} => call[r].doc.format \in Formats
  /\ process[r] = "running" => call[r].at = "convert"
  /\ r \in body => call[r].at \in {"start", "convert", "kill"}
  /\ Said(call[r])

SlotsAreKept == IsFiniteSet(Holders) /\ Cardinality(Holders) <= MAX_CONCURRENT

ConversionInv == CallTypes /\ (\A r \in Conversion : CallIsRight(r)) /\ SlotsAreKept

LEMMA OutcomeKinds ==
  /\ EX!Nothing \in Outcomes /\ EX!Nothing.kind # "text" /\ EX!Refused \in Outcomes /\ EX!Refused.kind # "text"
  /\ EX!Guarded \in Outcomes /\ EX!Guarded.kind # "text" /\ EX!Gone \in Outcomes /\ EX!Gone.kind # "text"
BY DEF Outcomes, EX!Nothing, EX!Refused, EX!Guarded, EX!Gone

LEMMA ConversionHonest ==
  ASSUME EX!ExtractionAssumption, NEW d \in Documents, d.format \in Formats
  PROVE  LET out == EX!ConvertSync(d) IN
         /\ out \in Outcomes
         /\ out.kind = "text" /\ out.text.shows < EX!Whole(d) => out.text.says # {}
<1> DEFINE out == EX!ConvertSync(d)
           t == [kind |-> "text", text |-> EX!Markdown(d)]
<1>1. d \in EX!Document
  BY DEF EX!ExtractionAssumption
<1>2. EX!Markdown(d) \in Texts /\ (EX!Markdown(d).shows < EX!Whole(d) => EX!Markdown(d).says # {})
  BY <1>1, MarkdownHonest
<1>3. out \in {EX!Nothing, EX!Refused, EX!Guarded, t}
  BY DEF EX!ConvertSync, EX!ZipGuard
<1>4. t \in Outcomes /\ t.text = EX!Markdown(d)
  BY <1>2 DEF Outcomes
<1> HIDE DEF out, t
<1> QED BY <1>2, <1>3, <1>4, OutcomeKinds DEF out

(* A set that loses members, or that gains one below its limit, keeps to it. *)
LEMMA FewerHold ==
  ASSUME NEW S, IsFiniteSet(S), NEW n \in Nat, Cardinality(S) <= n, NEW T \in SUBSET S
  PROVE  IsFiniteSet(T) /\ Cardinality(T) <= n
<1>1. IsFiniteSet(T) /\ Cardinality(T) <= Cardinality(S)
  BY FS_Subset
<1>2. Cardinality(S) \in Nat /\ Cardinality(T) \in Nat
  BY <1>1, FS_CardinalityType
<1> QED BY <1>1, <1>2

LEMMA OneMoreHolds ==
  ASSUME NEW S, IsFiniteSet(S), NEW n \in Nat, Cardinality(S) < n, NEW x
  PROVE  IsFiniteSet(S \cup {x}) /\ Cardinality(S \cup {x}) <= n
<1>1. IsFiniteSet(S \cup {x}) /\ Cardinality(S \cup {x}) <= Cardinality(S) + 1
  <2>1. IsFiniteSet(S \cup {x})
         /\ Cardinality(S \cup {x}) = IF x \in S THEN Cardinality(S) ELSE Cardinality(S) + 1
    BY FS_AddElement
  <2>2. Cardinality(S) \in Nat
    BY FS_CardinalityType
  <2> QED BY <2>1, <2>2
<1>2. Cardinality(S) \in Nat /\ Cardinality(S \cup {x}) \in Nat
  BY <1>1, FS_CardinalityType
<1> QED BY <1>1, <1>2

LEMMA ConversionStart == ASSUME EX!ExtractionAssumption, EX!Init PROVE ConversionInv
<1>1. EX!Idle \in Calls /\ EX!Idle.at = "free" /\ EX!Idle.out = EX!Nothing
  BY OutcomeKinds DEF EX!Idle, Calls, Steps
<1>2. \A r \in Conversion : call[r] = EX!Idle /\ process[r] = "none"
  BY DEF EX!Init
<1>3. CallTypes
  BY <1>1 DEF EX!Init, CallTypes
<1>4. \A r \in Conversion : CallIsRight(r)
  BY <1>1, <1>2, OutcomeKinds DEF EX!Init, CallIsRight, Said
<1>5. Holders = {}
  BY <1>1, <1>2 DEF Holders, EX!Holds
<1>6. SlotsAreKept
  BY <1>5, Limits, FS_EmptySet DEF SlotsAreKept
<1> QED BY <1>3, <1>4, <1>6 DEF ConversionInv

LEMMA InvMeans ==
  ASSUME EX!ExtractionAssumption, ConversionInv
  PROVE  EX!TwoAtOnce /\ EX!CutIsSaid
<1>1. IsFiniteSet(Holders) /\ Cardinality(Holders) <= MAX_CONCURRENT /\ MAX_CONCURRENT \in Nat
  BY Limits DEF ConversionInv, SlotsAreKept
<1>2. Running \in SUBSET Holders /\ body \in SUBSET Holders
  BY DEF ConversionInv, CallTypes, CallIsRight, Running, Holders, EX!Holds
<1>3. Cardinality(Running) <= MAX_CONCURRENT /\ Cardinality(body) <= MAX_CONCURRENT
  BY <1>1, <1>2, FewerHold
<1>4. EX!TwoAtOnce
  BY <1>3, ConversionCounts DEF EX!TwoAtOnce, Running
<1>5. EX!CutIsSaid
  BY DEF ConversionInv, CallIsRight, Said, EX!CutIsSaid
<1> QED BY <1>4, <1>5

(* A step that moves one request on: what is to be shown of it.              *)
LEMMA OneMoves ==
  ASSUME EX!ExtractionAssumption, ConversionInv, NEW r \in Conversion, NEW c \in Calls,
         call' = [call EXCEPT ![r] = c], CallTypes', CallIsRight(r)',
         \A q \in Conversion \ {r} : process'[q] = process[q] /\ (q \in body' <=> q \in body),
         \/ c.at \notin {"fetch", "start", "convert", "kill"}
         \/ EX!Holds(r)
         \/ EX!Taken < MAX_CONCURRENT
  PROVE  ConversionInv'
<1>1. call'[r] = c /\ \A q \in Conversion \ {r} : call'[q] = call[q]
  BY DEF ConversionInv, CallTypes
<1>2. ASSUME NEW q \in Conversion \ {r} PROVE CallIsRight(q)'
  <2>1. CallIsRight(q)
    BY DEF ConversionInv
  <2> QED BY <1>1, <2>1 DEF CallIsRight, Said
<1>3. \A q \in Conversion : CallIsRight(q)'
  BY <1>2
<1>4. Holders' \subseteq Holders \cup {r}
  BY <1>1 DEF Holders, EX!Holds
<1>5. c.at \notin {"fetch", "start", "convert", "kill"} \/ EX!Holds(r) => Holders' \subseteq Holders
  BY <1>1 DEF Holders, EX!Holds
<1>6. IsFiniteSet(Holders) /\ Cardinality(Holders) <= MAX_CONCURRENT /\ MAX_CONCURRENT \in Nat
  BY Limits DEF ConversionInv, SlotsAreKept
<1>7. EX!Taken = Cardinality(Holders)
  BY ConversionCounts DEF EX!Taken, Holders
<1>8. IsFiniteSet(Holders') /\ Cardinality(Holders') <= MAX_CONCURRENT
  <2>1. CASE Holders' \subseteq Holders
    BY <1>6, <2>1, FewerHold
  <2>2. CASE EX!Taken < MAX_CONCURRENT
    <3>1. IsFiniteSet(Holders \cup {r}) /\ Cardinality(Holders \cup {r}) <= MAX_CONCURRENT
      BY <1>6, <1>7, <2>2, OneMoreHolds
    <3> QED BY <1>4, <1>6, <3>1, FewerHold
  <2> QED BY <1>5, <2>1, <2>2
<1>9. SlotsAreKept'
  BY <1>8 DEF SlotsAreKept
<1> QED BY <1>3, <1>9 DEF ConversionInv

LEMMA CallFields ==
  ASSUME NEW c \in Calls
  PROVE  c.at \in Steps /\ c.doc \in Documents \cup {None} /\ c.out \in Outcomes
BY DEF Calls

(* What a step makes of the call it moves on                                 *)
Becomes(r, step, doc, out) ==
  \E c \in Calls : /\ call' = [call EXCEPT ![r] = c]
                   /\ c.at = step /\ c.doc = doc /\ c.out = out

LEMMA StepsBecome ==
  ASSUME CallTypes, NEW r \in Conversion
  PROVE  /\ \A step \in Steps : EX!Goto(r, step) => Becomes(r, step, call[r].doc, call[r].out)
         /\ \A out \in Outcomes : EX!End(r, out) => Becomes(r, "done", call[r].doc, out)
         /\ \A out \in Outcomes : EX!Kill(r, out) => Becomes(r, "kill", call[r].doc, out)
         /\ \A d \in Documents : EX!Ask(r, d) => Becomes(r, "stat", d, call[r].out)
<1>1. call \in [Conversion -> Calls] /\ call[r] \in Calls
  BY DEF CallTypes
<1>2. call[r].doc \in Documents \cup {None} /\ call[r].out \in Outcomes
  BY <1>1, CallFields
<1>3. {"done", "kill", "stat"} \subseteq Steps
  BY DEF Steps
<1>4. ASSUME NEW step \in Steps, EX!Goto(r, step) PROVE Becomes(r, step, call[r].doc, call[r].out)
  <2> DEFINE c == [call[r] EXCEPT !.at = step]
  <2>1. call' = [call EXCEPT ![r] = c]
    BY <1>4 DEF EX!Goto
  <2>2. c \in Calls /\ c.at = step /\ c.doc = call[r].doc /\ c.out = call[r].out
    BY <1>1, <1>2, <1>3 DEF Calls
  <2> HIDE DEF c
  <2> QED BY <2>1, <2>2 DEF Becomes
<1>5. ASSUME NEW out \in Outcomes, EX!End(r, out) PROVE Becomes(r, "done", call[r].doc, out)
  <2> DEFINE c == [call[r] EXCEPT !.at = "done", !.out = out]
  <2>1. call' = [call EXCEPT ![r] = c]
    BY <1>1, <1>5 DEF EX!End
  <2>2. c \in Calls /\ c.at = "done" /\ c.doc = call[r].doc /\ c.out = out
    BY <1>1, <1>2, <1>3 DEF Calls
  <2> HIDE DEF c
  <2> QED BY <2>1, <2>2 DEF Becomes
<1>6. ASSUME NEW out \in Outcomes, EX!Kill(r, out) PROVE Becomes(r, "kill", call[r].doc, out)
  <2> DEFINE c == [call[r] EXCEPT !.at = "kill", !.out = out]
  <2>1. call' = [call EXCEPT ![r] = c]
    BY <1>1, <1>6 DEF EX!Kill
  <2>2. c \in Calls /\ c.at = "kill" /\ c.doc = call[r].doc /\ c.out = out
    BY <1>1, <1>2, <1>3 DEF Calls
  <2> HIDE DEF c
  <2> QED BY <2>1, <2>2 DEF Becomes
<1>7. ASSUME NEW d \in Documents, EX!Ask(r, d) PROVE Becomes(r, "stat", d, call[r].out)
  <2> DEFINE c == [call[r] EXCEPT !.at = "stat", !.doc = d]
  <2>1. call' = [call EXCEPT ![r] = c]
    BY <1>1, <1>7 DEF EX!Ask
  <2>2. c \in Calls /\ c.at = "stat" /\ c.doc = d /\ c.out = call[r].out
    BY <1>1, <1>2, <1>3 DEF Calls
  <2> HIDE DEF c
  <2> QED BY <2>1, <2>2 DEF Becomes
<1> QED BY <1>4, <1>5, <1>6, <1>7

(* The same as OneMoves, for a call given by its three parts.                *)
LEMMA OneBecomes ==
  ASSUME EX!ExtractionAssumption, ConversionInv, NEW r \in Conversion,
         NEW step \in Steps, NEW doc \in Documents \cup {None}, NEW out \in Outcomes,
         Becomes(r, step, doc, out),
         process' \in [Conversion -> {"none", "running", "answered", "failed", "killed"}],
         body' \subseteq Conversion,
         \A q \in Conversion \ {r} : process'[q] = process[q] /\ (q \in body' <=> q \in body),
         step = "free" => out = EX!Nothing,
         step # "free" => doc \in Documents,
         step \in {"wait", "fetch", "start", "convert", "kill"} => doc.format \in Formats,
         process'[r] = "running" => step = "convert",
         r \in body' => step \in {"start", "convert", "kill"},
         out.kind = "text" /\ out.text.shows < EX!Whole(doc) => out.text.says # {},
         \/ step \notin {"fetch", "start", "convert", "kill"}
         \/ EX!Holds(r)
         \/ EX!Taken < MAX_CONCURRENT
  PROVE  ConversionInv'
<1>1. PICK c \in Calls : call' = [call EXCEPT ![r] = c] /\ c.at = step /\ c.doc = doc /\ c.out = out
  BY DEF Becomes
<1>2. call \in [Conversion -> Calls]
  BY DEF ConversionInv, CallTypes
<1>5. call' \in [Conversion -> Calls] /\ call'[r] = c
  BY <1>1, <1>2
<1>6. CallTypes'
  BY <1>5 DEF CallTypes
<1>7. CallIsRight(r)'
  BY <1>1, <1>5 DEF CallIsRight, Said
<1> QED BY <1>1, <1>6, <1>7, OneMoves

LEMMA ConversionStep ==
  ASSUME EX!ExtractionAssumption, ConversionInv, [EX!Next]_(EX!vars)
  PROVE  ConversionInv'
<1>1. CallTypes /\ \A r \in Conversion : CallIsRight(r)
  BY DEF ConversionInv
<1>2. \A d \in Documents : d \in EX!Document
  BY DEF EX!ExtractionAssumption
<1>3. ASSUME NEW r \in Conversion
      PROVE  /\ call[r].at \in Steps /\ call[r].doc \in Documents \cup {None} /\ call[r].out \in Outcomes
             /\ CallIsRight(r)
             /\ Said(call[r])
  BY <1>1, CallFields DEF CallTypes, CallIsRight
<1>4. ASSUME NEW r \in Conversion, NEW d \in Documents, EX!Ask(r, d) PROVE ConversionInv'
  <2>1. Becomes(r, "stat", d, call[r].out)
    BY <1>1, <1>4, StepsBecome
  <2>2. call[r].at = "free" /\ call[r].out = EX!Nothing /\ EX!Nothing.kind # "text" /\ UNCHANGED <<body, process>>
    BY <1>3, <1>4, OutcomeKinds DEF EX!Ask, EX!At, CallIsRight
  <2>3. "stat" \in Steps /\ process[r] # "running" /\ r \notin body
    BY <1>3, <2>2 DEF Steps, CallIsRight
  <2> QED BY <1>1, <1>3, <2>1, <2>2, <2>3, OneBecomes DEF CallTypes
<1>5. ASSUME NEW r \in Conversion, EX!Stat(r) PROVE ConversionInv'
  <2>1. /\ call[r].at = "stat" /\ UNCHANGED <<body, process>> /\ process[r] # "running" /\ r \notin body
        /\ call[r].doc \in Documents /\ "done" \in Steps /\ "wait" \in Steps
    BY <1>3, <1>5 DEF EX!Stat, EX!At, CallIsRight, Steps
  <2>2. \/ EX!End(r, EX!Refused) \/ EX!End(r, EX!Guarded)
        \/ EX!Goto(r, "wait") /\ call[r].doc.format # None
    BY <1>5 DEF EX!Stat
  <2>3. ASSUME NEW out \in {EX!Refused, EX!Guarded}, EX!End(r, out) PROVE ConversionInv'
    <3>1. out \in Outcomes /\ out.kind # "text"
      BY OutcomeKinds
    <3>2. Becomes(r, "done", call[r].doc, out)
      BY <1>1, <2>3, <3>1, StepsBecome
    <3> QED BY <1>1, <1>3, <2>1, <3>1, <3>2, OneBecomes DEF CallTypes
  <2>4. ASSUME EX!Goto(r, "wait"), call[r].doc.format # None PROVE ConversionInv'
    <3>1. call[r].doc.format \in Formats
      BY <1>2, <2>1, <2>4 DEF EX!Document, Formats
    <3>2. Becomes(r, "wait", call[r].doc, call[r].out)
      BY <1>1, <2>1, <2>4, StepsBecome
    <3> QED BY <1>1, <1>3, <2>1, <3>1, <3>2, OneBecomes DEF CallTypes, Said
  <2> QED BY <2>2, <2>3, <2>4
<1>6. ASSUME NEW r \in Conversion, EX!Slot(r) PROVE ConversionInv'
  <2>1. /\ call[r].at = "wait" /\ UNCHANGED <<body, process>> /\ process[r] # "running" /\ r \notin body
        /\ call[r].doc \in Documents /\ call[r].doc.format \in Formats
        /\ "fetch" \in Steps /\ EX!Goto(r, "fetch") /\ EX!Taken < MAX_CONCURRENT
    BY <1>3, <1>6 DEF EX!Slot, EX!At, CallIsRight, Steps
  <2>2. Becomes(r, "fetch", call[r].doc, call[r].out)
    BY <1>1, <2>1, StepsBecome
  <2> QED BY <1>1, <1>3, <2>1, <2>2, OneBecomes DEF CallTypes, Said
<1>7. ASSUME NEW r \in Conversion, EX!Fetch(r) PROVE ConversionInv'
  <2>1. /\ call[r].at = "fetch" /\ UNCHANGED process /\ process[r] # "running" /\ r \notin body
        /\ call[r].doc \in Documents /\ call[r].doc.format \in Formats
        /\ "start" \in Steps /\ "done" \in Steps /\ EX!Holds(r)
    BY <1>3, <1>7 DEF EX!Fetch, EX!At, CallIsRight, Steps, EX!Holds
  <2>2. \/ \E out \in {EX!Refused, EX!Guarded} : EX!End(r, out) /\ UNCHANGED body
        \/ EX!Goto(r, "start") /\ body' = body \cup {r}
    BY <1>7 DEF EX!Fetch
  <2>3. ASSUME NEW out \in {EX!Refused, EX!Guarded}, EX!End(r, out), UNCHANGED body PROVE ConversionInv'
    <3>1. out \in Outcomes /\ out.kind # "text"
      BY OutcomeKinds
    <3>2. Becomes(r, "done", call[r].doc, out)
      BY <1>1, <2>3, <3>1, StepsBecome
    <3> QED BY <1>1, <1>3, <2>1, <2>3, <3>1, <3>2, OneBecomes DEF CallTypes
  <2>4. ASSUME EX!Goto(r, "start"), body' = body \cup {r} PROVE ConversionInv'
    <3>1. Becomes(r, "start", call[r].doc, call[r].out)
      BY <1>1, <2>1, <2>4, StepsBecome
    <3>2. body' \subseteq Conversion /\ \A q \in Conversion \ {r} : q \in body' <=> q \in body
      BY <1>1, <2>4 DEF CallTypes
    <3> QED BY <1>1, <1>3, <2>1, <3>1, <3>2, OneBecomes DEF CallTypes, Said
  <2> QED BY <2>2, <2>3, <2>4
<1>8. ASSUME NEW r \in Conversion, EX!StartWorker(r) PROVE ConversionInv'
  <2>1. /\ call[r].at = "start" /\ UNCHANGED body
        /\ call[r].doc \in Documents /\ call[r].doc.format \in Formats
        /\ "convert" \in Steps /\ EX!Goto(r, "convert") /\ EX!Holds(r)
        /\ process' = [process EXCEPT ![r] = "running"]
    BY <1>3, <1>8 DEF EX!StartWorker, EX!At, CallIsRight, Steps, EX!Holds
  <2>2. Becomes(r, "convert", call[r].doc, call[r].out)
    BY <1>1, <2>1, StepsBecome
  <2>3. /\ process' \in [Conversion -> {"none", "running", "answered", "failed", "killed"}]
        /\ \A q \in Conversion \ {r} : process'[q] = process[q]
    BY <1>1, <2>1 DEF CallTypes
  <2> QED BY <1>1, <1>3, <2>1, <2>2, <2>3, OneBecomes DEF CallTypes, Said
<1>9. ASSUME NEW r \in Conversion, EX!WorkerMain(r) PROVE ConversionInv'
  <2>1. PICK v \in {"answered", "failed"} : process' = [process EXCEPT ![r] = v]
    BY <1>9 DEF EX!WorkerMain
  <2>2. UNCHANGED <<call, body>>
    BY <1>9 DEF EX!WorkerMain
  <2>3. /\ process' \in [Conversion -> {"none", "running", "answered", "failed", "killed"}]
        /\ process'[r] = v /\ v # "running"
        /\ \A q \in Conversion \ {r} : process'[q] = process[q]
    BY <1>1, <2>1 DEF CallTypes
  <2>4. \A q \in Conversion : CallIsRight(q)'
    <3>1. ASSUME NEW q \in Conversion PROVE CallIsRight(q)'
      <4>1. process'[q] = "running" => process[q] = "running"
        BY <2>3
      <4>2. CallIsRight(q)
        BY <1>1
      <4> QED BY <2>2, <4>1, <4>2 DEF CallIsRight, Said
    <3> QED BY <3>1
  <2>5. SlotsAreKept'
    BY <2>2 DEF ConversionInv, SlotsAreKept, Holders, EX!Holds
  <2>6. CallTypes'
    BY <1>1, <2>2, <2>3 DEF CallTypes
  <2> QED BY <2>4, <2>5, <2>6 DEF ConversionInv
<1>10. ASSUME NEW r \in Conversion, EX!Answer(r) PROVE ConversionInv'
  <2> DEFINE out == IF process[r] = "answered" THEN EX!ConvertSync(call[r].doc) ELSE EX!Refused
  <2>1. /\ call[r].at = "convert" /\ process[r] # "running" /\ UNCHANGED process
        /\ call[r].doc \in Documents /\ call[r].doc.format \in Formats
        /\ "done" \in Steps /\ EX!End(r, out) /\ body' = body \ {r}
    BY <1>3, <1>10 DEF EX!Answer, EX!At, CallIsRight, Steps
  <2>2. /\ out \in Outcomes
        /\ out.kind = "text" /\ out.text.shows < EX!Whole(call[r].doc) => out.text.says # {}
    <3> DEFINE text == EX!ConvertSync(call[r].doc)
    <3>1. /\ text \in Outcomes
          /\ text.kind = "text" /\ text.text.shows < EX!Whole(call[r].doc) => text.text.says # {}
      BY <2>1, ConversionHonest
    <3> HIDE DEF text
    <3>2. out \in {text, EX!Refused}
      BY DEF text
    <3> HIDE DEF out
    <3> QED BY <3>1, <3>2, OutcomeKinds
  <2> HIDE DEF out
  <2>3. Becomes(r, "done", call[r].doc, out)
    BY <1>1, <2>1, <2>2, StepsBecome
  <2>4. body' \subseteq Conversion /\ r \notin body' /\ \A q \in Conversion \ {r} : q \in body' <=> q \in body
    BY <1>1, <2>1 DEF CallTypes
  <2> QED BY <1>1, <1>3, <2>1, <2>2, <2>3, <2>4, OneBecomes DEF CallTypes
<1>11. ASSUME NEW r \in Conversion, NEW out \in {EX!Guarded, EX!Gone}, call[r].at = "convert", EX!Kill(r, out),
              UNCHANGED body
       PROVE  ConversionInv'
  <2>1. call[r].doc \in Documents /\ call[r].doc.format \in Formats /\ "kill" \in Steps /\ EX!Holds(r)
    BY <1>3, <1>11 DEF CallIsRight, Steps, EX!Holds
  <2>2. out \in Outcomes /\ out.kind # "text"
    BY OutcomeKinds
  <2>3. Becomes(r, "kill", call[r].doc, out)
    BY <1>1, <1>11, <2>2, StepsBecome
  <2>4. process' = [process EXCEPT ![r] = IF @ = "running" THEN "killed" ELSE @]
    BY <1>11 DEF EX!Kill
  <2>5. /\ process' \in [Conversion -> {"none", "running", "answered", "failed", "killed"}]
        /\ process'[r] # "running" /\ \A q \in Conversion \ {r} : process'[q] = process[q]
    BY <1>1, <2>4 DEF CallTypes
  <2> QED BY <1>1, <1>3, <1>11, <2>1, <2>2, <2>3, <2>5, OneBecomes DEF CallTypes
<1>12. ASSUME NEW r \in Conversion, EX!HangUp(r), call[r].at # "convert" PROVE ConversionInv'
  <2>1. /\ call[r].at \in {"stat", "wait", "fetch", "start", "kill"} /\ process[r] # "running"
        /\ UNCHANGED process /\ call[r].doc \in Documents
        /\ "done" \in Steps /\ EX!End(r, EX!Gone) /\ body' = body \ {r}
    BY <1>3, <1>12 DEF EX!HangUp, EX!At, CallIsRight, Steps
  <2>2. Becomes(r, "done", call[r].doc, EX!Gone)
    BY <1>1, <2>1, OutcomeKinds, StepsBecome
  <2>3. body' \subseteq Conversion /\ r \notin body' /\ \A q \in Conversion \ {r} : q \in body' <=> q \in body
    BY <1>1, <2>1 DEF CallTypes
  <2> QED BY <1>1, <1>3, <2>1, <2>2, <2>3, OutcomeKinds, OneBecomes DEF CallTypes
<1>13. ASSUME NEW r \in Conversion, EX!HangUp(r), call[r].at = "convert" PROVE ConversionInv'
  <2>1. EX!Kill(r, EX!Gone) /\ UNCHANGED body
    BY <1>13 DEF EX!HangUp, EX!At
  <2> QED BY <1>11, <1>13, <2>1
<1>14. ASSUME NEW r \in Conversion, EX!Timeout(r) PROVE ConversionInv'
  BY <1>11, <1>14 DEF EX!Timeout, EX!At
<1>15. ASSUME NEW r \in Conversion, EX!Reaped(r) PROVE ConversionInv'
  <2>1. /\ call[r].at = "kill" /\ process[r] # "running" /\ UNCHANGED process
        /\ call[r].doc \in Documents /\ "done" \in Steps /\ EX!Goto(r, "done") /\ body' = body \ {r}
    BY <1>3, <1>15 DEF EX!Reaped, EX!At, CallIsRight, Steps
  <2>2. Becomes(r, "done", call[r].doc, call[r].out)
    BY <1>1, <2>1, StepsBecome
  <2>3. body' \subseteq Conversion /\ r \notin body' /\ \A q \in Conversion \ {r} : q \in body' <=> q \in body
    BY <1>1, <2>1 DEF CallTypes
  <2> QED BY <1>1, <1>3, <2>1, <2>2, <2>3, OneBecomes DEF CallTypes, Said
<1>16. ASSUME NEW r \in Conversion, EX!Again(r) PROVE ConversionInv'
  <2>1. Becomes(r, "free", None, EX!Nothing)
    <3>1. EX!Idle \in Calls /\ EX!Idle.at = "free" /\ EX!Idle.doc = None /\ EX!Idle.out = EX!Nothing
      BY OutcomeKinds DEF EX!Idle, Calls, Steps
    <3> QED BY <1>16, <3>1 DEF EX!Again, Becomes
  <2>2. /\ call[r].at = "done" /\ UNCHANGED body /\ r \notin body /\ "free" \in Steps
        /\ process' = [process EXCEPT ![r] = "none"]
    BY <1>3, <1>16 DEF EX!Again, EX!At, CallIsRight, Steps
  <2>3. /\ process' \in [Conversion -> {"none", "running", "answered", "failed", "killed"}]
        /\ process'[r] # "running" /\ \A q \in Conversion \ {r} : process'[q] = process[q]
    BY <1>1, <2>2 DEF CallTypes
  <2> QED BY <1>1, <1>3, <2>1, <2>2, <2>3, OutcomeKinds, OneBecomes DEF CallTypes
<1>17. CASE UNCHANGED EX!vars
  <2>1. UNCHANGED <<call, body, process>>
    BY <1>17 DEF EX!vars
  <2>2. CallTypes' /\ SlotsAreKept'
    BY <1>1, <2>1 DEF ConversionInv, CallTypes, SlotsAreKept, Holders, EX!Holds
  <2>3. \A r \in Conversion : CallIsRight(r)'
    BY <1>1, <2>1 DEF CallIsRight, Said
  <2> QED BY <2>2, <2>3 DEF ConversionInv
<1>18. CASE EX!Next
  <2>1. PICK r \in Conversion :
          \/ \E d \in Documents : EX!Ask(r, d)
          \/ EX!Stat(r) \/ EX!Slot(r) \/ EX!Fetch(r) \/ EX!StartWorker(r) \/ EX!WorkerMain(r) \/ EX!Answer(r)
          \/ EX!Timeout(r) \/ EX!Reaped(r) \/ EX!HangUp(r) \/ EX!Again(r)
    BY <1>18 DEF EX!Next
  <2> QED BY <1>4, <1>5, <1>6, <1>7, <1>8, <1>9, <1>10, <1>12, <1>13, <1>14, <1>15, <1>16, <2>1
<1> QED BY <1>17, <1>18

(* However conversions overlap, time out or are left, no more of them are    *)
(* alive and no more files in memory than the slots allow (convert), and a   *)
(* text that lacks some of its document names what was cut, for documents    *)
(* and limits of every size.                                                 *)
THEOREM ConversionsStayHonest ==
  ASSUME EX!ExtractionAssumption
  PROVE  EX!Spec => []EX!ConversionsAreHonest
<1>1. ConversionInv => EX!ConversionsAreHonest
  BY InvMeans DEF EX!ConversionsAreHonest
<1> QED BY ConversionStart, ConversionStep, <1>1, PTL DEF EX!Spec

==============================================================================
