------------------------------- MODULE MCServices -------------------------------
(***************************************************************************)
(* Small instances of the services around the authorization server.  They  *)
(* share no state but through Nextcloud, so that one run checks them all:  *)
(* a behaviour is one of one part, chosen in the beginning, and the slots  *)
(* v1 to v17 hold the variables of that part.                              *)
(***************************************************************************)
EXTENDS Integers, Sequences, FiniteSets, TLC

CONSTANTS
  None, Unknown,
  Actor,     \* requests, tabs or processes, all alike
  dir, doc, home

VARIABLES part, v1, v2, v3, v4, v5, v6, v7, v8, v9, v10, v11, v12, v13, v14, v15, v16, v17

-----------------------------------------------------------------------------
(* What the instances work on *)
SameAccount == [f \in {"f1"} |-> "alice"]
Visitors == [b \in {"b1", "b2"} |-> IF b = "b1" THEN "alice" ELSE "bob"]

Sent(shape, sound, kid) ==
  [shape |-> shape, local |-> sound, kid |-> kid, genuine |-> sound, claims |-> sound, account |-> "a1"]
Bearers == {Sent("jws", TRUE, "k1"), [Sent("jws", FALSE, "k0") EXCEPT !.local = TRUE],
            Sent("opaque", FALSE, "k1")}

Counted == [c1 |-> "refusals", c2 |-> "account"]
Limits == [c1 |-> 2, c2 |-> 2]
CountedAll == [c1 |-> "refusals", c3 |-> "all"]
LimitOne == [c1 |-> 2, c3 |-> 1]

InAFolder == dir :> home @@ doc :> dir
AtHome == dir :> home

Chunks == [c1 |-> <<3, 2, 1>>, c2 |-> <<2>>]
FileTools == [c1 |-> {"binary", "upload"}, c2 |-> {"update", "attachment"}]

Listings == {"list", "search", "read", "markdown", "download", "rows", "talk", "mail"}

(* A hit of every kind, then one with each flaw. *)
Hits == <<"f1", "f2", "n1", "k1", "r1", "q1", "no_object", "outside", "gone", "unread", "no_room", "late">>
HitProvider == [h \in {"f1", "f2", "no_object", "outside"} |-> "pa"]
               @@ [h \in {"n1", "k1", "r1", "q1", "gone", "unread", "no_room", "late"} |-> "pb"]
HitKind == [f1 |-> "file", f2 |-> "file", n1 |-> "note", k1 |-> "card", r1 |-> "message", q1 |-> "message",
            no_object |-> "file", outside |-> "file", gone |-> "note", unread |-> "card", no_room |-> "message", late |-> "card"]
HitNeed == [f1 |-> "path", f2 |-> "id", n1 |-> "id", k1 |-> "none", r1 |-> "room", q1 |-> "filed",
            no_object |-> "path", outside |-> "path", gone |-> "id", unread |-> "none", no_room |-> "room", late |-> "none"]
HitFlaw == [no_object |-> "entry", outside |-> "place", gone |-> "lookup", unread |-> "kind",
            no_room |-> "lookup"] @@ [h \in {"f1", "f2", "n1", "k1", "r1", "q1", "late"} |-> "none"]
OneHit == <<"k1">>
CardProvider == [k1 |-> "pb"]
CardKind == [k1 |-> "card"]
CardNeed == [k1 |-> "none"]
NoFlaw == [k1 |-> "none"]
OneEach == [ca |-> 1, cb |-> 1]
Inboxes == [ma |-> "inbox", mb |-> "cut"]

Documents == {[uses |-> {"a"}, age |-> 9, sound |-> TRUE], [uses |-> {"b"}, age |-> 0, sound |-> TRUE],
              [uses |-> {"a"}, age |-> 2, sound |-> FALSE]}
RegistrationRules == {[enabled |-> TRUE, only |-> FALSE, listed |-> FALSE, spared |-> {}],
                      [enabled |-> TRUE, only |-> TRUE, listed |-> FALSE, spared |-> {"b"}]}

Part(text, rows, cols) == [text |-> text, rows |-> rows, cols |-> cols]
File(format, size, sent, fault, units) ==
  [format |-> format, size |-> size, sent |-> sent, fault |-> fault, units |-> units]
Files == {File("pdf", 1, 1, "none", <<Part(2, 0, 0), Part(9, 0, 0)>>), File(None, 1, 1, "none", <<>>),
          File("docx", 1, 1, "none", <<Part(1, 0, 0), Part(0, 3, 3)>>), File("docx", 2, 2, "none", <<>>),
          File("pptx", 1, 1, "endless", <<Part(1, 1, 2)>>), File("xlsx", 1, 2, "none", <<>>)}

Unset == [v \in {"jwks_uri", "jwks_origin", "audience", "account_claim", "algorithms", "mapping",
                 "oidc_provider_id"} |-> "unset"]
Configured == [v \in {"enabled", "issuer", "azp", "public_url"} |-> "good"] @@ Unset
Settings == {Configured, [Configured EXCEPT !.mapping = "sub_profile"],
             [Configured EXCEPT !.audience = "empty"], [Configured EXCEPT !.enabled = "unset"]}
Alone == {"empty", "long", "not_text", "not_a_jws", "header", "algorithm", "kid", "header_typ",
          "payload", "issuer", "signature", "claims", "audience", "no_azp", "azp", "typ",
          "times", "subject", "principal", "account"}
Together == {{"azp", "subject"}, {"principal", "claims"}, {"signature", "audience"},
             {"not_a_jws", "header"}, {"account", "principal"}}
Issued(faults, exp) == [faults |-> faults, iat |-> 2, exp |-> exp]
Presented == {Issued(f, 4) : f \in {{f} : f \in Alone} \cup Together} \cup {Issued({}, e) : e \in 3..5}

Roles == <<"user", "delegated", "admin">>

RowAndMessage == [row |-> "row", message |-> "message"]
TheirNames == [row |-> {"a"}, message |-> "r"]
TwoEvents == [event |-> "event", unnamed |-> "event"]
TheirCalendars == [event |-> "a", unnamed |-> None]

Deploys == [url : {None, "variable"}, switch : {None, "on"}, derivable : BOOLEAN,
            exchange : {FALSE}, audience : {FALSE}]
           \cup [url : {None, "unchecked"}, switch : {None}, derivable : BOOLEAN,
                 exchange : {TRUE}, audience : {FALSE}]

People == {"alice", "bob"}
OwnerOf == [b1 |-> "alice", b2 |-> "bob", p1 |-> "alice"]
WayOf == [b1 |-> "password", b2 |-> "impersonate"]
AlicesOwn == [c1 |-> "alice"]

-----------------------------------------------------------------------------
(* The instances *)

(* One enrollment, its owner's browser and another user's, with every fault. *)
EN == INSTANCE EnrollmentProofs WITH
  clock <- v1, client <- v2, flow <- v3, holding <- v4, binding <- v5, tx <- v6,
  proof <- v7, mine <- v8, cookie <- v9, nextcloud <- v10, password <- v11, unseen <- v12,
  misused <- v13, pc <- v14, job <- v15, AccountOf <- SameAccount, SignsInAs <- Visitors,
  Browser <- {"b1", "b2"}, Flow <- {"f1"}, Binding <- {"d1", "d2"}, Request <- Actor,
  Offered <- {"begin", "resume", "revoke", "sweep"}, FLOW_TTL <- 1, OIDC_TTL <- 1,
  IDLE_CLIENT_TTL <- 1, UNUSED_CLIENT_TTL <- 1, PER_BROWSER <- 2, MaxClock <- 2,
  Tx <- {"x1"}, Faults <- {"crash", "store", "lost", "unreadable"}

(* The same with two transactions at the provider, while nobody dies. *)
ET == INSTANCE EnrollmentProofs WITH
  clock <- v1, client <- v2, flow <- v3, holding <- v4, binding <- v5, tx <- v6,
  proof <- v7, mine <- v8, cookie <- v9, nextcloud <- v10, password <- v11, unseen <- v12,
  misused <- v13, pc <- v14, job <- v15, AccountOf <- SameAccount, SignsInAs <- Visitors,
  Browser <- {"b1", "b2"}, Flow <- {"f1"}, Binding <- {"d1", "d2"}, Request <- Actor,
  Offered <- {"begin", "resume", "revoke"}, FLOW_TTL <- 1, OIDC_TTL <- 1,
  IDLE_CLIENT_TTL <- 1, UNUSED_CLIENT_TTL <- 1, PER_BROWSER <- 2, MaxClock <- 1,
  Tx <- {"x1", "x2"}, Faults <- {}

(* The key set of the exchange path while keys are withdrawn and revocations forget them; *)
(* and the dry run beside the check in operation, for a token with each fault.            *)
XK == INSTANCE ExchangeCallProofs WITH
  clock <- v1, served <- v2, withdrawn <- v3, keys <- v4, brakes <- v5, lock <- v6,
  waiting <- v7, fetch <- v8, begun <- v9, source <- v10, existing <- v11, vanished <- v12,
  paused <- v13, list <- v14, listing <- v15, pc <- v16, token <- v17, Request <- Actor,
  Kid <- {"k1"}, Invented <- "k0", Account <- {"a1", "a2"}, Token <- Bearers,
  JWKS_CACHE_SECONDS <- 2, JWKS_KID_COOLDOWN_SECONDS <- 2, JWKS_FAILURE_RETRY_SECONDS <- 1,
  ACCOUNT_CACHE_TTL <- 2, ACCOUNT_FAILURE_RETRY_SECONDS <- 1, MaxClock <- 3,
  Source <- {"bound"}, Events <- {"rotate", "forget"},
  env <- v2, conf <- v3, presented <- v4, answered <- v5, known <- v6, op <- v7, dry <- v8,
  accepted <- v9, Tokens <- Presented, Envs <- Settings, LEEWAY <- 2, MAX_LIFETIME <- 2,
  Seconds <- 6

(* The account sources while accounts vanish and are paused. *)
XA == INSTANCE ExchangeCallProofs WITH
  clock <- v1, served <- v2, withdrawn <- v3, keys <- v4, brakes <- v5, lock <- v6,
  waiting <- v7, fetch <- v8, begun <- v9, source <- v10, existing <- v11, vanished <- v12,
  paused <- v13, list <- v14, listing <- v15, pc <- v16, token <- v17, Request <- Actor,
  Kid <- {"k1"}, Invented <- "k0", Account <- {"a1", "a2"},
  Token <- {Sent("jws", TRUE, "k1")}, JWKS_CACHE_SECONDS <- 2,
  JWKS_KID_COOLDOWN_SECONDS <- 2, JWKS_FAILURE_RETRY_SECONDS <- 1, ACCOUNT_CACHE_TTL <- 2,
  ACCOUNT_FAILURE_RETRY_SECONDS <- 1, MaxClock <- 2, Source <- {"bound", "appapi"},
  Events <- {"vanish", "pause"},
  env <- v2, conf <- v3, presented <- v4, answered <- v5, known <- v6, op <- v7, dry <- v8,
  accepted <- v9, Tokens <- Presented, Envs <- Settings, LEEWAY <- 2, MAX_LIFETIME <- 2,
  Seconds <- 6

(* A folder and a file in it, two spellings, and every question a tool asks; and  *)
(* the tag diagnosis while people change the tags.                                *)
TG == INSTANCE ExclusionProofs WITH
  clock <- v1, parent <- v2, tag <- v3, on <- v4, changes <- v5, cache <- v6, pc <- v7,
  job <- v8, Node <- {dir, doc}, Folder <- {dir}, Home <- home, Placed <- InAFolder,
  Id <- {1, 2}, Spelling <- {"s", "r"}, Call <- {"c1"},
  Wants <- {"children", "below", "entry", "byid", "ids", "place"}, TTL_SECONDS <- 1,
  TAG_BUDGET <- 0, MaxChanges <- 3, MaxClock <- 1,
  labels <- v1, edits <- v2, stage <- v3, named <- v4, reader <- v5, proven <- v6, begun <- v7,
  seen <- v8, counted <- v9, report <- v10, Tag <- Actor, Account <- 1..3, Role <- Roles,
  Readable <- {2, 3}, MAX_READ_ATTEMPTS <- 2, MaxItems <- 1, Edits <- 2

(* Two writes of one user beside each other. *)
TW == INSTANCE ExclusionProofs WITH
  clock <- v1, parent <- v2, tag <- v3, on <- v4, changes <- v5, cache <- v6, pc <- v7,
  job <- v8, Node <- {dir}, Folder <- {dir}, Home <- home, Placed <- AtHome, Id <- {1, 2},
  Spelling <- {"s"}, Call <- Actor, Wants <- {"place"}, TTL_SECONDS <- 1, TAG_BUDGET <- 0,
  MaxChanges <- 3, MaxClock <- 1,
  labels <- v1, edits <- v2, stage <- v3, named <- v4, reader <- v5, proven <- v6, begun <- v7,
  seen <- v8, counted <- v9, report <- v10, Tag <- Actor, Account <- 1..3, Role <- Roles,
  Readable <- {2, 3}, MAX_READ_ATTEMPTS <- 2, MaxItems <- 1, Edits <- 2

(* Every list that is read in pages. *)
PG == INSTANCE Paging WITH
  world <- v1, at <- v2, told <- v3, got <- v4, asked <- v5, Kinds <- Listings,
  MaxSize <- 6, MaxLimit <- 3, MaxSecond <- 2, MAX_SEARCH_FETCH <- 5

(* The search leg of prepare_context with hits of every kind and with every flaw; *)
(* the last of them is behind the cursor of its provider.                         *)
BS == INSTANCE Bundle WITH
  pc <- v1, asked <- v2, leg <- v3, hits <- v4, named <- v5, events <- v6, talk <- v7,
  mail <- v8, reader <- v9, lookup <- v10, SEARCH_LIMIT <- 7, MAX_PER_BUCKET <- 1,
  MAX_EVENTS <- 1, MAX_CONVERSATIONS <- 1, MAX_DIGEST <- 1, MAX_MAIL_ACCOUNTS <- 1,
  MAX_EXCERPTS <- 2, Outcomes <- {"ok", "down"}, Sandbox <- TRUE, TaggedFolder <- TRUE, Hit <- Hits,
  Provider <- {"pa", "pb"}, Calendar <- {}, Account <- {}, ProviderOf <- HitProvider,
  KindOf <- HitKind, NeedOf <- HitNeed, FlawOf <- HitFlaw, Tagged <- {"f2"}, Event <- <<>>, Rooms <- {},
  Filed <- {}, Inbox <- <<>>

(* Its other legs, any source of which may fail. *)
BA == INSTANCE Bundle WITH
  pc <- v1, asked <- v2, leg <- v3, hits <- v4, named <- v5, events <- v6, talk <- v7,
  mail <- v8, reader <- v9, lookup <- v10, SEARCH_LIMIT <- 4, MAX_PER_BUCKET <- 1,
  MAX_EVENTS <- 1, MAX_CONVERSATIONS <- 1, MAX_DIGEST <- 1, MAX_MAIL_ACCOUNTS <- 1,
  MAX_EXCERPTS <- 2, Outcomes <- {"ok", "down"}, Sandbox <- FALSE, TaggedFolder <- FALSE, Hit <- OneHit,
  Provider <- {"pb"}, Calendar <- {"ca", "cb"}, Account <- {"ma", "mb"},
  ProviderOf <- CardProvider, KindOf <- CardKind, NeedOf <- CardNeed, FlawOf <- NoFlaw, Tagged <- {},
  Event <- OneEach, Rooms <- {"x", "y"}, Filed <- {"y"}, Inbox <- Inboxes

(* A small bundle in which a leg may end with an error nobody foresaw. *)
BB == INSTANCE Bundle WITH
  pc <- v1, asked <- v2, leg <- v3, hits <- v4, named <- v5, events <- v6, talk <- v7,
  mail <- v8, reader <- v9, lookup <- v10, SEARCH_LIMIT <- 4, MAX_PER_BUCKET <- 1,
  MAX_EVENTS <- 1, MAX_CONVERSATIONS <- 1, MAX_DIGEST <- 1, MAX_MAIL_ACCOUNTS <- 1,
  MAX_EXCERPTS <- 2, Outcomes <- {"ok", "broken"}, Sandbox <- FALSE, TaggedFolder <- FALSE, Hit <- OneHit,
  Provider <- {"pb"}, Calendar <- {"ca"}, Account <- {"ma"}, ProviderOf <- CardProvider,
  KindOf <- CardKind, NeedOf <- CardNeed, FlawOf <- NoFlaw, Tagged <- {}, Event <- [ca |-> 1], Rooms <- {"x"},
  Filed <- {}, Inbox <- [ma |-> "inbox"]

(* The small services: two throttled classes that share its memory, one of  *)
(* refusals and one of accounts; processes that start together over a store *)
(* without a key; two waiting pages of an onboarding; the settings of an    *)
(* ExApp; requests at every entry point; one tab of the account page over   *)
(* three hours; a row by its column titles and a message, while people      *)
(* rename; an upload in chunks beside an update of the same file; two       *)
(* requests that name one client by its document; two sign-ins at the       *)
(* identity provider over one client; and three conversions, two of which   *)
(* may run.                                                                 *)
PA == INSTANCE PartsProofs WITH
  clock <- v1, pc <- v2, job <- v3, call <- v4, changes <- v5, paused <- v6,
  counters <- v4, owed <- v5,
  kept <- v1, checked <- v2, rows <- v3, worker <- v4, used <- v5, lost <- v6,
  record <- v2, login <- v3, owner <- v4, password <- v5, wait <- v7, shown <- v8, mishap <- v9,
  deploy <- v1, stored <- v2, enabled <- v3, proc <- v6, log <- v7,
  entry <- v1, env <- v2, up <- v3, alive <- v5,
  hour <- v1, state <- v2, held <- v3, offered <- v4, tab <- v5,
  titles <- v1, create <- v2, rooms <- v3, names <- v4, calls <- v6, made <- v7, meant <- v8,
  file <- v1, versions <- v4, upload <- v5, staging <- v6, knows <- v7, replaced <- v8,
  document <- v2, named <- v3, host <- v6, policy <- v7, row <- v8, contacted <- v9,
  metadata <- v2, failedAt <- v3, lock <- v5, begun <- v6,
  queue <- v1, body <- v2, process <- v3,
  Request <- Actor, PATH_CEILING <- 3, WINDOW <- 1, Whole <- "whole", Source <- {"s1", "s2"},
  SOURCE_LIMIT <- 4, Class <- {"c1", "c2"}, Counts <- Counted, Limit <- Limits,
  Worker <- Actor, Key <- {"k1", "k2", "k3"}, Mode <- "exapp",
  Flow <- {"f1", "f2"}, Wait <- Actor, Account <- People, FLOW_TTL <- 1, MaxClock <- 1,
  Address <- {"first"}, Environments <- Deploys, MaxChanges <- 2,
  Bearer <- {"b1", "b2"}, Basic <- {"p1"}, Owner <- OwnerOf, Way <- WayOf,
  Visitor <- {"alice"}, Conn <- {"c1"}, OwnerOfConn <- AlicesOwn, Tab <- {"t1"}, MaxHour <- 2,
  Call <- {"row", "message"}, Makes <- RowAndMessage, Wants <- TheirNames,
  Title <- {"a", "b"}, Column <- {"c1", "c2"}, Mandatory <- {"c2"}, Room <- {"r"},
  Calendar <- {"personal", "work"}, Default <- "personal", Renames <- 1,
  Client <- {"c1", "c2"}, Plan <- Chunks, Does <- FileTools, MIN_UPLOAD_CHUNK_BYTES <- 2,
  HARD_UPLOAD_CHUNK_BYTES <- 3, MaxVersions <- 3,
  Caller <- Actor, ReturnAddress <- {"a", "b"}, Registrable <- {"a", "b"}, Offers <- Documents,
  Rules <- RegistrationRules, CACHE_MIN <- 1, CACHE_MAX <- 2,
  Seconds <- 3, DocChanges <- 1, Never <- None,
  Visit <- {"r1", "r2"}, RETRY <- 2, LEEWAY <- 1, LIFETIME <- 1, Ticks <- 2,
  Conversion <- Actor \cup {"r3"}, Documents <- Files, MAX_CONCURRENT <- 2, MAX_SOURCE_BYTES <- 1,
  MAX_PAGES <- 2, MAX_ROWS <- 2, MAX_COLS <- 2, MAX_OUTPUT_CHARS <- 12

(* Four of them again: a class that counts every request beside one of      *)
(* refusals, with less memory; a mounted key, which somebody may replace;   *)
(* two tabs that press buttons together; and an event in a named calendar   *)
(* beside one in the default calendar.                                      *)
PB == INSTANCE PartsProofs WITH
  clock <- v1, pc <- v2, job <- v3, call <- v4, changes <- v5, paused <- v6,
  counters <- v4, owed <- v5,
  kept <- v1, checked <- v2, rows <- v3, worker <- v4, used <- v5, lost <- v6,
  record <- v2, login <- v3, owner <- v4, password <- v5, wait <- v7, shown <- v8, mishap <- v9,
  deploy <- v1, stored <- v2, enabled <- v3, proc <- v6, log <- v7,
  entry <- v1, env <- v2, up <- v3, alive <- v5,
  hour <- v1, state <- v2, held <- v3, offered <- v4, tab <- v5,
  titles <- v1, create <- v2, rooms <- v3, names <- v4, calls <- v6, made <- v7, meant <- v8,
  file <- v1, versions <- v4, upload <- v5, staging <- v6, knows <- v7, replaced <- v8,
  document <- v2, named <- v3, host <- v6, policy <- v7, row <- v8, contacted <- v9,
  metadata <- v2, failedAt <- v3, lock <- v5, begun <- v6,
  queue <- v1, body <- v2, process <- v3,
  Request <- Actor, PATH_CEILING <- 3, WINDOW <- 1, Whole <- "whole", Source <- {"s1", "s2"},
  SOURCE_LIMIT <- 3, Class <- {"c1", "c3"}, Counts <- CountedAll, Limit <- LimitOne,
  Worker <- {"w1", "w2", "w3"}, Key <- {"k1", "k2", "k3", "k4"}, Mode <- "file",
  Flow <- {"f1", "f2"}, Wait <- Actor, Account <- People, FLOW_TTL <- 1, MaxClock <- 1,
  Address <- {"first"}, Environments <- Deploys, MaxChanges <- 2,
  Bearer <- {"b1", "b2"}, Basic <- {"p1"}, Owner <- OwnerOf, Way <- WayOf,
  Visitor <- {"alice"}, Conn <- {"c1"}, OwnerOfConn <- AlicesOwn, Tab <- Actor, MaxHour <- 0,
  Call <- {"event", "unnamed"}, Makes <- TwoEvents, Wants <- TheirCalendars,
  Title <- {"a", "b"}, Column <- {"c1", "c2"}, Mandatory <- {"c2"}, Room <- {"r"},
  Calendar <- {"personal", "work"}, Default <- "personal", Renames <- 1,
  Client <- {"c1", "c2"}, Plan <- Chunks, Does <- FileTools, MIN_UPLOAD_CHUNK_BYTES <- 2,
  HARD_UPLOAD_CHUNK_BYTES <- 3, MaxVersions <- 3,
  Caller <- Actor, ReturnAddress <- {"a", "b"}, Registrable <- {"a", "b"}, Offers <- Documents,
  Rules <- RegistrationRules, CACHE_MIN <- 1, CACHE_MAX <- 2,
  Seconds <- 3, DocChanges <- 1, Never <- None,
  Visit <- {"r1", "r2"}, RETRY <- 2, LEEWAY <- 1, LIFETIME <- 1, Ticks <- 2,
  Conversion <- Actor \cup {"r3"}, Documents <- Files, MAX_CONCURRENT <- 2, MAX_SOURCE_BYTES <- 1,
  MAX_PAGES <- 2, MAX_ROWS <- 2, MAX_COLS <- 2, MAX_OUTPUT_CHARS <- 12

ASSUME ServicesAssumption ==
  /\ EN!EnrollmentAssumption
  /\ ET!EnrollmentAssumption
  /\ XK!ExchangeCallAssumption
  /\ XA!ExchangeCallAssumption
  /\ PA!TH!ThrottleAssumption
  /\ PB!TH!ThrottleAssumption
  /\ TG!TagExclusionAssumption
  /\ TW!TagExclusionAssumption
  /\ PA!FW!FileWritesAssumption
  /\ PG!PagingAssumption
  /\ BS!BundleAssumption
  /\ BA!BundleAssumption
  /\ BB!BundleAssumption
  /\ PA!CD!ClientDocumentsAssumption
  /\ PA!OB!OnboardingAssumption
  /\ PA!KE!DataKeyAssumption
  /\ PB!KE!DataKeyAssumption
  /\ PA!EX!ExtractionAssumption
  /\ XK!CK!TokenChecksAssumption
  /\ TG!TK!TagCheckAssumption
  /\ PA!WR!ToolWritesAssumption
  /\ PB!WR!ToolWritesAssumption
  /\ PA!DP!DeploymentAssumption
  /\ PA!RP!RequestPathAssumption
  /\ PA!AP!AccountPageAssumption
  /\ PB!AP!AccountPageAssumption
  /\ PA!OC!OidcClientAssumption

-----------------------------------------------------------------------------
(* One part at a time: it moves, and the slots it has no use for rest.  *)

rest16 == <<v16, v17, part>>
rest11 == <<v11, v12, v13, v14, v15, rest16>>
rest10 == <<v10, rest11>>
rest9 == <<v9, rest10>>
rest8 == <<v8, rest9>>
rest7 == <<v7, rest8>>
rest6 == <<v6, rest7>>
rest5 == <<v5, rest6>>
vars == <<v1, v2, v3, v4, rest5>>

Unused16 == v16 = None /\ v17 = None
Unused11 == v11 = None /\ v12 = None /\ v13 = None /\ v14 = None /\ v15 = None /\ Unused16
Unused10 == v10 = None /\ Unused11
Unused9 == v9 = None /\ Unused10
Unused8 == v8 = None /\ Unused9
Unused7 == v7 = None /\ Unused8
Unused6 == v6 = None /\ Unused7
Unused5 == v5 = None /\ Unused6

Init ==
  \/ part = "enrollment" /\ EN!Init /\ Unused16
  \/ part = "two sign-ins" /\ ET!Init /\ Unused16
  \/ part = "keys" /\ XK!Init
  \/ part = "accounts" /\ XA!Init
  \/ part = "throttle" /\ PA!TH!Init /\ Unused6
  \/ part = "throttle all" /\ PB!TH!Init /\ Unused6
  \/ part = "tags" /\ TG!Init /\ Unused9
  \/ part = "tagged writes" /\ TW!Init /\ Unused9
  \/ part = "files" /\ PA!FW!Init /\ Unused9
  \/ part = "pages" /\ PG!Init /\ Unused6
  \/ part = "search bundle" /\ BS!Init /\ Unused11
  \/ part = "bundle" /\ BA!Init /\ Unused11
  \/ part = "broken bundle" /\ BB!Init /\ Unused11
  \/ part = "documents" /\ PA!CD!Init /\ Unused10
  \/ part = "onboarding" /\ PA!OB!Init /\ Unused10
  \/ part = "first key" /\ PA!KE!Init /\ Unused7
  \/ part = "key file" /\ PB!KE!Init /\ Unused7
  \/ part = "conversions" /\ PA!EX!Init /\ Unused5
  \/ part = "token checks" /\ XK!CK!Init /\ Unused10
  \/ part = "tag check" /\ TG!TK!Init /\ Unused11
  \/ part = "rows and messages" /\ PA!WR!Init /\ Unused9
  \/ part = "events" /\ PB!WR!Init /\ Unused9
  \/ part = "deployment" /\ PA!DP!Init /\ Unused8
  \/ part = "requests" /\ PA!RP!Init /\ Unused7
  \/ part = "account page" /\ PA!AP!Init /\ Unused7
  \/ part = "two tabs" /\ PB!AP!Init /\ Unused7
  \/ part = "discovery" /\ PA!OC!Init /\ Unused7

Next ==
  \/ part = "enrollment" /\ EN!Next /\ UNCHANGED rest16
  \/ part = "two sign-ins" /\ ET!Next /\ UNCHANGED rest16
  \/ part = "keys" /\ XK!Next /\ UNCHANGED part
  \/ part = "accounts" /\ XA!Next /\ UNCHANGED part
  \/ part = "throttle" /\ PA!TH!Next /\ UNCHANGED rest6
  \/ part = "throttle all" /\ PB!TH!Next /\ UNCHANGED rest6
  \/ part = "tags" /\ TG!Next /\ UNCHANGED rest9
  \/ part = "tagged writes" /\ TW!Next /\ UNCHANGED rest9
  \/ part = "files" /\ PA!FW!Next /\ UNCHANGED rest9
  \/ part = "pages" /\ PG!Next /\ UNCHANGED rest6
  \/ part = "search bundle" /\ BS!Next /\ UNCHANGED rest11
  \/ part = "bundle" /\ BA!Next /\ UNCHANGED rest11
  \/ part = "broken bundle" /\ BB!Next /\ UNCHANGED rest11
  \/ part = "documents" /\ PA!CD!Next /\ UNCHANGED rest10
  \/ part = "onboarding" /\ PA!OB!Next /\ UNCHANGED rest10
  \/ part = "first key" /\ PA!KE!Next /\ UNCHANGED rest7
  \/ part = "key file" /\ PB!KE!Next /\ UNCHANGED rest7
  \/ part = "conversions" /\ PA!EX!Next /\ UNCHANGED rest5
  \/ part = "token checks" /\ XK!CK!Next /\ UNCHANGED rest10
  \/ part = "tag check" /\ TG!TK!Next /\ UNCHANGED rest11
  \/ part = "rows and messages" /\ PA!WR!Next /\ UNCHANGED rest9
  \/ part = "events" /\ PB!WR!Next /\ UNCHANGED rest9
  \/ part = "deployment" /\ PA!DP!Next /\ UNCHANGED rest8
  \/ part = "requests" /\ PA!RP!Next /\ UNCHANGED rest7
  \/ part = "account page" /\ PA!AP!Next /\ UNCHANGED rest7
  \/ part = "two tabs" /\ PB!AP!Next /\ UNCHANGED rest7
  \/ part = "discovery" /\ PA!OC!Next /\ UNCHANGED rest7

Spec == Init /\ [][Next]_vars

MCSymmetry == Permutations(Actor)

-----------------------------------------------------------------------------
(* Properties, each of the parts it is about *)

(* The variables of every part have their types, and the foreign keys,      *)
(* locks and queues of each agree.                                          *)
TypeOK ==
  /\ part = "enrollment" => EN!TypeOK
  /\ part = "two sign-ins" => ET!TypeOK
  /\ part = "keys" => XK!TypeOK
  /\ part = "accounts" => XA!TypeOK
  /\ part = "throttle" => PA!TH!TypeOK
  /\ part = "throttle all" => PB!TH!TypeOK
  /\ part = "tags" => TG!TypeOK
  /\ part = "tagged writes" => TW!TypeOK
  /\ part = "files" => PA!FW!TypeOK
  /\ part = "pages" => PG!TypeOK
  /\ part = "search bundle" => BS!TypeOK
  /\ part = "bundle" => BA!TypeOK
  /\ part = "broken bundle" => BB!TypeOK
  /\ part = "documents" => PA!CD!TypeOK
  /\ part = "onboarding" => PA!OB!TypeOK
  /\ part = "first key" => PA!KE!TypeOK
  /\ part = "key file" => PB!KE!TypeOK
  /\ part = "conversions" => PA!EX!TypeOK
  /\ part = "token checks" => XK!CK!TypeOK
  /\ part = "tag check" => TG!TK!TypeOK
  /\ part = "rows and messages" => PA!WR!TypeOK
  /\ part = "events" => PB!WR!TypeOK
  /\ part = "deployment" => PA!DP!TypeOK
  /\ part = "requests" => PA!RP!TypeOK
  /\ part = "account page" => PA!AP!TypeOK
  /\ part = "two tabs" => PB!AP!TypeOK
  /\ part = "discovery" => PA!OC!TypeOK

(* An app password that Nextcloud made is in the hands of its user, kept    *)
(* under a row or returned; the exceptions are failures nobody could have   *)
(* answered (exchange enrollment and browser onboarding).                   *)
PasswordsAreAccounted ==
  /\ part = "enrollment" => EN!Accounted
  /\ part = "two sign-ins" => ET!Accounted
  /\ part = "onboarding" => PA!OB!ShownOnceOrReturned

(* A binding is made by the owner of its account, a request acts for the    *)
(* caller it was proved for, and a button of the account page does what     *)
(* that page offered that account.                                          *)
OnlyTheOwnerActs ==
  /\ part = "enrollment" => EN!BoundByItsOwner
  /\ part = "two sign-ins" => ET!BoundByItsOwner
  /\ part = "requests" => PA!RP!ActsForItsCaller
  /\ part = "account page" => PA!AP!OnlyWhatWasOffered /\ PA!AP!DoneIsDone
  /\ part = "two tabs" => PB!AP!OnlyWhatWasOffered /\ PB!AP!DoneIsDone

(* A sign-in at the identity provider serves once, in the browser it began  *)
(* in, and its ID token is the one this sign-in asked for, from this        *)
(* issuer for this party.                                                   *)
SignInsAreEarned ==
  /\ part = "enrollment" => EN!OneSignInOneBinding
  /\ part = "two sign-ins" => ET!OneSignInOneBinding
  /\ part = "discovery" => PA!OC!AcceptedIsForThisSignIn

(* No step ends a living binding or returns its password but those that     *)
(* may.                                                                     *)
EndsNoLivingBinding ==
  /\ part = "enrollment" => EN!EndsNoLivingBinding
  /\ part = "two sign-ins" => ET!EndsNoLivingBinding
KeptUntilEnded == [][EndsNoLivingBinding]_vars

(* No step of the exchange path passes a token under a key, or for an       *)
(* account, that has been withdrawn for longer than the caches may say      *)
(* otherwise.                                                               *)
PassesForTheLiving ==
  /\ part = "keys" => XK!PassesUnderALivingKey /\ XK!PassesForALivingAccount
  /\ part = "accounts" => XA!PassesUnderALivingKey /\ XA!PassesForALivingAccount
NothingWithdrawnIsAccepted == [][PassesForTheLiving]_vars

(* No crowd of calls makes the key set or the sign-in fetch more often      *)
(* than the pauses allow, and no burst gets past the throttle but what was  *)
(* under way together.                                                      *)
KeepsToTheBounds ==
  /\ part = "keys" => XK!BeginsAfterAPause
  /\ part = "accounts" => XA!BeginsAfterAPause
  /\ part = "throttle" => PA!TH!BurstIsBounded'
  /\ part = "throttle all" => PB!TH!BurstIsBounded'
  /\ part = "discovery" => PA!OC!DiscoveryIsSpaced'
RequestsAreBounded == [][KeepsToTheBounds]_vars

(* What an administrator stored is what the process serves with once an     *)
(* enable has run its course, and the process stops only where something    *)
(* differs.                                                                 *)
SettingsApply == part = "deployment" => PA!DP!SettingsApply

(* A tagged file, or one below a tagged folder, is withheld from every tool *)
(* that begins once the tag is older than the cached ids and a flight, but  *)
(* for what was moved, or tagged anew in another spelling, during the call. *)
TaggedStaysWithheld ==
  /\ part = "tags" => TG!TaggedStaysWithheld
  /\ part = "tagged writes" => TW!TaggedStaysWithheld

(* No tool writes over a version nobody showed it, and a row, a message or  *)
(* an event goes where its words meant, and meant alone.                    *)
WritesAreSafe ==
  /\ part = "files" => PA!FW!NoLostUpdate
  /\ part = "rows and messages" => PA!WR!WritesWhatWasMeant
  /\ part = "events" => PB!WR!WritesWhatWasMeant

(* What takes several requests is whole in the end.  A caller who follows    *)
(* the handles gets everything once and in order, or is told that something *)
(* is left out, and never circles; an upload in chunks is the file the      *)
(* caller sent, or nothing is there.                                        *)
TransfersAreWhole ==
  /\ part = "pages" => PG!EachOnce /\ PG!CompleteOrSaysSo /\ PG!NeverCircles
  /\ part = "files" => PA!FW!UploadsAreWhole

(* Everything prepare_context was due to show is shown, or its source is    *)
(* named as degraded; but for the hits that the search counted as unusable. *)
NothingVanishes ==
  /\ part = "search bundle" => BS!NothingVanishes
  /\ part = "bundle" => BA!NothingVanishes
  /\ part = "broken bundle" => BB!NothingVanishes

(* A client document serves from its row for its bounded lifetime only, an  *)
(* address stood in the document when the row that serves it was asked for, *)
(* and no lookup reaches into the network of the server.                    *)
DocumentsAreBounded == part = "documents" => PA!CD!DocumentsAreBounded

(* Whatever processes start together, the rows they write are readable      *)
(* with the key the deployment keeps.                                       *)
OneKeyOpens ==
  /\ part = "first key" => PA!KE!OneKeyOpens
  /\ part = "key file" => PB!KE!OneKeyOpens

(* No more conversions run than there are slots, every process ends before  *)
(* its slot is free again, and a text that leaves something out says so.    *)
ConversionsAreHonest == part = "conversions" => PA!EX!ConversionsAreHonest

(* The dry run gives the reason that operation gives, a token serves no     *)
(* longer than its life, and the tag diagnosis reports what an account of   *)
(* its kind would find.                                                     *)
ChecksTellTheTruth ==
  /\ part = "token checks" => XK!CK!ChecksAgree
  /\ part = "tag check" => TG!TK!CheckTellsTheTruth

=============================================================================
