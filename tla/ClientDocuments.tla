------------------------------ MODULE ClientDocuments ------------------------------
(***************************************************************************)
(* A client whose id is the address of a document about itself (CIMD).     *)
(* The document is fetched, its return addresses are kept in the clients   *)
(* table until the lifetime of the answer is over, and a sign-in may only  *)
(* return to an address that is kept.  Several requests name the same id   *)
(* at once, the document and the name service change under them, and the   *)
(* token endpoint may read the row but never fetch.                        *)
(***************************************************************************)
EXTENDS Integers, FiniteSets

CONSTANTS
  Caller,        \* the requests that name the client id
  Address,       \* return addresses a document may name
  Registrable,   \* those of them that are https, or http on a loopback host
  Offers,        \* the documents that may be served; the age of one is the
                 \* max-age of the answer, 0 for no-store and for no header
  Rules,         \* the registration rules a process may be started with
  CACHE_MIN, CACHE_MAX,   \* CACHE_MIN_SECONDS, CACHE_MAX_SECONDS
  MaxClock,      \* bound of the clock
  MaxChanges,    \* bound of the changes to the document, the name and the rules
  Never

VARIABLES
  clock,
  document,   \* what the address serves now: a record, or Never
  named,      \* named[a]: when the document last stopped naming a, -1 before
  host,       \* what the name service answers now: "public", "inside" or "none"
  policy,     \* the registration rules of the running process
  row,        \* the client in the clients table, Never without one
  call,       \* the lookup each request is at
  changes,    \* how often people changed the document, the name or the rules
  contacted   \* history: what kinds of address were connected to

vars == <<clock, document, named, host, policy, row, call, changes, contacted>>

ClientDocumentsAssumption ==
  /\ Registrable \subseteq Address
  /\ \A offer \in Offers : offer.uses \subseteq Address /\ offer.age \in Nat
  /\ {CACHE_MIN, CACHE_MAX, MaxClock, MaxChanges} \subseteq Nat
  /\ 0 < CACHE_MIN /\ CACHE_MIN <= CACHE_MAX

(* Of a row, asked is history: when a server gave its content out.           *)
Rows == [uses : SUBSET Registrable, allowed : BOOLEAN, asked : Nat, fetched : Nat, expires : Nat]
Idle == [at |-> "idle", may |-> FALSE, to |-> Never, found |-> Never, asked |-> 0, since |-> 0,
         from |-> Never, when |-> 0]

TypeOK ==
  /\ document \in Offers \cup {Never}
  /\ named \in [Address -> -1..MaxClock]
  /\ host \in {"public", "inside", "none"}
  /\ policy \in Rules
  /\ row \in Rows \cup {Never}
  /\ \A c \in Caller :
       /\ call[c].at \in {"idle", "load", "lookup", "fetch", "read", "save", "reload", "given"}
       /\ {call[c].asked, call[c].since, call[c].when} \subseteq 0..MaxClock
       /\ call[c].from \in Rows \cup {Never}

Init ==
  /\ clock = 0
  /\ document \in Offers \cup {Never}
  /\ named = [a \in Address |-> -1]
  /\ host = "public"
  /\ policy \in Rules
  /\ row = Never
  /\ call = [c \in Caller |-> Idle]
  /\ changes = 0
  /\ contacted = {}

-----------------------------------------------------------------------------
At(c, step) == call[c].at = step
Goto(c, step) == call' = [call EXCEPT ![c].at = step]
Refuse(c) == call' = [call EXCEPT ![c] = Idle]
World == <<clock, document, named, host, policy, changes>>

(* ClientPolicy.listed and ClientPolicy.allows: open registration allows     *)
(* everyone; a restricted one the ids and the return addresses on its list.  *)
Allows(uses) == ~ policy.only \/ policy.listed \/ uses \cap policy.spared # {}

(* The end of get_client: what the row said when it was written, and the     *)
(* rules as they are now.                                                    *)
Accept(c, r) ==
  IF r # Never /\ r.allowed /\ Allows(r.uses)
  THEN call' = [call EXCEPT ![c] = [Idle EXCEPT !.at = "given", !.may = call[c].may,
                                      !.to = call[c].to, !.from = r, !.when = clock]]
  ELSE Refuse(c)

IsFresh(r) == r # Never /\ r.expires > clock

Begin(c) ==
  /\ At(c, "idle")
  /\ \E may \in BOOLEAN :
       call' = [call EXCEPT ![c] = [Idle EXCEPT !.at = "load", !.may = may]]
  /\ UNCHANGED <<World, row, contacted>>

(* A fresh row answers.  The token endpoint takes a stale one too and never  *)
(* fetches; a registration that is closed to the id fetches nothing either.  *)
Load(c) ==
  /\ At(c, "load")
  /\ \/ IF ~ policy.enabled THEN Refuse(c)
        ELSE IF IsFresh(row) \/ ~ call[c].may THEN Accept(c, row)
        ELSE IF policy.only /\ ~ policy.listed THEN Refuse(c)
        ELSE Goto(c, "lookup")
     \/ Refuse(c)      \* the store cannot be read
  /\ UNCHANGED <<World, row, contacted>>

(* One private address among the answers is enough to refuse them all.  The  *)
(* connection goes to an address that was looked at, not to the name again.  *)
Lookup(c) ==
  /\ At(c, "lookup")
  /\ IF host = "public"
     THEN call' = [call EXCEPT ![c].at = "fetch", ![c].to = host]
     ELSE Refuse(c)
  /\ UNCHANGED <<World, row, contacted>>

TargetByName(c) == host
Target(c) == call[c].to

Fetch(c) ==
  /\ At(c, "fetch")
  /\ contacted' = contacted \cup {Target(c)}
  /\ \/ /\ document # Never
        /\ call' = [call EXCEPT ![c].at = "read", ![c].found = document, ![c].asked = clock]
     \/ Refuse(c)      \* no answer, another status than 200, or a redirect
  /\ UNCHANGED <<World, row>>

-----------------------------------------------------------------------------
(* cache_lifetime *)
CachedAsAsked(age) == IF age = 0 THEN CACHE_MIN ELSE age
Cached(age) ==
  IF age < CACHE_MIN THEN CACHE_MIN ELSE IF age > CACHE_MAX THEN CACHE_MAX ELSE age

(* The document has to be about this id and to ask for no secret, and one of *)
(* its addresses has to be registrable.  The moment of the row is the one at *)
(* which the body is complete, however long it took: every read of it has a  *)
(* timeout and all of it a size, and the whole has no deadline.              *)
Validate(c) ==
  LET found == call[c].found IN
  /\ At(c, "read")
  /\ IF found.sound /\ found.uses \cap Registrable # {}
     THEN call' = [call EXCEPT ![c].at = "save", ![c].since = clock] ELSE Refuse(c)
  /\ UNCHANGED <<World, row, contacted>>

(* save_client replaces what another request wrote meanwhile, be it newer.   *)
Written(found, asked, moment) ==
  LET uses == found.uses \cap Registrable IN
  [uses |-> uses, allowed |-> Allows(uses), asked |-> asked, fetched |-> moment,
   expires |-> moment + Cached(found.age)]

Save(c) ==
  /\ At(c, "save")
  /\ \/ /\ row' = Written(call[c].found, call[c].asked, call[c].since)
        /\ call' = [call EXCEPT ![c] = [Idle EXCEPT !.at = "reload", !.may = call[c].may,
                                           !.to = call[c].to]]
     \/ Refuse(c) /\ UNCHANGED row
  /\ UNCHANGED <<World, contacted>>

Reload(c) ==
  /\ At(c, "reload")
  /\ (Accept(c, row) \/ Refuse(c))
  /\ UNCHANGED <<World, row, contacted>>

Done(c) ==
  /\ At(c, "given")
  /\ Refuse(c)
  /\ UNCHANGED <<World, row, contacted>>

-----------------------------------------------------------------------------
Change == changes < MaxChanges /\ changes' = changes + 1

(* Publish and Redirect are the people who run the client's host.            *)
Publish(new) ==
  /\ Change /\ new # document
  /\ document' = new
  /\ named' = [a \in Address |->
                 IF document # Never /\ a \in document.uses THEN clock ELSE named[a]]
  /\ UNCHANGED <<clock, host, policy, row, call, contacted>>

Redirect(answer) ==
  /\ Change /\ answer # host
  /\ host' = answer
  /\ UNCHANGED <<clock, document, named, policy, row, call, contacted>>

(* The rules are read from the environment at the start of the process, and  *)
(* client_policy opens CIMD only where registration is open.                 *)
Restart(rules) ==
  /\ Change /\ policy' = rules
  /\ call' = [c \in Caller |-> Idle]
  /\ UNCHANGED <<clock, document, named, host, row, contacted>>

Tick ==
  /\ clock < MaxClock /\ clock' = clock + 1
  /\ UNCHANGED <<document, named, host, policy, row, call, changes, contacted>>

Next ==
  \/ \E c \in Caller : \/ Begin(c) \/ Load(c) \/ Lookup(c) \/ Fetch(c)
                       \/ Validate(c) \/ Save(c) \/ Reload(c) \/ Done(c)
  \/ \E new \in Offers \cup {Never} : Publish(new)
  \/ \E answer \in {"public", "inside", "none"} : Redirect(answer)
  \/ \E rules \in Rules : Restart(rules)
  \/ Tick

Spec == Init /\ [][Next]_vars

-----------------------------------------------------------------------------
(* The document names the address now, or stopped naming it since.           *)
NamedSince(a, moment) == (document # Never /\ a \in document.uses) \/ named[a] >= moment

(* An address a request may be sent to stood in the document when a server   *)
(* gave it out, and that answer was complete less than one lifetime before,  *)
(* whatever lifetime it asked for; only a request that has fetched for       *)
(* itself takes the row it finds after its write, its own or another's,      *)
(* however long the write took.  So an address the document has stopped      *)
(* naming is accepted for one lifetime from the moment at which the last     *)
(* answer from before has arrived.  The lookups of the token endpoint, which *)
(* send nobody anywhere, are the exception the code makes.                   *)
StaleAddressIsRefused ==
  \A c \in Caller : At(c, "given") /\ call[c].may =>
    LET r == call[c].from IN
    /\ \A a \in r.uses : NamedSince(a, r.asked)
    /\ \/ call[c].when - r.fetched < CACHE_MAX
       \/ call[c].to = "public"

(* No connection is ever made to an address inside, also when the name is   *)
(* pointed elsewhere between the check and the connection.                  *)
StaysOutside == contacted \subseteq {"public"}

DocumentsAreBounded == StaleAddressIsRefused /\ StaysOutside
=====================================================================================
