--------------------------------- MODULE KeySet ---------------------------------
(***************************************************************************)
(* The key set of one issuer: fetched when a call needs it, cached,        *)
(* refetched for an unknown key id, forgotten by a revocation.  Calls run  *)
(* before any authentication, so what they may cost is bounded: one fetch  *)
(* at a time, a pause after a failure and a pause between two reloads for  *)
(* unknown key ids.  A call is atomic between two awaits.                  *)
(***************************************************************************)
EXTENDS Integers

CONSTANTS
  Request,       \* calls in flight
  Kid,           \* key ids the issuer signs with at some time
  Invented,      \* a key id it never had
  JWKS_CACHE_SECONDS, JWKS_KID_COOLDOWN_SECONDS, JWKS_FAILURE_RETRY_SECONDS,
  MaxClock,      \* bound of the clock
  None

VARIABLES
  clock,
  served,        \* the issuer: the keys it publishes
  withdrawn,     \* the issuer: when a key was taken down
  keys,          \* KeySet._keys: the cached keys and fetched_at
  brakes,        \* _miss_refresh_at and _failed_refresh_at
  lock,          \* the call inside the lock
  waiting,       \* calls queued for it, and whether _fetches has moved since they came
  fetch,         \* the fetch in flight: its branch and the moment of its attempt
  begun          \* history: when the last fetch of a branch began, unless forgiven

issuer == <<served, withdrawn>>
keyset == <<keys, brakes, lock, waiting, fetch, begun>>

KeySetAssumption ==
  /\ Invented \notin Kid /\ None \notin Request
  /\ {JWKS_CACHE_SECONDS, JWKS_KID_COOLDOWN_SECONDS, JWKS_FAILURE_RETRY_SECONDS, MaxClock} \subseteq Nat
  /\ JWKS_FAILURE_RETRY_SECONDS <= JWKS_CACHE_SECONDS

Never == -1
Branch == {"expiry", "miss"}
NoFetch == [branch |-> None, at |-> Never, keys |-> {}]
NoKeys == [known |-> {}, at |-> Never]

KeySetTypeOK ==
  /\ clock \in 0..MaxClock
  /\ served \subseteq Kid /\ withdrawn \in [Kid -> 0..MaxClock \cup {Never}]
  /\ keys.known \subseteq Kid /\ keys.at \in 0..MaxClock \cup {Never}
  /\ brakes \in [{"miss", "failed"} -> 0..MaxClock \cup {Never}]
  /\ lock \in Request \cup {None}
  /\ waiting \in [Request -> {"no", "alone", "seen"}]
  /\ fetch.at \in 0..MaxClock \cup {Never} /\ fetch.keys \subseteq Kid
  /\ (fetch # NoFetch) <=> (lock # None)
  /\ lock # None => waiting[lock] = "no"

KeySetInit ==
  /\ clock = 0
  /\ served \in {S \in SUBSET Kid : S # {}} /\ withdrawn = [k \in Kid |-> Never]
  /\ keys = NoKeys /\ brakes = [b \in {"miss", "failed"} |-> Never]
  /\ lock = None /\ waiting = [r \in Request |-> "no"]
  /\ fetch = NoFetch /\ begun = [b \in Branch |-> Never]

Rotate(k) ==
  /\ k \in served /\ served' = served \ {k}
  /\ withdrawn' = [withdrawn EXCEPT ![k] = clock]
  /\ UNCHANGED <<clock, keyset>>

Recent(at, window) == at # Never /\ clock - at < window
Stale == ~Recent(keys.at, JWKS_CACHE_SECONDS)
Cooling == Recent(brakes["miss"], JWKS_KID_COOLDOWN_SECONDS)
Braked == Recent(brakes["failed"], JWKS_FAILURE_RETRY_SECONDS)

-----------------------------------------------------------------------------
(* key(): what a call meets without the lock, and what it meets behind it *)

Answered(k) == ~Stale /\ k \in keys.known
RefusedAtOnce(k) == IF Stale THEN Braked ELSE k \notin keys.known /\ Cooling

Queue(r, k) ==
  /\ ~Answered(k) /\ ~RefusedAtOnce(k)
  /\ waiting' = [waiting EXCEPT ![r] = "alone"]
  /\ UNCHANGED <<keys, brakes, lock, fetch, begun>>

Entered(r) == lock = None /\ waiting[r] # "no"
RefusedBehind(r, k) == IF Stale THEN waiting[r] = "seen" \/ Braked ELSE k \notin keys.known /\ Cooling

(* the conditions are checked again behind the lock: the outcome is shared *)
ShareOutcome(r, k) ==
  /\ Entered(r) /\ (Answered(k) \/ RefusedBehind(r, k))
  /\ waiting' = [waiting EXCEPT ![r] = "no"]
  /\ UNCHANGED <<keys, brakes, lock, fetch, begun>>

(* _attempt begins: the moment is read here, and a miss is stamped with it *)
StartFetch(r, k) ==
  LET branch == IF Stale THEN "expiry" ELSE "miss" IN
  /\ Entered(r) /\ ~Answered(k) /\ ~RefusedBehind(r, k)
  /\ lock' = r /\ waiting' = [waiting EXCEPT ![r] = "no"]
  /\ fetch' = [branch |-> branch, at |-> clock, keys |-> {}]
  /\ begun' = [begun EXCEPT ![branch] = clock]
  /\ brakes' = IF branch = "miss" THEN [brakes EXCEPT !["miss"] = clock] ELSE brakes
  /\ UNCHANGED keys

(* fetch_json is awaited: the issuer answers with what it publishes now, and  *)
(* the answer is on its way for as long as it takes                          *)
AnswerFetch ==
  /\ lock # None /\ fetch.keys = {}
  /\ fetch' = [fetch EXCEPT !.keys = served]
  /\ UNCHANGED <<keys, brakes, lock, waiting, begun>>

(* _attempt ends; the count moves for everybody who waited *)
EndFetch(r, ok) ==
  /\ lock = r
  /\ lock' = None /\ fetch' = NoFetch
  /\ waiting' = [q \in Request |-> IF waiting[q] = "alone" THEN "seen" ELSE waiting[q]]
  /\ IF ok /\ fetch.keys # {}
     THEN keys' = [known |-> fetch.keys, at |-> fetch.at] /\ UNCHANGED <<brakes, begun>>
     ELSE /\ UNCHANGED keys
          /\ brakes' = [brakes EXCEPT !["failed"] = fetch.at]
          /\ begun' = [begun EXCEPT ![fetch.branch] = fetch.at]

(* forget(): the keys go, and both brakes stay where a reset would take them back *)
FreshBrakes == [b \in {"miss", "failed"} |-> Never]
StandingBrakes == brakes

Forget ==
  /\ keys' = NoKeys /\ brakes' = StandingBrakes
  /\ begun' = IF begun["expiry"] = brakes["failed"] THEN begun ELSE [begun EXCEPT !["expiry"] = Never]
  /\ UNCHANGED <<lock, waiting, fetch>>

-----------------------------------------------------------------------------
(* However many calls arrive, wait, fail and are revoked: one fetch at a    *)
(* time, and two fetches of one kind begin a pause apart.  Only a           *)
(* revocation after a fetch that succeeded lets the next one begin at once. *)
BeginsAfterAPause ==
  lock' # lock /\ lock' # None =>
    /\ lock = None
    /\ LET b == fetch'.branch
           pause == IF b = "miss" THEN JWKS_KID_COOLDOWN_SECONDS ELSE JWKS_FAILURE_RETRY_SECONDS
       IN begun[b] # Never => clock - begun[b] >= pause
FetchesAreSpaced == [][BeginsAfterAPause]_<<clock, issuer, keyset>>
=============================================================================
