--------------------------- MODULE ExchangeCallProofs ---------------------------
(* Nothing withdrawn is accepted on the exchange path, and its fetches keep    *)
(* their pauses, for any number of calls, keys and accounts and any lifetimes. *)
EXTENDS ExchangeCall, Sequences, NaturalsInduction, WellFoundedInduction, TLAPS

(* The rules a token is held against in operation and in the dry run: their own *)
(* variables beside the clock, and bounds of their own.                         *)
CONSTANTS Tokens, Envs, LEEWAY, MAX_LIFETIME, Seconds
VARIABLES env, conf, presented, answered, known, op, dry, accepted

CK == INSTANCE TokenChecks WITH token <- presented, served <- answered, MaxClock <- Seconds

(* Why a withdrawn key passes for one lifetime at most: what the cache knows   *)
(* was still published when the fetch that brought it began, and the fetch is  *)
(* what the cache is stamped with.  Why a removed account does not outlive the *)
(* list for long: the attempt is stamped before the answer is written, and     *)
(* nobody renews it while the list is fresh.  Why the pauses                   *)
(* hold: a fetch is under way, or its moment stands in the cache or in the     *)
(* stamp of a failure, where the next call meets it.                           *)
Times == 0..MaxClock
Moments == Times \cup {Never}

ClockInv ==
  /\ clock \in Times
  /\ withdrawn \in [Kid -> Moments] /\ vanished \in [Account -> Moments]
  /\ keys.at \in Moments
  /\ fetch \in [branch: Branch \cup {None}, at: Moments, keys: SUBSET Kid]
  /\ list \in [names: SUBSET Account, at: Moments, failed: Moments]
  /\ listing \in [by: Request \cup {None}, names: SUBSET Account]
  /\ brakes \in [{"miss", "failed"} -> Moments]
  /\ begun \in [Branch -> Moments]
  /\ keys.at <= clock /\ list.at <= clock /\ list.failed <= clock /\ fetch.at <= clock
  /\ brakes["miss"] <= clock /\ brakes["failed"] <= clock
  /\ begun["miss"] <= clock /\ begun["expiry"] <= clock

KeysInv ==
  /\ served \subseteq Kid /\ keys.known \subseteq Kid
  /\ \A k \in served : withdrawn[k] = Never
  /\ \A k \in keys.known : withdrawn[k] # Never => withdrawn[k] >= keys.at
  /\ \A k \in fetch.keys : withdrawn[k] # Never => withdrawn[k] >= fetch.at

AccountsInv ==
  /\ existing \subseteq Account
  /\ \A a \in existing : vanished[a] = Never
  /\ \A a \in listing.names : vanished[a] # Never => vanished[a] >= list.failed
  /\ list.failed <= list.at =>
       \A a \in list.names : vanished[a] # Never => vanished[a] >= list.failed
  /\ FreshList => list.failed <= list.at

PlacesInv ==
  /\ pc \in [Request -> Step] /\ token \in [Request -> Token \cup {None}]
  /\ lock \in Request \cup {None}
  /\ \A r \in Request : /\ pc[r] \notin {"idle"} => token[r] \in Token
                        /\ pc[r] \in {"accounts", "listing"} => source = "appapi"

PauseInv ==
  /\ brakes["miss"] = begun["miss"]
  /\ lock # None => /\ fetch.branch \in Branch
                    /\ fetch.at # Never
                    /\ begun["miss"] <= fetch.at /\ begun["expiry"] <= fetch.at
                    /\ fetch.branch = "miss" => begun["miss"] = fetch.at
  /\ begun["expiry"] # Never =>
       \/ lock # None /\ fetch.branch = "expiry"
       \/ keys.at >= begun["expiry"]
       \/ brakes["failed"] >= begun["expiry"]

Inv == ClockInv /\ KeysInv /\ AccountsInv /\ PlacesInv /\ PauseInv

(* What the steps of a call leave alone that only change where it stands        *)
Quiet == UNCHANGED <<clock, issuer, keyset, accounts, cached>>

(* A step that only moves its call leaves every call at a known place            *)
LEMMA QuietSteps ==
  ASSUME ExchangeCallAssumption, PlacesInv, NEW r \in Request, Quiet,
         \/ AskStore(r) \/ ReadBinding(r) \/ ReadList(r) \/ Finish(r)
         \/ \E ok \in BOOLEAN : ReadPassword(r, ok) \/ Switch(r, ok)
  PROVE  PlacesInv'
<1> USE DEF PlacesInv, Quiet, issuer, keyset, accounts, cached, At, To, Refuse, Step
<1>1. CASE AskStore(r) \/ Finish(r)
  BY <1>1 DEF AskStore, Finish
<1>2. CASE ReadBinding(r)
  BY <1>2 DEF ReadBinding
<1>3. CASE ReadList(r)
  BY <1>3 DEF ReadList, Known
<1>4. ASSUME NEW ok \in BOOLEAN, ReadPassword(r, ok) \/ Switch(r, ok)
      PROVE  PlacesInv'
  BY <1>4 DEF ReadPassword, Switch
<1> QED BY <1>1, <1>2, <1>3, <1>4

(* Where key set, accounts and caches stand still, what is known of them does    *)
LEMMA StandingStill ==
  ASSUME UNCHANGED <<clock, issuer, keyset, accounts, cached>>
  PROVE  /\ ClockInv => ClockInv'
         /\ KeysInv => KeysInv'
         /\ AccountsInv => AccountsInv'
         /\ PauseInv => PauseInv'
BY DEF ClockInv, KeysInv, AccountsInv, PauseInv, FreshList, Recent, issuer, keyset, accounts, cached

(* What happens around the calls: nobody's own step moves                        *)
Around ==
  \/ Tick \/ RotateKey \/ Invalidate \/ IssuerAnswers \/ AnswerList
  \/ \E a \in Account : Vanish(a) \/ FlipSwitch(a)

(* The invariant holds of a process that has fetched nothing                     *)
LEMMA Initially == ExchangeCallAssumption /\ Init => Inv
<1> SUFFICES ASSUME ExchangeCallAssumption, Init PROVE Inv
  OBVIOUS
<1> USE DEF Init, KeySetInit, ExchangeCallAssumption, KeySetAssumption, Never, NoKeys, NoFetch, NoList,
            NoListing, FreshList, Recent, Times, Moments, Branch
<1>1. ClockInv  BY DEF ClockInv
<1>2. KeysInv  BY DEF KeysInv
<1>3. AccountsInv  BY DEF AccountsInv
<1>4. PlacesInv  BY DEF PlacesInv, Step
<1>5. PauseInv  BY DEF PauseInv
<1> QED BY <1>1, <1>2, <1>3, <1>4, <1>5 DEF Inv

(* Rotation, revocation, a removed account, the switch and time keep it         *)
LEMMA AroundTheCalls ==
  ASSUME ExchangeCallAssumption, Inv,
         Around
  PROVE  Inv'
<1> USE DEF ExchangeCallAssumption, KeySetAssumption, Inv, issuer, keyset, accounts, cached, calls, Never, Times, Moments,
            FreshList, Recent
<1>1. CASE Tick
  <2> USE <1>1 DEF Tick
  <2>1. MaxClock \in Nat  OBVIOUS
  <2>2. clock' \in Times /\ clock' >= clock  BY <2>1 DEF ClockInv
  <2>3. ClockInv'
    <3>1. /\ withdrawn' \in [Kid -> Moments] /\ vanished' \in [Account -> Moments]
          /\ keys'.at \in Moments
          /\ fetch' \in [branch: Branch \cup {None}, at: Moments, keys: SUBSET Kid]
          /\ listing' \in [by: Request \cup {None}, names: SUBSET Account]
          /\ list' \in [names: SUBSET Account, at: Moments, failed: Moments]
          /\ brakes' \in [{"miss", "failed"} -> Moments]
          /\ begun' \in [Branch -> Moments]
      BY DEF ClockInv
    <3>2. /\ keys.at <= clock' /\ list.at <= clock' /\ list.failed <= clock' /\ fetch.at <= clock'
      BY <2>1, <2>2 DEF ClockInv
    <3>3. /\ brakes["miss"] <= clock' /\ brakes["failed"] <= clock'
      BY <2>1, <2>2 DEF ClockInv
    <3>4. /\ begun["miss"] <= clock' /\ begun["expiry"] <= clock'
      BY <2>1, <2>2 DEF ClockInv, Branch
    <3> QED BY <2>2, <3>1, <3>2, <3>3, <3>4 DEF ClockInv
  <2>4. KeysInv' /\ PlacesInv'  BY DEF KeysInv, PlacesInv
  <2>5. PauseInv'  BY DEF PauseInv
  <2>6. AccountsInv'
    <3>1. clock \in Int /\ clock' \in Int /\ list.at \in Int
      BY <2>1, <2>2 DEF ClockInv
    <3>2. FreshList' => FreshList  BY <2>1, <2>2, <3>1 DEF FreshList, Recent
    <3> QED BY <3>2 DEF AccountsInv
  <2> QED BY <2>3, <2>4, <2>5, <2>6
<1>2. CASE RotateKey
  <2> USE DEF RotateKey, Rotate
  <2>1. PICK k \in Kid : Rotate(k)  BY <1>2
  <2>2. ClockInv'  BY <1>2, <2>1 DEF ClockInv
  <2>3. KeysInv'  BY <1>2, <2>1 DEF KeysInv, ClockInv
  <2>4. AccountsInv' /\ PlacesInv' /\ PauseInv'  BY <1>2, <2>1 DEF AccountsInv, PlacesInv, PauseInv
  <2> QED BY <2>2, <2>3, <2>4
<1>3. CASE Invalidate
  <2> USE <1>3 DEF Invalidate, Forget, StandingBrakes, NoKeys
  <2>1. ClockInv'  BY DEF ClockInv, Branch
  <2>2. KeysInv' /\ AccountsInv' /\ PlacesInv'  BY DEF KeysInv, AccountsInv, PlacesInv
  <2>3. PauseInv'  BY DEF PauseInv, ClockInv, Branch
  <2> QED BY <2>1, <2>2, <2>3
<1>4. ASSUME NEW a \in Account, Vanish(a)
      PROVE  Inv'
  <2> USE <1>4 DEF Vanish
  <2>1. ClockInv'  BY DEF ClockInv
  <2>2. AccountsInv'  BY DEF AccountsInv, ClockInv
  <2>3. KeysInv' /\ PlacesInv' /\ PauseInv'  BY DEF KeysInv, PlacesInv, PauseInv
  <2> QED BY <2>1, <2>2, <2>3
<1>5. ASSUME NEW a \in Account, FlipSwitch(a)
      PROVE  Inv'
  BY <1>5 DEF FlipSwitch, ClockInv, KeysInv, AccountsInv, PlacesInv, PauseInv
<1>6. CASE IssuerAnswers
  <2> USE <1>6 DEF IssuerAnswers, AnswerFetch
  <2>1. /\ fetch' \in [branch: Branch \cup {None}, at: Moments, keys: SUBSET Kid]
        /\ fetch'.at = fetch.at /\ fetch'.branch = fetch.branch /\ fetch'.keys = served
    BY DEF ClockInv, KeysInv
  <2>2. UNCHANGED <<clock, issuer, keys, brakes, lock, waiting, begun, accounts, cached, calls>>
    OBVIOUS
  <2> HIDE <1>6 DEF AnswerFetch
  <2>3. ClockInv'  BY <2>1, <2>2 DEF ClockInv
  <2>4. KeysInv'  BY <2>1, <2>2 DEF KeysInv
  <2>5. AccountsInv' /\ PlacesInv' /\ PauseInv'
    BY <2>1, <2>2 DEF AccountsInv, PlacesInv, PauseInv
  <2> QED BY <2>3, <2>4, <2>5
<1>7. CASE AnswerList
  <2> USE <1>7 DEF AnswerList
  <2>1. listing' \in [by: Request \cup {None}, names: SUBSET Account] /\ listing'.names = existing
    BY DEF ClockInv, AccountsInv
  <2>2. UNCHANGED <<clock, issuer, keyset, accounts, list, calls>>
    OBVIOUS
  <2> HIDE <1>7 DEF AnswerList
  <2>3. ClockInv'  BY <2>1, <2>2 DEF ClockInv
  <2>4. AccountsInv'  BY <2>1, <2>2 DEF AccountsInv
  <2>5. KeysInv' /\ PlacesInv' /\ PauseInv'  BY <2>2 DEF KeysInv, PlacesInv, PauseInv
  <2> QED BY <2>3, <2>4, <2>5
<1> QED BY <1>1, <1>2, <1>3, <1>4, <1>5, <1>6, <1>7 DEF Around

(* A call that asks the key set, waits, fetches or shares a fetch keeps it      *)
LEMMA TheKeySet ==
  ASSUME ExchangeCallAssumption, Inv, NEW r \in Request,
         \/ \E t \in Token : VerifyToken(r, t)
         \/ Share(r) \/ Fetch(r) \/ \E ok \in BOOLEAN : Fetched(r, ok)
  PROVE  Inv'
<1> USE DEF ExchangeCallAssumption, KeySetAssumption, Inv, issuer, keyset, accounts, cached, At, To, Refuse,
            Never, Times, Moments
<1>1. ASSUME NEW t \in Token, VerifyToken(r, t)
      PROVE  Inv'
  <2> USE <1>1 DEF VerifyToken, Queue
  <2>1. UNCHANGED <<clock, served, withdrawn, keys, brakes, lock, fetch, begun, accounts, cached>>
    OBVIOUS
  <2>2. PlacesInv'  BY DEF PlacesInv, Step
  <2>3. ClockInv' /\ KeysInv' /\ AccountsInv' /\ PauseInv'
    BY <2>1 DEF ClockInv, KeysInv, AccountsInv, PauseInv, FreshList, Recent
  <2> QED BY <2>2, <2>3
<1>2. CASE Share(r)
  <2> USE <1>2 DEF Share, ShareOutcome
  <2>1. UNCHANGED <<clock, served, withdrawn, keys, brakes, lock, fetch, begun, accounts, cached>>
    OBVIOUS
  <2>2. PlacesInv'  BY DEF PlacesInv, Step, Judge
  <2>3. ClockInv' /\ KeysInv' /\ AccountsInv' /\ PauseInv'
    BY <2>1 DEF ClockInv, KeysInv, AccountsInv, PauseInv, FreshList, Recent
  <2> QED BY <2>2, <2>3
<1>3. CASE Fetch(r)
  <2> USE <1>3 DEF Fetch, StartFetch, Branch
  <2>1. ClockInv'  BY DEF ClockInv
  <2>2. KeysInv' /\ AccountsInv'  BY DEF KeysInv, AccountsInv, FreshList, Recent
  <2>3. PlacesInv'  BY DEF PlacesInv, Step
  <2>4. PauseInv'  BY DEF PauseInv, ClockInv, Entered
  <2> QED BY <2>1, <2>2, <2>3, <2>4
<1>4. ASSUME NEW ok \in BOOLEAN, Fetched(r, ok)
      PROVE  Inv'
  <2> USE <1>4 DEF Fetched, EndFetch, Branch
  <2>1. lock = r /\ lock # None  OBVIOUS
  <2>2. ClockInv'  BY <2>1 DEF ClockInv, NoFetch, PauseInv
  <2>3. KeysInv' /\ AccountsInv'  BY DEF KeysInv, AccountsInv, ClockInv, NoFetch, FreshList, Recent
  <2>4. PlacesInv'  BY DEF PlacesInv, Step, Judge, RefuseAfterFailure
  <2>5. PauseInv'  BY <2>1 DEF PauseInv, ClockInv
  <2> QED BY <2>2, <2>3, <2>4, <2>5
<1> QED BY <1>1, <1>2, <1>3, <1>4

(* A call that waits for the list of accounts or reads it keeps it              *)
LEMMA TheList ==
  ASSUME ExchangeCallAssumption, Inv, NEW r \in Request,
         EnterList(r) \/ \E ok \in BOOLEAN : Listed(r, ok)
  PROVE  Inv'
<1> USE DEF ExchangeCallAssumption, KeySetAssumption, Inv, issuer, keyset, accounts, cached, At, To, Refuse,
            Known, Never, Times, Moments
<1>0. MaxClock \in Nat /\ ACCOUNT_CACHE_TTL \in Nat \ {0}
  OBVIOUS
<1>1. CASE EnterList(r)
  <2> USE <1>1 DEF EnterList
  <2>1. UNCHANGED <<clock, issuer, keyset, accounts>>
    OBVIOUS
  <2>2. \/ UNCHANGED cached
        \/ /\ ~FreshList /\ list' \in [names: SUBSET Account, at: Moments, failed: Moments]
           /\ list'.names = list.names /\ list'.at = list.at /\ list'.failed = clock
           /\ listing' = [by |-> r, names |-> {}]
    BY DEF ClockInv
  <2>3. PlacesInv'  BY DEF PlacesInv, Step
  <2> HIDE <1>1 DEF EnterList
  <2>4. ClockInv' /\ KeysInv' /\ PauseInv'  BY <2>1, <2>2 DEF ClockInv, KeysInv, PauseInv
  <2>5. AccountsInv'
    <3>1. CASE UNCHANGED cached
      BY <2>1, <3>1 DEF AccountsInv, FreshList, Recent
    <3>2. CASE ~UNCHANGED cached
      <4>1. clock \in Nat /\ list.at \in Int  BY <1>0 DEF ClockInv
      <4>2. list.at < clock  BY <1>0, <2>2, <3>2, <4>1 DEF FreshList, Recent
      <4>3. ~(list'.failed <= list'.at)  BY <2>2, <3>2, <4>1, <4>2
      <4>4. ~FreshList'  BY <2>1, <2>2, <3>2 DEF FreshList, Recent
      <4> QED BY <2>1, <2>2, <3>2, <4>3, <4>4 DEF AccountsInv
    <3> QED BY <3>1, <3>2
  <2> QED BY <2>3, <2>4, <2>5
<1>2. ASSUME NEW ok \in BOOLEAN, Listed(r, ok)
      PROVE  Inv'
  <2> USE <1>2 DEF Listed, WithoutList
  <2>0. /\ list' \in [names: SUBSET Account, at: Moments, failed: Moments]
        /\ \/ /\ list'.names = listing.names /\ list'.at = clock /\ list'.failed = list.failed
           \/ list' = list
    BY ZenonT(60) DEF ClockInv, AccountsInv
  <2>1. listing' \in [by: Request \cup {None}, names: SUBSET Account] /\ listing'.names = {}
    BY DEF NoListing
  <2>2. UNCHANGED <<clock, issuer, keyset, accounts>>
    OBVIOUS
  <2>3. PlacesInv'  BY DEF PlacesInv, Step
  <2> HIDE <1>2 DEF Listed
  <2>4. ClockInv'  BY <2>0, <2>1, <2>2 DEF ClockInv
  <2>5. KeysInv' /\ PauseInv'  BY <2>2 DEF KeysInv, PauseInv
  <2>6. AccountsInv'
    <3>1. CASE list' = list
      BY <2>1, <2>2, <3>1 DEF AccountsInv, FreshList, Recent
    <3>2. CASE list'.names = listing.names /\ list'.at = clock /\ list'.failed = list.failed
      BY <2>1, <2>2, <3>2 DEF AccountsInv, ClockInv
    <3> QED BY <2>0, <3>1, <3>2
  <2> QED BY <2>3, <2>4, <2>5, <2>6
<1> QED BY <1>1, <1>2

(* No step of any call and nothing around the calls breaks the invariant         *)
LEMMA EveryStep == ExchangeCallAssumption /\ Inv /\ [Next]_vars => Inv'
<1> SUFFICES ASSUME ExchangeCallAssumption, Inv, [Next]_vars PROVE Inv'
  OBVIOUS
<1>1. CASE UNCHANGED vars
  BY <1>1, StandingStill DEF Inv, PlacesInv, vars, issuer, keyset, accounts, cached, calls
<1>2. CASE Around
  BY <1>2, AroundTheCalls
<1>3. ASSUME NEW r \in Request,
             \/ \E t \in Token : VerifyToken(r, t)
             \/ Share(r) \/ Fetch(r) \/ \E ok \in BOOLEAN : Fetched(r, ok)
      PROVE  Inv'
  BY <1>3, TheKeySet
<1>4. ASSUME NEW r \in Request, EnterList(r) \/ \E ok \in BOOLEAN : Listed(r, ok)
      PROVE  Inv'
  BY <1>4, TheList
<1>5. ASSUME NEW r \in Request,
             \/ AskStore(r) \/ ReadBinding(r) \/ ReadList(r) \/ Finish(r)
             \/ \E ok \in BOOLEAN : ReadPassword(r, ok) \/ Switch(r, ok)
      PROVE  Inv'
  <2>1. Quiet
    BY <1>5 DEF AskStore, ReadBinding, ReadList, Finish, ReadPassword, Switch, Quiet
  <2>2. PlacesInv'  BY <1>5, <2>1, QuietSteps DEF Inv
  <2>3. QED BY <2>1, <2>2, StandingStill DEF Inv, Quiet
<1> QED BY <1>1, <1>2, <1>3, <1>4, <1>5 DEF Next, Around

-----------------------------------------------------------------------------
(* What answers out of the cache was still published less than one lifetime ago  *)
LEMMA JudgedByAnAnswer ==
  ASSUME ExchangeCallAssumption, Inv, NEW k \in Kid, Answered(k)
  PROVE  withdrawn[k] # Never => clock - withdrawn[k] < JWKS_CACHE_SECONDS
<1> USE DEF ExchangeCallAssumption, KeySetAssumption
<1>1. k \in keys.known /\ clock - keys.at < JWKS_CACHE_SECONDS
  BY DEF Answered, Stale, Recent
<1>2. withdrawn[k] # Never => withdrawn[k] >= keys.at
  BY <1>1 DEF Inv, KeysInv
<1>3. clock \in Int /\ keys.at \in Int /\ withdrawn[k] \in Int
  BY DEF Inv, ClockInv, Moments, Times, Never
<1> QED BY <1>1, <1>2, <1>3

(* A call reaches its identity by a verdict alone, with the keys of an answer or
   of the fetch that just ended                                                  *)
LEMMA OnlyLivingKeysPass ==
  ExchangeCallAssumption /\ Inv /\ [Next]_vars => [PassesUnderALivingKey]_vars
<1> SUFFICES ASSUME ExchangeCallAssumption, Inv, Next, NEW r \in Request, Reaches(r, "identify")
             PROVE  LET gone == withdrawn[token'[r].kid] IN
                    gone # Never => \/ clock - gone < JWKS_CACHE_SECONDS
                                    \/ lock = r /\ gone >= fetch.at
  BY DEF PassesUnderALivingKey
<1> DEFINE Living(k) == withdrawn[k] # Never => \/ clock - withdrawn[k] < JWKS_CACHE_SECONDS
                                                \/ lock = r /\ withdrawn[k] >= fetch.at
<1> USE DEF Reaches, At, To, Refuse
<1>0. pc \in [Request -> Step] /\ token \in [Request -> Token \cup {None}]
  BY DEF Inv, PlacesInv
<1>1. \A t \in Token : t.genuine => t.kid \in Kid
  BY DEF ExchangeCallAssumption
<1>2. ASSUME NEW q \in Request, NEW t \in Token, VerifyToken(q, t)
      PROVE  Living(token'[r].kid)
  <2>1. q = r /\ token'[r] = t /\ Answered(t.kid) /\ t.genuine
    BY <1>0, <1>2 DEF VerifyToken
  <2> QED BY <1>1, <2>1, JudgedByAnAnswer
<1>3. ASSUME NEW q \in Request, Share(q)
      PROVE  Living(token'[r].kid)
  <2>1. /\ q = r /\ token' = token /\ Answered(token[r].kid) /\ token[r].genuine
    BY <1>0, <1>3 DEF Share, Judge
  <2>2. token[r] \in Token
    BY <1>0, <1>3, <2>1 DEF Share, Inv, PlacesInv
  <2> QED BY <1>1, <2>1, <2>2, JudgedByAnAnswer
<1>4. ASSUME NEW q \in Request, NEW ok \in BOOLEAN, Fetched(q, ok)
      PROVE  Living(token'[r].kid)
  <2>1. q = r /\ token' = token /\ token[r].kid \in fetch.keys /\ lock = r
    BY <1>0, <1>4 DEF Fetched, EndFetch, Judge, RefuseAfterFailure
  <2> QED BY <2>1 DEF Inv, KeysInv
<1>5. ASSUME NEW q \in Request,
             \/ AskStore(q) \/ Fetch(q) \/ ReadBinding(q) \/ ReadList(q) \/ EnterList(q) \/ Finish(q)
             \/ \E ok \in BOOLEAN : ReadPassword(q, ok) \/ Listed(q, ok) \/ Switch(q, ok)
      PROVE  FALSE
  BY <1>0, <1>5 DEF AskStore, Fetch, ReadBinding, ReadList, EnterList, Finish, ReadPassword, Listed,
                    Switch, Known, WithoutList
<1>6. ASSUME Around
      PROVE  FALSE
  BY <1>6 DEF Around, Tick, RotateKey, Invalidate, IssuerAnswers, AnswerList, Vanish, FlipSwitch, calls
<1> QED BY <1>2, <1>3, <1>4, <1>5, <1>6 DEF Next, Around

(* Who stands on a fresh list was there when the list was asked for              *)
LEMMA NamedByTheList ==
  ASSUME ExchangeCallAssumption, Inv, NEW a \in Account, FreshList, a \in list.names
  PROVE  vanished[a] # Never =>
           clock - vanished[a] < ACCOUNT_CACHE_TTL + (list.at - list.failed)
<1> USE DEF ExchangeCallAssumption
<1>1. clock - list.at < ACCOUNT_CACHE_TTL  BY DEF FreshList, Recent
<1>2. vanished[a] # Never => vanished[a] >= list.failed  BY DEF Inv, AccountsInv
<1>3. clock \in Int /\ list.at \in Int /\ list.failed \in Int /\ vanished[a] \in Int
  BY DEF Inv, ClockInv, Moments, Times, Never, KeySetAssumption
<1> QED BY <1>1, <1>2, <1>3

(* A call reaches the pause switch by its account source alone                   *)
LEMMA OnlyLivingAccountsPass ==
  ExchangeCallAssumption /\ Inv /\ [Next]_vars => [PassesForALivingAccount]_vars
<1> SUFFICES ASSUME ExchangeCallAssumption, Inv, Next, NEW r \in Request, Reaches(r, "switch")
             PROVE  LET gone == vanished[token[r].account]
                        underway == list'.at - list'.failed
                    IN gone # Never => source = "appapi" /\ clock - gone < ACCOUNT_CACHE_TTL + underway
  BY DEF PassesForALivingAccount
<1> DEFINE Living(a) == vanished[a] # Never =>
               /\ source = "appapi"
               /\ clock - vanished[a] < ACCOUNT_CACHE_TTL + (list'.at - list'.failed)
<1> USE DEF Reaches, At, To, Refuse
<1>0. pc \in [Request -> Step] /\ token \in [Request -> Token \cup {None}]
  BY DEF Inv, PlacesInv
<1>1. pc[r] # "idle" => token[r] \in Token /\ token[r].account \in Account
  BY DEF Inv, PlacesInv, ExchangeCallAssumption
<1>2. ASSUME NEW q \in Request, NEW ok \in BOOLEAN, ReadPassword(q, ok)
      PROVE  Living(token[r].account)
  <2>1. q = r /\ token[r].account \in existing
    BY <1>0, <1>2 DEF ReadPassword
  <2> QED BY <2>1 DEF Inv, AccountsInv
<1>3. ASSUME NEW q \in Request, ReadList(q) \/ EnterList(q)
      PROVE  Living(token[r].account)
  <2>1. q = r /\ FreshList /\ token[r].account \in list.names /\ pc[r] # "idle"
    BY <1>0, <1>3 DEF ReadList, EnterList, Known
  <2>2. source = "appapi"
    BY <1>0, <1>3, <2>1 DEF ReadList, EnterList, Inv, PlacesInv
  <2>3. list' = list
    BY <1>3, <2>1 DEF ReadList, EnterList, cached
  <2> QED BY <1>1, <2>1, <2>2, <2>3, NamedByTheList
<1>4. ASSUME NEW q \in Request, NEW ok \in BOOLEAN, Listed(q, ok)
      PROVE  Living(token[r].account)
  <2> DEFINE a == token[r].account
  <2>1. /\ q = r /\ pc[r] = "listing" /\ a \in listing.names
        /\ list' = [list EXCEPT !.names = listing.names, !.at = clock]
    BY <1>0, <1>4 DEF Listed, Known, WithoutList
  <2>2. source = "appapi" /\ a \in Account
    BY <1>1, <2>1 DEF Inv, PlacesInv
  <2>3. vanished[a] # Never => vanished[a] >= list.failed
    BY <2>1 DEF Inv, AccountsInv
  <2>4. list'.at = clock /\ list'.failed = list.failed
    BY <2>1 DEF Inv, ClockInv
  <2>5. clock \in Int /\ list.failed \in Int /\ vanished[a] \in Int /\ ACCOUNT_CACHE_TTL \in Nat \ {0}
    BY <2>2 DEF Inv, ClockInv, Moments, Times, Never, KeySetAssumption, ExchangeCallAssumption
  <2> HIDE DEF a
  <2>6. vanished[a] # Never => clock - vanished[a] < ACCOUNT_CACHE_TTL + (clock - list.failed)
    BY <2>3, <2>5
  <2> QED BY <2>2, <2>4, <2>6 DEF a
<1>5. ASSUME NEW q \in Request,
             \/ \E t \in Token : VerifyToken(q, t)
             \/ AskStore(q) \/ Share(q) \/ Fetch(q) \/ ReadBinding(q) \/ Finish(q)
             \/ \E ok \in BOOLEAN : Fetched(q, ok) \/ Switch(q, ok)
      PROVE  FALSE
  BY <1>0, <1>5 DEF VerifyToken, AskStore, Share, Fetch, ReadBinding, Finish, Fetched, Switch, Judge,
                    RefuseAfterFailure
<1>6. ASSUME Around
      PROVE  FALSE
  BY <1>6 DEF Around, Tick, RotateKey, Invalidate, IssuerAnswers, AnswerList, Vanish, FlipSwitch, calls
<1> QED BY <1>2, <1>3, <1>4, <1>5, <1>6 DEF Next, Around

(* Only Fetch takes the lock, and its branch says which brake it passed          *)
LEMMA OnlyAfterAPause ==
  ExchangeCallAssumption /\ Inv /\ [Next]_vars => [BeginsAfterAPause]_<<clock, issuer, keyset>>
<1> SUFFICES ASSUME ExchangeCallAssumption, Inv, Next, lock' # lock, lock' # None
             PROVE  BeginsAfterAPause
  BY DEF BeginsAfterAPause, vars, issuer, keyset
<1> USE DEF ExchangeCallAssumption, KeySetAssumption
<1>1. \E r \in Request : Fetch(r)
  BY DEF Next, Tick, IssuerAnswers, AnswerFetch, AnswerList, RotateKey, Rotate, Invalidate, Forget, Vanish, FlipSwitch, VerifyToken, Queue, AskStore,
         Share, ShareOutcome, Fetched, EndFetch, ReadBinding, ReadPassword, ReadList, EnterList,
         Listed, Switch, Finish, issuer, keyset
<1>2. PICK r \in Request : Fetch(r)  BY <1>1
<1>3. StartFetch(r, token[r].kid)  BY <1>2 DEF Fetch
<1>4. lock = None  BY <1>3 DEF StartFetch, Entered
<1>5. /\ clock \in Int /\ keys.at \in Int /\ brakes["miss"] \in Int /\ brakes["failed"] \in Int
      /\ begun["miss"] \in Int /\ begun["expiry"] \in Int
  BY DEF Inv, ClockInv, Moments, Times, Never, Branch
<1>6. CASE Stale
  <2>1. fetch'.branch = "expiry"  BY <1>3, <1>6 DEF StartFetch
  <2>2. ~Braked  BY <1>3, <1>6 DEF StartFetch, RefusedBehind
  <2>3. begun["expiry"] # Never => keys.at >= begun["expiry"] \/ brakes["failed"] >= begun["expiry"]
    BY <1>4 DEF Inv, PauseInv
  <2>4. begun["expiry"] >= Never  BY <1>5 DEF Inv, ClockInv, Moments, Times, Never, Branch
  <2>5. begun["expiry"] # Never => clock - begun["expiry"] >= JWKS_FAILURE_RETRY_SECONDS
    BY <1>5, <1>6, <2>2, <2>3, <2>4 DEF Stale, Braked, Recent, Never
  <2> QED BY <1>4, <2>1, <2>5 DEF BeginsAfterAPause
<1>7. CASE ~Stale
  <2>1. fetch'.branch = "miss"  BY <1>3, <1>7 DEF StartFetch
  <2>2. ~Cooling  BY <1>3, <1>7 DEF StartFetch, RefusedBehind, Answered
  <2>3. brakes["miss"] = begun["miss"]  BY DEF Inv, PauseInv
  <2>4. begun["miss"] # Never => clock - begun["miss"] >= JWKS_KID_COOLDOWN_SECONDS
    BY <1>5, <2>2, <2>3 DEF Cooling, Recent
  <2> QED BY <1>4, <2>1, <2>4 DEF BeginsAfterAPause
<1> QED BY <1>6, <1>7

(* So what a call relies on stands in every state                                *)
LEMMA InvHolds == ASSUME ExchangeCallAssumption PROVE Spec => []Inv
<1>1. Init => Inv  BY Initially
<1>2. Inv /\ [Next]_vars => Inv'  BY EveryStep
<1> QED BY <1>1, <1>2, PTL DEF Spec

-----------------------------------------------------------------------------
(* However the fetches fail, last, overlap a rotation or are forgotten, no      *)
(* token passes under a key that was withdrawn a cache lifetime ago and before  *)
(* the fetch began whose end its call has waited for (KeySet.key).              *)
THEOREM NothingWithdrawnPasses == ASSUME ExchangeCallAssumption PROVE Spec => WithdrawnKeyIsRefused
<1>1. Inv /\ [Next]_vars => [PassesUnderALivingKey]_vars  BY OnlyLivingKeysPass
<1> QED BY <1>1, InvHolds, PTL DEF Spec, WithdrawnKeyIsRefused

(* An account that is gone acts for one lifetime of the account list and the    *)
(* time the list was under way before its stamp, at most (AppApiAccounts), and  *)
(* one whose binding is gone not at all.                                        *)
THEOREM NobodyRemovedActs == ASSUME ExchangeCallAssumption PROVE Spec => RemovedAccountIsRefused
<1>1. Inv /\ [Next]_vars => [PassesForALivingAccount]_vars  BY OnlyLivingAccountsPass
<1> QED BY <1>1, InvHolds, PTL DEF Spec, RemovedAccountIsRefused

(* One fetch at a time, and two of one kind begin their pause apart, however    *)
(* many calls wait for them and whatever is forgotten in between.               *)
THEOREM PausesAreKept == ASSUME ExchangeCallAssumption PROVE Spec => FetchesAreSpaced
<1>1. Inv /\ [Next]_vars => [BeginsAfterAPause]_<<clock, issuer, keyset>>  BY OnlyAfterAPause
<1> QED BY <1>1, InvHolds, PTL DEF Spec, FetchesAreSpaced

-----------------------------------------------------------------------------
(* The dry run beside operation.                                             *)

(* What is wrong with a token at a moment, and the first rule that says so. *)
Broken(t, now) ==
  (t.faults \ {"claims"})
    \cup {s \in {"lifetime"} : t.exp - t.iat > MAX_LIFETIME}
    \cup {s \in {"age"} : now - t.iat > MAX_LIFETIME}
    \cup {s \in {"claims"} :
            "claims" \in t.faults \/ t.exp <= now - LEEWAY \/ t.iat > now + LEEWAY}

FirstIn(rules, broken, n) ==
  /\ n \in 1..Len(rules) + 1
  /\ n <= Len(rules) => rules[n].step \in broken
  /\ \A j \in 1..n - 1 : rules[j].step \notin broken

LEMMA BreaksIs ==
  ASSUME CK!TokenChecksAssumption, presented \in Tokens
  PROVE  \A s : CK!Breaks(s) <=> s \in Broken(presented, clock)
BY DEF CK!TokenChecksAssumption, CK!Breaks, Broken, CK!Lives, CK!Old, CK!Expired, CK!NotYet, CK!Fault

LEMMA FirstOf ==
  ASSUME CK!TokenChecksAssumption, presented \in Tokens, NEW rules, Len(rules) \in Nat
  PROVE  FirstIn(rules, Broken(presented, clock), CK!First(rules))
<1> DEFINE P(i) == /\ i <= Len(rules) => CK!Breaks(rules[i].step)
                   /\ \A j \in 1..i - 1 : ~ CK!Breaks(rules[j].step)
           B == {i \in 1..Len(rules) + 1 : i <= Len(rules) => CK!Breaks(rules[i].step)}
<1>1. PICK i \in B : \A j \in B : i <= j
  <2>1. Len(rules) + 1 \in B
    OBVIOUS
  <2>2. B \subseteq Nat
    OBVIOUS
  <2> HIDE DEF B
  <2>3. PICK i \in B : \A j \in B : ~(<<j, i>> \in OpToRel(<, Nat))
    BY <2>1, <2>2, NatLessThanWellFounded, WFMin
  <2>4. \A j \in B : ~(j < i)
    BY <2>2, <2>3 DEF OpToRel
  <2> QED BY <2>2, <2>4
<1>2. P(i) /\ i \in 1..Len(rules) + 1
  BY <1>1
<1>3. P(CK!First(rules)) /\ CK!First(rules) \in 1..Len(rules) + 1
  BY <1>2 DEF CK!First
<1> QED BY <1>3, BreaksIs DEF FirstIn

(* The rules by their places. *)
LEMMA RulesAre ==
  /\ Len(CK!EarlyRules) = 9 /\ Len(CK!DryEarlySteps) = 10
  /\ Len(CK!LateRules) = 10 /\ Len(CK!DryLateSteps) = 11 /\ CK!Steps = 22
BY DEF CK!EarlyRules, CK!DryEarlySteps, CK!LateRules, CK!DryLateSteps, CK!Steps

LEMMA EarlySteps ==
  /\ CK!EarlyRules[1].step = "empty"
  /\ CK!EarlyRules[2].step = "long"
  /\ CK!EarlyRules[3].step = "not_text"
  /\ CK!EarlyRules[4].step = "header"
  /\ CK!EarlyRules[5].step = "algorithm"
  /\ CK!EarlyRules[6].step = "kid"
  /\ CK!EarlyRules[7].step = "header_typ"
  /\ CK!EarlyRules[8].step = "payload"
  /\ CK!EarlyRules[9].step = "issuer"
BY DEF CK!EarlyRules, CK!Rule

LEMMA EarlyReasons ==
  /\ CK!EarlyRules[1].reason = CK!MALFORMED
  /\ CK!EarlyRules[2].reason = CK!MALFORMED
  /\ CK!EarlyRules[3].reason = CK!MALFORMED
  /\ CK!EarlyRules[4].reason = CK!MALFORMED
  /\ CK!EarlyRules[5].reason = CK!KEY
  /\ CK!EarlyRules[6].reason = CK!KEY
  /\ CK!EarlyRules[7].reason = CK!MALFORMED
  /\ CK!EarlyRules[8].reason = CK!MALFORMED
  /\ CK!EarlyRules[9].reason = CK!ISSUER
BY DEF CK!EarlyRules, CK!Rule

LEMMA DryEarlyStages ==
  /\ CK!DryEarlySteps[1].step = "empty"
  /\ CK!DryEarlySteps[2].step = "long"
  /\ CK!DryEarlySteps[3].step = "not_text"
  /\ CK!DryEarlySteps[4].step = "not_a_jws"
  /\ CK!DryEarlySteps[5].step = "header"
  /\ CK!DryEarlySteps[6].step = "algorithm"
  /\ CK!DryEarlySteps[7].step = "kid"
  /\ CK!DryEarlySteps[8].step = "header_typ"
  /\ CK!DryEarlySteps[9].step = "payload"
  /\ CK!DryEarlySteps[10].step = "issuer"
BY DEF CK!DryEarlySteps, CK!Rule

LEMMA DryEarlyReasons ==
  /\ CK!DryEarlySteps[1].reason = CK!MALFORMED
  /\ CK!DryEarlySteps[2].reason = CK!MALFORMED
  /\ CK!DryEarlySteps[3].reason = CK!MALFORMED
  /\ CK!DryEarlySteps[4].reason = CK!MALFORMED
  /\ CK!DryEarlySteps[5].reason = CK!MALFORMED
  /\ CK!DryEarlySteps[6].reason = CK!KEY
  /\ CK!DryEarlySteps[7].reason = CK!KEY
  /\ CK!DryEarlySteps[8].reason = CK!MALFORMED
  /\ CK!DryEarlySteps[9].reason = CK!MALFORMED
  /\ CK!DryEarlySteps[10].reason = CK!ISSUER
BY DEF CK!DryEarlySteps, CK!Rule

LEMMA LateSteps ==
  /\ CK!LateRules[1].step = "signature"
  /\ CK!LateRules[2].step = "claims"
  /\ CK!LateRules[3].step = "audience"
  /\ CK!LateRules[4].step = "no_azp"
  /\ CK!LateRules[5].step = "azp"
  /\ CK!LateRules[6].step = "typ"
  /\ CK!LateRules[7].step = "times"
  /\ CK!LateRules[8].step = "lifetime"
  /\ CK!LateRules[9].step = "age"
  /\ CK!LateRules[10].step = "subject"
BY DEF CK!LateRules, CK!Rule

LEMMA LateReasons ==
  /\ CK!LateRules[1].reason = CK!KEY
  /\ CK!LateRules[2].reason = CK!CLAIMS
  /\ CK!LateRules[3].reason = CK!CLAIMS
  /\ CK!LateRules[4].reason = CK!CLAIMS
  /\ CK!LateRules[5].reason = CK!CLAIMS
  /\ CK!LateRules[6].reason = CK!CLAIMS
  /\ CK!LateRules[7].reason = CK!CLAIMS
  /\ CK!LateRules[8].reason = CK!CLAIMS
  /\ CK!LateRules[9].reason = CK!CLAIMS
  /\ CK!LateRules[10].reason = CK!CLAIMS
BY DEF CK!LateRules, CK!Rule

LEMMA DryLateStages ==
  /\ CK!DryLateSteps[1].step = "signature"
  /\ CK!DryLateSteps[2].step = "claims"
  /\ CK!DryLateSteps[3].step = "audience"
  /\ CK!DryLateSteps[4].step = "no_azp"
  /\ CK!DryLateSteps[5].step = "azp"
  /\ CK!DryLateSteps[6].step = "typ"
  /\ CK!DryLateSteps[7].step = "times"
  /\ CK!DryLateSteps[8].step = "lifetime"
  /\ CK!DryLateSteps[9].step = "age"
  /\ CK!DryLateSteps[10].step = "subject"
  /\ CK!DryLateSteps[11].step = "principal"
BY DEF CK!DryLateSteps, CK!Rule

LEMMA DryLateReasons ==
  /\ CK!DryLateSteps[1].reason = CK!KEY
  /\ CK!DryLateSteps[2].reason = CK!CLAIMS
  /\ CK!DryLateSteps[3].reason = CK!CLAIMS
  /\ CK!DryLateSteps[4].reason = CK!CLAIMS
  /\ CK!DryLateSteps[5].reason = CK!CLAIMS
  /\ CK!DryLateSteps[6].reason = CK!CLAIMS
  /\ CK!DryLateSteps[7].reason = CK!CLAIMS
  /\ CK!DryLateSteps[8].reason = CK!CLAIMS
  /\ CK!DryLateSteps[9].reason = CK!CLAIMS
  /\ CK!DryLateSteps[10].reason = CK!CLAIMS
  /\ CK!DryLateSteps[11].reason = CK!ACCOUNT
BY DEF CK!DryLateSteps, CK!Rule

LEMMA EarlyKnown ==
  /\ \A i \in 1..9 : CK!EarlyRules[i].step \in CK!Fault \ {"claims"}
  /\ \A i \in 1..9 : CK!EarlyRules[i].reason \in {CK!MALFORMED, CK!KEY, CK!ISSUER}
  /\ \A i \in 1..10 : CK!DryEarlySteps[i].step \in CK!Fault \ {"claims"}
  /\ \A i \in 1..10 : CK!DryEarlySteps[i].reason \in {CK!MALFORMED, CK!KEY, CK!ISSUER}
<1>1. \A i \in 1..9 : CK!EarlyRules[i].step \in CK!Fault \ {"claims"}
  BY EarlySteps DEF CK!Fault
<1>2. \A i \in 1..9 : CK!EarlyRules[i].reason \in {CK!MALFORMED, CK!KEY, CK!ISSUER}
  BY EarlyReasons
<1>3. \A i \in 1..10 : CK!DryEarlySteps[i].step \in CK!Fault \ {"claims"}
  BY DryEarlyStages DEF CK!Fault
<1>4. \A i \in 1..10 : CK!DryEarlySteps[i].reason \in {CK!MALFORMED, CK!KEY, CK!ISSUER}
  BY DryEarlyReasons
<1> QED BY <1>1, <1>2, <1>3, <1>4

LEMMA LateKnown ==
  /\ \A i \in 1..10 : CK!LateRules[i].reason \in {CK!KEY, CK!CLAIMS}
  /\ \A i \in 1..11 : CK!DryLateSteps[i].step \in CK!Fault \cup {"lifetime", "age"}
  /\ \A i \in 1..11 : CK!DryLateSteps[i].reason \in {CK!KEY, CK!CLAIMS, CK!ACCOUNT}
<1>1. \A i \in 1..10 : CK!LateRules[i].reason \in {CK!KEY, CK!CLAIMS}
  BY LateReasons
<1>2. \A i \in 1..11 : CK!DryLateSteps[i].step \in CK!Fault \cup {"lifetime", "age"}
  BY DryLateStages DEF CK!Fault
<1>3. \A i \in 1..11 : CK!DryLateSteps[i].reason \in {CK!KEY, CK!CLAIMS, CK!ACCOUNT}
  BY DryLateReasons
<1> QED BY <1>1, <1>2, <1>3

LEMMA SameEarly ==
  ASSUME NEW broken, "not_a_jws" \notin broken, NEW n, NEW d,
         FirstIn(CK!EarlyRules, broken, n), FirstIn(CK!DryEarlySteps, broken, d)
  PROVE  /\ n \in 1..10 /\ d \in 1..11 /\ (n = 10 <=> d = 11)
         /\ n # 10 => CK!EarlyRules[n].reason = CK!DryEarlySteps[d].reason
<1> DEFINE f(i) == IF i <= 3 THEN i ELSE i + 1
<1>1. /\ n \in 1..10 /\ (n <= 9 => CK!EarlyRules[n].step \in broken)
      /\ \A j \in 1..n - 1 : CK!EarlyRules[j].step \notin broken
  BY RulesAre DEF FirstIn
<1>2. /\ d \in 1..11 /\ (d <= 10 => CK!DryEarlySteps[d].step \in broken)
      /\ \A j \in 1..d - 1 : CK!DryEarlySteps[j].step \notin broken
  BY RulesAre DEF FirstIn
<1>3. \A i \in 1..9 : CK!EarlyRules[i].step = CK!DryEarlySteps[f(i)].step
  <2> SUFFICES ASSUME NEW i \in 1..9 PROVE CK!EarlyRules[i].step = CK!DryEarlySteps[f(i)].step
    OBVIOUS
  <2>1. \/ i = 1 \/ i = 2 \/ i = 3 \/ i = 4 \/ i = 5 \/ i = 6 \/ i = 7 \/ i = 8 \/ i = 9
    OBVIOUS
  <2> QED BY <2>1, EarlySteps, DryEarlyStages
<1>4. d # 4
  BY <1>2, DryEarlyStages
<1>5. n <= 9 => d = f(n)
  <2>1. n <= 9 => d <= f(n)
    BY <1>1, <1>2, <1>3
  <2>2. d \in 5..10 => CK!EarlyRules[d - 1].step = CK!DryEarlySteps[d].step
    <3> SUFFICES ASSUME d \in 5..10 PROVE CK!EarlyRules[d - 1].step = CK!DryEarlySteps[d].step
      OBVIOUS
    <3>1. d - 1 \in 1..9 /\ f(d - 1) = d
      OBVIOUS
    <3> QED BY <1>3, <3>1
  <2>3. d \in 1..3 => CK!EarlyRules[d].step = CK!DryEarlySteps[d].step
    BY <1>3
  <2> QED BY <1>1, <1>2, <1>4, <2>1, <2>2, <2>3
<1>6. n = 10 => d = 11
  <2>1. d \in 5..10 => CK!EarlyRules[d - 1].step = CK!DryEarlySteps[d].step
    <3> SUFFICES ASSUME d \in 5..10 PROVE CK!EarlyRules[d - 1].step = CK!DryEarlySteps[d].step
      OBVIOUS
    <3>1. d - 1 \in 1..9 /\ f(d - 1) = d
      OBVIOUS
    <3> QED BY <1>3, <3>1
  <2>2. d \in 1..3 => CK!EarlyRules[d].step = CK!DryEarlySteps[d].step
    BY <1>3
  <2> QED BY <1>1, <1>2, <1>4, <2>1, <2>2
<1>7. n # 10 => CK!EarlyRules[n].reason = CK!DryEarlySteps[f(n)].reason
  <2>1. n # 10 => \/ n = 1 \/ n = 2 \/ n = 3 \/ n = 4 \/ n = 5 \/ n = 6 \/ n = 7 \/ n = 8 \/ n = 9
    BY <1>1
  <2> QED BY <2>1, EarlyReasons, DryEarlyReasons
<1> QED BY <1>1, <1>2, <1>5, <1>6, <1>7

LEMMA EarlyEnds ==
  ASSUME NEW broken, "not_a_jws" \notin broken, NEW d,
         FirstIn(CK!EarlyRules, broken, 10), FirstIn(CK!DryEarlySteps, broken, d)
  PROVE  d = 11
BY SameEarly

LEMMA SameLate ==
  ASSUME NEW broken, NEW n, NEW d, FirstIn(CK!LateRules, broken, n), FirstIn(CK!DryLateSteps, broken, d)
  PROVE  /\ n \in 1..11 /\ d \in 1..12 /\ (n <= 10 => n = d) /\ (n = 11 => d \in {11, 12})
         /\ n <= 10 => CK!LateRules[n].reason = CK!DryLateSteps[n].reason
         /\ n = 11 => (d = 11 <=> "principal" \in broken)
         /\ "signature" \in broken => n = 1
<1>1. /\ n \in 1..11 /\ (n <= 10 => CK!LateRules[n].step \in broken)
      /\ \A j \in 1..n - 1 : CK!LateRules[j].step \notin broken
  BY RulesAre DEF FirstIn
<1>2. /\ d \in 1..12 /\ (d <= 11 => CK!DryLateSteps[d].step \in broken)
      /\ \A j \in 1..d - 1 : CK!DryLateSteps[j].step \notin broken
  BY RulesAre DEF FirstIn
<1>3. \A i \in 1..10 : CK!LateRules[i].step = CK!DryLateSteps[i].step
  <2> SUFFICES ASSUME NEW i \in 1..10 PROVE  CK!LateRules[i].step = CK!DryLateSteps[i].step
    OBVIOUS
  <2>1. \/ i = 1 \/ i = 2 \/ i = 3 \/ i = 4 \/ i = 5 \/ i = 6 \/ i = 7 \/ i = 8 \/ i = 9 \/ i = 10
    OBVIOUS
  <2> QED BY <2>1, LateSteps, DryLateStages
<1>4. n <= 10 => n = d
  BY <1>1, <1>2, <1>3
<1>5. n = 11 => d \in {11, 12}
  BY <1>1, <1>2, <1>3
<1>6. n = 11 => (d = 11 <=> "principal" \in broken)
  BY <1>1, <1>2, <1>5, DryLateStages
<1>7. "signature" \in broken => n = 1
  BY <1>1, LateSteps
<1>8. n <= 10 => CK!LateRules[n].reason = CK!DryLateSteps[n].reason
  <2>1. n <= 10 => \/ n = 1 \/ n = 2 \/ n = 3 \/ n = 4 \/ n = 5 \/ n = 6 \/ n = 7 \/ n = 8 \/ n = 9 \/ n = 10
    BY <1>1
  <2> QED BY <2>1, LateReasons, DryLateReasons
<1> QED BY <1>1, <1>2, <1>4, <1>5, <1>6, <1>7, <1>8

-----------------------------------------------------------------------------
(* What a verdict says of its token, and of the moment it was reached at. *)
Ats == {"free", "key", "late", "done"}
MomentsOrNone == Int \cup {None}
Falls == CK!Fault \cup {"lifetime", "age", "key_available", None}
Whys == {None, "store", CK!MALFORMED, CK!KEY, CK!ISSUER, CK!CLAIMS, CK!ACCOUNT}
OpRow == [at : Ats, moment : MomentsOrNone, held : Int, fell : Falls, reason : Whys]

LEMMA Members ==
  /\ "free" \in Ats /\ "key" \in Ats /\ "late" \in Ats /\ "done" \in Ats
  /\ "store" \in Whys /\ {None, CK!MALFORMED, CK!KEY, CK!ISSUER, CK!CLAIMS, CK!ACCOUNT} \subseteq Whys
  /\ "key_available" \in Falls /\ None \in Falls /\ CK!Fault \cup {"lifetime", "age"} \subseteq Falls
  /\ Int \subseteq MomentsOrNone /\ None \in MomentsOrNone /\ 0 \in Int
BY DEF Ats, Whys, Falls, MomentsOrNone

Shaped(t) == t.faults \cap {"empty", "not_a_jws"} = {}

Judged(t, o) ==
  \/ \E n \in 1..9 : FirstIn(CK!EarlyRules, t.faults, n) /\ o.reason = CK!EarlyRules[n].reason
  \/ /\ FirstIn(CK!EarlyRules, t.faults, 10)
     /\ \/ o.reason = CK!KEY
        \/ \E n \in 1..10 : /\ FirstIn(CK!LateRules, Broken(t, o.moment), n)
                            /\ o.reason = CK!LateRules[n].reason
        \/ /\ FirstIn(CK!LateRules, Broken(t, o.moment), 11)
           /\ o.reason = IF t.faults \cap {"principal", "account"} # {} THEN CK!ACCOUNT ELSE None

Tried(t, d) ==
  \/ \E n \in 1..10 : /\ FirstIn(CK!DryEarlySteps, t.faults, n)
                      /\ d.reason = CK!DryEarlySteps[n].reason /\ d.held = n - 1
  \/ /\ FirstIn(CK!DryEarlySteps, t.faults, 11)
     /\ \/ d.fell = "key_available"
        \/ \E n \in 1..11 : /\ FirstIn(CK!DryLateSteps, Broken(t, d.moment), n)
                            /\ d.reason = CK!DryLateSteps[n].reason /\ d.held = 10 + n
        \/ FirstIn(CK!DryLateSteps, Broken(t, d.moment), 12) /\ d.held = 22

OpRight ==
  /\ op \in OpRow
  /\ op.at \in {"key", "late"} => Shaped(presented) /\ FirstIn(CK!EarlyRules, presented.faults, 10)
  /\ op.at = "done" => op.moment \in 0..clock /\ (Shaped(presented) => Judged(presented, op))

DryRight ==
  /\ dry \in OpRow
  /\ dry.at = "free" => dry.held = 0
  /\ dry.at = "key" => FirstIn(CK!DryEarlySteps, presented.faults, 11) /\ dry.held = 10
  /\ dry.at = "late" => FirstIn(CK!DryEarlySteps, presented.faults, 11) /\ dry.held = 11
  /\ dry.at = "done" => dry.moment \in 0..clock /\ Tried(presented, dry)

ChecksInv ==
  /\ clock \in 0..Seconds /\ presented \in Tokens
  /\ OpRight /\ DryRight
  /\ \A m \in accepted : m \in Nat /\ presented.iat <= m + LEEWAY /\ m - presented.iat <= MAX_LIFETIME

(* Two verdicts of one moment over one token agree. *)
LEMMA VerdictsAgree ==
  ASSUME CK!TokenChecksAssumption, ChecksInv
  PROVE  CK!DryRunTellsTheTruth
<1> SUFFICES ASSUME CK!SameMoment, CK!LooksLikeJws, ~CK!OverTheKey
             PROVE  IF CK!Passed THEN op.reason = None \/ (op.reason = CK!ACCOUNT /\ "account" \in presented.faults)
                    ELSE op.reason = dry.reason
  BY DEF CK!DryRunTellsTheTruth
<1> DEFINE b == Broken(presented, op.moment)
<1>1. /\ Judged(presented, op) /\ Tried(presented, dry) /\ dry.moment = op.moment /\ dry.at = "done"
      /\ dry.held \in Int
  BY DEF ChecksInv, OpRight, DryRight, CK!SameMoment, CK!LooksLikeJws, Shaped, OpRow
<1>2. "not_a_jws" \notin presented.faults
  BY DEF CK!LooksLikeJws
<1>3. dry.fell # "key_available" /\ (op.reason = CK!KEY => dry.held <= 10 \/ "signature" \in presented.faults)
  BY <1>1, RulesAre DEF CK!OverTheKey
<1>4. CASE \E n \in 1..9 : FirstIn(CK!EarlyRules, presented.faults, n) /\ op.reason = CK!EarlyRules[n].reason
  <2>1. PICK n \in 1..9 : FirstIn(CK!EarlyRules, presented.faults, n) /\ op.reason = CK!EarlyRules[n].reason
    BY <1>4
  <2>2. ASSUME NEW d, FirstIn(CK!DryEarlySteps, presented.faults, d)
        PROVE  d # 11 /\ op.reason = CK!DryEarlySteps[d].reason
    <3>1. /\ n \in 1..10 /\ d \in 1..11 /\ (n = 10 <=> d = 11)
          /\ n # 10 => CK!EarlyRules[n].reason = CK!DryEarlySteps[d].reason
      BY <1>2, <2>1, <2>2, SameEarly
    <3> QED BY <2>1, <3>1
  <2>3. dry.reason = op.reason /\ dry.held # 22
    BY <1>1, <2>2 DEF Tried
  <2> QED BY <2>3, RulesAre DEF CK!Passed
<1>5. CASE FirstIn(CK!EarlyRules, presented.faults, 10) /\ op.reason = CK!KEY
  <2>1. ASSUME NEW d, FirstIn(CK!DryEarlySteps, presented.faults, d) PROVE d = 11
    <3>1. ASSUME NEW n, FirstIn(CK!EarlyRules, presented.faults, n)
          PROVE  /\ n \in 1..10 /\ d \in 1..11 /\ (n = 10 <=> d = 11)
                 /\ n # 10 => CK!EarlyRules[n].reason = CK!DryEarlySteps[d].reason
      BY <1>2, <2>1, <3>1, SameEarly
    <3>2. 10 = 10 <=> d = 11
      BY <1>5, <3>1
    <3> QED BY <3>2
  <2>2. \/ \E n \in 1..11 : /\ FirstIn(CK!DryLateSteps, b, n)
                            /\ dry.reason = CK!DryLateSteps[n].reason /\ dry.held = 10 + n
        \/ FirstIn(CK!DryLateSteps, b, 12) /\ dry.held = 22
    BY <1>1, <1>3, <2>1 DEF Tried
  <2>3. "signature" \in presented.faults
    BY <1>3, <1>5, <2>2
  <2>4. "signature" \in b
    BY <2>3 DEF Broken
  <2>5. \A n : FirstIn(CK!DryLateSteps, b, n) => n = 1
    BY <2>4, RulesAre, DryLateStages DEF FirstIn
  <2>6. dry.reason = CK!KEY /\ dry.held = 11
    BY <2>2, <2>5, DryLateReasons
  <2> QED BY <1>5, <2>6, RulesAre DEF CK!Passed
<1>6. CASE /\ FirstIn(CK!EarlyRules, presented.faults, 10)
           /\ \/ \E n \in 1..10 : FirstIn(CK!LateRules, b, n) /\ op.reason = CK!LateRules[n].reason
              \/ /\ FirstIn(CK!LateRules, b, 11)
                 /\ op.reason = IF presented.faults \cap {"principal", "account"} # {} THEN CK!ACCOUNT ELSE None
  <2>1. \A d : FirstIn(CK!DryEarlySteps, presented.faults, d) => d = 11
    BY <1>2, <1>6, EarlyEnds
  <2>2. \/ \E d \in 1..11 : /\ FirstIn(CK!DryLateSteps, b, d)
                            /\ dry.reason = CK!DryLateSteps[d].reason /\ dry.held = 10 + d
        \/ FirstIn(CK!DryLateSteps, b, 12) /\ dry.held = 22
    BY <1>1, <1>3, <2>1 DEF Tried
  <2>3. "principal" \in b <=> "principal" \in presented.faults
    BY DEF Broken
  <2> HIDE DEF b
  <2>4. CASE \E n \in 1..10 : FirstIn(CK!LateRules, b, n) /\ op.reason = CK!LateRules[n].reason
    <3>1. PICK n \in 1..10 : FirstIn(CK!LateRules, b, n) /\ op.reason = CK!LateRules[n].reason
      BY <2>4
    <3>2. \A d : FirstIn(CK!DryLateSteps, b, d) => d = n /\ op.reason = CK!DryLateSteps[d].reason
      BY <3>1, SameLate
    <3>3. dry.reason = op.reason /\ dry.held = 10 + n
      BY <2>2, <3>2
    <3> QED BY <3>3, RulesAre DEF CK!Passed
  <2>5. CASE FirstIn(CK!LateRules, b, 11)
    <3>1. \A d : FirstIn(CK!DryLateSteps, b, d) => d \in {11, 12} /\ (d = 11 <=> "principal" \in b)
      BY <2>5, SameLate
    <3>2. \A n \in 1..10 : ~FirstIn(CK!LateRules, b, n)
      BY <3>1, <2>2, SameLate
    <3>3. op.reason = IF presented.faults \cap {"principal", "account"} # {} THEN CK!ACCOUNT ELSE None
      BY <1>6, <3>2
    <3>4. CASE "principal" \in presented.faults
      <4>1. dry.held = 21 /\ dry.reason = CK!ACCOUNT
        BY <2>2, <2>3, <3>1, <3>4, DryLateReasons
      <4> QED BY <3>3, <3>4, <4>1, RulesAre DEF CK!Passed
    <3>5. CASE "principal" \notin presented.faults
      <4>1. dry.held = 22
        BY <2>2, <2>3, <3>1, <3>5
      <4> QED BY <1>1, <3>3, <3>5, <4>1, RulesAre DEF CK!Passed
    <3> QED BY <3>4, <3>5
  <2> QED BY <1>6, <2>4, <2>5
<1> QED BY <1>1, <1>4, <1>5, <1>6 DEF Judged

LEMMA TokenAges ==
  ASSUME CK!TokenChecksAssumption, ChecksInv
  PROVE  CK!AcceptedForItsLife
<1>1. presented.iat \in Int
  BY DEF CK!TokenChecksAssumption, ChecksInv
<1> QED BY <1>1 DEF CK!TokenChecksAssumption, ChecksInv, CK!AcceptedForItsLife

LEMMA ChecksInit ==
  ASSUME CK!TokenChecksAssumption, CK!Init
  PROVE  ChecksInv
BY Members DEF CK!TokenChecksAssumption, CK!Init, CK!Idle, ChecksInv, OpRight, DryRight, OpRow

(* What a step does to the one verdict, to the other, and to neither. *)
LEMMA Timeless ==
  ASSUME CK!TokenChecksAssumption, NEW t \in Tokens, NEW now, NEW n
  PROVE  /\ FirstIn(CK!EarlyRules, Broken(t, now), n) => FirstIn(CK!EarlyRules, t.faults, n)
         /\ FirstIn(CK!DryEarlySteps, Broken(t, now), n) => FirstIn(CK!DryEarlySteps, t.faults, n)
<1>1. \A s \in CK!Fault \ {"claims"} : s \in Broken(t, now) <=> s \in t.faults
  BY DEF Broken, CK!Fault
<1>2. FirstIn(CK!EarlyRules, Broken(t, now), n) => FirstIn(CK!EarlyRules, t.faults, n)
  <2>1. n \in 1..10 => \A j \in 1..n - 1 : j \in 1..9
    OBVIOUS
  <2> QED BY <1>1, <2>1, RulesAre, EarlyKnown DEF FirstIn
<1>3. FirstIn(CK!DryEarlySteps, Broken(t, now), n) => FirstIn(CK!DryEarlySteps, t.faults, n)
  <2>1. n \in 1..11 => \A j \in 1..n - 1 : j \in 1..10
    OBVIOUS
  <2> QED BY <1>1, <2>1, RulesAre, EarlyKnown DEF FirstIn
<1> QED BY <1>2, <1>3

(* The step that reaches a verdict, in operation and in the dry run. *)
LEMMA OperationMoves ==
  ASSUME CK!TokenChecksAssumption, ChecksInv, CK!Present \/ CK!ResolveKey \/ CK!ClaimsOf \/ CK!PresentAgain
  PROVE  OpRight'
<1>1. /\ CK!TokenChecksAssumption /\ presented \in Tokens /\ presented' = presented /\ clock' = clock
      /\ clock \in Nat /\ op \in OpRow /\ clock \in 0..clock /\ clock \in Int
  BY DEF ChecksInv, OpRight, CK!Present, CK!ResolveKey, CK!ClaimsOf, CK!PresentAgain,
         CK!TokenChecksAssumption
<1>2. CASE CK!Present
  <2>1. FirstIn(CK!EarlyRules, Broken(presented, clock), CK!First(CK!EarlyRules))
    BY <1>1, FirstOf, RulesAre
  <2>2. FirstIn(CK!EarlyRules, presented.faults, CK!First(CK!EarlyRules)) /\ CK!First(CK!EarlyRules) \in 1..10
    BY <1>1, <2>1, Timeless, RulesAre DEF FirstIn
  <2>3. CASE ~CK!LooksLikeJws
    <3>1. op' = [op EXCEPT !.at = "done", !.moment = clock, !.reason = "store"]
      BY <1>2, <2>3 DEF CK!Present, CK!Decide
    <3>2. op' \in OpRow /\ op'.at = "done" /\ op'.moment = clock
      BY <1>1, <3>1, Members DEF OpRow
    <3> QED BY <1>1, <2>3, <3>2 DEF OpRight, CK!LooksLikeJws, Shaped
  <2>4. CASE CK!LooksLikeJws /\ CK!All(CK!EarlyRules)
    <3>1. op' = [op EXCEPT !.at = "key"]
      BY <1>2, <2>4 DEF CK!Present, CK!Reached
    <3>2. op' \in OpRow /\ op'.at = "key"
      BY <1>1, <3>1, Members DEF OpRow
    <3>3. CK!First(CK!EarlyRules) = 10
      BY <2>2, <2>4, RulesAre DEF CK!All
    <3> QED BY <1>1, <2>2, <2>4, <3>2, <3>3 DEF OpRight, CK!LooksLikeJws, Shaped
  <2>5. CASE CK!LooksLikeJws /\ ~CK!All(CK!EarlyRules)
    <3> DEFINE n == CK!First(CK!EarlyRules)
    <3>1. op' = [op EXCEPT !.at = "done", !.moment = clock, !.reason = CK!EarlyRules[n].reason]
      BY <1>2, <2>5 DEF CK!Present, CK!Decide
    <3>2. n \in 1..9
      BY <2>2, <2>5, RulesAre DEF CK!All
    <3> HIDE DEF n
    <3>3. CK!EarlyRules[n].reason \in {CK!MALFORMED, CK!KEY, CK!ISSUER}
      BY <3>2, EarlyKnown
    <3>4. /\ op' \in OpRow /\ op'.at = "done" /\ op'.moment = clock
          /\ op'.reason = CK!EarlyRules[n].reason
      BY <1>1, <3>1, <3>3, Members DEF OpRow
    <3>5. Judged(presented, op')
      BY <2>2, <3>2, <3>4 DEF Judged, n
    <3> QED BY <1>1, <3>4, <3>5 DEF OpRight
  <2> QED BY <2>3, <2>4, <2>5
<1>3. CASE CK!ResolveKey
  <2>1. op.at = "key" /\ Shaped(presented) /\ FirstIn(CK!EarlyRules, presented.faults, 10)
    BY <1>3 DEF ChecksInv, OpRight, CK!ResolveKey
  <2>2. \/ op' = [op EXCEPT !.at = "late"]
        \/ op' = [op EXCEPT !.at = "done", !.moment = clock, !.reason = CK!KEY]
    BY <1>3 DEF CK!ResolveKey, CK!Reached, CK!Decide
  <2>3. /\ op' \in OpRow
        /\ op'.at = "late" \/ (op'.at = "done" /\ op'.moment = clock /\ op'.reason = CK!KEY)
    BY <1>1, <2>2, Members DEF OpRow
  <2>4. op'.at = "done" => Judged(presented, op')
    BY <2>1, <2>3 DEF Judged
  <2> QED BY <1>1, <2>1, <2>3, <2>4 DEF OpRight
<1>4. CASE CK!ClaimsOf
  <2> DEFINE b == Broken(presented, clock)
             n == CK!First(CK!LateRules)
  <2>1. op.at = "late" /\ FirstIn(CK!EarlyRules, presented.faults, 10)
    BY <1>4 DEF ChecksInv, OpRight, CK!ClaimsOf
  <2>2. FirstIn(CK!LateRules, b, n) /\ n \in 1..11
    <3>1. FirstIn(CK!LateRules, b, n)
      BY <1>1, FirstOf, RulesAre
    <3> QED BY <3>1, RulesAre DEF FirstIn
  <2>3. CK!All(CK!LateRules) <=> n = 11
    BY <2>2, RulesAre DEF CK!All
  <2> DEFINE why == IF ~CK!All(CK!LateRules) THEN CK!LateRules[n].reason
                    ELSE IF presented.faults \cap {"principal", "account"} # {} THEN CK!ACCOUNT ELSE None
  <2>4. op' = [op EXCEPT !.at = "done", !.moment = clock, !.reason = why]
    BY <1>4 DEF CK!ClaimsOf, CK!Decide
  <2>5. why \in {CK!KEY, CK!CLAIMS, CK!ACCOUNT, None}
    BY <2>2, <2>3, LateKnown
  <2>6. \/ n \in 1..10 /\ why = CK!LateRules[n].reason
        \/ n = 11 /\ why = IF presented.faults \cap {"principal", "account"} # {} THEN CK!ACCOUNT ELSE None
    BY <2>2, <2>3
  <2> HIDE DEF why, n, b
  <2>7. op' \in OpRow /\ op'.at = "done" /\ op'.moment = clock /\ op'.reason = why
    BY <1>1, <2>4, <2>5, Members DEF OpRow
  <2>8. FirstIn(CK!LateRules, Broken(presented, op'.moment), n)
    BY <2>2, <2>7 DEF b
  <2>9. Judged(presented, op')
    BY <2>1, <2>6, <2>7, <2>8 DEF Judged
  <2> QED BY <1>1, <2>7, <2>9 DEF OpRight
<1>5. CASE CK!PresentAgain
  BY <1>1, <1>5, Members DEF CK!PresentAgain, CK!Idle, OpRight, OpRow
<1> QED BY <1>2, <1>3, <1>4, <1>5

LEMMA DryRunMoves ==
  ASSUME CK!TokenChecksAssumption, ChecksInv, CK!ExchangeCheck \/ CK!DryKey \/ CK!DryRun \/ CK!CheckAgain
  PROVE  DryRight'
<1>1. /\ CK!TokenChecksAssumption /\ presented \in Tokens /\ presented' = presented /\ clock' = clock
      /\ clock \in Nat /\ dry \in OpRow /\ clock \in 0..clock /\ clock \in Int
  BY DEF ChecksInv, DryRight, CK!ExchangeCheck, CK!DryKey, CK!DryRun, CK!CheckAgain,
         CK!TokenChecksAssumption
<1>2. CASE CK!ExchangeCheck
  <2> DEFINE n == CK!First(CK!DryEarlySteps)
  <2>1. FirstIn(CK!DryEarlySteps, Broken(presented, clock), n)
    BY <1>1, FirstOf, RulesAre
  <2>2. FirstIn(CK!DryEarlySteps, presented.faults, n) /\ n \in 1..11
    BY <1>1, <2>1, Timeless, RulesAre DEF FirstIn
  <2>3. dry.held = 0
    BY <1>2 DEF CK!ExchangeCheck, ChecksInv, DryRight
  <2>4. CK!All(CK!DryEarlySteps) <=> n = 11
    BY <2>2, RulesAre DEF CK!All
  <2> HIDE DEF n
  <2>7. CK!Held(n - 1) = n - 1
    BY <2>2, <2>3 DEF CK!Held
  <2>5. CASE CK!All(CK!DryEarlySteps)
    <3>1. dry' = [dry EXCEPT !.at = "key", !.held = n - 1]
      BY <1>2, <2>5, <2>7 DEF CK!ExchangeCheck, n
    <3>2. dry' \in OpRow /\ dry'.at = "key" /\ dry'.held = 10
      <4>1. PICK h \in Int : h = n - 1 /\ h = 10
        BY <2>4, <2>5
      <4>2. dry' = [dry EXCEPT !.at = "key", !.held = h]
        BY <3>1, <4>1
      <4>3. dry' \in OpRow /\ dry'.at = "key" /\ dry'.held = h
        BY <1>1, <4>2, Members DEF OpRow
      <4> QED BY <4>1, <4>3
    <3> QED BY <1>1, <2>2, <2>4, <2>5, <3>2 DEF DryRight
  <2>6. CASE ~CK!All(CK!DryEarlySteps)
    <3>1. dry' = [dry EXCEPT !.at = "done", !.moment = clock, !.held = n - 1,
                             !.fell = CK!DryEarlySteps[n].step, !.reason = CK!DryEarlySteps[n].reason]
      BY <1>2, <2>6, <2>7 DEF CK!ExchangeCheck, CK!Fell, n
    <3>2. n \in 1..10
      BY <2>2, <2>4, <2>6
    <3>3. /\ CK!DryEarlySteps[n].reason \in {CK!MALFORMED, CK!KEY, CK!ISSUER}
          /\ CK!DryEarlySteps[n].step \in CK!Fault
      BY <3>2, EarlyKnown
    <3>4. /\ dry' \in OpRow /\ dry'.at = "done" /\ dry'.moment = clock /\ dry'.held = n - 1
          /\ dry'.reason = CK!DryEarlySteps[n].reason
      <4>1. PICK h \in Int : h = n - 1
        BY <3>2
      <4>2. PICK f \in Falls, x \in Whys : f = CK!DryEarlySteps[n].step /\ x = CK!DryEarlySteps[n].reason
        BY <3>3, Members
      <4>3. dry' = [dry EXCEPT !.at = "done", !.moment = clock, !.held = h, !.fell = f, !.reason = x]
        BY <3>1, <4>1, <4>2
      <4>4. /\ dry' \in OpRow /\ dry'.at = "done" /\ dry'.moment = clock /\ dry'.held = h
            /\ dry'.reason = x
        BY <1>1, <4>3, Members DEF OpRow
      <4> QED BY <4>1, <4>2, <4>4
    <3>5. Tried(presented, dry')
      BY <2>2, <3>2, <3>4 DEF Tried
    <3> QED BY <1>1, <3>4, <3>5 DEF DryRight
  <2> QED BY <2>5, <2>6
<1>3. CASE CK!DryKey
  <2>1. dry.at = "key" /\ FirstIn(CK!DryEarlySteps, presented.faults, 11) /\ dry.held = 10
    BY <1>3 DEF ChecksInv, DryRight, CK!DryKey
  <2>2. \/ dry' = [dry EXCEPT !.at = "late", !.held = 11]
        \/ dry' = [dry EXCEPT !.at = "done", !.moment = clock, !.held = 10,
                              !.fell = "key_available", !.reason = CK!KEY]
    BY <1>3, <2>1 DEF CK!DryKey, CK!Fell, CK!Held, CK!Rule
  <2>3. /\ dry' \in OpRow
        /\ \/ dry'.at = "late" /\ dry'.held = 11
           \/ dry'.at = "done" /\ dry'.moment = clock /\ dry'.fell = "key_available"
    <3>1. PICK h \in Int, k \in Int : h = 11 /\ k = 10
      OBVIOUS
    <3>2. CASE dry' = [dry EXCEPT !.at = "late", !.held = h]
      <4>1. dry' \in OpRow /\ dry'.at = "late" /\ dry'.held = h
        BY <1>1, <3>2, Members DEF OpRow
      <4> QED BY <3>1, <4>1
    <3>3. CASE dry' = [dry EXCEPT !.at = "done", !.moment = clock, !.held = k,
                                  !.fell = "key_available", !.reason = CK!KEY]
      <4>1. /\ dry' \in OpRow /\ dry'.at = "done" /\ dry'.moment = clock
            /\ dry'.fell = "key_available"
        BY <1>1, <3>3, Members DEF OpRow
      <4> QED BY <4>1
    <3> QED BY <2>2, <3>1, <3>2, <3>3
  <2>4. dry'.at = "done" => Tried(presented, dry')
    BY <2>1, <2>3 DEF Tried
  <2> QED BY <1>1, <2>1, <2>3, <2>4 DEF DryRight
<1>4. CASE CK!DryRun
  <2> DEFINE n == CK!First(CK!DryLateSteps)
  <2>1. dry.at = "late" /\ FirstIn(CK!DryEarlySteps, presented.faults, 11) /\ dry.held = 11
    BY <1>4 DEF ChecksInv, DryRight, CK!DryRun
  <2>2. FirstIn(CK!DryLateSteps, Broken(presented, clock), n) /\ n \in 1..12
    <3>1. FirstIn(CK!DryLateSteps, Broken(presented, clock), n)
      BY <1>1, FirstOf, RulesAre
    <3> QED BY <3>1, RulesAre DEF FirstIn
  <2>3. CK!All(CK!DryLateSteps) <=> n = 12
    BY <2>2, RulesAre DEF CK!All
  <2>4. CASE CK!All(CK!DryLateSteps)
    <3>1. dry' = [dry EXCEPT !.at = "done", !.moment = clock, !.held = 22]
      BY <1>4, <2>1, <2>3, <2>4 DEF CK!DryRun, CK!Held
    <3>2. dry' \in OpRow /\ dry'.at = "done" /\ dry'.moment = clock /\ dry'.held = 22
      <4>1. PICK h \in Int : h = 22
        OBVIOUS
      <4>2. dry' = [dry EXCEPT !.at = "done", !.moment = clock, !.held = h]
        BY <3>1, <4>1
      <4>3. dry' \in OpRow /\ dry'.at = "done" /\ dry'.moment = clock /\ dry'.held = h
        BY <1>1, <4>2, Members DEF OpRow
      <4> QED BY <4>1, <4>3
    <3>3. Tried(presented, dry')
      BY <2>1, <2>2, <2>3, <2>4, <3>2 DEF Tried
    <3> QED BY <1>1, <3>2, <3>3 DEF DryRight
  <2>5. CASE ~CK!All(CK!DryLateSteps)
    <3>1. dry' = [dry EXCEPT !.at = "done", !.moment = clock, !.held = 11 + (n - 1),
                             !.fell = CK!DryLateSteps[n].step, !.reason = CK!DryLateSteps[n].reason]
      BY <1>4, <2>1, <2>5 DEF CK!DryRun, CK!Fell, CK!Held
    <3>2. n \in 1..11
      BY <2>2, <2>3, <2>5
    <3>3. FirstIn(CK!DryLateSteps, Broken(presented, clock), n)
      BY <2>2
    <3> HIDE DEF n
    <3>4. /\ CK!DryLateSteps[n].reason \in {CK!KEY, CK!CLAIMS, CK!ACCOUNT}
          /\ CK!DryLateSteps[n].step \in CK!Fault \cup {"lifetime", "age"}
      BY <3>2, LateKnown
    <3>5. /\ dry' \in OpRow /\ dry'.at = "done" /\ dry'.moment = clock /\ dry'.held = 10 + n
          /\ dry'.reason = CK!DryLateSteps[n].reason
      <4>1. PICK h \in Int : h = 11 + (n - 1) /\ h = 10 + n
        BY <3>2
      <4>2. PICK f \in Falls, x \in Whys : f = CK!DryLateSteps[n].step /\ x = CK!DryLateSteps[n].reason
        BY <3>4, Members
      <4>3. dry' = [dry EXCEPT !.at = "done", !.moment = clock, !.held = h, !.fell = f, !.reason = x]
        BY <3>1, <4>1, <4>2
      <4>4. /\ dry' \in OpRow /\ dry'.at = "done" /\ dry'.moment = clock /\ dry'.held = h
            /\ dry'.reason = x
        BY <1>1, <4>3, Members DEF OpRow
      <4> QED BY <4>1, <4>2, <4>4
    <3>6. Tried(presented, dry')
      BY <2>1, <3>2, <3>3, <3>5 DEF Tried
    <3> QED BY <1>1, <3>5, <3>6 DEF DryRight
  <2> QED BY <2>4, <2>5
<1>5. CASE CK!CheckAgain
  BY <1>1, <1>5, Members DEF CK!CheckAgain, CK!Idle, DryRight, OpRow
<1> QED BY <1>2, <1>3, <1>4, <1>5

LEMMA ChecksMove ==
  ASSUME CK!TokenChecksAssumption, ChecksInv, [CK!Next]_(CK!vars)
  PROVE  ChecksInv'
<1>1. CK!TokenChecksAssumption /\ presented \in Tokens /\ clock \in Nat
  BY DEF ChecksInv, CK!TokenChecksAssumption
<1>2. presented' = presented /\ clock' \in 0..Seconds /\ clock' >= clock
  BY DEF ChecksInv, CK!TokenChecksAssumption, CK!Next, CK!vars, CK!LoadExchangeConfig, CK!Present,
         CK!ResolveKey, CK!ClaimsOf,
         CK!PresentAgain, CK!ExchangeCheck, CK!DryKey, CK!DryRun, CK!CheckAgain, CK!Serve, CK!ForgetKeys, CK!Tick
<1>3. OpRight'
  <2>1. CASE CK!Present \/ CK!ResolveKey \/ CK!ClaimsOf \/ CK!PresentAgain
    BY <2>1, OperationMoves
  <2>2. CASE op' = op
    BY <1>1, <1>2, <2>2 DEF ChecksInv, OpRight
  <2> QED BY <2>1, <2>2 DEF CK!Next, CK!vars, CK!LoadExchangeConfig, CK!ExchangeCheck, CK!DryKey, CK!DryRun,
                            CK!CheckAgain, CK!Serve, CK!ForgetKeys, CK!Tick
<1>4. DryRight'
  <2>1. CASE CK!ExchangeCheck \/ CK!DryKey \/ CK!DryRun \/ CK!CheckAgain
    BY <2>1, DryRunMoves
  <2>2. CASE dry' = dry
    BY <1>1, <1>2, <2>2 DEF ChecksInv, DryRight
  <2> QED BY <2>1, <2>2 DEF CK!Next, CK!vars, CK!LoadExchangeConfig, CK!Present, CK!ResolveKey, CK!ClaimsOf,
                            CK!PresentAgain, CK!Serve, CK!ForgetKeys, CK!Tick
<1>5. \A m \in accepted' : m \in Nat /\ presented.iat <= m + LEEWAY /\ m - presented.iat <= MAX_LIFETIME
  <2>1. CASE accepted' = accepted
    BY <2>1 DEF ChecksInv
  <2>2. CASE CK!All(CK!LateRules) /\ accepted' = accepted \cup {clock}
    <3>1. FirstIn(CK!LateRules, Broken(presented, clock), CK!First(CK!LateRules))
      BY <1>1, FirstOf, RulesAre
    <3>2. CK!First(CK!LateRules) = 11
      BY <2>2, <3>1, RulesAre DEF FirstIn, CK!All
    <3>3. CK!LateRules[2].step \notin Broken(presented, clock) /\ CK!LateRules[9].step \notin Broken(presented, clock)
      BY <3>1, <3>2 DEF FirstIn
    <3>4. "claims" \notin Broken(presented, clock) /\ "age" \notin Broken(presented, clock)
      BY <3>3, LateSteps
    <3>5. presented.iat \in Int
      BY <1>1 DEF CK!TokenChecksAssumption
    <3>6. presented.iat <= clock + LEEWAY /\ clock - presented.iat <= MAX_LIFETIME
      BY <1>1, <3>4, <3>5 DEF Broken, CK!TokenChecksAssumption
    <3> QED BY <1>1, <2>2, <3>6 DEF ChecksInv
  <2> QED BY <2>1, <2>2 DEF CK!Next, CK!vars, CK!LoadExchangeConfig, CK!Present, CK!ResolveKey, CK!ClaimsOf,
            CK!PresentAgain, CK!ExchangeCheck, CK!DryKey, CK!DryRun, CK!CheckAgain, CK!Serve, CK!ForgetKeys, CK!Tick
<1> QED BY <1>1, <1>2, <1>3, <1>4, <1>5 DEF ChecksInv

(* A dry run and a request that reach their verdicts over one token at one moment   *)
(* give the same one (DRY_RUN_STEPS beside verify_access_token), and no token is    *)
(* accepted outside the life the limits leave it, whatever it claims and however    *)
(* the keys and the clock move between the steps.                                   *)
THEOREM DryRunsTellTheTruth ==
  ASSUME CK!TokenChecksAssumption
  PROVE  CK!Spec => []CK!ChecksAgree
<1>1. ChecksInv => CK!ChecksAgree
  BY VerdictsAgree, TokenAges DEF CK!ChecksAgree
<1> QED BY <1>1, ChecksInit, ChecksMove, PTL DEF CK!Spec

================================================================================
