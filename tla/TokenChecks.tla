------------------------------------ MODULE TokenChecks ------------------------------------
(***************************************************************************)
(* The rules an exchanged token is held against, twice: in operation, and  *)
(* in the dry run an administrator asks for with occ.  The two are two     *)
(* pieces of code over one configuration, which is read once at startup.   *)
(* The provider's keys and the time move between the steps of both.        *)
(***************************************************************************)
EXTENDS Integers, Sequences, FiniteSets

CONSTANTS
  Tokens,        \* tokens that may be presented, see Token
  Envs,          \* environments the container may be started with
  LEEWAY,        \* clock drift that the standard claims tolerate
  MAX_LIFETIME,  \* longest life, and highest age, of an accepted token
  MaxClock,      \* the clock stops here
  None

VARIABLES
  clock,     \* the wall clock
  env,       \* the variables the container was started with
  conf,      \* what they came to
  token,     \* the token in question
  served,    \* what the provider answers when it is asked for its keys
  known,     \* whether the running checker has the key in its cache
  op,        \* the request in operation
  dry,       \* the dry run
  accepted   \* history: the moments at which operation accepted the token

vars == <<clock, env, conf, token, served, known, op, dry, accepted>>

Variables == {"issuer", "azp", "jwks_uri", "jwks_origin", "audience", "account_claim",
              "algorithms", "mapping", "oidc_provider_id", "public_url"}
Values == {"unset", "empty", "good", "bad", "sub_profile"}

(* A token: what is wrong with it, and the times it names.                   *)
Fault == {"empty", "long", "not_text", "not_a_jws", "header", "algorithm", "kid", "header_typ",
          "payload", "issuer", "signature", "claims", "audience", "no_azp", "azp", "typ",
          "times", "subject", "principal", "account"}
Token == [faults : SUBSET Fault, iat : Int, exp : Int]

TokenChecksAssumption ==
  /\ \A t \in Tokens : t.faults \subseteq Fault /\ t.iat \in Int /\ t.exp \in Int
  /\ LEEWAY \in Nat /\ MAX_LIFETIME \in Nat /\ MaxClock \in Nat

MALFORMED == "malformed"
KEY == "key"
ISSUER == "issuer"
CLAIMS == "claims"
ACCOUNT == "account"

Idle == [at |-> "free", moment |-> None, held |-> 0, fell |-> None, reason |-> None]

TypeOK ==
  /\ clock \in 0..MaxClock
  /\ env \in Envs /\ conf \in {"none", "refused", "off", "armed"}
  /\ token \in Tokens /\ served \in {"good", "gone", "down"} /\ known \in BOOLEAN
  /\ op.at \in {"free", "key", "late", "done"} /\ dry.at \in {"free", "key", "late", "done"}
  /\ op.reason \in {None, "store", MALFORMED, KEY, ISSUER, CLAIMS, ACCOUNT}
  /\ accepted \subseteq 0..MaxClock

Init ==
  /\ clock = 0 /\ env \in Envs /\ conf = "none"
  /\ token \in Tokens /\ served = "good" /\ known = FALSE
  /\ op = Idle /\ dry = Idle /\ accepted = {}

-----------------------------------------------------------------------------
(* load_exchange_config.  A value nothing armed, a value that is there and   *)
(* empty, and one that is not usable all stop the start; the addresses and   *)
(* the audience have defaults, of which the audience is derived.             *)
Required == {"issuer", "azp"}
Exchange == Variables \ {"public_url"}
Armed(e) == e.enabled = "good"

Disarmed(e) == \A v \in Exchange : e[v] \in {"unset", "empty"}
Usable(e) ==
  /\ \A v \in Required : e[v] = "good"
  /\ \A v \in Exchange : e[v] \notin {"empty", "bad"}
  /\ e["audience"] = "good" \/ e["public_url"] = "good"
  /\ e["oidc_provider_id"] = "good" <=> e["mapping"] = "sub_profile"

LoadExchangeConfig ==
  /\ conf = "none"
  /\ conf' = IF ~ Armed(env) THEN IF Disarmed(env) THEN "off" ELSE "refused"
             ELSE IF Usable(env) THEN "armed" ELSE "refused"
  /\ UNCHANGED <<clock, env, token, served, known, op, dry, accepted>>

-----------------------------------------------------------------------------
(* The standard claims, as the library judges them with our leeway, and the  *)
(* two bounds of this code.                                                  *)
Expired == token.exp <= clock - LEEWAY
NotYet == token.iat > clock + LEEWAY
Lives == token.exp - token.iat > MAX_LIFETIME
AgeIgnored == FALSE
Old == clock - token.iat > MAX_LIFETIME

Rule(step, reason) == [step |-> step, reason |-> reason]
Breaks(step) ==
  CASE step = "lifetime" -> Lives
    [] step = "age" -> Old
    [] step = "claims" -> "claims" \in token.faults \/ Expired \/ NotYet
    [] OTHER -> step \in token.faults

(* The rules of the checker before and after its key, in its order.          *)
EarlyRules ==
  << Rule("empty", MALFORMED), Rule("long", MALFORMED), Rule("not_text", MALFORMED),
     Rule("header", MALFORMED), Rule("algorithm", KEY), Rule("kid", KEY),
     Rule("header_typ", MALFORMED), Rule("payload", MALFORMED), Rule("issuer", ISSUER) >>
LateRules ==
  << Rule("signature", KEY), Rule("claims", CLAIMS), Rule("audience", CLAIMS),
     Rule("no_azp", CLAIMS), Rule("azp", CLAIMS), Rule("typ", CLAIMS), Rule("times", CLAIMS),
     Rule("lifetime", CLAIMS), Rule("age", CLAIMS), Rule("subject", CLAIMS) >>

(* The steps of the dry run, in theirs.                                      *)
DryEarlySteps ==
  << Rule("empty", MALFORMED), Rule("long", MALFORMED), Rule("not_text", MALFORMED),
     Rule("not_a_jws", MALFORMED), Rule("header", MALFORMED), Rule("algorithm", KEY),
     Rule("kid", KEY), Rule("header_typ", MALFORMED), Rule("payload", MALFORMED),
     Rule("issuer", ISSUER) >>
DryWithoutAge ==
  << Rule("signature", KEY), Rule("claims", CLAIMS), Rule("audience", CLAIMS),
     Rule("no_azp", CLAIMS), Rule("azp", CLAIMS), Rule("typ", CLAIMS), Rule("times", CLAIMS),
     Rule("lifetime", CLAIMS), Rule("subject", CLAIMS), Rule("principal", ACCOUNT) >>
DryLateSteps ==
  << Rule("signature", KEY), Rule("claims", CLAIMS), Rule("audience", CLAIMS),
     Rule("no_azp", CLAIMS), Rule("azp", CLAIMS), Rule("typ", CLAIMS), Rule("times", CLAIMS),
     Rule("lifetime", CLAIMS), Rule("age", CLAIMS), Rule("subject", CLAIMS),
     Rule("principal", ACCOUNT) >>
Steps == Len(DryEarlySteps) + 1 + Len(DryLateSteps)

(* The first rule that breaks, or one past the last.                         *)
First(rules) ==
  CHOOSE i \in 1..Len(rules) + 1 :
    /\ i <= Len(rules) => Breaks(rules[i].step)
    /\ \A j \in 1..i - 1 : ~ Breaks(rules[j].step)
All(rules) == First(rules) > Len(rules)

-----------------------------------------------------------------------------
(* verify_token.  A token of another shape is the other branch's to judge.   *)
LooksLikeJws == token.faults \cap {"empty", "not_a_jws"} = {}

Decide(reason) == op' = [op EXCEPT !.at = "done", !.moment = clock, !.reason = reason]
Reached(step) == op' = [op EXCEPT !.at = step]

Present ==
  /\ conf = "armed" /\ op.at = "free"
  /\ IF ~ LooksLikeJws THEN Decide("store")
     ELSE IF All(EarlyRules) THEN Reached("key")
     ELSE Decide(EarlyRules[First(EarlyRules)].reason)
  /\ UNCHANGED <<clock, env, conf, token, served, known, dry, accepted>>

(* A key that is known is used; one that is not costs a fetch.               *)
ResolveKey ==
  /\ op.at = "key"
  /\ IF known \/ served = "good" THEN Reached("late") /\ known' = TRUE
     ELSE Decide(KEY) /\ UNCHANGED known
  /\ UNCHANGED <<clock, env, conf, token, served, dry, accepted>>

ClaimsOf ==
  /\ op.at = "late"
  /\ IF ~ All(LateRules) THEN Decide(LateRules[First(LateRules)].reason) /\ UNCHANGED accepted
     ELSE IF token.faults \cap {"principal", "account"} # {}
          THEN Decide(ACCOUNT) /\ UNCHANGED accepted
     ELSE Decide(None) /\ accepted' = accepted \cup {clock}
  /\ UNCHANGED <<clock, env, conf, token, served, known, dry>>

(* The next request with the same token.                                     *)
PresentAgain ==
  /\ op.at = "done" /\ op' = Idle
  /\ UNCHANGED <<clock, env, conf, token, served, known, dry, accepted>>

-----------------------------------------------------------------------------
(* dry_run.  Every step it passes is counted; a failed one ends it, and the  *)
(* key set is one of its own that knows nothing yet.                         *)
Held(n) == dry.held + n
Fell(n, rule) ==
  dry' = [dry EXCEPT !.at = "done", !.moment = clock, !.held = Held(n),
                     !.fell = rule.step, !.reason = rule.reason]

ExchangeCheck ==
  /\ conf = "armed" /\ dry.at = "free"
  /\ LET n == First(DryEarlySteps) IN
     IF All(DryEarlySteps) THEN dry' = [dry EXCEPT !.at = "key", !.held = Held(n - 1)]
     ELSE Fell(n - 1, DryEarlySteps[n])
  /\ UNCHANGED <<clock, env, conf, token, served, known, op, accepted>>

DryKey ==
  /\ dry.at = "key"
  /\ IF served = "good" THEN dry' = [dry EXCEPT !.at = "late", !.held = Held(1)]
     ELSE Fell(0, Rule("key_available", KEY))
  /\ UNCHANGED <<clock, env, conf, token, served, known, op, accepted>>

DryRun ==
  /\ dry.at = "late"
  /\ LET n == First(DryLateSteps) IN
     IF All(DryLateSteps)
     THEN dry' = [dry EXCEPT !.at = "done", !.moment = clock, !.held = Held(n - 1)]
     ELSE Fell(n - 1, DryLateSteps[n])
  /\ UNCHANGED <<clock, env, conf, token, served, known, op, accepted>>

(* passed: every step but the account's, which is named and not checked.     *)
Passed == dry.at = "done" /\ dry.held = Steps

CheckAgain ==
  /\ dry.at = "done" /\ dry' = Idle
  /\ UNCHANGED <<clock, env, conf, token, served, known, op, accepted>>

-----------------------------------------------------------------------------
Serve ==
  /\ \E answer \in {"good", "gone", "down"} : answer # served /\ served' = answer
  /\ UNCHANGED <<clock, env, conf, token, known, op, dry, accepted>>
ForgetKeys ==
  /\ known /\ known' = FALSE
  /\ UNCHANGED <<clock, env, conf, token, served, op, dry, accepted>>
Tick ==
  /\ clock < MaxClock /\ clock' = clock + 1
  /\ UNCHANGED <<env, conf, token, served, known, op, dry, accepted>>

Next ==
  \/ LoadExchangeConfig \/ Present \/ ResolveKey \/ ClaimsOf \/ PresentAgain
  \/ ExchangeCheck \/ DryKey \/ DryRun \/ CheckAgain
  \/ Serve \/ ForgetKeys \/ Tick

Spec == Init /\ [][Next]_vars

-----------------------------------------------------------------------------
(* A dry run and a request that reached their verdicts at the same moment    *)
(* say the same of one token, by whatever order of steps they got there:     *)
(* green means accepted, or refused over the account alone; red names the    *)
(* reason operation gives.  The exceptions are the key, which operation may  *)
(* still know when the provider no longer serves it, and the other way       *)
(* round, and the token of another shape, which is not this path's.          *)
SameMoment == op.at = "done" /\ dry.at = "done" /\ op.moment = dry.moment
OverTheKey ==
  \/ dry.fell = "key_available"
  \/ op.reason = KEY /\ dry.held > Len(DryEarlySteps) /\ "signature" \notin token.faults

DryRunTellsTheTruth ==
  SameMoment /\ LooksLikeJws /\ ~ OverTheKey
    => IF Passed THEN op.reason = None \/ (op.reason = ACCOUNT /\ "account" \in token.faults)
       ELSE op.reason = dry.reason

(* From its first acceptance to its last, no token works longer than the     *)
(* bound on its life and one leeway, whatever times it claims for itself.    *)
AcceptedForItsLife ==
  \A a, b \in accepted : b - a <= MAX_LIFETIME + LEEWAY

ChecksAgree == DryRunTellsTheTruth /\ AcceptedForItsLife
=====================================================================================
