----------------------------- MODULE OidcClient -----------------------------
(* The connector as a client of the OpenID provider (oauth/oidc.py), behind  *)
(* the start and the callback of a sign-in (oauth/oidc_routes.py): the       *)
(* discovery document that all requests of a process share, and the ID token *)
(* that answers one sign-in.  Enrollment.tla has the stored half of the same *)
(* sign-in, the transaction and the proof, and takes this half as a yes or   *)
(* no; KeySet.tla has the signature keys.                                    *)
EXTENDS Naturals, FiniteSets

CONSTANTS
  None,     \* no value
  Call,     \* sign-ins; each has a nonce of its own, named by the sign-in
  RETRY,    \* JWKS_FAILURE_RETRY_SECONDS
  LEEWAY,   \* _LEEWAY_SECONDS
  LIFETIME, \* how long the provider's ID tokens live
  MaxClock  \* bound of the clock

VARIABLES
  clock,
  metadata, \* the cached document: "none" or "known"
  failedAt, \* when the last failing attempt began, None before the first
  lock,     \* who holds _metadata_lock
  begun,    \* history: when attempts at the document began
  call      \* the sign-ins

vars == <<clock, metadata, failedAt, lock, begun, call>>

(* What the provider may have signed: for a client and a sign-in of its, for *)
(* audiences that client is one of; a token for this connector alone that    *)
(* another party may present names that party.                               *)
Client == {"this", "another"}
Token == {tk \in [to: Client, nonce: Call, aud: SUBSET Client \ {{}}, azp: Client \cup {None},
                  iat: 0..MaxClock] :
            /\ tk.azp \in {None, tk.to}
            /\ tk.to = "this" => "this" \in tk.aud
            /\ tk.to = "another" /\ tk.aud = {"this"} => tk.azp = "another"}

OidcClientAssumption ==
  {RETRY, LEEWAY, LIFETIME, MaxClock} \subseteq Nat /\ None \notin Call \cup Client \cup Nat

Free == [at |-> "free", next |-> "free", from |-> 0, token |-> None, until |-> 0]

TypeOK ==
  /\ clock \in 0..MaxClock /\ metadata \in {"none", "known"}
  /\ failedAt \in 0..MaxClock \cup {None} /\ lock \in Call \cup {None}
  /\ begun \subseteq 0..MaxClock
  /\ \A r \in Call :
       /\ call[r].at \in {"free", "metadata", "waiting", "locked", "discover", "away", "post",
                          "validate", "accepted", "refused"}
       /\ call[r].next \in {"free", "away", "post"} /\ call[r].from \in 0..MaxClock
       /\ call[r].token \in Token \cup {None}
  /\ \A r \in Call : call[r].at \in {"locked", "discover"} <=> lock = r

Init ==
  /\ clock = 0 /\ metadata = "none" /\ failedAt = None /\ lock = None /\ begun = {}
  /\ call = [r \in Call |-> Free]

Put(r, row) == call' = [call EXCEPT ![r] = row]
Goto(r, step) == Put(r, [call[r] EXCEPT !.at = step])
At(r, step) == call[r].at = step

Tick ==
  /\ clock < MaxClock /\ clock' = clock + 1
  /\ UNCHANGED <<metadata, failedAt, lock, begun, call>>

-----------------------------------------------------------------------------
(* The start page asks for the document before it writes a transaction, and  *)
(* the exchange of the callback asks again.                                  *)
Start(r) ==
  /\ At(r, "free") /\ Put(r, [call[r] EXCEPT !.at = "metadata", !.next = "away"])
  /\ UNCHANGED <<clock, metadata, failedAt, lock, begun>>

Callback(r) ==
  /\ At(r, "away") /\ Put(r, [call[r] EXCEPT !.at = "metadata", !.next = "post"])
  /\ UNCHANGED <<clock, metadata, failedAt, lock, begun>>

Metadata(r) ==
  /\ At(r, "metadata")
  /\ Goto(r, IF metadata = "known" THEN call[r].next ELSE "waiting")
  /\ UNCHANGED <<clock, metadata, failedAt, lock, begun>>

Lock(r) ==
  /\ At(r, "waiting") /\ lock = None /\ lock' = r /\ Goto(r, "locked")
  /\ UNCHANGED <<clock, metadata, failedAt, begun>>

(* Whoever waited finds the answer, or the failure, of the one before.       *)
OpenWindow == failedAt # None /\ clock - failedAt < RETRY
NeverWaits == FALSE
Braked == OpenWindow

Locked(r) ==
  /\ At(r, "locked")
  /\ IF metadata = "known" THEN Goto(r, call[r].next) /\ lock' = None /\ UNCHANGED begun
     ELSE IF Braked THEN Put(r, [Free EXCEPT !.at = "refused"]) /\ lock' = None /\ UNCHANGED begun
     ELSE /\ Put(r, [call[r] EXCEPT !.at = "discover", !.from = clock])
          /\ begun' = begun \cup {clock} /\ UNCHANGED lock
  /\ UNCHANGED <<clock, metadata, failedAt>>

(* A document that cannot be fetched, names another issuer or another origin *)
(* or lacks what this client needs is a failure from when the attempt began. *)
Discover(r, good) ==
  /\ At(r, "discover") /\ lock' = None
  /\ IF good THEN metadata' = "known" /\ Goto(r, call[r].next) /\ UNCHANGED failedAt
     ELSE failedAt' = call[r].from /\ Put(r, [Free EXCEPT !.at = "refused"]) /\ UNCHANGED metadata
  /\ UNCHANGED <<clock, begun>>

-----------------------------------------------------------------------------
(* exchange: the token endpoint answers with some token or with none.        *)
Exchange(r) ==
  /\ At(r, "post")
  /\ \/ Put(r, [Free EXCEPT !.at = "refused"])
     \/ \E tk \in Token : /\ tk.iat <= clock /\ call[tk.nonce].at # "free"
                          /\ Put(r, [call[r] EXCEPT !.at = "validate", !.token = tk])
  /\ UNCHANGED <<clock, metadata, failedAt, lock, begun>>

Current(tk) == clock < tk.iat + LIFETIME + LEEWAY
ForThisClient(tk) == "this" \in tk.aud
IgnoresTheParty(tk) == TRUE
NamesItsParty(tk) ==
  /\ Cardinality(tk.aud) > 1 => tk.azp # None
  /\ tk.azp # None => tk.azp = "this"
Validates(r, tk) ==
  ForThisClient(tk) /\ Current(tk) /\ tk.nonce = r /\ NamesItsParty(tk)

(* An unreadable header, a key that cannot be had, a wrong signature, issuer *)
(* or subject refuse whatever the rest says.                                 *)
ValidateIdToken(r, signed) ==
  /\ At(r, "validate")
  /\ Put(r, IF signed /\ Validates(r, call[r].token)
            THEN [call[r] EXCEPT !.at = "accepted", !.until = clock]
            ELSE [Free EXCEPT !.at = "refused"])
  /\ UNCHANGED <<clock, metadata, failedAt, lock, begun>>

Again(r) ==
  /\ call[r].at \in {"accepted", "refused"} /\ Put(r, Free)
  /\ UNCHANGED <<clock, metadata, failedAt, lock, begun>>

Next ==
  \/ Tick
  \/ \E r \in Call : \/ Start(r) \/ Callback(r) \/ Metadata(r) \/ Lock(r) \/ Locked(r)
                     \/ \E good \in BOOLEAN : Discover(r, good) \/ ValidateIdToken(r, good)
                     \/ Exchange(r) \/ Again(r)

Spec == Init /\ [][Next]_vars

-----------------------------------------------------------------------------
(* A sign-in that is accepted was answered by a token the provider gave to   *)
(* this connector, for this very sign-in and lately, whichever tokens of     *)
(* other sign-ins, parties and moments its token endpoint answers with.      *)
AcceptedIsForThisSignIn ==
  \A r \in Call : At(r, "accepted") =>
    LET tk == call[r].token IN
    tk.to = "this" /\ tk.nonce = r /\ call[r].until - tk.iat < LIFETIME + LEEWAY

(* However many sign-ins find no document, attempts at it begin no closer    *)
(* together than the window of a failure.                                    *)
DiscoveryIsSpaced == \A s, t \in begun : s < t => t - s >= RETRY
=============================================================================
