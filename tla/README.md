# Nextcloud MCP connector: specification, model checks and proofs

These modules specify the connector: its own OAuth 2.1 authorization server, the
custody of the app passwords it collects from Nextcloud, its audit log, the
exchange of foreign tokens, and the services around them down to the tools that
read and write in several requests. TLC checks all of them on small instances;
TLAPS proves every safety property of the token chain (that it implements its
abstract specification among them), of the sign-in and of the audit log, and the
promises of the enrollment, of the exchange path, of the sign-in at the identity
provider, of the two checks an administrator runs and of ten of the smaller services, for instances
of every size. Paths below are relative to `src/src/mcp_connector/`.

## 1. Inventory

| Component | State it keeps | Operations | What is hard |
|---|---|---|---|
| Token chain (`oauth/provider.py`, `oauth/store.py`, `oauth/verifier.py`, `exapp/middleware.py`) | rows `authorizations`, `auth_codes`, `refresh_tokens`, `access_tokens`; held answers and verified bearers per worker | code exchange, rotation, retry, replay, revoke, disconnect, verify | several workers on one SQLite file; each store method is one transaction and every other step an `await` |
| Sign-in and consent (`oauth/consent.py`, `oauth/loginflow.py`, `oauth/connections.py`, `exapp/purge.py`) | rows `clients`, `flows`, `authorizations`; the login flow and the app password at Nextcloud | authorize, consent page, approve, deny, pause, three sweeps, expiry of a registration, purge | a poll is answered once; a call to Nextcloud stands between two transactions; a stored password that cannot be read back; cascades |
| Audit log (`audit/`, `exapp/audit_verify.py`, start-up in `entry_exapp.py`) | one table of hash-chained rows in a second file; a brake per process | record a call, a refusal, the switch; sweep; drop a chain; check | batches commit one by one; the clock may step back; markers are absorbed and rewritten |
| Enrollment of exchange accounts (`oauth/exchange_enroll.py`, `exchange_accounts.py`, `exchange_binding.py`, `oidc_routes.py`) | holding rows and bindings that share one app password; OIDC transactions and browser proofs | begin, confirm, settle, resume, revoke, two sweeps | two settlements at once; a resumed one; a callback twice, late, in another browser |
| Token exchange chain (`oauth/chain.py`, `exchange.py`, `jwks.py`, `mapping.py`, `exchange_appapi.py`, `exchange_dryrun.py`) | a key cache, a list of accounts, a brake and a lock for each | verify by kind of bearer, map, ask the account source, dry run | a key withdrawn during a fetch; a revocation that empties the cache; calls that queue |
| OIDC client (`oauth/oidc.py`) | the discovery document, its brake and its lock | discover, exchange a code, validate an ID token | attempts pile up while the provider is away; tokens of other parties and sign-ins |
| Client metadata documents (`oauth/cimd.py`) | a cached row per document with its deadline | fetch, register, serve from the row | names resolve anew; two lookups at once; the document changes; an answer has no deadline as a whole |
| Browser onboarding (`oauth/connect.py`, `browser_identity.py`) | one record per login flow | start, wait, cancel, expire | two waiting pages poll a flow that answers once |
| Throttle (`oauth/throttle.py`) | counters per source, class and path | ask, record, forgive, sweep | ask and record on both sides of an `await`; a full table |
| Tag exclusion (`nextcloud/exclusion.py`, `exclusion_audit.py`, `tools/withhold.py`) | tag ids per user for a minute; the scope of one call | scope, filter, refuse; the administrator's diagnosis | the answer to filter is fetched beside the tags; people move and tag meanwhile |
| ExApp shell (`entry_exapp.py`, `exapp/lifecycle.py`, `config_values.py`, `admin_settings.py`, `middleware.py`, `auth.py`) | settings at Nextcloud, the process's own copy | start, enable, disable, store a setting, handshake | the settings cannot be read before the first enable |
| Standalone server and configuration (`entry_oauth.py`, `entry_http.py`, `entry_stdio.py`, `deps.py`, `config.py`) | none that outlives a call | choose a mode, find the credentials of a call | four entry points, three kinds of credential |
| Data key (`oauth/crypto.py`, `oauth/store.py`) | one key, at Nextcloud or in a mounted file | make, check, replace, seal, open | processes that make a key together |
| Document extraction (`documents/`) | two slots, one subprocess each | convert, cut, kill | deadline, crash, cancellation; cuts that must be named |
| Tools and clients (`tools/`, `nextcloud/clients/`, `paging.py`) | none between calls; staged chunks at Nextcloud | windows, uploads, bundles, writes by name | people write between two requests |
| Account page (`oauth/connections.py`, `exapp/ui/`) | none; form values with a lifetime | end, pause, resume | several tabs, stale forms |

Interaction: the consent page writes the connection and its code in the store;
the token endpoint spends the code and rotates tokens; the verifier answers a
tool call from the tokens, and the middleware reads the connection row once more
per call. Ending a connection, from any side, revokes tokens and row, clears the
caches of its own process (the key cache of the exchange path among them) and
hands the app password back to Nextcloud. The audit log is written after a tool
call and on a refused exchange, never read by either. The enrollment leaves
bindings, which the exchange path reads as one of its two account sources; the
sweep of idle registrations reaches the reserved client all bindings live under.

What makes them correct: one spendable token per connection and no admission
after an end; no app password that nobody records; one decision per sign-in; an
audit table whose gaps are all explained, counted and never invented; nothing
withdrawn is accepted for longer than a cache may say otherwise; nothing tagged
is shown; nothing is written over or cut off without a word.

## 2. Modules

| Module | Role |
|---|---|
| `CredentialChain` | what clients may rely on: a connection is new, open or over, has at most one token that can be spent, and never reuses one |
| `ConnectionTokens` | the token chain as the code runs it |
| `ConnectionTokensProofs` | theorems about it: types, the chain and admissions; answers, notes and ends; the refinement of `CredentialChain` |
| `SignIn` | the life of an app password, from the sign-in to the hand-back |
| `SignInProofs` | theorems about it: types and decisions; where the password is, and what a decision leaves |
| `AuditLog`, `AuditLogProofs` | the audit table, its sweeps, the account check, the check of the chains; theorems about them |
| `Enrollment`, `EnrollmentProofs` | a flow, its holding row, the transaction and proof of the browser sign-in, and the binding; theorems about it |
| `KeySet`, `ExchangeCall`, `ExchangeCallProofs` | the key cache of one issuer; a tool call with a foreign bearer, from the shape of its token to the pause switch; theorems about both |
| `TokenChecks` | the rules of an exchanged token beside the dry run that repeats them in its own code; its theorem is in `ExchangeCallProofs` |
| `OidcClient` | the discovery document and the rules of an ID token |
| `ClientDocuments` | the lookup of a client by its document |
| `Onboarding` | an app password for a client that cannot sign in itself |
| `Throttle` | the counters around a request |
| `TagExclusion`, `ExclusionProofs` | the guard of a tool call under moving and tagging; theorems about it |
| `TagCheck` | the administrator's diagnosis; its theorem is in `ExclusionProofs` |
| `FileWrites` | conditional writes to one path, uploads in chunks, lost answers |
| `ToolWrites` | a row, a message, an event: looked up by a name and written by an id |
| `Paging` | every tool that answers in windows, and a caller who follows its handles |
| `Bundle` | `prepare_context`: four legs, their budgets, caps and failures |
| `Extraction` | slots, subprocesses, deadlines and cuts of a conversion; its theorem is in `PartsProofs` |
| `DataKey` | how processes agree on one key |
| `Deployment` | the container, its settings, the enable call and its restart |
| `RequestPath` | whose account a call acts on, at four entry points |
| `AccountPage` | form values, buttons and tabs |
| `MCConnectionTokens`, `MCSignIn`, `MCSignInScenes`, `MCAuditLog`, `MCEnrollment`, `MCBundle` | small instances of one module; `MCSignInScenes` is two of `SignIn`, of which a behaviour runs one |
| `PartsProofs` | theorems about `Throttle`, `DataKey`, `Onboarding`, `Deployment`, `RequestPath`, `AccountPage`, `ToolWrites`, `FileWrites`, `ClientDocuments`, `OidcClient` and `Extraction`, one instance of each |
| `MCServices` | instances of the eighteen components below `AuditLog` in this list; those with theorems are instances of their proof modules |
| `ServicesProofs` | what the theorems about the parts say of `MCServices` itself |

How to read them against the code:

* **Steps.** A store method (`BEGIN IMMEDIATE ... COMMIT`) is one action; the code
  between two of them runs in the step it precedes. `pc[r]` (in `AuditLog`:
  `task[t].step`, elsewhere often `call[r].at`) says which call of its method a
  request runs next, `job[r]` holds its local variables, for instance the moment
  it read at its start and uses throughout. Locals that are no longer read are reset.
* **Awaits.** Within one process a step ends at an `await`; what a function reads
  before it and uses after it is a local. A lock (`asyncio.Lock`) is a variable that
  names its holder.
* **Rows.** A row has a `state`; `"gone"` is a deleted row, `"none"` one never
  written. `ConnectionTokens!Purged` is the clean-up of expired rows that the
  insert of a token performs in the same transaction. Foreign keys and their
  cascades are in the actions that delete (`SignIn!ExpireClient`, `PurgeWipe`), and
  `SignIn!Referenced` states them.
* **Processes.** `WorkerOf` binds requests to processes; a crash takes all requests,
  held answers and verified bearers of one of them. `SignIn`, `Enrollment` and
  `Onboarding` keep no state in a process, so there a crash takes a single request.
* **Nextcloud.** Only its answers are modelled: the login flow that is polled once,
  the app password it keeps or takes back, its accounts, files, tags and settings.
  Any call may fail or its answer be lost where the scenario says so. A list that is read
  for a cache (keys, accounts, a client document) is answered in one step and arrives in a
  later one, however much later. What other
  people do there (rename, tag, move, write) is an action of its own with a
  bounded number of changes.
* **Audit rows.** A hash is represented by the number of its row, because numbers
  come from AUTOINCREMENT and are never reused; a row whose content was altered is
  one that is not `whole`. Sizes are counted in rows. Instance rows carry no
  moment, as no statement that acts reads one.
* **History variables** (`granted`, `asked`, `unseen`, `claims`, `gone`, `unsaid`,
  `drops`, `torn`, `misused`, `begun`, `withdrawn`, `vanished`, `owed`, `replaced`,
  `meant`, `contacted`, `accepted`, `mishap` and the like) are read by properties
  only; no guard of a code action reads them. (The bound of one manipulation at a
  time reads `torn`; the bounded number of changes reads `changes`.)
* **Variants.** Beside some definitions stands a second one with the same
  parameters, for instance `ServeStale` beside `RefuseAfterFailure`: what the code
  would do with a plausible mistake in it. No specification uses one; each is there
  to see that a property notices.

## 3. Runs

| Run | What it asks | Bounds, and why they are enough |
|---|---|---|
| `tokens_rotation` | one spendable token, one family, one answer per rotation, ends are final, the store implements `CredentialChain` | one connection, two workers with one request each, three refresh tokens: a rotation, a competing or late rotation and a successor of either; both workers may die |
| `tokens_ending` | no late admission, the password is returned or noted, a dead family ends its connection, a replay after the window ends it | two tokens; two workers with one request each, so that an end in one process meets a tool call or a replay in the other, whose verified bearers it cannot clear; no retry window, so that every second use is a replay |
| `tokens_clock` | the retry window across the turn of a second (violated) | two rotations of one token |
| `signin` | no password is forgotten; one decision, what it granted stays, what it refused goes | two sign-ins, two requests, in two scenes whose product adds states and no question: each operation and fault under a registration that can expire; two presses, the pause switch and a sweep under one that stays, fair and without faults |
| `signin_expiry` | the silent case of an expiring registration (violated) | one sign-in, one sweep |
| `signin_notes` | that a sweep finds a noted row (violated) | one connection, one crash |
| `audit_sweep` | gaps are explained, counted, bounded; refusals counted; manipulations found | two tasks, six row numbers, a sweep at every second number and the account check at every fourth, batches of two rows, a clock of two values; four scenarios, one per question, because their product adds states and no interplay: account check, restart and failures; calls beside refusals; refusals beside failures and restarts; checks beside one manipulation |
| `audit_alarm` | an honest check beside a sweep (violated) | the same table |
| `services` | each component around the authorization server, see below | 27 instances, 2.5 million states together |
| `bundle_skipped` | that hits the search could not use are told (violated) | one provider, two hits, one of a file the lookup does not find |
| `enroll_idle` | that only its owner's revocation or the purge ends a binding (violated) | one binding, a sweep, a clock that outlives an idle registration |
| `enroll_twice` | that an account has one living binding (violated) | two enrollments of one account, no fault |

Lifetimes of 1 or 2 time units keep the order of the code's constants wherever two
of them are compared (the silence before an account check is shorter than the
retention; a rotation window shorter than a token; the brake of a failed fetch no
longer than the key cache). The moment of a row, the moment of a request and the
clock differ by at most the clock's bound; two or three values give every sign of
every comparison.

`CHECK_DEADLOCK FALSE` appears in the token, sign-in, enrollment and services runs:
their tokens, sign-ins, changes and clocks are finite, and after the last one nothing
is left to do. The audit runs check deadlock.

**Fairness.** `ConnectionTokens!FairSpec`, and the second scene of
`MCSignInScenes`, add weak fairness of `Advance(r)`: a request that was
accepted is driven to its end by the event loop, and every store call either
returns or fails after its busy timeout. Nothing is assumed of users, clocks,
Nextcloud's answers (a failed answer is also a step) or of a choice among
requests. The runs with leads-to properties have no crash: no code promises
that a dead process finishes.

### The services run

The components of `MCServices` share no state: they meet Nextcloud and the caller,
not each other. So one behaviour runs one of them (`part`, chosen in the initial state),
and the slots `v1` to `v17` are the variables of whichever it is. Each instance is
chosen for one question:

| Part | Instance |
|---|---|
| enrollment, two sign-ins | one flow, the owner's browser and another user's; first with every fault (an unreadable password among them), crashes and sweeps, then with two transactions and none |
| keys, accounts | two calls, one key that is withdrawn and an invented one, revocations that empty the cache; two accounts that vanish or pause under both account sources |
| throttle, throttle all | two sources and two classes at a table of four and three counters, a path ceiling of three |
| tags, tagged writes | a folder with a file, two spellings, every question a tool asks; two writes of one user beside each other |
| files | a creation or an upload in three chunks beside an update or an attachment; lost requests and answers |
| pages | every windowed tool over up to six entries, windows up to three, a search bound of five |
| search bundle, bundle, broken bundle | hits of every kind and need, and with every flaw for which the search drops one; every source up or down; a leg that ends in an error nobody foresaw |
| documents | two lookups, two return addresses, three seconds, and one change of the document, the name service or the registration rules; an answer may take all that time |
| onboarding | two flows, two waiting pages, a pause, a cancel, a crash |
| first key, key file | two processes over an empty store, three over a mounted key that is replaced, a purge |
| conversions | three calls, two slots, files at, above and below every limit |
| token checks, tag check | a token with each single fault, under each setting; two tags, three accounts of every role |
| rows and messages, events | two calls and one rename, doubling or removal by other people |
| deployment | every combination of deploy variables and two changes of the settings |
| requests | every entry point, credential and header, two people |
| account page, two tabs | one tab over three hours; two tabs at once |
| discovery | two sign-ins that wait for the provider, and tokens for every party |

A property of this run is the conjunction of what its components promise under one
heading, and each conjunct stands alone in its component's module:

| Property | Promises |
|---|---|
| `PasswordsAreAccounted` | `Enrollment!Accounted`, `Onboarding!ShownOnceOrReturned` |
| `OnlyTheOwnerActs` | `Enrollment!BoundByItsOwner`, `RequestPath!ActsForItsCaller`, `AccountPage!OnlyWhatWasOffered` and `DoneIsDone` |
| `SignInsAreEarned` | `Enrollment!OneSignInOneBinding`, `OidcClient!AcceptedIsForThisSignIn` |
| `KeptUntilEnded` | `Enrollment!EndsNoLivingBinding` of every step |
| `NothingWithdrawnIsAccepted` | `ExchangeCall!PassesUnderALivingKey`, `PassesForALivingAccount` of every step |
| `RequestsAreBounded` | `KeySet!BeginsAfterAPause` of every step, `Throttle!BurstIsBounded`, `OidcClient!DiscoveryIsSpaced` |
| `SettingsApply` | `Deployment!SettingsApply` |
| `TaggedStaysWithheld` | `TagExclusion!TaggedStaysWithheld` |
| `WritesAreSafe` | `FileWrites!NoLostUpdate`, `ToolWrites!WritesWhatWasMeant` |
| `TransfersAreWhole` | `Paging!EachOnce`, `CompleteOrSaysSo`, `NeverCircles`, `FileWrites!UploadsAreWhole` |
| `NothingVanishes` | `Bundle!NothingVanishes` |
| `DocumentsAreBounded` | `ClientDocuments!DocumentsAreBounded` |
| `OneKeyOpens` | `DataKey!OneKeyOpens` |
| `ConversionsAreHonest` | `Extraction!ConversionsAreHonest` |
| `ChecksTellTheTruth` | `TokenChecks!ChecksAgree`, `TagCheck!CheckTellsTheTruth` |

So that no conjunct hides behind another, each of these properties was also seen
violated with a variant in each component it speaks of, thirty-six variants in
all (`BindElseDrop`, `RefusedOutright`, `SamePrincipalLoose`, `ForTheHandle`,
`NeedsBearerAlways`, `SpentIfMine`, `SpendNothing`, `IgnoresTheParty`,
`ExceptedNobody`, `ServeStale`, `WithOldList`, `FreshBrakes`, `PayAll`, `NeverWaits`,
`DiffersInTheAddress`, `DiffersFromTheVariables`, `KeptForGood`, `ExcludesByName`,
`MatchesAnything`, `AddsUpAnyhow`, `FirstOfTitle`, `NeededForTheWindow`,
`BehindTheRange`, `MoreByTheCounter`, `FoldedAway`, `CutsSilent`, `TargetByName`,
`CachedAsAsked`, `TrustsItsOwn`, `VouchesUnseen`, `LeaveIt`, `CutWithoutAWord`,
`DryWithoutAge`, `AgeIgnored`, `TwoHundredIsEnough`, `WithoutWhatRanOut`).

### What the runs show

The properties hold in the passing runs. Seven statements of the repository do not
agree with the code, and each has a run:

* `RetryIsNoAttack`: the moment of a rotation is read before its token is redeemed.
  If another worker redeems it later by the clock and first by the store, the retry is
  judged to come from the past, and the connection is ended.
* `PasswordAccounted`: an expiring registration lists its connections once and then
  deletes itself with a cascade. A sign-in that writes its row in between is
  deleted with it, and its app password stays valid with no record.
* `NotedIsSwept`: a clean-up note is said to be what the sweep acts on, but the sweep
  skips revoked rows, and a noted row is always revoked.
* `CheckIsHonest`: the check of the audit chains reads explained gaps and chains in
  separate statements. A sweep in between makes it report missing rows in a table
  nobody touched.
* `OnlyItsOwnerEnds`: all bindings live under one reserved registration, which only an
  enrollment touches. After `IDLE_CLIENT_TTL` without one, the sweep of idle
  registrations hands back the app password of every binding and deletes it, however
  often it was used.
* `OneLivingBinding`: the settlement asks for an older binding and writes its own in a
  later transaction. Two settlements of one account that both ask first both live.
* `SkippedIsTold`: the search drops the hits it cannot use and counts them, so that the answer
  can say so. `prepare_context` takes the hits and the failures of that answer and leaves the
  count, so its bundle is shorter and says nothing. `NothingVanishes` holds for everything
  else.

`LostOnlyUnseen` is the positive side of the second: apart from a dead owner, a lost
answer, an unreadable list, a password that cannot be read back and a row written behind a
listing, nothing loses a password. `KeptUntilEnded` and `PasswordsAreAccounted` are the
positive side of the two about enrollments.

Reading for the models also turned up differences that are too small for a run, or
lie outside what the properties tell apart. They are recorded here:

* The comment above `JWKS_FAILURE_RETRY_SECONDS` (`oauth/jwks.py:82`) says "after a failed fetch";
  the stamp is the moment the attempt *began*, so the pause is shorter by the time an
  attempt takes. `oauth/oidc.py` does the same. The models stamp the beginning, as the
  code does.
* A fetch of the key set that is in flight when a revocation calls `forget()` installs
  its keys afterwards. They are as old as that fetch, which is why
  `WithdrawnKeyIsRefused` still holds.
* The comment at `oauth/exchange_enroll.py:371-374` says why a holding row is deleted and never
  revoked: the fresh binding shares its password. When that delete fails, a second
  settlement of the same flow finds the first one's binding as "the older one" and hands the
  shared password back after all (`:344-349`). `KeptUntilEnded` excepts exactly this: the
  holding row still stands, or a second settlement is under way.
* `resolve_identity` documents a reason for account sources that raise; none does.
* `files_read` with a `max_bytes` that holds no whole character is refused and leaves the
  caller where it is, so a caller that insists on it does not get on. `NeverCircles` is about
  handles, of which there is none in that answer.
* A folder moved between the tag report and the answer shows its children once; a new
  spelling of the tag is unseen until the cached ids expire; a file that changes from one
  spelling of the tag to another between the REPORTs of the two is in neither. All three are
  inside what `TaggedStaysWithheld` allows, and the property names them.
* `prepare_context` drops the cursor of the search, as it drops the count of the skipped hits.
* A mail account without a usable number is not asked and not named (`_accounts`): `Account` is the
  set of those that can be asked.
* An app password that cannot be read back is logged and its row deleted, in both sweeps, in a denial
  and in a purge, and at the expiry of a registration. Nextcloud is not asked, and the log line names no
  account. The two custody properties except it (`unseen`).
* The account list is stamped when its answer has arrived (`oauth/exchange_appapi.py:144`), the key set when
  its fetch began (`oauth/jwks.py:288`). An account removed while the answer was on its way
  acts for `ACCOUNT_CACHE_TTL` after the arrival, a little longer than the minute the comment above the
  constant speaks of (`:33-35`).
* The fetch of a client document has a timeout for each read and a limit of its size, and no
  deadline (`oauth/cimd.py:349`); its row is stamped when the body is complete. So a document that
  arrives slowly is served for one lifetime from its last byte.
* Of two mails of one second at a page border the second is skipped, as `mail_browse` documents;
  `Paging!Due` excepts exactly that.
* Cancelling an onboarding while its page waits still shows the credential.
* Of two overlapping fetches of a client document the older may be kept. Its lifetime
  is counted from its own fetch, so `DocumentsAreBounded` holds.
* A table of a document says when it cuts columns past `MAX_COLS`, a sheet of a workbook cuts
  them without a word (`docs/dependency-audit.md:281` names the limit). `CutIsSaid` excepts
  this one cut by name.
* `config_values.py:249-251` says the process restarts once if settings differ; an address
  with a query (`tests/unit/test_exapp_config_values.py:583`) differs for ever, and each
  enable restarts it. A deployment with the exchange on and an unusable address ends with
  exit code 2 at every start.
* In the ExApp a purge deletes the data key while processes go on sealing with the
  copy they hold; `OneKeyOpens` names this exception.
* Two tabs that end one connection are both told it is done.

## 4. Proofs

`ConnectionTokensProofs` assumes only `ConstantsAssumption` (bounds are naturals,
`None` is none of the other values, requests have a worker) and proves, for any
number of connections, families, tokens, workers and requests:

* `TypeCorrect` (`TypeOK`). Types alone are not inductive: a step at
  `"redeem"` reads the row its request was shown. So `TypeOK` includes `Bound` (a
  written row names a connection and a family) and `JobBound` (a step runs only with
  the locals it reads).
* `ChainHolds` (`ChainInv`, which contains `SingleBranch` and `OneFamily`). Why one
  token is spendable: a code that can still be spent has no tokens yet and nobody about to
  write one (`CodeComesFirst`); whoever writes the first token is alone and first
  (`FirstIsAlone`); a rotation writes beside the row it spent
  (`WritesBesideItsRow`); every access token stands beside a refresh token of
  its family (`AccessBesideRefresh`).
* `EndsAreFinal` (`EndIsFinal`): by `TypeOK`, step by step.
* `NobodyIsLate` (`NoLateAdmission`), by `AdmissionInv`: a bearer presented after the
  end belongs to an ended connection, which stays ended until the row is read again.

Answers, notes and ends go on from there:

* `FamiliesAreConnections` (`OneFamily`), which `ChainInv` contains.
* `OneAnswerPerToken` (`GraceRepeatsTheAnswer`). Answers are given in two ways, by the
  rotation and by a retry that finds the answer its worker still holds. `AnswerInv` speaks of both at once: an answer, given or held, is that of a spent
  row and names the successor in it, two of one row are equal, and a rotation on its way
  to its answer is the only one and unanswered. A settled row never gets another
  successor (`SettledStep`); a judge answers only what its worker holds (`JudgeRepeats`).
* `NotesAreHonest` (`NoteIsHonest`), by `NoteInv`: whoever is about to clear a note does so
  after Nextcloud took the password back.
* `DeadFamiliesAreEnded` and `EndsAreAccounted` (`DeadFamilyIsEnded`, `EndedIsAccounted`)
  carry the hypothesis `~Crashes`, as the code makes no such promise to a process that
  dies between revoking a family and ending its row. `EndInv` names, for every step of an
  ending, what is left to do and who does it: a revoked token belongs to a connection that is
  over, or some request stands before ending it, and a revoked connection's password is
  back, noted, or some request stands before noting it.

`TheChainIsImplemented` (`ImplementsChain`) is the refinement: the initial states
map to initial states, and each step extends one chain (`RedeemExtends`, `FirstExtends`,
with others perhaps ending beside it in the clean-up of the same transaction), ends some (`EndsSome`),
or stutters (`QuietStays`). The chain cannot be extended twice from one tip because of
`ChainInv`, and a reused number is excluded by rows that stay written.

`SignInProofs` assumes `SignInAssumption` (bounds are naturals, ids are
none of the other values, operations are known) and proves, for any number of sign-ins,
registrations, connections and requests, with every fault and crash:

* `SignInTypeCorrect` (`TypeOK`). `TypeInv` adds to it what a step needs of its locals
  (`JobBound`). Its hardest conjunct is `Referenced`: a registration deletes its rows with
  itself, so no row of a gone one may be written later (`TablesStep`).
* `DecidedOnce` (`OneDecision`). "At most one winner" is not inductive: a second press must
  be shown to find nothing. `DecisionInv` adds that a decided sign-in has no flow row.
  Winning takes an open row in the transaction that deletes it (`StepsDecideOnce`), and
  no creation, clean-up or sweep brings a row back (`RowsStayGone`, `QuietSteps`).
* `PasswordsLostOnlyUnseen` (`LostOnlyUnseen`), by `CustodyInv`. A collected password is in
  one request's hands (`CollectedOnce`), in a row, or known: asked back or lost to one of the
  named faults, among them a row that cannot be read back (`InCustody`). What a request is about to delete was asked back before, is
  still listed to be, or was written behind its listing (`Deleting`): one conjunct for
  each of decision, sweep and purge. The id of a new sign-in is drawn at random, so no
  two requests start one flow (`FreshId`).
* `GrantedStays` (`GrantedIsKept`), by `GrantInv`. A sign-in that was refused or abandoned is
  `Settled`: its flow is gone and it has neither code nor token, and it never comes by one
  again, since a code takes an open flow and a token takes a code or a token. Whatever a
  refusal or a sweep has in hand is settled (`OnFlow`).

`AuditLogProofs` assumes `AuditAssumption` (the three kinds of chain are told apart, there are
finitely many accounts and their names have an order, a batch has at least one row) and
proves, for any number of accounts, tasks and rows and any size of a batch:

* `NoFalseAlarm` (`Linked`). "No finding" is not inductive: a sweep absorbs the markers at the
  end of the register, and the head of a chain must still be explained when the marker
  that explained it is gone. `AllFit` says that the head attaches to nothing or to the end that the
  *newest* marker of its chain names; markers behind the last switch are newer than all
  others, so the one that takes their place carries that end on. `BatchFits` is this
  argument, together with the numbers of the new markers, which follow each other
  without a hole (`PlacesFollow`); what a batch counts off is what its removal takes
  (`BatchIsLost`), and that is the beginning of its chains (`FirstOfTheirChains`). An
  altered row keeps its place, so the table is linked again once it was swept.
* `DamageIsNamed` (`ManipulationIsFound`), by `DamageInv`. Numbers are given once: a
  number torn out is never a row's again, nor the end of a marker, old or new, so no gap a check
  read explains it. Every damaged row a check knows of lies in a chain it has yet to read
  or has reported (`Checks`); what is written beside it is whole and attaches to rows that
  are there (`StepsWrite`, `Written`).
* `RetentionKeepsTheYoung` and `SweepsGainGround` (`YoungRowsStay`, `SweepGainsGround`), from what
  one batch takes (`SweepsTake`).
* `MarkersSumUp` (`GapsAreCounted`). The count in the markers of a chain is a sum over a set,
  which the library defines by choosing its members one after the other. `TotalSplits` shows
  that the order does not matter for the sets at hand: a batch absorbs whole markers
  and writes one of what they counted and what it took. `GapInv` needs `GoneInv` beside it:
  a chain has given up and still has no more rows than numbers were given.
* `RegisterStaysSmall` (`RegisterIsBounded`). The bound alone is not inductive, as a switch
  leaves the markers behind the last one where they are: `RegisterInv` bounds the markers
  *before* the last switch too, by one per switch and chain.
* `EveryRefusalIsCounted` (`RefusalsAreCounted`), by `RefusalInv`, where what the tasks owe is a
  sum over tasks of which a step changes one, and by `DownInv`: while nothing runs, no
  task owes anything. Its hypothesis `IsFiniteSet(Task)` is what makes it a sum at all.
* `LogTypeCorrect` (`TypeOK`), under the same hypothesis, by all of these together: that a
  number lies within its bound is what a marker counts.

`ExchangeCallProofs` assumes `ExchangeCallAssumption` (lifetimes are naturals, a failed
fetch is braked for no longer than keys are cached, genuine tokens name a key of the
issuer) and proves, for any number of calls, keys, tokens and accounts:

* `NothingWithdrawnPasses` (`WithdrawnKeyIsRefused`). The action property needs to know what
  a cache is worth: `KeysInv` says that a cached key withdrawn since was still
  published when its fetch began, and the same of an answer on its way. A call reaches its
  identity by a verdict alone (`OnlyLivingKeysPass`), with an answer of that cache or the keys of
  the fetch whose end it waited for.
* `NobodyRemovedActs` (`RemovedAccountIsRefused`), by the same argument for the list of
  accounts (`AccountsInv`). The list is stamped on arrival, so an account may act for one lifetime
  and for as long as the answer was on its way, which is the time between the two stamps.
* `PausesAreKept` (`FetchesAreSpaced`). The pause is kept by two stamps and a lock, none of
  which suffices alone: `PauseInv` says that the last fetch of a branch is under way, or
  its moment stands in the cache or in the stamp of a failure, where the next call
  meets it. A revocation empties the cache, and only then, after a success, is the
  next fetch free.
* `DryRunsTellTheTruth` (`TokenChecks!ChecksAgree`, under `TokenChecksAssumption`: the faults of a
  token are known ones, times are integers, limits naturals). Operation and dry run are two lists
  of rules, with one group in another order. A verdict is the first rule of its list
  that a token breaks (`FirstIn`), and the lists lead to one reason: before the key
  (`SameEarly`) and after it (`SameLate`), whatever set of rules is broken. `ChecksInv` carries
  the verdict of each side with the moment it was reached at (`Judged`, `Tried`): only
  the two ages and the standard claims depend on that moment, and they are asked
  after the key, where the clock is read (`Timeless`).

`ExclusionProofs` assumes `TagExclusionAssumption` (finitely many files, none inside itself at the start,
`None` is none of the other values, times are naturals) and proves, for any such tree, any spellings,
ids, calls and changes:

* `TaggedIsWithheld` (`TaggedStaysWithheld`). The proof has two layers. The first is about
  trees: while no folder lies inside itself (`Placing`), there is one way home from every file
  (`OneWay`, `SomeWay`), the recursive `PathIn` *is* that way (`PathIsTheWay`), and one file lies over another
  where it stands on its way (`OverIsOnTheWay`, `OverGoesOn`). So what the guard does on paths says
  something about folders, and a move that is no descent into oneself keeps the order
  (`Moved`). This much induction is over finite sets of files, by a smallest member.
  The second layer is `Inv`. What is withheld at the end must have been *promised* at each
  station before: the ids in the cache cover every spelling older than the moment they were
  fetched less the flight's budget (`CacheRight`, `Covers`); the ids a call works with name each
  spelling it still owes an answer for, alive or deleted since (`Promised`, `Named`); each has
  its REPORT outstanding, says the tag is gone, or names the file or a folder above it
  (`Reported`); and the scope holds one of those with its path (`Withholds`). What other people
  do meanwhile only takes from what is owed (`WithdrawnGrows`, `WorldMoves`), which is where
  the three exceptions of the property enter: a spelling younger than the cache's
  lifetime and the budget, a file that moved while the call ran, and one tagged in one
  spelling and freed of another between the REPORTs of the two.
* `DiagnosesTellTheTruth` (`TagCheck!CheckTellsTheTruth`, under `TagCheckAssumption`: accounts are
  numbered, an unknown count is no number). While the tags are as they were when the check
  began, the listing it goes by is what its account sees, and each count it has is the
  number of items (`Knows`); it goes by all tags only when the member list named its
  account (`Stages`). The two sums of the verdict are sums over the tags of the listing,
  equal summand by summand to those over the instance (`SumsAgree`).

`EnrollmentProofs` assumes `EnrollmentAssumption` (lifetimes and bounds are naturals, `None` is
none of the ids) and proves, for any number of enrollments, browsers, transactions and
requests, with every fault and crash:

* `NoRowIsOrphaned` (`TypeOK`), by `TypeInv`, which says what a step needs of its locals
  (`JobBound`) and that no row refers to one that is gone (`Referenced`).
* `NoPasswordIsForgotten` (`Accounted`), by `CustodyInv`. A holding row and a binding share one
  password, so "it is in a row" is not enough: what a request is about to delete was given
  up before (asked back, or found unreadable), is gone, or has the other row beside it (`DroppedInv`). Who collected the
  password is alone with it until it is written (`CollectedInv`), and what a sweep has
  listed stays written until its turn, or is gone.
* `NoLivingBindingIsEnded` (`KeptUntilEnded`), an action property, from the same invariant: a step
  that ends a binding, or hands its password back, is the withdrawal, the settlement that
  replaces it or the expiry of the reserved client.
* `OnlyTheOwnerBinds` and `ASignInBindsOnce` (`BoundByItsOwner`, `OneSignInOneBinding`), by `EarnedInv`:
  what a transaction, a proof and a request carry of the sign-in at each station between the
  callback and the binding, and that only one of them carries it.

`PartsProofs` has one instance of each of eleven services, and for each of them an invariant:

* `NoBurstGetsPast` (`Throttle!BurstIsBounded`), by `ThrottleInv`. Asking and recording stand on both
  sides of the request, so a counter may exceed its limit; the invariant leaves room in
  each running counter for every request that is being served under it. Hypothesis
  `IsFiniteSet(Request)`: the bound is the number of requests.
* `RowsStayReadable` (`DataKey!OneKeyOpens`), by `DataKeyInv`: whoever has read a key has the one that
  is kept, or one that was taken away; with a key file, whoever opened has the recorded
  one, and until there is one all rows are of one key. Hypothesis `IsFiniteSet(Key)`:
  the initial rows are of one key at most, which the model says by their number.
* `PasswordsAreShownOnce` (`Onboarding!ShownOnceOrReturned`), by `OnboardingInv`: one wait at most holds
  the password of a flow, and while it does, nobody has seen it.
* `StoredSettingsApply` (`Deployment!SettingsApply`), by `DeploymentInv`: what a process has in force, by
  how far its start has come and by whether it could read what is stored.
* `CallsActForTheirCaller` (`RequestPath!ActsForItsCaller`), by `RequestInv`: what the guard, the
  credentials inside and the row behind know of a request, station by station.
* `FormsDoWhatTheyOffered` (`AccountPage!OnlyWhatWasOffered`, `DoneIsDone`), by `PageInv`: what was
  offered stays offered, and an ended connection stays ended; so what a tab has found out
  holds on whatever the other tabs do.
* `WritesGoWhereTheyWereMeant` (`ToolWrites!WritesWhatWasMeant`), by `WritesInv`: the places of a write
  were looked up at one moment of its call, and nothing is forgotten of what its words
  meant at any moment of it.
* `NoUpdateIsLost` (`FileWrites!NoLostUpdate`), which is inductive: the comparison is Nextcloud's, in
  the moment of the write, and a tool that creates demands that nothing is there.
* `DocumentsStayBounded` (`ClientDocuments!DocumentsAreBounded`), by `DocumentsInv`: each address of a
  document on its way, of the cached row and of an answer given stood in the document when it was
  asked for, which no later change undoes (`NamedSince`, `KnownForGood`); and a row is served for
  one lifetime from its stamp, or to the request that has fetched for itself.
* `NobodyElsesTokenSignsIn` (`OidcClient!AcceptedIsForThisSignIn`): which of the tokens the provider
  may have signed pass the audience and party rules is a lemma of its own
  (`OnlyOurOwnTokens`).
* `TheProviderIsAskedSparingly` (`OidcClient!DiscoveryIsSpaced`), by `BrakeInv`: without a document, the
  last attempt either runs, alone, or stands in the brake.
* `ConversionsStayHonest` (`Extraction!ConversionsAreHonest`, under `ExtractionAssumption`: every limit is
  at least one and the documents are documents). The slots are `SlotsAreKept`: whoever converts or
  has a file in memory is among those that hold a slot (`CallIsRight`), and there are never
  more of these than the limit (`FewerHold`, `OneMoreHolds`). The texts are an induction of their
  own, in two layers and without a bound. What a converter writes of a page, a block, a
  sheet or a slide shows what is counted of it, or one of its lines names a cut
  (`UnitShows`, by `Joined` and `TableOwns` from its lines). A text that names no cut after so many
  lines has shown all of them (`ManyLines`), and the same over the units of the
  document (`MarkdownHonest`). The texts and the counts are recursive functions, so it
  is shown first that such a function exists (`FunctionExists`) and what goes on holding
  along it holds at its end (`AllTheWay`, by a smallest counterexample).

Their assumptions are those of the modules. Two say what the code checks before the
modelled part begins: a row is written with at least one value, each of a title
(`tools/tables.py` refuses an empty object), and a message goes to a room.

The runs' properties of these components are those of `MCServices`, whose conjuncts name
the same formulas. `ServicesProofs` proves thirteen of them: a behaviour of `MCServices` stays
with the part it began with and is a behaviour of that part (one lemma each), so
what the theorem about its module says holds of it. `EveryPasswordIsAccounted`,
`EverySignInIsEarned`, `NobodyElseActs`, `WhatIsStoredApplies`, `WritesStaySafe`, `DocumentsAreKeptShort`,
`OneKeyIsEnough`, `EndsAreEarned`, `NothingWithdrawnActs`, `TaggedIsKeptBack`, `EveryCheckTellsTheTruth`,
`EveryConversionIsHonest` and `EveryRequestIsBounded` hold for any `Actor`
(the last for a finite one); the other constants are the ones of the run, and it is the
theorems about the modules that are general in them.

Only model-checked:

* the properties under fairness (`ReplayEndsTheConnection`, `DoomedIsForgotten`), since the prover has
  no support for liveness under fairness nor for `ENABLED`;
* `TransfersAreWhole`, which compares what eight tools gave out with a filtered list, in
  order: induction over the filters and folds of the library, which are recursive there;
* `NothingVanishes`, which relates what four legs fetched to one long computation on it, and for
  which a bounded instance is a good judge;
* `MCServices!TypeOK`, of which the parts above are proved where their theorem includes it.

## 5. Limits of the models

* Cryptography is perfect: tokens, hashes and signatures are distinct values; a wrong
  signature, issuer or subject of an ID token is one refusal.
* Reading a stored app password back succeeds in the model of the tokens, whose hand-back leaves the
  note standing either way. In the models of sign-in and enrollment it may fail for a single row
  while others are read; why it does (a key that changed) is `DataKey`'s subject.
* Clients of `SignIn` are registered dynamically; `ClientDocuments` stands for the others up to
  the row in the clients table.
* Expiry of a code or token is a comparison with the clock; rows past their deadline are
  deleted where the code deletes them.
* The audit log's readers (`audit_read`, the counts of the overview) have no effect and are
  left out, as are vacuum and checkpoint.
* The account list is either read or not; an answer without any account is refused as none. The way
  of an answer (keys, accounts, a document) has no bound but that of the clock.
* Cancellation of a request in the middle of a discovery attempt is not modelled.
* The expiry the SDK itself checks after `verify_token` is outside `TokenChecks`.
* What is read in pages does not change between them: no handle promises anything then.

Hazards that no property covers: a registration listed for expiry that is used again
before its turn (`oauth/provider.py:1282`) and a code redeemed in its last second whose
tokens a purge overtakes (`oauth/provider.py:790`): both end a connection without
losing a password, and no document promises otherwise. Two size sweeps of the audit log
that measure together trim more than the limit asks (`audit/store.py:800`), and a
multiple of `SWEEP_EVERY` that falls on a marker starts no sweep (`audit/store.py:571`):
what is trimmed is explained either way, and the next multiple sweeps. Fresh rows of an
account created again after the list was read go with its old chain
(`audit/record.py:214`): the account check cannot tell the two apart.

## 6. Not modelled

* Tools that are one request and the translation of its answer (contacts, Deck, notes, most
  of Talk and mail): nothing stands between two of their steps, and a model would restate
  the translation.
* Environment parsing, static metadata documents and the parsing of `occ` arguments:
  sequential and without state.
* The parsers of PDF and Office files, the cipher, SQLite and HTTP: libraries.
* `abort_enrollment` (`oauth/exchange_enroll.py:379`), which nothing in `src/` calls.
* HTML rendering, except for the form values and what a page offers.
* `scripts/`: evidence and spike scripts, not part of the program.

## 7. What could follow

1. A composition of `Enrollment` with `ExchangeCall`, so that a binding that ends meets the cached list
   of accounts in one state.
2. Types of the parts that have no theorem of theirs yet.
