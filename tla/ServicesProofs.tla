---------------------------- MODULE ServicesProofs -----------------------------
(***************************************************************************)
(* The small instances of MCServices keep what the theorems about their     *)
(* modules promise, whatever the requests, tabs and processes of Actor are.  *)
(* A behaviour of MCServices is one of the part it began with: that is all   *)
(* there is to show here.                                                   *)
(***************************************************************************)
EXTENDS MCServices, TLAPS, FiniteSetTheorems

-----------------------------------------------------------------------------
(* A behaviour stays with its part, and every slot rests when all do. *)

Of(name) == part = name

LEMMA NothingMoves ==
  ASSUME UNCHANGED vars
  PROVE  /\ UNCHANGED <<part, v1, v2, v3, v4, v5, v6, v7, v8>>
         /\ UNCHANGED <<v9, v10, v11, v12, v13, v14, v15, v16, v17>>
BY DEF vars, rest5, rest6, rest7, rest8, rest9, rest10, rest11, rest16

LEMMA PartStays == [Next]_vars => part' = part
<1>1. Next => part' = part
  BY ZenonT(60) DEF Next, rest5, rest6, rest7, rest8, rest9, rest10, rest11, rest16
<1> QED BY <1>1, NothingMoves

-----------------------------------------------------------------------------
(* The steps of each part are the steps of its module. *)

LEMMA EnrollmentPart == Spec => []~Of("enrollment") \/ ([]Of("enrollment") /\ EN!Spec)
<1>1. Of("enrollment") /\ Init => EN!Init
  BY DEF Init, Of
<1>2. Of("enrollment") /\ [Next]_vars => [EN!Next]_(EN!vars)
  BY SMTT(40), NothingMoves DEF Next, Of, EN!vars, EN!history, EN!outside, EN!oidc, EN!rows
<1>3. [Next]_vars => (Of("enrollment") <=> Of("enrollment")')
  BY PartStays DEF Of
<1> QED BY <1>1, <1>2, <1>3, PTL DEF Spec, EN!Spec

LEMMA SignInsPart == Spec => []~Of("two sign-ins") \/ ([]Of("two sign-ins") /\ ET!Spec)
<1>1. Of("two sign-ins") /\ Init => ET!Init
  BY ZenonT(60) DEF Init, Of
<1>2. Of("two sign-ins") /\ [Next]_vars => [ET!Next]_(ET!vars)
  BY ZenonT(60), NothingMoves DEF Next, Of, ET!vars, ET!history, ET!outside, ET!oidc, ET!rows
<1>3. [Next]_vars => (Of("two sign-ins") <=> Of("two sign-ins")')
  BY ZenonT(60), PartStays DEF Of
<1> QED BY <1>1, <1>2, <1>3, PTL DEF Spec, ET!Spec

LEMMA KeysPart == Spec => []~Of("keys") \/ ([]Of("keys") /\ XK!Spec)
<1>1. Of("keys") /\ Init => XK!Init
  BY SMTT(40) DEF Init, Of
<1>2. Of("keys") /\ [Next]_vars => [XK!Next]_(XK!vars)
  BY SMTT(40), NothingMoves DEF Next, Of, XK!vars, XK!calls, XK!cached, XK!accounts, XK!keyset, XK!issuer
<1>3. [Next]_vars => (Of("keys") <=> Of("keys")')
  BY PartStays DEF Of
<1> QED BY <1>1, <1>2, <1>3, PTL DEF Spec, XK!Spec

LEMMA AccountsPart == Spec => []~Of("accounts") \/ ([]Of("accounts") /\ XA!Spec)
<1>1. Of("accounts") /\ Init => XA!Init
  BY DEF Init, Of
<1>2. Of("accounts") /\ [Next]_vars => [XA!Next]_(XA!vars)
  BY SMTT(40), NothingMoves DEF Next, Of, XA!vars, XA!calls, XA!cached, XA!accounts, XA!keyset, XA!issuer
<1>3. [Next]_vars => (Of("accounts") <=> Of("accounts")')
  BY PartStays DEF Of
<1> QED BY <1>1, <1>2, <1>3, PTL DEF Spec, XA!Spec

LEMMA ThrottlePart == Spec => []~Of("throttle") \/ ([]Of("throttle") /\ PA!TH!Spec)
<1>1. Of("throttle") /\ Init => PA!TH!Init
  BY DEF Init, Of
<1>2. Of("throttle") /\ [Next]_vars => [PA!TH!Next]_(PA!TH!vars)
  BY SMTT(40), NothingMoves DEF Next, Of, PA!TH!vars
<1>3. [Next]_vars => (Of("throttle") <=> Of("throttle")')
  BY PartStays DEF Of
<1> QED BY <1>1, <1>2, <1>3, PTL DEF Spec, PA!TH!Spec

LEMMA ThrottleAllPart == Spec => []~Of("throttle all") \/ ([]Of("throttle all") /\ PB!TH!Spec)
<1>1. Of("throttle all") /\ Init => PB!TH!Init
  BY ZenonT(60) DEF Init, Of
<1>2. Of("throttle all") /\ [Next]_vars => [PB!TH!Next]_(PB!TH!vars)
  BY ZenonT(60), NothingMoves DEF Next, Of, PB!TH!vars
<1>3. [Next]_vars => (Of("throttle all") <=> Of("throttle all")')
  BY ZenonT(60), PartStays DEF Of
<1> QED BY <1>1, <1>2, <1>3, PTL DEF Spec, PB!TH!Spec

LEMMA TagsPart == Spec => []~Of("tags") \/ ([]Of("tags") /\ TG!Spec)
<1>1. Of("tags") /\ Init => TG!Init
  BY DEF Init, Of
<1>2. Of("tags") /\ [Next]_vars => [TG!Next]_(TG!vars)
  BY SMTT(40), NothingMoves DEF Next, Of, TG!vars, TG!outside
<1>3. [Next]_vars => (Of("tags") <=> Of("tags")')
  BY PartStays DEF Of
<1> QED BY <1>1, <1>2, <1>3, PTL DEF Spec, TG!Spec

LEMMA TaggedWritesPart == Spec => []~Of("tagged writes") \/ ([]Of("tagged writes") /\ TW!Spec)
<1>1. Of("tagged writes") /\ Init => TW!Init
  BY ZenonT(60) DEF Init, Of
<1>2. Of("tagged writes") /\ [Next]_vars => [TW!Next]_(TW!vars)
  BY ZenonT(60), NothingMoves DEF Next, Of, TW!vars, TW!outside
<1>3. [Next]_vars => (Of("tagged writes") <=> Of("tagged writes")')
  BY ZenonT(60), PartStays DEF Of
<1> QED BY <1>1, <1>2, <1>3, PTL DEF Spec, TW!Spec

LEMMA FilesPart == Spec => []~Of("files") \/ ([]Of("files") /\ PA!FW!Spec)
<1>1. Of("files") /\ Init => PA!FW!Init
  BY DEF Init, Of
<1>2. Of("files") /\ [Next]_vars => [PA!FW!Next]_(PA!FW!vars)
  BY SMTT(40), NothingMoves DEF Next, Of, PA!FW!vars
<1>3. [Next]_vars => (Of("files") <=> Of("files")')
  BY PartStays DEF Of
<1> QED BY <1>1, <1>2, <1>3, PTL DEF Spec, PA!FW!Spec

LEMMA DocumentsPart == Spec => []~Of("documents") \/ ([]Of("documents") /\ PA!CD!Spec)
<1>1. Of("documents") /\ Init => PA!CD!Init
  BY DEF Init, Of
<1>2. Of("documents") /\ [Next]_vars => [PA!CD!Next]_(PA!CD!vars)
  BY SMTT(40), NothingMoves DEF Next, Of, PA!CD!vars
<1>3. [Next]_vars => (Of("documents") <=> Of("documents")')
  BY PartStays DEF Of
<1> QED BY <1>1, <1>2, <1>3, PTL DEF Spec, PA!CD!Spec

LEMMA OnboardingPart == Spec => []~Of("onboarding") \/ ([]Of("onboarding") /\ PA!OB!Spec)
<1>1. Of("onboarding") /\ Init => PA!OB!Init
  BY DEF Init, Of
<1>2. Of("onboarding") /\ [Next]_vars => [PA!OB!Next]_(PA!OB!vars)
  BY SMTT(40), NothingMoves DEF Next, Of, PA!OB!vars
<1>3. [Next]_vars => (Of("onboarding") <=> Of("onboarding")')
  BY PartStays DEF Of
<1> QED BY <1>1, <1>2, <1>3, PTL DEF Spec, PA!OB!Spec

LEMMA FirstKeyPart == Spec => []~Of("first key") \/ ([]Of("first key") /\ PA!KE!Spec)
<1>1. Of("first key") /\ Init => PA!KE!Init
  BY ZenonT(60) DEF Init, Of
<1>2. Of("first key") /\ [Next]_vars => [PA!KE!Next]_(PA!KE!vars)
  BY ZenonT(60), NothingMoves DEF Next, Of, PA!KE!vars
<1>3. [Next]_vars => (Of("first key") <=> Of("first key")')
  BY ZenonT(60), PartStays DEF Of
<1> QED BY <1>1, <1>2, <1>3, PTL DEF Spec, PA!KE!Spec

LEMMA KeyFilePart == Spec => []~Of("key file") \/ ([]Of("key file") /\ PB!KE!Spec)
<1>1. Of("key file") /\ Init => PB!KE!Init
  BY ZenonT(60) DEF Init, Of
<1>2. Of("key file") /\ [Next]_vars => [PB!KE!Next]_(PB!KE!vars)
  BY ZenonT(60), NothingMoves DEF Next, Of, PB!KE!vars
<1>3. [Next]_vars => (Of("key file") <=> Of("key file")')
  BY ZenonT(60), PartStays DEF Of
<1> QED BY <1>1, <1>2, <1>3, PTL DEF Spec, PB!KE!Spec

LEMMA RowsPart == Spec => []~Of("rows and messages") \/ ([]Of("rows and messages") /\ PA!WR!Spec)
<1>1. Of("rows and messages") /\ Init => PA!WR!Init
  BY ZenonT(60) DEF Init, Of
<1>2. Of("rows and messages") /\ [Next]_vars => [PA!WR!Next]_(PA!WR!vars)
  BY ZenonT(60), NothingMoves DEF Next, Of, PA!WR!vars, PA!WR!world
<1>3. [Next]_vars => (Of("rows and messages") <=> Of("rows and messages")')
  BY ZenonT(60), PartStays DEF Of
<1> QED BY <1>1, <1>2, <1>3, PTL DEF Spec, PA!WR!Spec

LEMMA EventsPart == Spec => []~Of("events") \/ ([]Of("events") /\ PB!WR!Spec)
<1>1. Of("events") /\ Init => PB!WR!Init
  BY DEF Init, Of
<1>2. Of("events") /\ [Next]_vars => [PB!WR!Next]_(PB!WR!vars)
  BY SMTT(40), NothingMoves DEF Next, Of, PB!WR!vars, PB!WR!world
<1>3. [Next]_vars => (Of("events") <=> Of("events")')
  BY PartStays DEF Of
<1> QED BY <1>1, <1>2, <1>3, PTL DEF Spec, PB!WR!Spec

LEMMA DeploymentPart == Spec => []~Of("deployment") \/ ([]Of("deployment") /\ PA!DP!Spec)
<1>1. Of("deployment") /\ Init => PA!DP!Init
  BY DEF Init, Of
<1>2. Of("deployment") /\ [Next]_vars => [PA!DP!Next]_(PA!DP!vars)
  BY SMTT(40), NothingMoves DEF Next, Of, PA!DP!vars
<1>3. [Next]_vars => (Of("deployment") <=> Of("deployment")')
  BY PartStays DEF Of
<1> QED BY <1>1, <1>2, <1>3, PTL DEF Spec, PA!DP!Spec

LEMMA RequestsPart == Spec => []~Of("requests") \/ ([]Of("requests") /\ PA!RP!Spec)
<1>1. Of("requests") /\ Init => PA!RP!Init
  BY DEF Init, Of
<1>2. Of("requests") /\ [Next]_vars => [PA!RP!Next]_(PA!RP!vars)
  BY SMTT(40), NothingMoves DEF Next, Of, PA!RP!vars
<1>3. [Next]_vars => (Of("requests") <=> Of("requests")')
  BY PartStays DEF Of
<1> QED BY <1>1, <1>2, <1>3, PTL DEF Spec, PA!RP!Spec

LEMMA AccountPagePart == Spec => []~Of("account page") \/ ([]Of("account page") /\ PA!AP!Spec)
<1>1. Of("account page") /\ Init => PA!AP!Init
  BY ZenonT(60) DEF Init, Of
<1>2. Of("account page") /\ [Next]_vars => [PA!AP!Next]_(PA!AP!vars)
  BY ZenonT(60), NothingMoves DEF Next, Of, PA!AP!vars
<1>3. [Next]_vars => (Of("account page") <=> Of("account page")')
  BY ZenonT(60), PartStays DEF Of
<1> QED BY <1>1, <1>2, <1>3, PTL DEF Spec, PA!AP!Spec

LEMMA TwoTabsPart == Spec => []~Of("two tabs") \/ ([]Of("two tabs") /\ PB!AP!Spec)
<1>1. Of("two tabs") /\ Init => PB!AP!Init
  BY ZenonT(60) DEF Init, Of
<1>2. Of("two tabs") /\ [Next]_vars => [PB!AP!Next]_(PB!AP!vars)
  BY ZenonT(60), NothingMoves DEF Next, Of, PB!AP!vars
<1>3. [Next]_vars => (Of("two tabs") <=> Of("two tabs")')
  BY ZenonT(60), PartStays DEF Of
<1> QED BY <1>1, <1>2, <1>3, PTL DEF Spec, PB!AP!Spec

LEMMA DiscoveryPart == Spec => []~Of("discovery") \/ ([]Of("discovery") /\ PA!OC!Spec)
<1>1. Of("discovery") /\ Init => PA!OC!Init
  BY DEF Init, Of
<1>2. Of("discovery") /\ [Next]_vars => [PA!OC!Next]_(PA!OC!vars)
  BY SMTT(40), NothingMoves DEF Next, Of, PA!OC!vars
<1>3. [Next]_vars => (Of("discovery") <=> Of("discovery")')
  BY PartStays DEF Of
<1> QED BY <1>1, <1>2, <1>3, PTL DEF Spec, PA!OC!Spec

LEMMA ConversionsPart == Spec => []~Of("conversions") \/ ([]Of("conversions") /\ PA!EX!Spec)
<1>1. Of("conversions") /\ Init => PA!EX!Init
  BY DEF Init, Of
<1>2. Of("conversions") /\ [Next]_vars => [PA!EX!Next]_(PA!EX!vars)
  BY SMTT(40), NothingMoves DEF Next, Of, PA!EX!vars
<1>3. [Next]_vars => (Of("conversions") <=> Of("conversions")')
  BY PartStays DEF Of
<1> QED BY <1>1, <1>2, <1>3, PTL DEF Spec, PA!EX!Spec

LEMMA TokenChecksPart == Spec => []~Of("token checks") \/ ([]Of("token checks") /\ XK!CK!Spec)
<1>1. Of("token checks") /\ Init => XK!CK!Init
  BY ZenonT(60) DEF Init, Of
<1>2. Of("token checks") /\ [Next]_vars => [XK!CK!Next]_(XK!CK!vars)
  BY ZenonT(60), NothingMoves DEF Next, Of, XK!CK!vars
<1>3. [Next]_vars => (Of("token checks") <=> Of("token checks")')
  BY ZenonT(60), PartStays DEF Of
<1> QED BY <1>1, <1>2, <1>3, PTL DEF Spec, XK!CK!Spec

LEMMA TagCheckPart == Spec => []~Of("tag check") \/ ([]Of("tag check") /\ TG!TK!Spec)
<1>1. Of("tag check") /\ Init => TG!TK!Init
  BY ZenonT(60) DEF Init, Of
<1>2. Of("tag check") /\ [Next]_vars => [TG!TK!Next]_(TG!TK!vars)
  BY ZenonT(60), NothingMoves DEF Next, Of, TG!TK!vars, TG!TK!outside
<1>3. [Next]_vars => (Of("tag check") <=> Of("tag check")')
  BY ZenonT(60), PartStays DEF Of
<1> QED BY <1>1, <1>2, <1>3, PTL DEF Spec, TG!TK!Spec

-----------------------------------------------------------------------------
(* What each run promises, out of the theorems of the modules. *)

LEMMA FiniteForThem ==
  ASSUME NEW S, IsFiniteSet(S) PROVE PA!IsFiniteSet(S) /\ PB!IsFiniteSet(S)
BY DEF IsFiniteSet, PA!IsFiniteSet, PB!IsFiniteSet

LEMMA FiniteKeys == PA!IsFiniteSet({"k1", "k2", "k3"}) /\ PB!IsFiniteSet({"k1", "k2", "k3", "k4"})
<1> DEFINE one == {"k1"}
           two == one \cup {"k2"}
           three == two \cup {"k3"}
           four == three \cup {"k4"}
<1>1. IsFiniteSet(one)
  BY FS_Singleton
<1>2. IsFiniteSet(two)
  <2> HIDE DEF one
  <2> QED BY <1>1, FS_AddElement
<1>3. IsFiniteSet(three)
  <2> HIDE DEF two
  <2> QED BY <1>2, FS_AddElement
<1>4. IsFiniteSet(four)
  <2> HIDE DEF three
  <2> QED BY <1>3, FS_AddElement
<1>5. three = {"k1", "k2", "k3"} /\ four = {"k1", "k2", "k3", "k4"}
  OBVIOUS
<1>6. PA!IsFiniteSet(three) /\ PB!IsFiniteSet(four)
  <2> HIDE DEF three, four
  <2> QED BY <1>3, <1>4, FiniteForThem
<1> HIDE DEF three, four
<1> QED BY <1>5, <1>6

(* No app password is forgotten on its way through an enrollment           *)
(* (settle_enrollment, the sweeps and withdrawals around it) or an         *)
(* onboarding (wait and cancel of connect.py), whoever else is at work.    *)
THEOREM EveryPasswordIsAccounted == Spec => []PasswordsAreAccounted
<1>1. EN!Spec => []EN!Accounted
  BY ServicesAssumption, EN!NoPasswordIsForgotten DEF ServicesAssumption
<1>2. ET!Spec => []ET!Accounted
  BY ServicesAssumption, ET!NoPasswordIsForgotten DEF ServicesAssumption
<1>3. PA!OB!Spec => [](PA!OB!TypeOK /\ PA!OB!ShownOnceOrReturned)
  BY ServicesAssumption, PA!PasswordsAreShownOnce DEF ServicesAssumption
<1>4. /\ Of("enrollment") => EN!Accounted
      /\ Of("two sign-ins") => ET!Accounted
      /\ Of("onboarding") => PA!OB!TypeOK /\ PA!OB!ShownOnceOrReturned
      => PasswordsAreAccounted
  BY ZenonT(60) DEF PasswordsAreAccounted, Of
<1> QED BY <1>1, <1>2, <1>3, <1>4, EnrollmentPart, SignInsPart, OnboardingPart, PTL

(* One sign-in at the identity provider binds once (its transaction and its*)
(* proof are each taken once), and only the ID token that sign-in asked for*)
(* is accepted (the checks of the OIDC client).                            *)
THEOREM EverySignInIsEarned == Spec => []SignInsAreEarned
<1>1. EN!Spec => []EN!OneSignInOneBinding
  BY ServicesAssumption, EN!ASignInBindsOnce DEF ServicesAssumption
<1>2. ET!Spec => []ET!OneSignInOneBinding
  BY ServicesAssumption, ET!ASignInBindsOnce DEF ServicesAssumption
<1>3. PA!OC!Spec => []PA!OC!AcceptedIsForThisSignIn
  BY ServicesAssumption, PA!NobodyElsesTokenSignsIn DEF ServicesAssumption
<1>4. /\ Of("enrollment") => EN!OneSignInOneBinding
      /\ Of("two sign-ins") => ET!OneSignInOneBinding
      /\ Of("discovery") => PA!OC!AcceptedIsForThisSignIn
      => SignInsAreEarned
  BY ZenonT(60) DEF SignInsAreEarned, Of
<1> QED BY <1>1, <1>2, <1>3, <1>4, EnrollmentPart, SignInsPart, DiscoveryPart, PTL

(* A binding, a request and a button of the account page act for the       *)
(* account that was proved: the owner who signed in, the caller of the     *)
(* handshake or of the bearer, the account a page was made for.            *)
THEOREM NobodyElseActs == Spec => []OnlyTheOwnerActs
<1>1. EN!Spec => []EN!BoundByItsOwner
  BY ServicesAssumption, EN!OnlyTheOwnerBinds DEF ServicesAssumption
<1>2. ET!Spec => []ET!BoundByItsOwner
  BY ServicesAssumption, ET!OnlyTheOwnerBinds DEF ServicesAssumption
<1>3. PA!RP!Spec => [](PA!RP!TypeOK /\ PA!RP!ActsForItsCaller)
  BY ServicesAssumption, PA!CallsActForTheirCaller DEF ServicesAssumption
<1>4. PA!AP!Spec => [](PA!AP!OnlyWhatWasOffered /\ PA!AP!DoneIsDone)
  BY ServicesAssumption, PA!FormsDoWhatTheyOffered DEF ServicesAssumption
<1>5. PB!AP!Spec => [](PB!AP!OnlyWhatWasOffered /\ PB!AP!DoneIsDone)
  BY ServicesAssumption, PB!FormsDoWhatTheyOffered DEF ServicesAssumption
<1>6. /\ Of("enrollment") => EN!BoundByItsOwner
      /\ Of("two sign-ins") => ET!BoundByItsOwner
      /\ Of("requests") => PA!RP!TypeOK /\ PA!RP!ActsForItsCaller
      /\ Of("account page") => PA!AP!OnlyWhatWasOffered /\ PA!AP!DoneIsDone
      /\ Of("two tabs") => PB!AP!OnlyWhatWasOffered /\ PB!AP!DoneIsDone
      => OnlyTheOwnerActs
  BY ZenonT(60) DEF OnlyTheOwnerActs, Of
<1> QED BY <1>1, <1>2, <1>3, <1>4, <1>5, <1>6, EnrollmentPart, SignInsPart, RequestsPart,
       AccountPagePart, TwoTabsPart, PTL

(* What an administrator stored applies once an enable has run its course, *)
(* and nothing else makes the process restart (lifecycle and               *)
(* config_values).                                                         *)
THEOREM WhatIsStoredApplies == Spec => []SettingsApply
<1>1. PA!DP!Spec => [](PA!DP!TypeOK /\ PA!DP!SettingsApply)
  BY ServicesAssumption, PA!StoredSettingsApply DEF ServicesAssumption
<1>2. /\ Of("deployment") => PA!DP!TypeOK /\ PA!DP!SettingsApply
      => SettingsApply
  BY DEF SettingsApply, Of
<1> QED BY <1>1, <1>2, DeploymentPart, PTL

(* No tool writes over a version nobody showed it (conditional PUT), and a *)
(* row, a message or an event goes where its words meant (the lookup before*)
(* each write).                                                            *)
THEOREM WritesStaySafe == Spec => []WritesAreSafe
<1>1. PA!FW!Spec => []PA!FW!NoLostUpdate
  BY ServicesAssumption, PA!NoUpdateIsLost DEF ServicesAssumption
<1>2. PA!WR!Spec => []PA!WR!WritesWhatWasMeant
  BY ServicesAssumption, PA!WritesGoWhereTheyWereMeant DEF ServicesAssumption
<1>3. PB!WR!Spec => []PB!WR!WritesWhatWasMeant
  BY ServicesAssumption, PB!WritesGoWhereTheyWereMeant DEF ServicesAssumption
<1>4. /\ Of("files") => PA!FW!NoLostUpdate
      /\ Of("rows and messages") => PA!WR!WritesWhatWasMeant
      /\ Of("events") => PB!WR!WritesWhatWasMeant
      => WritesAreSafe
  BY ZenonT(60) DEF WritesAreSafe, Of
<1> QED BY <1>1, <1>2, <1>3, <1>4, FilesPart, RowsPart, EventsPart, PTL

(* What carries the tag, or lies below what carries it, stays withheld from *)
(* every tool (tag exclusion).                                              *)
THEOREM TaggedIsKeptBack == Spec => []TaggedStaysWithheld
<1>1. TG!Spec => [](TG!TypeOK /\ TG!TaggedStaysWithheld)
  BY ServicesAssumption, TG!TaggedIsWithheld DEF ServicesAssumption
<1>2. TW!Spec => [](TW!TypeOK /\ TW!TaggedStaysWithheld)
  BY ServicesAssumption, TW!TaggedIsWithheld DEF ServicesAssumption
<1>3. /\ Of("tags") => TG!TypeOK /\ TG!TaggedStaysWithheld
      /\ Of("tagged writes") => TW!TypeOK /\ TW!TaggedStaysWithheld
      => TaggedStaysWithheld
  BY ZenonT(60) DEF TaggedStaysWithheld, Of
<1> QED BY <1>1, <1>2, <1>3, TagsPart, TaggedWritesPart, PTL

(* The dry run says of a token what operation says of it at that moment    *)
(* (dry_run beside the checker), and an undisturbed diagnosis of the tags  *)
(* reports what is there (exclusion_audit).                                *)
THEOREM EveryCheckTellsTheTruth == Spec => []ChecksTellTheTruth
<1>1. XK!CK!Spec => []XK!CK!ChecksAgree
  BY ServicesAssumption, XK!DryRunsTellTheTruth DEF ServicesAssumption
<1>2. TG!TK!Spec => []TG!TK!CheckTellsTheTruth
  BY ServicesAssumption, TG!DiagnosesTellTheTruth DEF ServicesAssumption
<1>3. /\ Of("token checks") => XK!CK!ChecksAgree
      /\ Of("tag check") => TG!TK!CheckTellsTheTruth
      => ChecksTellTheTruth
  BY ZenonT(60) DEF ChecksTellTheTruth, Of
<1> QED BY <1>1, <1>2, <1>3, TokenChecksPart, TagCheckPart, PTL

(* No more conversions run than there are slots, and a text that lacks some *)
(* of its document names what was cut (convert, Output.add).               *)
THEOREM EveryConversionIsHonest == Spec => []ConversionsAreHonest
<1>1. PA!EX!Spec => []PA!EX!ConversionsAreHonest
  BY ServicesAssumption, PA!ConversionsStayHonest DEF ServicesAssumption
<1>2. (Of("conversions") => PA!EX!ConversionsAreHonest) => ConversionsAreHonest
  BY DEF ConversionsAreHonest, Of
<1> QED BY <1>1, <1>2, ConversionsPart, PTL

(* A client document serves for its bounded lifetime only, and no lookup   *)
(* reaches into the network of the server (cimd.py).                       *)
THEOREM DocumentsAreKeptShort == Spec => []DocumentsAreBounded
<1>1. PA!CD!Spec => []PA!CD!DocumentsAreBounded
  BY ServicesAssumption, PA!DocumentsStayBounded DEF ServicesAssumption
<1>2. /\ Of("documents") => PA!CD!DocumentsAreBounded
      => DocumentsAreBounded
  BY DEF DocumentsAreBounded, Of
<1> QED BY <1>1, <1>2, DocumentsPart, PTL

(* The key a deployment keeps opens the rows its workers wrote, however    *)
(* they start together (data_key and file_key).                            *)
THEOREM OneKeyIsEnough == Spec => []OneKeyOpens
<1>1. PA!KE!Spec => [](PA!KE!TypeOK /\ PA!KE!OneKeyOpens)
  BY ServicesAssumption, PA!RowsStayReadable, FiniteKeys DEF ServicesAssumption
<1>2. PB!KE!Spec => [](PB!KE!TypeOK /\ PB!KE!OneKeyOpens)
  BY ServicesAssumption, PB!RowsStayReadable, FiniteKeys DEF ServicesAssumption
<1>3. /\ Of("first key") => PA!KE!TypeOK /\ PA!KE!OneKeyOpens
      /\ Of("key file") => PB!KE!TypeOK /\ PB!KE!OneKeyOpens
      => OneKeyOpens
  BY ZenonT(60) DEF OneKeyOpens, Of
<1> QED BY <1>1, <1>2, <1>3, FirstKeyPart, KeyFilePart, PTL

(* A living binding ends, and its password goes back, by a withdrawal, a   *)
(* replacement or the expiry of its reserved client only.                  *)
THEOREM EndsAreEarned == Spec => KeptUntilEnded
<1>1. EN!Spec => [][EN!EndsNoLivingBinding]_(EN!vars)
  BY ServicesAssumption, EN!NoLivingBindingIsEnded DEF ServicesAssumption, EN!KeptUntilEnded
<1>2. ET!Spec => [][ET!EndsNoLivingBinding]_(ET!vars)
  BY ServicesAssumption, ET!NoLivingBindingIsEnded DEF ServicesAssumption, ET!KeptUntilEnded
<1>3. Of("enrollment") /\ [Next]_vars /\ [EN!EndsNoLivingBinding]_(EN!vars)
      => [EndsNoLivingBinding]_vars
  BY SMTT(40) DEF Of, EndsNoLivingBinding, Next, vars, rest5, rest6, rest7, rest8, rest9,
         rest10, rest11, rest16, EN!vars, EN!history, EN!outside, EN!oidc, EN!rows
<1>4. Of("two sign-ins") /\ [Next]_vars /\ [ET!EndsNoLivingBinding]_(ET!vars)
      => [EndsNoLivingBinding]_vars
  BY ZenonT(60) DEF Of, EndsNoLivingBinding, Next, vars, rest5, rest6, rest7, rest8, rest9,
         rest10, rest11, rest16, ET!vars, ET!history, ET!outside, ET!oidc, ET!rows
<1>5. ~(Of("enrollment") \/ Of("two sign-ins")) => [EndsNoLivingBinding]_vars
  BY ZenonT(60) DEF Of, EndsNoLivingBinding
<1> QED
  BY <1>1, <1>2, <1>3, <1>4, <1>5,
     EnrollmentPart, SignInsPart, PTL DEF Spec, KeptUntilEnded

(* A bearer under a withdrawn key, or for an account that is gone, is      *)
(* refused once the caches may not say otherwise (key set and account      *)
(* source of the exchange path).                                           *)
THEOREM NothingWithdrawnActs == Spec => NothingWithdrawnIsAccepted
<1>1. XK!Spec =>
      [][XK!PassesUnderALivingKey]_(XK!vars) /\ [][XK!PassesForALivingAccount]_(XK!vars)
  BY ServicesAssumption, XK!NothingWithdrawnPasses, XK!NobodyRemovedActs
     DEF ServicesAssumption, XK!WithdrawnKeyIsRefused, XK!RemovedAccountIsRefused
<1>2. XA!Spec =>
      [][XA!PassesUnderALivingKey]_(XA!vars) /\ [][XA!PassesForALivingAccount]_(XA!vars)
  BY ServicesAssumption, XA!NothingWithdrawnPasses, XA!NobodyRemovedActs
     DEF ServicesAssumption, XA!WithdrawnKeyIsRefused, XA!RemovedAccountIsRefused
<1>3. Of("keys") /\ [Next]_vars
      /\ [XK!PassesUnderALivingKey]_(XK!vars) /\ [XK!PassesForALivingAccount]_(XK!vars)
      => [PassesForTheLiving]_vars
  BY SMTT(40) DEF Of, PassesForTheLiving, Next, vars, rest5, rest6, rest7, rest8, rest9,
         rest10, rest11, rest16, XK!vars, XK!calls, XK!cached, XK!accounts, XK!keyset,
         XK!issuer
<1>4. Of("accounts") /\ [Next]_vars
      /\ [XA!PassesUnderALivingKey]_(XA!vars) /\ [XA!PassesForALivingAccount]_(XA!vars)
      => [PassesForTheLiving]_vars
  BY DEF Of, PassesForTheLiving, Next, vars, rest5, rest6, rest7, rest8, rest9,
         rest10, rest11, rest16, XA!vars, XA!calls, XA!cached, XA!accounts, XA!keyset,
         XA!issuer
<1>5. ~(Of("keys") \/ Of("accounts")) => [PassesForTheLiving]_vars
  BY DEF Of, PassesForTheLiving
<1> QED
  BY <1>1, <1>2, <1>3, <1>4, <1>5,
     KeysPart, AccountsPart, PTL DEF Spec, NothingWithdrawnIsAccepted

(* Fetches of the key set and of the discovery document keep their pauses, *)
(* and a burst gets past the throttle by no more than was under way        *)
(* together.                                                               *)
THEOREM EveryRequestIsBounded == ASSUME IsFiniteSet(Actor) PROVE Spec => RequestsAreBounded
<1>1. XK!Spec => [][XK!BeginsAfterAPause]_(<<v1, XK!issuer, XK!keyset>>)
  BY ServicesAssumption, XK!PausesAreKept DEF ServicesAssumption, XK!FetchesAreSpaced
<1>2. XA!Spec => [][XA!BeginsAfterAPause]_(<<v1, XA!issuer, XA!keyset>>)
  BY ServicesAssumption, XA!PausesAreKept DEF ServicesAssumption, XA!FetchesAreSpaced
<1>3. PA!TH!Spec => []PA!TH!BurstIsBounded
  BY ServicesAssumption, PA!NoBurstGetsPast, FiniteForThem DEF ServicesAssumption
<1>4. PB!TH!Spec => []PB!TH!BurstIsBounded
  BY ServicesAssumption, PB!NoBurstGetsPast, FiniteForThem DEF ServicesAssumption
<1>5. PA!OC!Spec => []PA!OC!DiscoveryIsSpaced
  BY ServicesAssumption, PA!TheProviderIsAskedSparingly DEF ServicesAssumption
<1>6. Of("keys") /\ [Next]_vars /\ [XK!BeginsAfterAPause]_(<<v1, XK!issuer, XK!keyset>>)
      => [KeepsToTheBounds]_vars
  BY SMTT(40) DEF Of, KeepsToTheBounds, XK!BeginsAfterAPause, XK!vars, XK!calls, XK!cached,
         XK!accounts, XK!keyset, XK!issuer
<1>7. Of("accounts") /\ [Next]_vars /\ [XA!BeginsAfterAPause]_(<<v1, XA!issuer, XA!keyset>>)
      => [KeepsToTheBounds]_vars
  BY DEF Of, KeepsToTheBounds, XA!BeginsAfterAPause, XA!vars, XA!calls, XA!cached,
         XA!accounts, XA!keyset, XA!issuer
<1>8. Of("throttle") /\ [Next]_vars /\ PA!TH!BurstIsBounded' => [KeepsToTheBounds]_vars
  BY SMTT(40) DEF Of, KeepsToTheBounds
<1>9. Of("throttle all") /\ [Next]_vars /\ PB!TH!BurstIsBounded' => [KeepsToTheBounds]_vars
  BY ZenonT(60) DEF Of, KeepsToTheBounds
<1>10. Of("discovery") /\ [Next]_vars /\ PA!OC!DiscoveryIsSpaced' => [KeepsToTheBounds]_vars
  BY SMTT(40) DEF Of, KeepsToTheBounds
<1>11. ~(Of("keys") \/ Of("accounts") \/ Of("throttle") \/ Of("throttle all") \/ Of("discovery"))
      => [KeepsToTheBounds]_vars
  BY DEF Of, KeepsToTheBounds
<1> QED
  BY <1>1, <1>2, <1>3, <1>4, <1>5, <1>6, <1>7, <1>8, <1>9, <1>10, <1>11,
     KeysPart, AccountsPart, ThrottlePart, ThrottleAllPart, DiscoveryPart,
     PTL DEF Spec, RequestsAreBounded

==============================================================================
