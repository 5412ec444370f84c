---------------------------------- MODULE Bundle ----------------------------------
(***************************************************************************)
(* prepare_context: four legs read the search, the calendars, the Talk     *)
(* conversations and the mail counters at once, each with budgets of its   *)
(* own, and the best file, note and card hits are opened through one       *)
(* shared lookup.  Every source may be late, out of reach or withheld, and *)
(* every list is capped: the model asks whether the answer still says so   *)
(* in each of these cases.  Time is not counted; whatever has a budget may *)
(* run out of it while it waits.                                           *)
(***************************************************************************)
EXTENDS Integers, Sequences, FiniteSets, SequencesExt

CONSTANTS
  Hit,             \* entries of the search, as a sequence: the order they come in
  Provider, Calendar, Account,
  ProviderOf, KindOf, \* of a hit
  NeedOf,          \* what the tag guard has to know of it: "none", "path", "id", "room", "filed"
  FlawOf,          \* "none", or what is wrong with it: "entry", "place", "lookup", "kind"
  Tagged,          \* hits of tagged files, and of files below a tagged folder
  TaggedFolder, Sandbox, \* whether a folder carries the tag, and whether a files root is set
  Event,           \* how many events a calendar has
  Rooms, Filed,    \* conversations with something unread, and those that belong to a file
  Inbox,           \* what a mail account has: "inbox", "none", "cut"
  SEARCH_LIMIT, MAX_PER_BUCKET, MAX_EVENTS, MAX_CONVERSATIONS, MAX_DIGEST,
  MAX_MAIL_ACCOUNTS, MAX_EXCERPTS,
  Outcomes         \* how a request may end: "ok", "late", "down", "broken"

VARIABLES
  pc,
  asked,           \* what every request of the call is at
  leg,             \* how the four legs stand
  hits,            \* the search: its hits so far, then the listed ones by bucket, and
                   \* those it dropped and counted
  named,           \* degraded: a source and why
  events, talk, mail,
  reader, lookup   \* the excerpts and the SEARCH they share

vars == <<pc, asked, leg, hits, named, events, talk, mail, reader, lookup>>

Hits == ToSet(Hit)
Legs == {"search", "calendar", "talk", "mail"}
Lists == {"providers", "room list", "paths", "calendars", "rooms", "accounts"}
Unit == Lists \cup Provider \cup Calendar \cup Account
KIND_BUCKETS == {"file", "note", "card"}
BUCKETS == KIND_BUCKETS \cup {"other"}
Failures == {"late", "down"}       \* TimeoutError, ToolError or RequestError
Answers == {"ok", "late", "down", "broken"}

BundleAssumption ==
  /\ IsInjective(Hit)
  /\ DOMAIN ProviderOf = Hits /\ DOMAIN KindOf = Hits /\ DOMAIN NeedOf = Hits
  /\ FlawOf \in [Hits -> {"none", "entry", "place", "lookup", "kind"}]
  /\ Tagged \subseteq Hits /\ Filed \subseteq Rooms /\ {TaggedFolder, Sandbox} \subseteq BOOLEAN
  /\ \A h \in Tagged : NeedOf[h] # "none"
  /\ Event \in [Calendar -> Nat] /\ Inbox \in [Account -> {"inbox", "none", "cut"}]
  /\ {SEARCH_LIMIT, MAX_PER_BUCKET, MAX_EVENTS, MAX_CONVERSATIONS, MAX_DIGEST,
      MAX_MAIL_ACCOUNTS, MAX_EXCERPTS} \subseteq Nat
  /\ Outcomes \subseteq Answers

NoHits == [listed |-> <<>>, skipped |-> {}, byId |-> FALSE, verdict |-> "none"]

TypeOK ==
  /\ pc \in {"legs", "excerpts", "answered", "raised"}
  /\ asked \in [Unit -> {"off", "asked"} \cup Answers]
  /\ leg \in [Legs -> {"start", "asking", "screen", "rooms", "paths", "ok", "failed", "broken"}]
  /\ ToSet(hits.listed) \cap hits.skipped = {} /\ ToSet(hits.listed) \cup hits.skipped \subseteq Hits
  /\ reader \in [Hits -> {"none", "waits", "reads", "excerpt", "failed", "broken"}]
  /\ lookup \in {"none", "running", "done", "failed", "broken", "cancelled"}
  /\ pc \in {"answered", "raised"} => lookup # "running"

Init ==
  /\ pc = "legs"
  /\ asked = [u \in Unit |-> IF u \in {"providers", "calendars", "rooms", "accounts"}
                             THEN "asked" ELSE "off"]
  /\ leg = [l \in Legs |-> "start"]
  /\ hits = NoHits /\ named = {} /\ events = [c \in Calendar |-> 0] /\ talk = {} /\ mail = {}
  /\ reader = [h \in Hits |-> "none"] /\ lookup = "none"

-----------------------------------------------------------------------------
Named(source, why) == [source |-> source, why |-> why]
Unavailable(source) == Named(source, "exclusion")   \* EXCLUSION_UNAVAILABLE
Settled(U) == \A u \in U : asked[u] \in Answers
At(l, step) == pc = "legs" /\ leg[l] = step
Leg(l, step) == leg' = [leg EXCEPT ![l] = step]
Ask(U) == asked' = [u \in Unit |-> IF u \in U THEN "asked" ELSE asked[u]]
First(n, s) == SubSeq(s, 1, IF n < Len(s) THEN n ELSE Len(s))

(* A request ends. *)
Answer(u, how) ==
  /\ pc = "legs" /\ asked[u] = "asked" /\ how \in Outcomes
  /\ asked' = [asked EXCEPT ![u] = how]
  /\ UNCHANGED <<pc, leg, hits, named, events, talk, mail, reader, lookup>>

(* What a leg's first list leads to, and the leg that fails with it.  Only *)
(* expected exceptions get a sentence: _reason raises the others.          *)
Lead(l, list, next) ==
  /\ At(l, "start") /\ Settled({list})
  /\ CASE asked[list] = "ok" -> next
       [] asked[list] \in Failures ->
            Leg(l, "failed") /\ named' = named \cup {Named(l, asked[list])} /\ UNCHANGED asked
       [] OTHER -> Leg(l, "broken") /\ UNCHANGED <<asked, named>>
  /\ UNCHANGED <<pc, hits, events, reader, lookup>>

(* asyncio.timeout around a leg; the search has none of its own *)
RunsOut(l) ==
  /\ l # "search" /\ pc = "legs" /\ leg[l] \in {"start", "asking"}
  /\ Leg(l, "failed") /\ named' = named \cup {Named(l, "late")}
  /\ UNCHANGED <<pc, asked, hits, events, talk, mail, reader, lookup>>

-----------------------------------------------------------------------------
(* unified_search *)

AskProviders ==
  /\ Lead("search", "providers", Leg("search", "asking") /\ Ask(Provider) /\ UNCHANGED named)
  /\ UNCHANGED <<talk, mail>>

(* How the guard answers a caller; each of them asks it again. *)
Verdicts == {IF Tagged = {} /\ ~ TaggedFolder THEN "untagged" ELSE "active", "unverifiable"}
Of(p) == First(SEARCH_LIMIT, SelectSeq(Hit, LAMBDA h : ProviderOf[h] = p))
Room(h) == NeedOf[h] \in {"room", "filed"}
FileBearing(h) == NeedOf[h] \in {"path", "id"}

(* needs_paths: the sandbox wants to know where a file is, and so does the *)
(* tag of a folder.                                                        *)
NeedsPaths(verdict) == verdict # "unverifiable" /\ (Sandbox \/ (verdict = "active" /\ TaggedFolder))

(* _screen: what is no object, what an unverifiable guard withholds, what  *)
(* lies outside the sandbox or nowhere, and what needs a lookup.  Of these *)
(* the second is said, and the first and the third are counted.            *)
Screen(verdict) ==
  LET broken == \E p \in Provider : asked[p] = "broken"
      answered == {h \in Hits : asked[ProviderOf[h]] = "ok" /\ h \in ToSet(Of(ProviderOf[h]))}
      unusable == {h \in answered : FlawOf[h] = "entry"}
      withheld == {h \in answered \ unusable : verdict = "unverifiable" /\ FileBearing(h)}
      outside == {h \in answered \ withheld : FileBearing(h) /\ FlawOf[h] = "place"}
      kept == answered \ (unusable \cup withheld \cup outside)
  IN
  /\ At("search", "asking") /\ Settled(Provider) /\ verdict \in Verdicts
  /\ hits' = [listed |-> SelectSeq(Hit, LAMBDA h : h \in kept), skipped |-> unusable \cup outside,
              verdict |-> verdict,
              byId |-> NeedsPaths(verdict) /\ \E h \in kept : NeedOf[h] = "id"]
  /\ named' = named \cup {Named(p, asked[p]) : p \in {q \in Provider : asked[q] \in Failures}}
                    \cup (IF withheld # {} THEN {Unavailable("provider")} ELSE {})
  /\ IF broken THEN Leg("search", "broken") /\ UNCHANGED asked
     ELSE IF verdict # "untagged" /\ \E h \in kept : Room(h)
          THEN Leg("search", "rooms") /\ Ask({"room list"})
          ELSE Leg("search", "paths") /\ Ask(IF hits'.byId THEN {"paths"} ELSE {})
  /\ UNCHANGED <<pc, events, talk, mail, reader, lookup>>

(* A conversation that is not in the list of this account, and the one of  *)
(* a file that does not resolve: nobody can say that it carries no tag.    *)
Unplaceable(h) == FlawOf[h] = "lookup" /\ (NeedOf[h] = "room" \/ (NeedOf[h] = "filed" /\ TaggedFolder))

(* _screen_conversations: without the list of rooms no such hit is kept *)
ScreenConversations(verdict) ==
  LET rooms == {h \in ToSet(hits.listed) : Room(h)}
      failed == asked["room list"] # "ok"
      suspects == {h \in rooms : NeedOf[h] = "filed" \/ Unplaceable(h)}
      drops == IF failed THEN rooms
               ELSE IF verdict = "unverifiable" THEN suspects
               ELSE {h \in suspects : h \in Tagged \/ Unplaceable(h)}
  IN
  /\ At("search", "rooms") /\ Settled({"room list"}) /\ verdict \in Verdicts
  /\ hits' = [hits EXCEPT !.listed = SelectSeq(@, LAMBDA h : h \notin drops)]
  /\ named' = named \cup (IF failed THEN {Named(ProviderOf[h], "room list") : h \in rooms} ELSE {})
                    \cup (IF ~ failed /\ verdict = "unverifiable" /\ suspects # {}
                          THEN {Unavailable("provider")} ELSE {})
  /\ IF asked["room list"] = "broken" THEN Leg("search", "broken") ELSE Leg("search", "paths")
  /\ Ask(IF hits.byId THEN {"paths"} ELSE {})
  /\ UNCHANGED <<pc, events, talk, mail, reader, lookup>>

(* _resolve, _settle and _normalise: an id that does not come back is       *)
(* counted, and so is a hit the provider map reads no id of; a tagged one   *)
(* leaves without a word.                                                   *)
SettleHits ==
  LET failed == hits.byId /\ asked["paths"] # "ok"
      kept == ToSet(hits.listed)
      queued == {h \in kept : NeedsPaths(hits.verdict) /\ NeedOf[h] = "id"}
      withheld == IF failed THEN queued ELSE {}
      gone == {h \in queued \ withheld : FlawOf[h] = "lookup"}
      tagged == {h \in kept \ gone : hits.verdict = "active" /\ FileBearing(h) /\ h \in Tagged}
      survivors == kept \ (withheld \cup gone \cup tagged)
      unusable == {h \in survivors : FlawOf[h] = "kind"}
  IN
  /\ At("search", "paths") /\ (hits.byId => Settled({"paths"}))
  /\ hits' = [hits EXCEPT !.listed = SelectSeq(@, LAMBDA h : h \in survivors \ unusable),
                          !.skipped = @ \cup gone \cup unusable]
  /\ named' = named \cup (IF failed THEN {Unavailable("provider")} ELSE {})
  /\ Leg("search", IF hits.byId /\ asked["paths"] = "broken" THEN "broken" ELSE "ok")
  /\ UNCHANGED <<pc, asked, events, talk, mail, reader, lookup>>

-----------------------------------------------------------------------------
(* list_events, and what _schedule says about a cut window *)

AskCalendars ==
  /\ Lead("calendar", "calendars", Leg("calendar", "asking") /\ Ask(Calendar) /\ UNCHANGED named)
  /\ UNCHANGED <<talk, mail>>

Total(f) == FoldSet(LAMBDA c, n : n + f[c], 0, DOMAIN f)

(* Events are counted per calendar; the window keeps the earliest of all. *)
ListEvents ==
  LET failed == {c \in Calendar : asked[c] \in Failures}
      found == [c \in Calendar |-> IF asked[c] = "ok" THEN Event[c] ELSE 0]
      cut == Total(found) > MAX_EVENTS
  IN
  /\ At("calendar", "asking") /\ Settled(Calendar)
  /\ CASE \E c \in Calendar : asked[c] = "broken" ->
            Leg("calendar", "broken") /\ UNCHANGED <<named, events>>
       [] failed = Calendar /\ Calendar # {} ->
            Leg("calendar", "failed") /\ UNCHANGED events
              /\ named' = named \cup {Named("calendar", "down")}
       [] OTHER ->
            /\ Leg("calendar", "ok")
            /\ events' \in {f \in [Calendar -> 0..MAX_EVENTS] :
                              /\ \A c \in Calendar : f[c] <= found[c]
                              /\ Total(f) = IF cut THEN MAX_EVENTS ELSE Total(found)}
            /\ named' = named \cup {Named(c, asked[c]) : c \in failed}
                              \cup (IF cut THEN {Named("calendar", "cut")} ELSE {})
  /\ UNCHANGED <<pc, asked, hits, talk, mail, reader, lookup>>

-----------------------------------------------------------------------------
(* talk.browse and _digest *)

DigestCut(entries) == Cardinality(entries) > MAX_CONVERSATIONS

Digest(verdict) ==
  LET entries == IF verdict = "unverifiable" THEN Rooms \ Filed ELSE Rooms IN
  /\ verdict \in Verdicts
  /\ Lead("talk", "rooms",
       \E read \in SUBSET entries, kept \in SUBSET entries :
         /\ Cardinality(read) = IF DigestCut(entries) THEN MAX_CONVERSATIONS
                                ELSE Cardinality(entries)
         /\ kept \subseteq read
         /\ Cardinality(kept) = IF Cardinality(read) > MAX_DIGEST THEN MAX_DIGEST
                                ELSE Cardinality(read)
         /\ talk' = kept /\ Leg("talk", "ok") /\ UNCHANGED asked
         /\ named' = named \cup (IF Filed # {} /\ verdict = "unverifiable"
                                 THEN {Unavailable("source")} ELSE {})
                           \cup (IF read # entries \/ kept # read
                                 THEN {Named("talk", "cut")} ELSE {}))
  /\ (asked["rooms"] # "ok" => UNCHANGED talk) /\ UNCHANGED mail

-----------------------------------------------------------------------------
(* _mail and _counters: the first account that fails takes the leg with it *)

Kept(accounts) == Cardinality(accounts) = IF Cardinality(Account) > MAX_MAIL_ACCOUNTS
                                          THEN MAX_MAIL_ACCOUNTS ELSE Cardinality(Account)

AskMailboxes(accounts) ==
  /\ accounts \subseteq Account /\ Kept(accounts)
  /\ Lead("mail", "accounts", Leg("mail", "asking") /\ Ask(accounts) /\ UNCHANGED named)
  /\ UNCHANGED <<talk, mail>>

UncountedRoles(accounts) == {a \in accounts : Inbox[a] = "none"}
Uncounted(accounts) == {a \in accounts : Inbox[a] # "inbox"}

CountUnread ==
  LET accounts == {a \in Account : asked[a] # "off"} IN
  /\ At("mail", "asking") /\ (Settled(accounts) \/ \E a \in accounts : asked[a] \in Answers \ {"ok"})
  /\ CASE \E a \in accounts : asked[a] = "broken" ->
            Leg("mail", "broken") /\ UNCHANGED <<mail, named>>
       [] \E a \in accounts : asked[a] \in Failures ->
            Leg("mail", "failed") /\ UNCHANGED mail /\ named' = named \cup {Named("mail", "down")}
       [] OTHER ->
            /\ Leg("mail", "ok") /\ mail' = {a \in accounts : Inbox[a] = "inbox"}
            /\ named' = named \cup {Named(a, "no counter") : a \in Uncounted(accounts)}
                              \cup (IF accounts # Account THEN {Named("mail", "cut")} ELSE {})
  /\ UNCHANGED <<pc, asked, hits, events, talk, reader, lookup>>

-----------------------------------------------------------------------------
(* What the four legs become *)

Bucket(h) == IF KindOf[h] \in KIND_BUCKETS THEN KindOf[h] ELSE "other"
InBucket(b, s) == SelectSeq(s, LAMBDA h : Bucket(h) = b)
CutsSilent(s) == {}
CutsNamed(s) == {Named(b, "cut") : b \in {c \in BUCKETS : Len(InBucket(c, s)) > MAX_PER_BUCKET}}
Bundled(s) ==
  SelectSeq(s, LAMBDA h : \E i \in 1..Len(InBucket(Bucket(h), s)) :
                            i <= MAX_PER_BUCKET /\ InBucket(Bucket(h), s)[i] = h)

Targets(s) ==
  ToSet(First(MAX_EXCERPTS, InBucket("file", s) \o InBucket("note", s) \o InBucket("card", s)))

(* With neither search nor calendar the call fails, and so it does with an *)
(* exception nobody expects.                                               *)
Compose(full) ==
  LET listed == IF leg["search"] = "ok" THEN Bundled(hits.listed) ELSE <<>>
      targets == IF full THEN Targets(listed) ELSE {}
  IN
  /\ pc = "legs" /\ \A l \in Legs : leg[l] \in {"ok", "failed", "broken"}
  /\ IF \/ \E l \in Legs : leg[l] = "broken"
        \/ leg["search"] = "failed" /\ leg["calendar"] = "failed"
     THEN pc' = "raised" /\ UNCHANGED <<hits, named, reader, lookup>>
     ELSE /\ pc' = "excerpts"
          /\ hits' = [hits EXCEPT !.listed = listed]
          /\ named' = named \cup (IF leg["search"] = "ok" THEN CutsNamed(hits.listed) ELSE {})
          /\ reader' = [h \in Hits |-> IF h \notin targets THEN "none"
                                       ELSE IF KindOf[h] = "file" THEN "waits" ELSE "reads"]
          /\ lookup' = IF \E h \in targets : KindOf[h] = "file" THEN "running" ELSE "none"
  /\ UNCHANGED <<asked, leg, events, talk, mail>>

-----------------------------------------------------------------------------
(* _excerpts: one SEARCH for all of them, shielded from the budget of each *)

Lookup(how) ==
  /\ pc = "excerpts" /\ lookup = "running" /\ how \in Outcomes
  /\ lookup' = CASE how = "ok" -> "done" [] how = "broken" -> "broken" [] OTHER -> "failed"
  /\ UNCHANGED <<pc, asked, leg, hits, named, events, talk, mail, reader>>

(* A lookup that failed costs the excerpt its short cut, nothing else. *)
Resolved(h) ==
  /\ pc = "excerpts" /\ reader[h] = "waits" /\ lookup \in {"done", "failed", "broken"}
  /\ reader' = [reader EXCEPT ![h] = IF lookup = "broken" THEN "broken" ELSE "reads"]
  /\ UNCHANGED <<pc, asked, leg, hits, named, events, talk, mail, lookup>>

Failed(h, why) ==
  reader' = [reader EXCEPT ![h] = "failed"] /\ named' = named \cup {Named(h, why)}

(* EXCERPT_TIMEOUT, wherever the excerpt stands *)
ExcerptRunsOut(h) ==
  /\ pc = "excerpts" /\ reader[h] \in {"waits", "reads"} /\ Failed(h, "late")
  /\ UNCHANGED <<pc, asked, leg, hits, events, talk, mail, lookup>>

(* The guard is asked again, and may have lost its answer meanwhile.  A note *)
(* below a tagged folder waits for the lookup.                               *)
Excerpt(h, verdict, how) ==
  /\ pc = "excerpts" /\ reader[h] = "reads" /\ verdict \in Verdicts /\ how \in Outcomes
  /\ KindOf[h] = "note" /\ verdict = "active" => lookup # "running"
  /\ CASE KindOf[h] # "card" /\ verdict = "unverifiable" -> Failed(h, "exclusion")
       [] how = "ok" -> reader' = [reader EXCEPT ![h] = "excerpt"] /\ UNCHANGED named
       [] how = "broken" -> reader' = [reader EXCEPT ![h] = "broken"] /\ UNCHANGED named
       [] OTHER -> Failed(h, how)
  /\ UNCHANGED <<pc, asked, leg, hits, events, talk, mail, lookup>>

(* _one_exclusion_entry: the uniform sentence stands there once *)
FoldedAway(entries) == {e \in entries : e.why # "exclusion"}
Folded(entries) ==
  {e \in entries : e.why # "exclusion"}
    \cup (IF \E e \in entries : e.why = "exclusion" THEN {Unavailable("source")} ELSE {})

(* _settle ends the lookup before the answer leaves *)
Deliver ==
  /\ pc = "excerpts" /\ \A h \in Hits : reader[h] \notin {"waits", "reads"}
  /\ lookup' = IF lookup = "running" THEN "cancelled" ELSE lookup
  /\ IF \E h \in Hits : reader[h] = "broken" THEN pc' = "raised" /\ UNCHANGED named
     ELSE pc' = "answered" /\ named' = Folded(named)
  /\ UNCHANGED <<asked, leg, hits, events, talk, mail, reader>>

Next ==
  \/ \E u \in Unit, how \in Answers : Answer(u, how)
  \/ \E l \in Legs : RunsOut(l)
  \/ AskProviders \/ AskCalendars \/ ListEvents \/ CountUnread \/ SettleHits
  \/ \E verdict \in Verdicts : Screen(verdict) \/ ScreenConversations(verdict) \/ Digest(verdict)
  \/ \E accounts \in SUBSET Account : AskMailboxes(accounts)
  \/ \E full \in BOOLEAN : Compose(full)
  \/ \E how \in Answers : Lookup(how)
  \/ \E h \in Hits : \/ Resolved(h) \/ ExcerptRunsOut(h)
                     \/ \E verdict \in Verdicts, how \in Answers : Excerpt(h, verdict, how)
  \/ Deliver

Spec == Init /\ [][Next]_vars

-----------------------------------------------------------------------------
(* An answer that leaves something out says so (context.py: "A shortened     *)
(* answer says that it is shortened"): every hit, event, waiting             *)
(* conversation, mail account and excerpt is there, or an entry under        *)
(* degraded names its source, a source around it, or the tag check that had  *)
(* no answer.  Not due are hits of tagged files, conversations nobody can    *)
(* place while something is tagged, and what is behind the cursor of a       *)
(* provider: the bundle passes that cursor on to nobody.  And the hits that  *)
(* the search counted as unusable are missing without a word: see            *)
(* SkippedIsTold.                                                            *)
Says(sources) == \E e \in named : e.source \in sources
NoCheck == Unavailable("source") \in named
Due(h) == /\ h \in ToSet(Of(ProviderOf[h])) /\ h \notin Tagged
          /\ ~ (Unplaceable(h) /\ "active" \in Verdicts)

NothingVanishes ==
  pc = "answered" =>
    /\ \A h \in Hits : Due(h) /\ h \notin ToSet(hits.listed) =>
         \/ Says({"search", ProviderOf[h], Bucket(h)}) \/ (NoCheck /\ NeedOf[h] # "none")
         \/ h \in hits.skipped
    /\ \A c \in Calendar : events[c] < Event[c] => Says({"calendar", c})
    /\ Rooms # talk => Says({"talk"}) \/ (NoCheck /\ Rooms \ talk \subseteq Filed)
    /\ \A a \in Account \ mail : Says({"mail", a})
    /\ \A h \in Hits : reader[h] = "failed" =>
         Says({h}) \/ (NoCheck /\ KindOf[h] # "card")

(* What the search dropped and counted is told (search.py: "Named, not       *)
(* swallowed: 'some hits were unusable' is a sentence the model can pass on, *)
(* a shorter list without a word about it is not").                          *)
SkippedIsTold ==
  pc = "answered" => \A h \in hits.skipped : Says({"search", ProviderOf[h]})
===================================================================================
