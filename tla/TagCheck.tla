------------------------------------ MODULE TagCheck ------------------------------------
(***************************************************************************)
(* The check an administrator runs to learn whether the exclusion tag of   *)
(* this Nextcloud does what it is set for: which tags there are, who sees  *)
(* them, how many items carry them.  It asks Nextcloud as the account that *)
(* is named, or as the first ones it finds, one request per question, and  *)
(* people go on changing tags between the requests.                        *)
(***************************************************************************)
EXTENDS Integers, FiniteSets, FiniteSetsExt

CONSTANTS
  Tag,         \* tags of the instance
  Account,     \* accounts, numbered in the order they are listed
  Role,        \* what each account is: "admin", "delegated" or "user"
  Readable,    \* the accounts that can read the listing at all
  MAX_READ_ATTEMPTS,  \* accounts that are tried when none is named
  MaxItems,    \* items that carry one tag
  MaxChanges,  \* changes people make
  Unknown, \* a count that could not be read
  None

VARIABLES
  tags,     \* the tags as Nextcloud has them, None for one that is not there
  changes,  \* how many changes people have made
  at,       \* where the running check is
  named,    \* the account the command names
  reader,   \* the account it asks as
  proven,   \* whether that is an administrator: "yes", "no", or None for undecided
  begun,    \* history: the changes there were when the check began
  seen,     \* the tags of the listing it goes by
  counted,  \* how many items of a tag, as far as it has asked
  report    \* its verdict

outside == <<tags, changes>>
vars == <<outside, at, named, reader, proven, begun, seen, counted, report>>

Kind == {"exact", "variant", "similar"}
TagRow == [kind : Kind, visible : BOOLEAN, assignable : BOOLEAN, items : 0..MaxItems]

TagCheckAssumption ==
  /\ Account \subseteq Nat /\ Readable \subseteq Account /\ None \notin Account
  /\ Role \in [Account -> {"admin", "delegated", "user"}]
  /\ MAX_READ_ATTEMPTS \in Nat /\ MaxItems \in Nat /\ MaxChanges \in Nat
  /\ Unknown # None /\ Unknown \notin Nat /\ None \notin Nat \cup {"yes", "no"}

TypeOK ==
  /\ \A t \in Tag : tags[t] \in TagRow \cup {None}
  /\ changes \in 0..MaxChanges
  /\ at \in {"free", "admin", "listing", "search", "count", "done"}
  /\ named \in Account \cup {None} /\ reader \in Account \cup {None}
  /\ proven \in {"yes", "no", None} /\ begun \in 0..changes

Init ==
  /\ tags = [t \in Tag |-> None] /\ changes = 0
  /\ at = "free" /\ named = None /\ reader = None /\ proven = None /\ begun = 0
  /\ seen = {} /\ counted = [t \in Tag |-> None] /\ report = None

-----------------------------------------------------------------------------
(* Nextcloud: tags are made, changed, put on items, and removed.             *)
Change(t, row) ==
  /\ changes < MaxChanges /\ tags[t] # row
  /\ tags' = [tags EXCEPT ![t] = row] /\ changes' = changes + 1
  /\ UNCHANGED <<at, named, reader, proven, begun, seen, counted, report>>

(* An administrator's listing has every tag, anybody else's the visible ones. *)
Sees(a) == {t \in Tag : tags[t] # None /\ (tags[t].visible \/ Role[a] = "admin")}

-----------------------------------------------------------------------------
(* The command, with an account named or none.                               *)
Run(who) ==
  /\ at = "free"
  /\ at' = IF who = None THEN "search" ELSE "admin"
  /\ named' = who /\ reader' = who /\ begun' = changes
  /\ UNCHANGED <<outside, proven, seen, counted, report>>

(* confirm_admin: the member list of the admin group, which is answered to   *)
(* more accounts than its members.  Anything unreadable decides nothing.     *)
TwoHundredIsEnough(a) == Role[a] \in {"admin", "delegated"}
IsMember(a) == Role[a] = "admin"

Stopped == [checked |-> FALSE, passed |-> FALSE, unconfirmed |-> FALSE]

ConfirmAdmin ==
  /\ at = "admin"
  /\ \/ at' = "listing" /\ proven' = None /\ UNCHANGED report
     \/ IsMember(named) /\ at' = "listing" /\ proven' = "yes" /\ UNCHANGED report
     \/ ~ IsMember(named) /\ at' = "done" /\ proven' = "no" /\ report' = Stopped
  /\ UNCHANGED <<outside, named, reader, begun, seen, counted>>

AdminChecked == proven = "yes"
Unconfirmed == named # None /\ ~ AdminChecked

(* The listing, and of it the visible tags unless an administrator asked.    *)
Listed(details) ==
  {[tag |-> t, kind |-> tags[t].kind, visible |-> tags[t].visible,
    assignable |-> tags[t].assignable] :
     t \in {u \in details : AdminChecked \/ tags[u].visible}}

Counting(a) == at' = "count" /\ reader' = a /\ seen' = Listed(Sees(a)) /\ UNCHANGED report
Unread ==
  /\ at' = "done" /\ report' = [Stopped EXCEPT !.unconfirmed = Unconfirmed]
  /\ UNCHANGED <<reader, seen>>

ReadListing ==
  /\ at = "listing"
  /\ (reader \in Readable /\ Counting(reader)) \/ Unread
  /\ UNCHANGED <<outside, named, proven, begun, counted>>

(* Without a name: the first accounts of the list, in its order, until one   *)
(* answers.                                                                  *)
FirstReader ==
  LET tried == {a \in Account : Cardinality({b \in Account : b <= a}) <= MAX_READ_ATTEMPTS} IN
  /\ at = "search"
  /\ (\E a \in tried \cap Readable : Counting(a)) \/ Unread
  /\ UNCHANGED <<outside, named, proven, begun, counted>>

(* One count for each tag that is, or nearly is, the exclusion tag.  A count *)
(* that cannot be read, or whose tag has gone, stays unknown.                *)
Wanted == {d.tag : d \in {e \in seen : e.kind \in {"exact", "variant"}}}

CountTagObjects(t) ==
  /\ at = "count" /\ t \in Wanted /\ counted[t] = None
  /\ \E n \in {Unknown} \cup (IF tags[t] = None THEN {} ELSE {tags[t].items}) :
       counted' = [counted EXCEPT ![t] = n]
  /\ UNCHANGED <<outside, at, named, reader, proven, begun, seen, report>>

-----------------------------------------------------------------------------
(* audit: what the facts come to.                                            *)
OfKind(kind) == {d \in seen : d.kind = kind}
Exact == OfKind("exact")
Variants == OfKind("variant")
VisibleExact == {d \in Exact : d.visible}
InvisibleExact == {d \in Exact : ~ d.visible}
Gaps == Variants \cup InvisibleExact
TagsOf(facts) == {d.tag : d \in facts}

(* A sum with an unknown summand is unknown; a listing names each tag once.  *)
Total(facts) ==
  IF \E t \in TagsOf(facts) : counted[t] = Unknown THEN Unknown
  ELSE MapThenSumSet(LAMBDA t : counted[t], TagsOf(facts))

NothingThere == [checked |-> TRUE, passed |-> TRUE, unconfirmed |-> Unconfirmed,
                 mode |-> "none", assigned |-> 0, unprotected |-> 0, warned |-> {}]

Mode ==
  CASE InvisibleExact # {} \/ Exact = {} -> "misconfigured"
    [] \E d \in VisibleExact : d.assignable -> "self_service"
    [] OTHER -> "organisation"

(* A variant beside the exact tag is a note; alone it fails the check.  Each *)
(* tag whose items are not excluded gets a line of its own.                  *)
Fails ==
  \/ Exact = {} \/ (AdminChecked /\ InvisibleExact # {})
  \/ Total(VisibleExact) = Unknown \/ Total(Gaps) = Unknown

Judgement == [checked |-> TRUE, passed |-> ~ Fails, unconfirmed |-> Unconfirmed, mode |-> Mode,
              assigned |-> Total(VisibleExact), unprotected |-> Total(Gaps),
              warned |-> TagsOf(Gaps)]

Audit ==
  /\ at = "count" /\ \A t \in Wanted : counted[t] # None
  /\ at' = "done"
  /\ report' = IF Exact \cup Variants = {} THEN NothingThere ELSE Judgement
  /\ UNCHANGED <<outside, named, reader, proven, begun, seen, counted>>

Again ==
  /\ at = "done"
  /\ at' = "free" /\ named' = None /\ reader' = None /\ proven' = None /\ begun' = 0
  /\ seen' = {} /\ counted' = [t \in Tag |-> None] /\ report' = None
  /\ UNCHANGED outside

Next ==
  \/ \E t \in Tag : \E row \in TagRow \cup {None} : Change(t, row)
  \/ \E a \in Account \cup {None} : Run(a)
  \/ ConfirmAdmin \/ ReadListing \/ FirstReader
  \/ \E t \in Tag : CountTagObjects(t)
  \/ Audit \/ Again

Spec == Init /\ [][Next]_vars

-----------------------------------------------------------------------------
(* A check that people left alone to finish tells the truth: every tag whose *)
(* items people believe to be excluded, and are not, is named with a warning *)
(* unless the answer says that invisible tags were not looked at; a green    *)
(* one with an administrator leaves no item behind that only looks excluded, *)
(* but for those of the variants, which it counts; and its other count is    *)
(* the number of items that really are excluded.                             *)
Mistaken ==
  {t \in Tag : tags[t] # None /\ (tags[t].kind = "variant" \/ (tags[t].kind = "exact" /\ ~ tags[t].visible))}
Unprotected == {t \in Mistaken : tags[t].items > 0}
Protected == {t \in Tag : tags[t] # None /\ tags[t].kind = "exact" /\ tags[t].visible}
ItemsOf(S) == MapThenSumSet(LAMBDA t : tags[t].items, S)

CheckTellsTheTruth ==
  at = "done" /\ begun = changes /\ report.checked =>
    /\ \A t \in Unprotected : t \in report.warned \/ (~ AdminChecked /\ ~ tags[t].visible)
    /\ report.passed /\ AdminChecked =>
         /\ \A t \in Unprotected : tags[t].kind = "variant"
         /\ report.unprotected = ItemsOf(Mistaken)
    /\ report.passed => report.assigned = ItemsOf(Protected)
    /\ report.mode = "self_service" => \E t \in Protected : tags[t].assignable
=====================================================================================
