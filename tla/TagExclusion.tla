------------------------------ MODULE TagExclusion ------------------------------
(***************************************************************************)
(* The exclusion by tag.  Before a tool call shows or writes anything it   *)
(* asks Nextcloud which nodes carry the tag, once per call: the ids of the *)
(* tag come from a cache shared by all calls of a user, the nodes from one *)
(* REPORT per id, while the answer that is to be filtered is fetched at    *)
(* the same time.  Meanwhile people go on tagging and moving files.        *)
(***************************************************************************)
EXTENDS Integers, FiniteSets, Sequences

CONSTANTS
  Call,          \* tool calls of one user, each with its ExclusionGuard
  Node, Home,    \* files and folders; the user's home
  Folder,        \* the nodes that are folders
  Placed,        \* where a node lies in the beginning
  Id, Spelling,  \* tag ids; names that is_exclude_name accepts
  Wants,         \* what the calls of a run want from Nextcloud
  TTL_SECONDS, TAG_BUDGET,
  MaxChanges, MaxClock, \* bounds of what people change and of the clock
  None

VARIABLES
  clock,
  parent,        \* where a node lies
  tag,           \* the system tags: spelling and time of creation
  on,            \* which tag is assigned to which node
  changes,       \* how often people changed something
  cache,         \* _tag_ids of the user
  pc, job        \* a call and its local variables

outside == <<parent, tag, on, changes>>
vars == <<clock, outside, cache, pc, job>>

TagExclusionAssumption ==
  /\ IsFiniteSet(Node) /\ Folder \subseteq Node
  /\ Home \notin Node /\ None \notin Node \cup Seq(Node)
  /\ Placed \in [Node -> Folder \cup {Home}]
  /\ \E depth \in [Node -> 0..Cardinality(Node)] :
       \A n \in Node : Placed[n] # Home => depth[Placed[n]] < depth[n]
  /\ Id \subseteq Nat /\ None \notin Id /\ None \notin Spelling
  /\ Wants \subseteq {"children", "below", "entry", "byid", "ids", "place"}
  /\ {TTL_SECONDS, TAG_BUDGET, MaxClock, MaxChanges} \subseteq Nat /\ None \notin Nat

(* An id that was never given away, and one whose tag is gone: no id is used twice. *)
NoTag == [name |-> None, at |-> None]
NoCache == [ids |-> {}, at |-> 0]
Live == {i \in Id : tag[i].name # None}

(* The path of a node is the way to it from the home, itself included. *)
PathIn(where) ==
  LET path[n \in Node] == IF where[n] = Home THEN <<n>> ELSE Append(path[where[n]], n) IN path
Path == PathIn(parent)

(* ancestors: the path itself and every folder above it *)
ancestors(path) == {SubSeq(path, 1, k) : k \in 1..Len(path)}

At(path) == {n \in Node : Path[n] = path}
Found(nodes) == {[path |-> Path[n], fileid |-> n] : n \in nodes}

NoScope == [state |-> None, paths |-> {}, fileids |-> {}]
UNTAGGED == [state |-> "untagged", paths |-> {}, fileids |-> {}]
Job(want, goal, start, ids, free, astray) ==
  [want |-> want, goal |-> goal, start |-> start, second |-> FALSE, listed |-> {}, ids |-> ids,
   answers |-> {}, scope |-> NoScope, content |-> None, free |-> free, moved |-> FALSE,
   astray |-> astray]
Ended(astray) == Job(None, None, 0, {}, {}, astray)
NoJob == Ended({})

Working == {"cached", "list", "listed", "report", "judged"}

TypeOK ==
  /\ clock \in 0..MaxClock /\ changes \in 0..MaxChanges
  /\ parent \in [Node -> Folder \cup {Home}]
  /\ tag \in [Id -> [name : Spelling \cup {None}, at : 0..MaxClock \cup {None}]]
  /\ on \subseteq Live \X Node
  /\ cache.ids \subseteq Id /\ cache.at \in 0..MaxClock
  /\ pc \in [Call -> {"idle"} \cup Working]
  /\ \A c \in Call :
       /\ job[c].ids \cup job[c].listed \subseteq Id
       /\ job[c].free \subseteq Spelling \X Node /\ job[c].astray \subseteq Node
       /\ {a.id : a \in job[c].answers} \subseteq job[c].ids
       /\ job[c].scope.state \in {None, "untagged", "active"}
       /\ pc[c] \in Working => clock - job[c].start <= TAG_BUDGET

-----------------------------------------------------------------------------
(* A tag everybody must know of is old enough that no call holds ids from before it. *)
Known(i, tags, now) == tags[i].name # None /\ now - tags[i].at >= TTL_SECONDS + TAG_BUDGET

(* A spelling withdraws a node: one of its tags is on it, or on a folder above it. *)
Withdrawn(s, n, where, tags, assigned, now) ==
  \E p \in assigned : /\ tags[p[1]].name = s /\ Known(p[1], tags, now)
                      /\ PathIn(where)[p[2]] \in ancestors(PathIn(where)[n])

Visible(where, tags, assigned, now) ==
  {v \in Spelling \X Node : ~Withdrawn(v[1], v[2], where, tags, assigned, now)}

(* What a call may show is what each spelling left visible at some moment of it. *)
Witnessed(jobs, now) ==
  [c \in Call |-> IF pc[c] \in Working
                  THEN [jobs[c] EXCEPT !.free = @ \cup Visible(parent', tag', on', now)]
                  ELSE jobs[c]]

Init ==
  /\ clock = 0 /\ changes = 0 /\ parent = Placed
  /\ tag = [i \in Id |-> NoTag] /\ on = {} /\ cache = NoCache
  /\ pc = [c \in Call |-> "idle"] /\ job = [c \in Call |-> NoJob]

-----------------------------------------------------------------------------
(* The people at Nextcloud *)
Tick ==
  /\ clock < MaxClock
  /\ \A c \in Call : pc[c] \in Working => clock - job[c].start < TAG_BUDGET
  /\ clock' = clock + 1
  /\ UNCHANGED <<outside, cache, pc, job>>

CreateTag ==
  \E i \in Id, s \in Spelling :
    /\ \A k \in Id : k < i => tag[k] # NoTag
    /\ tag[i] = NoTag /\ tag' = [tag EXCEPT ![i] = [name |-> s, at |-> clock]]
    /\ UNCHANGED <<clock, parent, on, cache, pc, job>>

DeleteTag ==
  \E i \in Live :
    /\ tag' = [tag EXCEPT ![i].name = None] /\ on' = {p \in on : p[1] # i}
    /\ UNCHANGED parent
    /\ job' = Witnessed(job, clock)
    /\ UNCHANGED <<clock, cache, pc>>

Assign ==
  \E i \in Live, n \in Node :
    /\ <<i, n>> \notin on /\ on' = on \cup {<<i, n>>}
    /\ UNCHANGED <<clock, parent, tag, cache, pc, job>>

Unassign ==
  \E p \in on :
    /\ on' = on \ {p}
    /\ UNCHANGED <<parent, tag>>
    /\ job' = Witnessed(job, clock)
    /\ UNCHANGED <<clock, cache, pc>>

Move ==
  \E n \in Node, to \in Folder \cup {Home} :
    /\ to # parent[n] /\ (to \in Folder => Path[n] \notin ancestors(Path[to]))
    /\ parent' = [parent EXCEPT ![n] = to]
    /\ UNCHANGED <<tag, on>>
    /\ job' = [c \in Call |-> IF pc[c] \in Working
                              THEN [Witnessed(job, clock)[c] EXCEPT !.moved = TRUE] ELSE job[c]]
    /\ UNCHANGED <<clock, cache, pc>>

-----------------------------------------------------------------------------
Goto(c, to) == pc' = [pc EXCEPT ![c] = to]
Set(c, new) == job' = [job EXCEPT ![c] = new]

(* A call ends: whatever it shows is shown now.  What one spelling withdrew at every
   moment of it, though nothing was moved meanwhile, went astray. *)
Finish(c, shown) ==
  /\ Goto(c, "idle")
  /\ Set(c, Ended(IF job[c].moved THEN {}
                  ELSE {n \in shown : \E s \in Spelling : <<s, n>> \notin job[c].free}))

(* load_scope ends without an answer: the call says so and shows nothing. *)
Unavailable(c) == Finish(c, {})

(* _cached_ids *)
Fresh == cache.ids # {} /\ clock - cache.at < TTL_SECONDS

Begin(c) ==
  \E want \in Wants, goal \in {<<>>} \cup {Path[n] : n \in Node} \cup Node :
    /\ pc[c] = "idle"
    /\ want = "byid" <=> goal \in Node
    /\ want = "entry" => goal # <<>>
    /\ want = "ids" => goal = <<>>
    /\ Goto(c, IF Fresh THEN "report" ELSE "list")
    /\ Set(c, Job(want, goal, clock, IF Fresh THEN cache.ids ELSE {},
                  Visible(parent, tag, on, clock), {}))
    /\ UNCHANGED <<clock, outside, cache>>

(* exclude_tag_ids: the lowest id of every spelling *)
Spelt == {i \in Live : \A k \in Live : tag[k].name = tag[i].name => i <= k}

(* list_tags: Nextcloud answers *)
List(c) ==
  /\ pc[c] = "list"
  /\ Goto(c, "listed") /\ Set(c, [job[c] EXCEPT !.listed = Spelt])
  /\ UNCHANGED <<clock, outside, cache>>

(* _fresh_ids: the answer arrives; only ids are kept, never their absence *)
KeptForGood(ids) == [ids |-> ids, at |-> MaxClock]
Kept(ids) == IF ids = {} THEN cache ELSE [ids |-> ids, at |-> clock]

Learn(c) ==
  LET ids == job[c].listed
  IN  /\ pc[c] = "listed"
      /\ cache' = Kept(ids)
      /\ IF ids = {} THEN Goto(c, "judged") /\ Set(c, [job[c] EXCEPT !.scope = UNTAGGED])
         ELSE Goto(c, "report") /\ Set(c, [job[c] EXCEPT !.ids = ids, !.answers = {}])
      /\ UNCHANGED <<clock, outside>>

(* tagged_nodes: Nextcloud unites the tags of one name, and knows no id that is gone *)
ReportOf(i) ==
  [id |-> i, gone |-> i \notin Live,
   nodes |-> IF i \notin Live THEN {}
             ELSE Found({p[2] : p \in {q \in on : tag[q[1]].name = tag[i].name}})]

Report(c) ==
  \E i \in job[c].ids :
    /\ pc[c] = "report" /\ \A a \in job[c].answers : a.id # i
    /\ Set(c, [job[c] EXCEPT !.answers = @ \cup {ReportOf(i)}])
    /\ UNCHANGED <<clock, outside, cache, pc>>

(* _active: the sets of all ids together *)
Active(answers) ==
  LET nodes == UNION {a.nodes : a \in answers}
  IN  [state |-> "active", paths |-> {e.path : e \in nodes}, fileids |-> {e.fileid : e \in nodes}]

(* _flight, once all REPORTs are in: a set, or one more try with fresh ids, or no answer *)
Judge(c) ==
  /\ pc[c] = "report" /\ {a.id : a \in job[c].answers} = job[c].ids
  /\ UNCHANGED <<clock, outside>>
  /\ IF \A a \in job[c].answers : ~a.gone
     THEN /\ Goto(c, "judged") /\ Set(c, [job[c] EXCEPT !.scope = Active(job[c].answers)])
          /\ UNCHANGED cache
     ELSE /\ cache' = NoCache
          /\ IF job[c].second THEN Unavailable(c)
             ELSE Goto(c, "list") /\ Set(c, [job[c] EXCEPT !.second = TRUE])

(* A request fails, answers nonsense, or the budget of the flight is spent. *)
Unanswered(c) ==
  /\ pc[c] \in {"list", "listed", "report"}
  /\ Unavailable(c)
  /\ UNCHANGED <<clock, outside, cache>>

-----------------------------------------------------------------------------
(* The answer to be filtered is fetched beside the scope.  Hits of another app name a
   file by its id, and its path only when the app says it. *)
Listing(path) == {n \in Node : Len(Path[n]) = Len(path) + 1 /\ path \in ancestors(Path[n]) \cup {<<>>}}
Below(path) == {n \in Node : path \in (ancestors(Path[n]) \cup {<<>>}) \ {Path[n]}}

Content(want, goal) ==
  CASE want = "children" -> {Found(Listing(goal) \cup At(goal))}
    [] want = "below" -> {Found(Below(goal))}
    [] want = "entry" -> {Found(At(goal))}
    [] want = "byid" -> {Found({goal})}
    [] OTHER -> {Found(Node), {[path |-> None, fileid |-> n] : n \in Node}}

Fetch(c) ==
  /\ pc[c] \in Working /\ job[c].want # "place" /\ job[c].content = None
  /\ \E answer \in Content(job[c].want, job[c].goal) : Set(c, [job[c] EXCEPT !.content = answer])
  /\ UNCHANGED <<clock, outside, cache, pc>>

ExcludesByName(scope, path, fileid) ==
  scope.state = "active" /\ (fileid \in scope.fileids \/ path \in scope.paths)

(* TagScope.excludes *)
Excludes(scope, path, fileid) ==
  /\ scope.state = "active"
  /\ \/ fileid \in scope.fileids
     \/ path # None /\ ancestors(path) \cap scope.paths # {}

Shown(scope, entries) == {e \in entries : ~Excludes(scope, e.path, e.fileid)}

(* needs_paths: without a tagged folder the ids alone decide *)
NeedsPaths(scope) == \E n \in scope.fileids : n \in Folder

Ready(c, want) == pc[c] = "judged" /\ job[c].want = want /\ job[c].content # None
Answer(c, shown) == Finish(c, {e.fileid : e \in shown}) /\ UNCHANGED <<clock, outside, cache>>
Allowed(c) == Shown(job[c].scope, job[c].content)

-----------------------------------------------------------------------------
(* The file tools *)
ListDir(c) ==
  LET self == {e \in job[c].content : e.path = job[c].goal}
  IN  /\ Ready(c, "children")
      /\ Answer(c, IF self \subseteq Allowed(c) THEN Allowed(c) \ self ELSE {})

(* _visible_hits: hidden hits cost places, so a search may ask again for more *)
SearchMore(c) ==
  /\ Ready(c, "below") /\ Allowed(c) # job[c].content
  /\ Set(c, [job[c] EXCEPT !.content = Found(Below(job[c].goal))])
  /\ UNCHANGED <<clock, outside, cache, pc>>

Search(c) ==
  /\ Ready(c, "below")
  /\ Answer(c, IF Excludes(job[c].scope, job[c].goal, None) THEN {} ELSE Allowed(c))

(* The entry is checked as it was, its content comes later and by its path. *)
ContentAt(c) == Finish(c, UNION {At(e.path) : e \in Allowed(c)}) /\ UNCHANGED <<clock, outside, cache>>

Read(c) == Ready(c, "entry") /\ ContentAt(c)

ReadAsMarkdown(c) == Ready(c, "entry") /\ ContentAt(c)

Download(c) == Ready(c, "entry") /\ ContentAt(c)

FetchFile(c) == Ready(c, "byid") /\ ContentAt(c)

(* _writable, and the write: a new name in the folder at the path *)
WriteAt(c) ==
  /\ pc[c] = "judged" /\ job[c].want = "place"
  /\ Finish(c, IF Excludes(job[c].scope, job[c].goal, None) THEN {} ELSE At(job[c].goal))
  /\ UNCHANGED <<clock, outside, cache>>

Upload(c) == WriteAt(c)

UploadAttachment(c) == WriteAt(c)

CreateNote(c) == WriteAt(c)

(* update: the entry is checked before it is replaced *)
Update(c) == Ready(c, "entry") /\ ContentAt(c)

-----------------------------------------------------------------------------
(* The tools whose answers name files by their ids: once more to Nextcloud for the paths
   of the ids that came without one, all of them or none of them; what it does not name
   is withheld. *)
Unresolved(c) ==
  NeedsPaths(job[c].scope) /\ \E e \in job[c].content : e.path = None

Resolve(c) ==
  /\ Ready(c, "ids") /\ Unresolved(c)
  /\ Set(c, [job[c] EXCEPT !.content = Found({e.fileid : e \in @})])
  /\ UNCHANGED <<clock, outside, cache, pc>>

NotResolved(c) ==
  /\ Ready(c, "ids") /\ Unresolved(c)
  /\ Unavailable(c)
  /\ UNCHANGED <<clock, outside, cache>>

Hits(c) == Ready(c, "ids") /\ ~Unresolved(c)

UnifiedSearch(c) == Hits(c) /\ Answer(c, Allowed(c))

TalkScreen(c) == Hits(c) /\ Answer(c, Allowed(c))

TableLinks(c) == Hits(c) /\ Answer(c, Allowed(c))

NoteSearch(c) == Hits(c) /\ Answer(c, Allowed(c))

ReadNote(c) == Hits(c) /\ \E e \in job[c].content : Answer(c, {e} \cap Allowed(c))

-----------------------------------------------------------------------------
People == CreateTag \/ DeleteTag \/ Assign \/ Unassign \/ Move

Flight(c) == Begin(c) \/ List(c) \/ Learn(c) \/ Report(c) \/ Judge(c) \/ Unanswered(c) \/ Fetch(c)

FileTools(c) ==
  \/ ListDir(c) \/ SearchMore(c) \/ Search(c) \/ Read(c) \/ ReadAsMarkdown(c) \/ Download(c)
  \/ FetchFile(c) \/ Upload(c) \/ UploadAttachment(c) \/ CreateNote(c) \/ Update(c)

OtherTools(c) ==
  \/ Resolve(c) \/ NotResolved(c) \/ UnifiedSearch(c) \/ TalkScreen(c) \/ TableLinks(c)
  \/ NoteSearch(c) \/ ReadNote(c)

Next ==
  \/ Tick
  \/ changes < MaxChanges /\ changes' = changes + 1 /\ People
  \/ \E c \in Call : Flight(c) \/ FileTools(c) \/ OtherTools(c)

Spec == Init /\ [][Next]_vars

-----------------------------------------------------------------------------
(* What carries the tag, or lies below what carries it, all through a call is
   neither shown nor written into by it (exclusion.py: "a tag added a second ago
   has to take effect on the next call"), whatever the cache of ids has seen and
   however often tags came and went.  Three things are outside: a spelling
   younger than the cache's lifetime and the flight's budget; a file or folder
   that was moved while the call ran; and one that was tagged in one spelling
   and freed of another between the REPORTs of the two, which are requests of
   their own and may each miss it. *)
TaggedStaysWithheld ==
  \A c \in Call : job[c].astray = {}
=============================================================================
