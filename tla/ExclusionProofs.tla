----------------------------- MODULE ExclusionProofs -----------------------------
(* What carries the tag stays withheld, for any number of calls, files, tags and *)
(* spellings, and for any lifetime of the cache.                                 *)
EXTENDS TagExclusion, FiniteSetTheorems, SequenceTheorems, NaturalsInduction,
        WellFoundedInduction, TLAPS

(* The diagnosis of the tags: its own variables, and bounds of its own.         *)
CONSTANTS Tag, Account, Role, Readable, MAX_READ_ATTEMPTS, MaxItems, Edits, Unknown
VARIABLES labels, edits, stage, named, reader, proven, begun, seen, counted, report

TK == INSTANCE TagCheck WITH tags <- labels, changes <- edits, at <- stage, MaxChanges <- Edits

-----------------------------------------------------------------------------
(* Paths.  No node lies below itself, so there is one way home from each, and   *)
(* the path that the recursion gives is that way.                               *)
Placing(where) ==
  /\ where \in [Node -> Folder \cup {Home}]
  /\ \E depth \in [Node -> Nat] : \A n \in Node : where[n] # Home => depth[where[n]] < depth[n]

Way(where, n, s) ==
  /\ s \in Seq(Node) /\ Len(s) > 0 /\ s[Len(s)] = n /\ where[s[1]] = Home
  /\ \A k \in 2..Len(s) : where[s[k]] = s[k - 1]

LEMMA Nearest ==
  ASSUME TagExclusionAssumption, NEW where, Placing(where), NEW B \in SUBSET Node, B # {}
  PROVE  \E n \in B : where[n] = Home \/ (where[n] \in Node \ B)
<1>1. PICK depth \in [Node -> Nat] : \A n \in Node : where[n] # Home => depth[where[n]] < depth[n]
  BY DEF Placing
<1> DEFINE D == {depth[n] : n \in B}
<1>2. D \subseteq Nat /\ D # {}
  BY <1>1
<1>3. PICK m \in D : \A k \in D : ~(<<k, m>> \in OpToRel(<, Nat))
  BY <1>2, NatLessThanWellFounded, WFMin
<1>4. PICK n \in B : depth[n] = m
  OBVIOUS
<1>5. where[n] \in Folder \cup {Home} /\ Folder \subseteq Node
  BY DEF Placing, TagExclusionAssumption
<1>6. where[n] # Home => where[n] \notin B
  <2> SUFFICES ASSUME where[n] # Home, where[n] \in B PROVE FALSE
    OBVIOUS
  <2>1. depth[where[n]] \in D /\ depth[where[n]] \in Nat /\ m \in Nat /\ depth[where[n]] < m
    BY <1>1, <1>4
  <2> QED BY <1>3, <2>1 DEF OpToRel
<1> QED BY <1>5, <1>6

LEMMA MoreThanOne ==
  ASSUME NEW len \in Nat, len > 0, len # 1
  PROVE  /\ len \in 2..len /\ len - 1 \in 1..len /\ len - 1 \in 1..(len - 1) /\ len - 1 \in Nat
OBVIOUS

LEMMA WayHome ==
  ASSUME TagExclusionAssumption, NEW where, NEW n \in Node, NEW s, Way(where, n, s), where[n] = Home
  PROVE  s = <<n>>
<1>1. s \in Seq(Node) /\ Len(s) \in Nat /\ Len(s) > 0 /\ \A k \in 1..Len(s) : s[k] \in Node
  BY DEF Way
<1>2. Len(s) = 1
  <2> SUFFICES ASSUME Len(s) # 1 PROVE FALSE
    OBVIOUS
  <2>1. Len(s) \in 2..Len(s) /\ Len(s) - 1 \in 1..Len(s)
    BY <1>1, MoreThanOne
  <2>2. where[n] = s[Len(s) - 1]
    BY <2>1 DEF Way
  <2> QED BY <1>1, <2>1, <2>2 DEF TagExclusionAssumption
<1> QED BY <1>1, <1>2 DEF Way

LEMMA WayFront ==
  ASSUME TagExclusionAssumption, NEW where, NEW n \in Node, NEW s, Way(where, n, s), where[n] # Home
  PROVE  LET t == SubSeq(s, 1, Len(s) - 1) IN Way(where, where[n], t) /\ s = Append(t, n)
<1>1. s \in Seq(Node) /\ Len(s) \in Nat /\ Len(s) > 0 /\ s[Len(s)] = n
  BY DEF Way
<1>2. Len(s) # 1
  BY <1>1 DEF Way
<1> DEFINE l == Len(s) - 1
           t == SubSeq(s, 1, l)
<1>3. l \in 1..Len(s) /\ l \in Nat
  BY <1>1, <1>2, MoreThanOne
<1>4. t \in Seq(Node) /\ Len(t) = l /\ \A k \in 1..l : t[k] = s[k]
  BY <1>1, <1>3, SubSeqProperties
<1>5. Len(s) \in 2..Len(s)
  BY <1>1, <1>2, MoreThanOne
<1>6. where[n] = s[l]
  BY <1>1, <1>5 DEF Way
<1>7. s = Append(t, n)
  BY <1>1, <1>3, <1>4
<1>8. Way(where, where[n], t)
  BY <1>1, <1>3, <1>4, <1>6 DEF Way
<1> QED BY <1>7, <1>8

LEMMA WayOn ==
  ASSUME NEW where, NEW n \in Node, NEW s, where[n] \in Node, Way(where, where[n], s)
  PROVE  Way(where, n, Append(s, n))
<1> DEFINE t == Append(s, n)
<1>1. s \in Seq(Node) /\ Len(s) \in Nat /\ Len(s) > 0 /\ s[Len(s)] = where[n]
  BY DEF Way
<1>2. t \in Seq(Node) /\ Len(t) = Len(s) + 1 /\ t[Len(s) + 1] = n /\ \A k \in 1..Len(s) : t[k] = s[k]
  BY <1>1, AppendProperties
<1> HIDE DEF t
<1>3. ASSUME NEW k \in 2..Len(t) PROVE where[t[k]] = t[k - 1]
  <2>1. CASE k = Len(t)
    BY <1>1, <1>2, <2>1
  <2>2. CASE k # Len(t)
    <3>1. k \in 2..Len(s) /\ k \in 1..Len(s) /\ k - 1 \in 1..Len(s)
      BY <1>1, <1>2, <2>2
    <3> QED BY <1>2, <3>1 DEF Way
  <2> QED BY <2>1, <2>2
<1>4. t[1] = s[1] /\ where[s[1]] = Home
  BY <1>1, <1>2 DEF Way
<1>5. Way(where, n, t)
  BY <1>1, <1>2, <1>3, <1>4 DEF Way
<1> QED BY <1>5 DEF t

LEMMA WayFromHome ==
  ASSUME NEW where, NEW n \in Node, where[n] = Home
  PROVE  Way(where, n, <<n>>)
BY DEF Way

LEMMA OneWay ==
  ASSUME TagExclusionAssumption, NEW where, Placing(where)
  PROVE  \A n \in Node : \A s, t : Way(where, n, s) /\ Way(where, n, t) => s = t
<1> DEFINE B == {n \in Node : \E s, t : Way(where, n, s) /\ Way(where, n, t) /\ s # t}
<1> SUFFICES ASSUME B # {} PROVE FALSE
  OBVIOUS
<1>1. PICK n \in B : where[n] = Home \/ (where[n] \in Node \ B)
  BY Nearest
<1>2. PICK s, t : Way(where, n, s) /\ Way(where, n, t) /\ s # t
  BY <1>1
<1>3. CASE where[n] = Home
  BY <1>2, <1>3, WayHome
<1>4. CASE where[n] # Home
  <2> DEFINE u == SubSeq(s, 1, Len(s) - 1)
             v == SubSeq(t, 1, Len(t) - 1)
  <2>1. Way(where, where[n], u) /\ s = Append(u, n)
    BY <1>2, <1>4, WayFront
  <2>2. Way(where, where[n], v) /\ t = Append(v, n)
    BY <1>2, <1>4, WayFront
  <2> HIDE DEF u, v
  <2>3. u = v
    BY <1>1, <1>4, <2>1, <2>2
  <2> QED BY <1>2, <2>1, <2>2, <2>3
<1> QED BY <1>3, <1>4

LEMMA SomeWay ==
  ASSUME TagExclusionAssumption, NEW where, Placing(where)
  PROVE  \A n \in Node : \E s : Way(where, n, s)
<1> DEFINE B == {n \in Node : ~\E s : Way(where, n, s)}
<1> SUFFICES ASSUME B # {} PROVE FALSE
  OBVIOUS
<1>1. PICK n \in B : where[n] = Home \/ (where[n] \in Node \ B)
  BY Nearest
<1>2. CASE where[n] = Home
  BY <1>1, <1>2, WayFromHome
<1>3. CASE where[n] \in Node \ B
  <2>1. PICK s : Way(where, where[n], s)
    BY <1>3
  <2> QED BY <1>1, <1>3, <2>1, WayOn
<1> QED BY <1>1, <1>2, <1>3

IsPaths(where, F) ==
  F = [n \in Node |-> IF where[n] = Home THEN <<n>> ELSE Append(F[where[n]], n)]

LEMMA PathsExist ==
  ASSUME TagExclusionAssumption, NEW where, Placing(where)
  PROVE  IsPaths(where, PathIn(where))
<1> DEFINE F == [n \in Node |-> CHOOSE s : Way(where, n, s)]
<1>1. \A n \in Node : Way(where, n, F[n])
  BY SomeWay
<1>2. ASSUME NEW n \in Node
      PROVE  F[n] = IF where[n] = Home THEN <<n>> ELSE Append(F[where[n]], n)
  <2>1. CASE where[n] = Home
    <3>1. F[n] = <<n>>
      <4> HIDE DEF F
      <4> QED BY <1>1, <2>1, WayHome
    <3> QED BY <2>1, <3>1
  <2>2. CASE where[n] # Home
    <3>1. where[n] \in Node
      BY <2>2 DEF Placing, TagExclusionAssumption
    <3> HIDE DEF F
    <3>2. Way(where, where[n], F[where[n]])
      BY <1>1, <3>1
    <3>3. Way(where, n, Append(F[where[n]], n))
      BY <3>1, <3>2, WayOn
    <3>4. F[n] = Append(F[where[n]], n)
      BY <1>1, <3>3, OneWay
    <3> QED BY <2>2, <3>4
  <2> QED BY <2>1, <2>2
<1>3. IsPaths(where, F)
  <2>1. F = [n \in Node |-> F[n]]
    OBVIOUS
  <2>2. [n \in Node |-> F[n]] = [n \in Node |-> IF where[n] = Home THEN <<n>> ELSE Append(F[where[n]], n)]
    <3> HIDE DEF F
    <3> QED BY <1>2
  <2> HIDE DEF F
  <2> QED BY <2>1, <2>2 DEF IsPaths
<1> HIDE DEF F
<1>4. IsPaths(where, CHOOSE G : IsPaths(where, G))
  BY <1>3
<1>5. PathIn(where) = CHOOSE G : IsPaths(where, G)
  BY DEF PathIn, IsPaths
<1> QED BY <1>4, <1>5

LEMMA PathIsTheWay ==
  ASSUME TagExclusionAssumption, NEW where, Placing(where)
  PROVE  \A n \in Node : Way(where, n, PathIn(where)[n])
<1> DEFINE F == PathIn(where)
           B == {n \in Node : ~Way(where, n, F[n])}
<1>0. IsPaths(where, F)
  BY PathsExist
<1> HIDE DEF F
<1> SUFFICES ASSUME B # {} PROVE FALSE
  BY DEF F
<1>1. PICK n \in B : where[n] = Home \/ (where[n] \in Node \ B)
  BY Nearest
<1>2. F[n] = IF where[n] = Home THEN <<n>> ELSE Append(F[where[n]], n)
  BY <1>0, <1>1 DEF IsPaths
<1>3. CASE where[n] = Home
  BY <1>1, <1>2, <1>3, WayFromHome
<1>4. CASE where[n] # Home
  <2>1. where[n] \in Node /\ Way(where, where[n], F[where[n]])
    BY <1>1, <1>4
  <2>2. Way(where, n, Append(F[where[n]], n))
    BY <1>1, <2>1, WayOn
  <2> QED BY <1>1, <1>2, <1>4, <2>2
<1> QED BY <1>3, <1>4

LEMMA WayPrefix ==
  ASSUME NEW where, NEW n \in Node, NEW s, Way(where, n, s), NEW k \in 1..Len(s)
  PROVE  s[k] \in Node /\ Way(where, s[k], SubSeq(s, 1, k))
<1> DEFINE t == SubSeq(s, 1, k)
<1>1. s \in Seq(Node) /\ Len(s) \in Nat /\ Len(s) > 0 /\ k \in Nat /\ k > 0 /\ k <= Len(s)
  BY DEF Way
<1>2. t \in Seq(Node) /\ Len(t) = k /\ \A i \in 1..k : t[i] = s[i]
  BY <1>1, SubSeqProperties
<1>3. s[k] \in Node
  BY <1>1
<1>4. t[Len(t)] = s[k] /\ t[1] = s[1]
  BY <1>1, <1>2
<1> HIDE DEF t
<1>5. ASSUME NEW i \in 2..Len(t) PROVE where[t[i]] = t[i - 1]
  <2>1. i \in 2..Len(s) /\ i \in 1..k /\ i - 1 \in 1..k
    BY <1>1, <1>2
  <2> QED BY <1>2, <2>1 DEF Way
<1>6. Way(where, s[k], t)
  BY <1>1, <1>2, <1>4, <1>5 DEF Way
<1> QED BY <1>3, <1>6 DEF t

(* m stands over n: it is n, or a folder on the way of n.                      *)
Over(where, m, n) == PathIn(where)[m] \in ancestors(PathIn(where)[n])

LEMMA Paths ==
  ASSUME TagExclusionAssumption, NEW where, Placing(where), NEW n \in Node
  PROVE  /\ PathIn(where)[n] \in Seq(Node) /\ PathIn(where)[n] # None
         /\ \A m \in Node : PathIn(where)[m] = PathIn(where)[n] => m = n
         /\ Over(where, n, n)
<1> DEFINE s == PathIn(where)[n]
<1>1. Way(where, n, s)
  BY PathIsTheWay
<1> HIDE DEF s
<1>2. s \in Seq(Node) /\ Len(s) \in Nat /\ Len(s) > 0 /\ s[Len(s)] = n
  BY <1>1 DEF Way
<1>3. s # None
  BY <1>2 DEF TagExclusionAssumption
<1>4. ASSUME NEW m \in Node, PathIn(where)[m] = s PROVE m = n
  <2>1. Way(where, m, s)
    BY SMTT(60), <1>4, PathIsTheWay
  <2> QED BY SMTT(60), <1>2, <2>1 DEF Way
<1>5. s \in ancestors(s)
  <2>1. SubSeq(s, 1, Len(s)) = s /\ Len(s) \in 1..Len(s)
    BY <1>2
  <2> QED BY <2>1 DEF ancestors
<1> QED BY <1>2, <1>3, <1>4, <1>5 DEF Over, s

LEMMA OverIsOnTheWay ==
  ASSUME TagExclusionAssumption, NEW where, Placing(where), NEW n \in Node, NEW m \in Node
  PROVE  LET s == PathIn(where)[n] IN Over(where, m, n) <=> \E k \in 1..Len(s) : m = s[k]
<1> DEFINE s == PathIn(where)[n]
<1>1. Way(where, n, s)
  BY PathIsTheWay
<1>2. ASSUME NEW k \in 1..Len(s)
      PROVE  s[k] \in Node /\ PathIn(where)[s[k]] = SubSeq(s, 1, k)
  <2> HIDE DEF s
  <2>1. s[k] \in Node /\ Way(where, s[k], SubSeq(s, 1, k))
    BY <1>1, WayPrefix
  <2>2. Way(where, s[k], PathIn(where)[s[k]])
    BY <2>1, PathIsTheWay
  <2> QED BY <2>1, <2>2, OneWay
<1>3. ASSUME NEW k \in 1..Len(s), PathIn(where)[m] = SubSeq(s, 1, k) PROVE m = s[k]
  <2>1. s[k] \in Node /\ PathIn(where)[m] = PathIn(where)[s[k]]
    BY <1>2, <1>3
  <2> HIDE DEF s
  <2> QED BY <2>1, Paths
<1>4. Over(where, m, n) <=> \E k \in 1..Len(s) : PathIn(where)[m] = SubSeq(s, 1, k)
  BY DEF Over, ancestors
<1> HIDE DEF s
<1>5. Over(where, m, n) <=> \E k \in 1..Len(s) : m = s[k]
  BY <1>2, <1>3, <1>4
<1> QED BY <1>5 DEF s

LEMMA OverIsAFolder ==
  ASSUME TagExclusionAssumption, NEW where, Placing(where), NEW n \in Node, NEW m \in Node,
         Over(where, m, n)
  PROVE  m = n \/ m \in Folder
<1> DEFINE s == PathIn(where)[n]
<1>1. Way(where, n, s)
  BY PathIsTheWay
<1>2. PICK k \in 1..Len(s) : m = s[k]
  BY OverIsOnTheWay
<1> HIDE DEF s
<1>3. s \in Seq(Node) /\ Len(s) \in Nat /\ s[Len(s)] = n
  BY <1>1 DEF Way
<1>4. CASE k = Len(s)
  BY <1>2, <1>3, <1>4
<1>5. CASE k # Len(s)
  <2>1. k + 1 \in 2..Len(s) /\ k + 1 \in 1..Len(s) /\ (k + 1) - 1 = k
    BY <1>3, <1>5
  <2>2. where[s[k + 1]] = s[k] /\ s[k + 1] \in Node
    BY <1>1, <1>3, <2>1 DEF Way
  <2>3. where[s[k + 1]] \in Folder \cup {Home}
    BY <2>2 DEF Placing
  <2> QED BY <1>2, <2>2, <2>3 DEF TagExclusionAssumption
<1> QED BY <1>4, <1>5

LEMMA OverGoesOn ==
  ASSUME TagExclusionAssumption, NEW where, Placing(where), NEW n \in Node, NEW m \in Node
  PROVE  /\ where[n] = Home => (Over(where, m, n) <=> m = n)
         /\ where[n] # Home => (Over(where, m, n) <=> m = n \/ Over(where, m, where[n]))
<1> DEFINE s == PathIn(where)[n]
<1>1. Way(where, n, s)
  BY PathIsTheWay
<1>2. Over(where, m, n) <=> \E k \in 1..Len(s) : m = s[k]
  BY OverIsOnTheWay
<1>3. ASSUME where[n] = Home PROVE Over(where, m, n) <=> m = n
  <2>1. s = <<n>>
    <3> HIDE DEF s
    <3> QED BY <1>1, <1>3, WayHome
  <2>2. Len(s) = 1 /\ s[1] = n
    BY <2>1
  <2> HIDE DEF s
  <2> QED BY <1>2, <2>2
<1>4. ASSUME where[n] # Home PROVE Over(where, m, n) <=> m = n \/ Over(where, m, where[n])
  <2> DEFINE t == PathIn(where)[where[n]]
  <2>1. where[n] \in Node
    BY <1>4 DEF Placing, TagExclusionAssumption
  <2>2. Way(where, where[n], t)
    BY <2>1, PathIsTheWay
  <2>3. Over(where, m, where[n]) <=> \E k \in 1..Len(t) : m = t[k]
    BY <2>1, OverIsOnTheWay
  <2> HIDE DEF s, t
  <2>4. Way(where, n, Append(t, n))
    BY <2>1, <2>2, WayOn
  <2>5. s = Append(t, n)
    BY <1>1, <2>4, OneWay
  <2>6. t \in Seq(Node) /\ Len(t) \in Nat
    BY <2>2 DEF Way
  <2>7. Len(s) = Len(t) + 1 /\ s[Len(t) + 1] = n /\ \A k \in 1..Len(t) : s[k] = t[k]
    BY <2>5, <2>6, AppendProperties
  <2>8. \A k : k \in 1..Len(s) <=> k \in 1..Len(t) \/ k = Len(t) + 1
    BY <2>6, <2>7
  <2> QED BY <1>2, <2>3, <2>7, <2>8
<1> QED BY <1>3, <1>4

(* A node may be moved to any place that is not below it.                      *)
LEMMA Moved ==
  ASSUME TagExclusionAssumption, NEW where, Placing(where), NEW n \in Node,
         NEW to \in Folder \cup {Home}, to \in Folder => ~Over(where, n, to)
  PROVE  Placing([where EXCEPT ![n] = to])
<1> DEFINE there == [where EXCEPT ![n] = to]
<1>1. PICK depth \in [Node -> Nat] : \A x \in Node : where[x] # Home => depth[where[x]] < depth[x]
  BY DEF Placing
<1>2. /\ where \in [Node -> Folder \cup {Home}] /\ there \in [Node -> Folder \cup {Home}]
      /\ there[n] = to /\ \A x \in Node \ {n} : there[x] = where[x]
  BY DEF Placing
<1> HIDE DEF there
<1>3. PICK base \in Nat : to # Home => base = depth[to]
  BY DEF TagExclusionAssumption
<1> DEFINE deep == [x \in Node |-> IF Over(where, n, x) THEN depth[x] + base + 1 ELSE depth[x]]
<1>4. deep \in [Node -> Nat]
  OBVIOUS
<1>5. ASSUME NEW x \in Node, there[x] # Home PROVE deep[there[x]] < deep[x]
  <2>1. there[x] \in Node
    BY <1>2, <1>5 DEF TagExclusionAssumption
  <2>2. CASE x = n
    <3>1. there[x] = to /\ to \in Folder /\ to # Home /\ Over(where, n, x)
      BY <1>2, <1>5, <2>2, Paths
    <3>2. deep[to] = depth[to] /\ deep[x] = depth[x] + base + 1 /\ base = depth[to]
      BY <1>3, <2>1, <3>1
    <3>3. depth[x] \in Nat /\ depth[to] \in Nat
      BY <2>1, <3>1
    <3> QED BY <3>1, <3>2, <3>3
  <2>3. CASE x # n
    <3>1. there[x] = where[x] /\ where[x] # Home /\ depth[where[x]] < depth[x]
      BY <1>1, <1>2, <1>5, <2>3
    <3>2. Over(where, n, x) <=> Over(where, n, where[x])
      BY <2>3, <3>1, OverGoesOn
    <3>3. where[x] \in Node /\ depth[x] \in Nat /\ depth[where[x]] \in Nat
      BY <2>1, <3>1
    <3> QED BY <3>1, <3>2, <3>3
  <2> QED BY <2>2, <2>3
<1> HIDE DEF deep
<1> QED BY <1>2, <1>4, <1>5 DEF Placing, there

-----------------------------------------------------------------------------
(* What is known of a call on its way.  While it works, a node that a spelling  *)
(* has not left visible is withdrawn by it right now; what the call has of the  *)
(* ids and reports is enough to find it, unless something is moved.             *)
FoundEntry == [path : Seq(Node), fileid : Node]
Entry == [path : Seq(Node) \cup {None}, fileid : Node]
Scope == [state : {None, "untagged", "active"}, paths : SUBSET Seq(Node), fileids : SUBSET Node]
ReportRow == [id : Id, gone : BOOLEAN, nodes : SUBSET FoundEntry]
JobRow ==
  [want : Wants \cup {None}, goal : Seq(Node) \cup Node \cup {None}, start : 0..MaxClock,
   second : BOOLEAN, listed : SUBSET Id, ids : SUBSET Id, answers : SUBSET ReportRow, scope : Scope,
   content : (SUBSET Entry) \cup {None}, free : SUBSET (Spelling \X Node), moved : BOOLEAN,
   astray : SUBSET Node]
TagRow == [name : Spelling \cup {None}, at : 0..MaxClock \cup {None}]

LiveIn(tags) == {i \in Id : tags[i].name # None}
GivenIn(tags) == {i \in Id : tags[i].at # None}
Named(i, s, tags) == tags[i].name = s \/ tags[i].name = None
Covers(ids, before, tags) ==
  \A k \in LiveIn(tags) : tags[k].at < before => \E i \in ids : Named(i, tags[k].name, tags)

Missed(j) == {p \in Spelling \X Node : p \notin j.free}

Reported(j, s, n, where, tags) ==
  \/ \E i \in j.ids : Named(i, s, tags) /\ \A a \in j.answers : a.id # i
  \/ \E a \in j.answers : a.gone
  \/ \E a \in j.answers :
       \E e \in a.nodes : e.path = PathIn(where)[e.fileid] /\ Over(where, e.fileid, n)

Withholds(scope, n, where) ==
  scope.state = "active"
  /\ \E m \in scope.fileids : PathIn(where)[m] \in scope.paths /\ Over(where, m, n)

Fetched(j, where) ==
  j.content # None =>
    \A e \in j.content : /\ e.path = None => j.want = "ids"
                         /\ ~j.moved => e.path \in {PathIn(where)[e.fileid], None}

Bounded(j, tags, now) ==
  /\ j.want \in Wants /\ (j.want = "byid" => j.goal \in Node)
  /\ j.start <= now /\ now - j.start <= TAG_BUDGET
  /\ j.listed \subseteq GivenIn(tags) /\ j.ids \subseteq GivenIn(tags)
  /\ \A a \in j.answers : a.id \in j.ids

Promised(step, j, s, n, where, tags) ==
  /\ step = "listed" => \E i \in j.listed : Named(i, s, tags)
  /\ step = "report" /\ ~j.moved => Reported(j, s, n, where, tags)
  /\ step = "judged" /\ ~j.moved => Withholds(j.scope, n, where)

JobRight(step, j, where, tags, assigned, now) ==
  step \in Working =>
    /\ Bounded(j, tags, now) /\ Fetched(j, where)
    /\ \A p \in Missed(j) : /\ Withdrawn(p[1], p[2], where, tags, assigned, now)
                           /\ Promised(step, j, p[1], p[2], where, tags)
    /\ step = "listed" => Covers(j.listed, j.start, tags)

CacheRight(kept, tags, now) ==
  /\ kept \in [ids : SUBSET Id, at : 0..MaxClock]
  /\ kept.ids \subseteq GivenIn(tags) /\ kept.at <= now
  /\ kept.ids # {} => Covers(kept.ids, kept.at - TAG_BUDGET, tags)

TagsRight(tags, assigned, now) ==
  /\ tags \in [Id -> TagRow] /\ assigned \subseteq LiveIn(tags) \X Node
  /\ LiveIn(tags) \subseteq GivenIn(tags) /\ \A i \in GivenIn(tags) : tags[i].at <= now

Forms ==
  /\ clock \in 0..MaxClock /\ changes \in 0..MaxChanges
  /\ pc \in [Call -> {"idle"} \cup Working] /\ job \in [Call -> JobRow]
  /\ \A c \in Call : job[c].astray = {} /\ (pc[c] = "idle" => job[c].answers = {})

Inv ==
  /\ Forms /\ Placing(parent) /\ TagsRight(tag, on, clock) /\ CacheRight(cache, tag, clock)
  /\ \A c \in Call : JobRight(pc[c], job[c], parent, tag, on, clock)

(* What people do to the tags: an id keeps its moment and its name, or loses    *)
(* the name for good; an id nobody had is new now.                              *)
TagsGoOn(tags, later, now) ==
  /\ \A i \in GivenIn(tags) : later[i].at = tags[i].at /\ later[i].name \in {tags[i].name, None}
  /\ \A i \in Id \ GivenIn(tags) : later[i] = tags[i] \/ later[i].at = now

LEMMA Moment ==
  ASSUME TagExclusionAssumption, NEW tags, NEW assigned, NEW now, TagsRight(tags, assigned, now),
         NEW i \in GivenIn(tags)
  PROVE  i \in Id /\ tags[i].at \in 0..MaxClock /\ tags[i].at \in Int
<1>1. i \in Id /\ tags[i] \in TagRow /\ tags[i].at # None
  BY DEF TagsRight, GivenIn
<1> QED BY <1>1 DEF TagRow

LEMMA NamedStays ==
  ASSUME NEW tags, NEW later, NEW now, TagsGoOn(tags, later, now), NEW i \in GivenIn(tags), NEW s,
         Named(i, s, tags)
  PROVE  Named(i, s, later)
BY DEF TagsGoOn, Named

LEMMA CoversStays ==
  ASSUME TagExclusionAssumption, NEW tags, NEW later, NEW assigned, NEW now, NEW then,
         TagsRight(tags, assigned, then), TagsGoOn(tags, later, now), NEW ids, ids \subseteq GivenIn(tags),
         NEW before, before \in Int, now \in Int, before <= now, Covers(ids, before, tags)
  PROVE  Covers(ids, before, later)
<1> SUFFICES ASSUME NEW k \in LiveIn(later), later[k].at < before
             PROVE  \E i \in ids : Named(i, later[k].name, later)
  BY DEF Covers
<1>1. k \in Id /\ later[k].name # None
  BY DEF LiveIn
<1>2. k \in GivenIn(tags)
  <2> SUFFICES ASSUME k \notin GivenIn(tags) PROVE FALSE
    OBVIOUS
  <2>1. later[k] = tags[k] \/ later[k].at = now
    BY <1>1 DEF TagsGoOn
  <2>2. later[k].at # now
    BY SMT
  <2>3. k \in LiveIn(tags)
    BY <1>1, <2>1, <2>2 DEF LiveIn
  <2> QED BY <2>3 DEF TagsRight
<1>3. later[k].at = tags[k].at /\ later[k].name = tags[k].name
  BY <1>1, <1>2 DEF TagsGoOn
<1>4. PICK i \in ids : Named(i, tags[k].name, tags)
  BY <1>1, <1>3 DEF Covers, LiveIn
<1> QED BY <1>3, <1>4, NamedStays

LEMMA WithdrawnGrows ==
  ASSUME TagExclusionAssumption, NEW tags, NEW later, NEW assigned, NEW more, NEW now \in Int,
         NEW then \in Int, TagsRight(tags, assigned, now), assigned \subseteq more, now <= then,
         \A p \in assigned : later[p[1]] = tags[p[1]],
         NEW s, NEW n, NEW where, Withdrawn(s, n, where, tags, assigned, now)
  PROVE  Withdrawn(s, n, where, later, more, then)
<1>1. PICK p \in assigned : /\ tags[p[1]].name = s /\ Known(p[1], tags, now)
                           /\ PathIn(where)[p[2]] \in ancestors(PathIn(where)[n])
  BY DEF Withdrawn
<1>2. p[1] \in GivenIn(tags)
  BY DEF TagsRight
<1>3. tags[p[1]].at \in Int
  BY <1>2, Moment
<1>4. TTL_SECONDS \in Int /\ TAG_BUDGET \in Int
  BY DEF TagExclusionAssumption
<1>5. Known(p[1], later, then)
  BY <1>1, <1>3, <1>4 DEF Known
<1> QED BY <1>1, <1>5 DEF Withdrawn

(* The world moves on under a call that waits.                                  *)
LEMMA WorldMoves ==
  ASSUME TagExclusionAssumption, NEW where, NEW there, NEW tags, NEW later, NEW assigned, NEW more,
         NEW now \in Int, NEW then \in Int, now <= then,
         TagsRight(tags, assigned, now), TagsGoOn(tags, later, then),
         NEW step, NEW j, NEW k, JobRight(step, j, where, tags, assigned, now), j.start \in Int,
         step \in Working =>
           /\ k.want = j.want /\ k.goal = j.goal /\ k.start = j.start /\ k.listed = j.listed
           /\ k.ids = j.ids /\ k.answers = j.answers /\ k.scope = j.scope /\ k.content = j.content
           /\ then - j.start <= TAG_BUDGET
           /\ ~k.moved => ~j.moved /\ there = where
           /\ \A p \in Missed(k) :
                p \in Missed(j) /\ Withdrawn(p[1], p[2], there, later, more, then)
  PROVE  JobRight(step, k, there, later, more, then)
<1> SUFFICES ASSUME step \in Working
             PROVE  /\ Bounded(k, later, then) /\ Fetched(k, there)
                    /\ \A p \in Missed(k) : Promised(step, k, p[1], p[2], there, later)
                    /\ step = "listed" => Covers(k.listed, k.start, later)
  BY DEF JobRight
<1>1. /\ Bounded(j, tags, now) /\ Fetched(j, where)
      /\ \A p \in Missed(j) : Promised(step, j, p[1], p[2], where, tags)
      /\ step = "listed" => Covers(j.listed, j.start, tags)
  BY DEF JobRight
<1>2. GivenIn(tags) \subseteq GivenIn(later)
  <2> SUFFICES ASSUME NEW i \in GivenIn(tags) PROVE i \in GivenIn(later)
    OBVIOUS
  <2>1. later[i].at = tags[i].at /\ i \in Id /\ tags[i].at # None
    BY DEF TagsGoOn, GivenIn
  <2> QED BY <2>1 DEF GivenIn
<1>3. Bounded(k, later, then)
  BY <1>1, <1>2 DEF Bounded
<1>4. Fetched(k, there)
  BY <1>1 DEF Fetched
<1>5. j.listed \subseteq GivenIn(tags) /\ j.ids \subseteq GivenIn(tags) /\ j.start <= now
  BY <1>1 DEF Bounded
<1>6. step = "listed" => Covers(k.listed, k.start, later)
  <2> SUFFICES ASSUME step = "listed" PROVE Covers(j.listed, j.start, later)
    OBVIOUS
  <2>1. j.start <= then /\ Covers(j.listed, j.start, tags)
    BY <1>1, <1>5
  <2> QED BY <1>5, <2>1, CoversStays
<1>7. ASSUME NEW p \in Missed(k) PROVE Promised(step, k, p[1], p[2], there, later)
  <2>1. p \in Missed(j) /\ Promised(step, j, p[1], p[2], where, tags)
    BY <1>1
  <2>2. step = "listed" => \E i \in k.listed : Named(i, p[1], later)
    BY <1>5, <2>1, NamedStays DEF Promised
  <2>3. ASSUME step = "report", ~k.moved PROVE Reported(k, p[1], p[2], there, later)
    <3>1. there = where /\ Reported(j, p[1], p[2], where, tags)
      BY <2>1, <2>3 DEF Promised
    <3>2. CASE \E i \in j.ids : Named(i, p[1], tags) /\ \A a \in j.answers : a.id # i
      <4>1. \E i \in j.ids : Named(i, p[1], later) /\ \A a \in j.answers : a.id # i
        BY <1>5, <3>2, NamedStays
      <4> QED BY <4>1 DEF Reported
    <3> QED BY <3>1, <3>2 DEF Reported
  <2>4. step = "judged" /\ ~k.moved => Withholds(k.scope, p[2], there)
    BY <2>1 DEF Promised
  <2> QED BY <2>2, <2>3, <2>4 DEF Promised
<1> QED BY <1>3, <1>4, <1>6, <1>7

LEMMA NothingAsked ==
  ASSUME TagExclusionAssumption
  PROVE  Ended({}) \in JobRow /\ Ended({}).astray = {} /\ Ended({}).answers = {} /\ NoScope \in Scope
<1>1. MaxClock \in Nat /\ 0 \in 0..MaxClock
  BY DEF TagExclusionAssumption
<1>2. NoScope \in Scope
  BY DEF NoScope, Scope
<1>3. Ended({}).astray = {} /\ Ended({}).answers = {}
  BY DEF Ended, Job
<1>4. Ended({}) \in JobRow
  BY <1>1, <1>2 DEF Ended, Job, JobRow
<1> QED BY <1>2, <1>3, <1>4

(* A call takes a step while nothing else moves.                                *)
LEMMA CallMoves ==
  ASSUME TagExclusionAssumption, Inv, NEW c \in Call, NEW step \in {"idle"} \cup Working,
         NEW new \in JobRow, new.astray = {}, step = "idle" => new.answers = {},
         JobRight(step, new, parent, tag, on, clock),
         pc' = [pc EXCEPT ![c] = step], job' = [job EXCEPT ![c] = new], UNCHANGED <<clock, outside>>,
         CacheRight(cache', tag, clock)
  PROVE  Inv'
<1>1. /\ pc \in [Call -> {"idle"} \cup Working] /\ job \in [Call -> JobRow]
      /\ pc' \in [Call -> {"idle"} \cup Working] /\ job' \in [Call -> JobRow]
      /\ pc'[c] = step /\ job'[c] = new
      /\ \A d \in Call \ {c} : pc'[d] = pc[d] /\ job'[d] = job[d]
  BY DEF Inv, Forms
<1>2. clock' = clock /\ parent' = parent /\ tag' = tag /\ on' = on /\ changes' = changes
  BY DEF outside
<1>3. \A d \in Call : /\ JobRight(pc'[d], job'[d], parent, tag, on, clock) /\ job'[d].astray = {}
                      /\ pc'[d] = "idle" => job'[d].answers = {}
  BY <1>1 DEF Inv, Forms
<1>4. Forms'
  BY <1>1, <1>2, <1>3 DEF Inv, Forms
<1> QED BY <1>2, <1>3, <1>4 DEF Inv

(* It may end when what it shows was left visible by every spelling.            *)
LEMMA CallEnds ==
  ASSUME TagExclusionAssumption, Inv, NEW c \in Call, NEW shown \in SUBSET Node, Finish(c, shown),
         \A n \in shown, s \in Spelling : ~job[c].moved => <<s, n>> \notin Missed(job[c]),
         UNCHANGED <<clock, outside>>, CacheRight(cache', tag, clock)
  PROVE  Inv'
<1>1. IF job[c].moved THEN {} = {}
      ELSE {n \in shown : \E s \in Spelling : <<s, n>> \notin job[c].free} = {}
  BY DEF Missed
<1>2. pc' = [pc EXCEPT ![c] = "idle"] /\ job' = [job EXCEPT ![c] = Ended({})]
  BY <1>1 DEF Finish, Goto, Set
<1>3. Ended({}) \in JobRow /\ Ended({}).astray = {} /\ Ended({}).answers = {}
  BY NothingAsked
<1>4. JobRight("idle", Ended({}), parent, tag, on, clock)
  BY DEF JobRight, Working
<1> HIDE DEF Inv
<1> QED BY <1>2, <1>3, <1>4, CallMoves

LEMMA Clocks ==
  ASSUME TagExclusionAssumption, Inv, NEW c \in Call
  PROVE  /\ clock \in Int /\ clock \in 0..MaxClock /\ job[c] \in JobRow /\ job[c].start \in Int
         /\ TTL_SECONDS \in Nat /\ TAG_BUDGET \in Nat /\ MaxClock \in Nat
         /\ JobRight(pc[c], job[c], parent, tag, on, clock) /\ job[c].astray = {}
<1>1. clock \in 0..MaxClock /\ job[c] \in JobRow
  BY DEF Inv, Forms
<1>2. job[c].start \in 0..MaxClock
  BY <1>1 DEF JobRow
<1>3. TTL_SECONDS \in Nat /\ TAG_BUDGET \in Nat /\ MaxClock \in Nat
  BY DEF TagExclusionAssumption
<1>4. JobRight(pc[c], job[c], parent, tag, on, clock) /\ job[c].astray = {}
  BY DEF Inv, Forms
<1> QED BY <1>1, <1>2, <1>3, <1>4

(* What people do keeps every call right.                                       *)
LEMMA PeopleMove ==
  ASSUME TagExclusionAssumption, Inv, UNCHANGED <<clock, cache, pc>>, changes' \in 0..MaxChanges,
         Placing(parent'), TagsRight(tag', on', clock), TagsGoOn(tag, tag', clock),
         job' \in [Call -> JobRow],
         \A c \in Call :
           /\ job'[c].astray = {} /\ job'[c].answers = job[c].answers
           /\ pc[c] \in Working =>
                LET j == job[c]
                    k == job'[c]
                IN  /\ k.want = j.want /\ k.goal = j.goal /\ k.start = j.start /\ k.listed = j.listed
                    /\ k.ids = j.ids /\ k.scope = j.scope
                    /\ k.content = j.content /\ (~k.moved => ~j.moved /\ parent' = parent)
                    /\ \A p \in Missed(k) :
                         p \in Missed(j) /\ Withdrawn(p[1], p[2], parent', tag', on', clock)
  PROVE  Inv'
<1>0. clock \in Int /\ clock \in 0..MaxClock /\ TAG_BUDGET \in Nat /\ TagsRight(tag, on, clock)
      /\ clock' = clock /\ cache' = cache /\ pc' = pc
  BY DEF Inv, Forms, TagExclusionAssumption
<1>1. \A c \in Call : JobRight(pc[c], job'[c], parent', tag', on', clock)
  <2> SUFFICES ASSUME NEW c \in Call PROVE JobRight(pc[c], job'[c], parent', tag', on', clock)
    OBVIOUS
  <2>1. JobRight(pc[c], job[c], parent, tag, on, clock) /\ job[c].start \in Int
    BY Clocks
  <2>2. pc[c] \in Working => clock - job[c].start <= TAG_BUDGET
    BY <2>1 DEF JobRight, Bounded
  <2> HIDE DEF Inv
  <2> QED BY <1>0, <2>1, <2>2, WorldMoves
<1>2. CacheRight(cache, tag', clock)
  <2>1. CacheRight(cache, tag, clock)
    BY DEF Inv
  <2>2. cache.ids \subseteq GivenIn(tag) /\ cache.at \in Int /\ cache.at <= clock
    BY <2>1 DEF CacheRight
  <2>3. GivenIn(tag) \subseteq GivenIn(tag')
    BY DEF TagsGoOn, GivenIn
  <2>4. cache.ids # {} => Covers(cache.ids, cache.at - TAG_BUDGET, tag')
    <3> SUFFICES ASSUME cache.ids # {} PROVE Covers(cache.ids, cache.at - TAG_BUDGET, tag')
      OBVIOUS
    <3>1. Covers(cache.ids, cache.at - TAG_BUDGET, tag)
      BY <2>1 DEF CacheRight
    <3>2. cache.at - TAG_BUDGET \in Int /\ cache.at - TAG_BUDGET <= clock
      BY <1>0, <2>2
    <3> QED BY <1>0, <2>2, <3>1, <3>2, CoversStays
  <2> QED BY <2>1, <2>2, <2>3, <2>4 DEF CacheRight
<1>3. Forms'
  BY <1>0 DEF Inv, Forms
<1> QED BY <1>0, <1>1, <1>2, <1>3 DEF Inv

LEMMA TickStep == ASSUME TagExclusionAssumption, Inv, Tick PROVE Inv'
<1>0. /\ clock \in Int /\ clock \in 0..MaxClock /\ TAG_BUDGET \in Nat /\ MaxClock \in Nat
      /\ TagsRight(tag, on, clock) /\ CacheRight(cache, tag, clock) /\ Placing(parent)
  BY DEF Inv, Forms, TagExclusionAssumption
<1>1. /\ clock' = clock + 1 /\ clock < MaxClock /\ clock' \in 0..MaxClock /\ clock' \in Int
      /\ parent' = parent /\ tag' = tag /\ on' = on /\ changes' = changes
      /\ cache' = cache /\ pc' = pc /\ job' = job
  BY <1>0 DEF Tick, outside
<1>2. TagsGoOn(tag, tag, clock')
  BY DEF TagsGoOn
<1>3. TagsRight(tag, on, clock')
  <2>1. \A i \in GivenIn(tag) : tag[i].at \in Int
    BY <1>0, Moment
  <2> QED BY <1>0, <1>1, <2>1 DEF TagsRight
<1>4. CacheRight(cache, tag, clock')
  BY <1>0, <1>1 DEF CacheRight
<1>5. \A c \in Call : JobRight(pc[c], job[c], parent, tag, on, clock')
  <2> SUFFICES ASSUME NEW c \in Call PROVE JobRight(pc[c], job[c], parent, tag, on, clock')
    OBVIOUS
  <2>1. JobRight(pc[c], job[c], parent, tag, on, clock) /\ job[c].start \in Int
    BY Clocks
  <2>2. pc[c] \in Working => clock' - job[c].start <= TAG_BUDGET
    BY <1>0, <1>1, <2>1 DEF Tick
  <2>3. ASSUME pc[c] \in Working, NEW p \in Missed(job[c])
        PROVE  Withdrawn(p[1], p[2], parent, tag, on, clock')
    <3>1. Withdrawn(p[1], p[2], parent, tag, on, clock)
      BY <2>1, <2>3 DEF JobRight
    <3> QED BY <1>0, <1>1, <3>1, WithdrawnGrows
  <2> HIDE DEF Inv
  <2> QED BY <1>0, <1>1, <1>2, <2>1, <2>2, <2>3, WorldMoves
<1>6. Forms'
  BY <1>1 DEF Inv, Forms
<1> QED BY <1>0, <1>1, <1>3, <1>4, <1>5, <1>6 DEF Inv

LEMMA CreateStep ==
  ASSUME TagExclusionAssumption, Inv, CreateTag, changes' \in 0..MaxChanges PROVE Inv'
<1>0. /\ clock \in Int /\ clock \in 0..MaxClock /\ TagsRight(tag, on, clock) /\ Placing(parent)
      /\ job \in [Call -> JobRow] /\ MaxClock \in Nat
  BY DEF Inv, Forms, TagExclusionAssumption
<1>1. PICK i \in Id, s \in Spelling :
        /\ tag[i] = NoTag /\ tag' = [tag EXCEPT ![i] = [name |-> s, at |-> clock]]
        /\ UNCHANGED <<clock, parent, on, cache, pc, job>>
  BY DEF CreateTag
<1>2. s # None /\ clock # None /\ None \notin Nat
  BY <1>0 DEF TagExclusionAssumption
<1>3. tag[i].name = None /\ tag[i].at = None /\ i \notin LiveIn(tag) /\ i \notin GivenIn(tag)
  BY <1>1 DEF NoTag, LiveIn, GivenIn
<1>4. /\ tag \in [Id -> TagRow] /\ tag' \in [Id -> TagRow]
      /\ tag'[i].name = s /\ tag'[i].at = clock /\ \A k \in Id \ {i} : tag'[k] = tag[k]
  BY <1>0, <1>1 DEF TagsRight, TagRow
<1>5. LiveIn(tag') = LiveIn(tag) \cup {i} /\ GivenIn(tag') = GivenIn(tag) \cup {i}
  BY <1>2, <1>3, <1>4 DEF LiveIn, GivenIn
<1>6. TagsRight(tag', on, clock)
  <2>1. \A k \in GivenIn(tag') : tag'[k].at <= clock
    BY <1>0, <1>3, <1>4, <1>5 DEF TagsRight, GivenIn
  <2>2. on \subseteq LiveIn(tag') \X Node /\ LiveIn(tag') \subseteq GivenIn(tag')
    BY <1>0, <1>5 DEF TagsRight
  <2> QED BY <1>4, <2>1, <2>2 DEF TagsRight
<1>7. TagsGoOn(tag, tag', clock)
  BY <1>3, <1>4 DEF TagsGoOn, GivenIn
<1>8. \A p \in on : tag'[p[1]] = tag[p[1]]
  <2>1. \A p \in on : p[1] \in LiveIn(tag) /\ p[1] \in Id
    BY <1>0 DEF TagsRight, LiveIn
  <2> QED BY <1>3, <1>4, <2>1
<1>9. ASSUME NEW c \in Call, pc[c] \in Working, NEW p \in Missed(job[c])
      PROVE  Withdrawn(p[1], p[2], parent, tag', on, clock)
  <2>1. Withdrawn(p[1], p[2], parent, tag, on, clock)
    BY <1>9, Clocks DEF JobRight
  <2> QED BY <1>0, <1>8, <2>1, WithdrawnGrows
<1>10. /\ parent' = parent /\ on' = on /\ job' = job /\ UNCHANGED <<clock, cache, pc>>
       /\ \A c \in Call : job[c].astray = {}
  BY <1>1 DEF Inv, Forms
<1> HIDE DEF Inv
<1> QED BY <1>0, <1>6, <1>7, <1>9, <1>10, PeopleMove

LEMMA AssignStep ==
  ASSUME TagExclusionAssumption, Inv, Assign, changes' \in 0..MaxChanges PROVE Inv'
<1>0. /\ clock \in Int /\ TagsRight(tag, on, clock) /\ Placing(parent) /\ job \in [Call -> JobRow]
  BY DEF Inv, Forms
<1>1. PICK i \in Live, n \in Node :
        on' = on \cup {<<i, n>>} /\ UNCHANGED <<clock, parent, tag, cache, pc, job>>
  BY DEF Assign
<1>2. TagsRight(tag, on', clock)
  BY <1>0, <1>1 DEF TagsRight, Live, LiveIn
<1>3. TagsGoOn(tag, tag, clock)
  BY DEF TagsGoOn
<1>4. ASSUME NEW c \in Call, pc[c] \in Working, NEW p \in Missed(job[c])
      PROVE  Withdrawn(p[1], p[2], parent, tag, on', clock)
  <2>1. Withdrawn(p[1], p[2], parent, tag, on, clock)
    BY <1>4, Clocks DEF JobRight
  <2> QED BY <1>0, <1>1, <2>1, WithdrawnGrows
<1>5. /\ parent' = parent /\ tag' = tag /\ job' = job /\ UNCHANGED <<clock, cache, pc>>
      /\ \A c \in Call : job[c].astray = {}
  BY <1>1 DEF Inv, Forms
<1> HIDE DEF Inv
<1> QED BY <1>0, <1>2, <1>3, <1>4, <1>5, PeopleMove

(* A call that waits sees what the change left visible.                         *)
LEMMA WitnessedRow ==
  ASSUME TagExclusionAssumption, Inv, NEW c \in Call
  PROVE  LET j == job[c]
             k == Witnessed(job, clock)[c]
         IN  /\ k \in JobRow /\ k.astray = {} /\ k.answers = j.answers /\ k.moved = j.moved
             /\ pc[c] \in Working =>
                  /\ k.want = j.want /\ k.goal = j.goal /\ k.start = j.start /\ k.listed = j.listed
                  /\ k.ids = j.ids /\ k.scope = j.scope
                  /\ k.content = j.content
                  /\ \A p \in Missed(k) :
                       p \in Missed(j) /\ Withdrawn(p[1], p[2], parent', tag', on', clock)
<1> DEFINE j == job[c]
           v == Visible(parent', tag', on', clock)
           k == Witnessed(job, clock)[c]
<1>1. j \in JobRow /\ j.astray = {}
  BY Clocks
<1>2. v \subseteq Spelling \X Node
        /\ \A p \in Spelling \X Node : p \notin v => Withdrawn(p[1], p[2], parent', tag', on', clock)
  BY DEF Visible
<1>3. k = IF pc[c] \in Working THEN [j EXCEPT !.free = @ \cup v] ELSE j
  BY DEF Witnessed
<1> HIDE DEF j, v, k
<1>4. CASE pc[c] \notin Working
  BY <1>1, <1>3, <1>4 DEF j, k
<1>5. CASE pc[c] \in Working
  <2>1. k = [j EXCEPT !.free = j.free \cup v]
    BY <1>3, <1>5
  <2>2. j.free \cup v \in SUBSET (Spelling \X Node)
    BY <1>1, <1>2 DEF JobRow
  <2>3. k \in JobRow
    BY <1>1, <2>1, <2>2 DEF JobRow
  <2>4. /\ k.want = j.want /\ k.goal = j.goal /\ k.start = j.start /\ k.listed = j.listed
        /\ k.ids = j.ids /\ k.answers = j.answers /\ k.scope = j.scope /\ k.content = j.content
        /\ k.moved = j.moved /\ k.astray = j.astray /\ k.free = j.free \cup v
    BY <1>1, <2>1 DEF JobRow
  <2>5. \A p \in Missed(k) : p \in Missed(j) /\ Withdrawn(p[1], p[2], parent', tag', on', clock)
    BY <1>2, <2>4 DEF Missed
  <2> QED BY <1>1, <2>3, <2>4, <2>5 DEF j, k
<1> QED BY <1>4, <1>5

LEMMA WitnessedJobs ==
  ASSUME TagExclusionAssumption, Inv PROVE Witnessed(job, clock) \in [Call -> JobRow]
<1> HIDE DEF Inv
<1>1. \A c \in Call : Witnessed(job, clock)[c] \in JobRow
  BY WitnessedRow
<1>2. Witnessed(job, clock) = [c \in Call |-> Witnessed(job, clock)[c]]
  BY DEF Witnessed
<1> QED BY <1>1, <1>2

LEMMA WitnessedStep ==
  ASSUME TagExclusionAssumption, Inv, UNCHANGED <<clock, cache, pc, parent>>, changes' \in 0..MaxChanges,
         TagsRight(tag', on', clock), TagsGoOn(tag, tag', clock), job' = Witnessed(job, clock)
  PROVE  Inv'
<1>1. Placing(parent') /\ parent' = parent
  BY DEF Inv
<1>2. job' \in [Call -> JobRow]
  BY WitnessedJobs
<1> HIDE DEF Inv
<1> QED BY <1>1, <1>2, WitnessedRow, PeopleMove

LEMMA DeleteStep ==
  ASSUME TagExclusionAssumption, Inv, DeleteTag, changes' \in 0..MaxChanges PROVE Inv'
<1>0. TagsRight(tag, on, clock) /\ tag \in [Id -> TagRow]
  BY DEF Inv, TagsRight
<1>1. PICK i \in Live :
        /\ tag' = [tag EXCEPT ![i].name = None] /\ on' = {p \in on : p[1] # i}
        /\ UNCHANGED <<clock, parent, cache, pc>> /\ job' = Witnessed(job, clock)
  BY DEF DeleteTag
<1>2. /\ i \in Id /\ tag' \in [Id -> TagRow] /\ tag'[i].name = None /\ tag'[i].at = tag[i].at
      /\ \A k \in Id \ {i} : tag'[k] = tag[k]
  BY <1>0, <1>1 DEF TagRow, Live
<1>3. LiveIn(tag') = LiveIn(tag) \ {i} /\ GivenIn(tag') = GivenIn(tag)
  BY <1>2 DEF LiveIn, GivenIn
<1>4. \A k \in GivenIn(tag) : tag'[k].at = tag[k].at
  BY <1>2 DEF GivenIn
<1>5. TagsRight(tag', on', clock)
  BY <1>0, <1>1, <1>2, <1>3, <1>4 DEF TagsRight
<1>6. TagsGoOn(tag, tag', clock)
  <2>1. \A k \in Id \ GivenIn(tag) : tag'[k] = tag[k] \/ tag'[k].at = clock
    <3> SUFFICES ASSUME NEW k \in Id \ GivenIn(tag) PROVE tag'[k] = tag[k]
      OBVIOUS
    <3>1. i \in GivenIn(tag)
      BY <1>0, <1>1 DEF TagsRight, Live, LiveIn
    <3> QED BY <1>2, <3>1
  <2>2. \A k \in GivenIn(tag) : tag'[k].name \in {tag[k].name, None}
    BY <1>2 DEF GivenIn
  <2> QED BY <1>4, <2>1, <2>2 DEF TagsGoOn
<1> HIDE DEF Inv
<1> QED BY <1>1, <1>5, <1>6, WitnessedStep

LEMMA UnassignStep ==
  ASSUME TagExclusionAssumption, Inv, Unassign, changes' \in 0..MaxChanges PROVE Inv'
<1>0. TagsRight(tag, on, clock)
  BY DEF Inv
<1>1. /\ on' \subseteq on /\ tag' = tag
      /\ UNCHANGED <<clock, parent, cache, pc>> /\ job' = Witnessed(job, clock)
  BY DEF Unassign
<1>2. TagsRight(tag', on', clock)
  BY <1>0, <1>1 DEF TagsRight
<1>3. TagsGoOn(tag, tag', clock)
  BY <1>1 DEF TagsGoOn
<1> HIDE DEF Inv
<1> QED BY <1>1, <1>2, <1>3, WitnessedStep

LEMMA MoveStep ==
  ASSUME TagExclusionAssumption, Inv, Move, changes' \in 0..MaxChanges PROVE Inv'
<1>0. TagsRight(tag, on, clock) /\ Placing(parent)
  BY DEF Inv
<1>1. PICK n \in Node, to \in Folder \cup {Home} :
        /\ to \in Folder => Path[n] \notin ancestors(Path[to])
        /\ parent' = [parent EXCEPT ![n] = to] /\ UNCHANGED <<tag, on>> /\ UNCHANGED <<clock, cache, pc>>
        /\ job' = [c \in Call |-> IF pc[c] \in Working
                                  THEN [Witnessed(job, clock)[c] EXCEPT !.moved = TRUE] ELSE job[c]]
  BY DEF Move
<1>2. Placing(parent')
  <2>1. to \in Folder => ~Over(parent, n, to)
    BY <1>1 DEF Over, Path
  <2> QED BY <1>0, <1>1, <2>1, Moved
<1>3. TagsRight(tag', on', clock) /\ TagsGoOn(tag, tag', clock)
  BY <1>0, <1>1 DEF TagsGoOn
<1>4. ASSUME NEW c \in Call
      PROVE  LET j == job[c]
                 k == job'[c]
             IN  /\ k \in JobRow /\ k.astray = {} /\ k.answers = j.answers
                 /\ pc[c] \in Working =>
                      /\ k.want = j.want /\ k.goal = j.goal /\ k.start = j.start /\ k.listed = j.listed
                      /\ k.ids = j.ids /\ k.scope = j.scope
                      /\ k.content = j.content /\ (~k.moved => ~j.moved /\ parent' = parent)
                      /\ \A p \in Missed(k) :
                           p \in Missed(j) /\ Withdrawn(p[1], p[2], parent', tag', on', clock)
  <2> DEFINE j == job[c]
             w == Witnessed(job, clock)[c]
             k == job'[c]
  <2>1. /\ w \in JobRow /\ w.astray = {} /\ w.answers = j.answers /\ w.moved = j.moved
        /\ pc[c] \in Working =>
             /\ w.want = j.want /\ w.goal = j.goal /\ w.start = j.start /\ w.listed = j.listed
             /\ w.ids = j.ids /\ w.scope = j.scope /\ w.content = j.content
             /\ \A p \in Missed(w) :
                  p \in Missed(j) /\ Withdrawn(p[1], p[2], parent', tag', on', clock)
    <3> HIDE DEF Inv
    <3> QED BY WitnessedRow
  <2>2. k = IF pc[c] \in Working THEN [w EXCEPT !.moved = TRUE] ELSE j
    BY <1>1
  <2>3. j \in JobRow /\ j.astray = {}
    BY Clocks
  <2> HIDE DEF j, w, k
  <2>4. CASE pc[c] \notin Working
    BY <2>2, <2>3, <2>4 DEF j, k
  <2>5. CASE pc[c] \in Working
    <3>1. /\ k \in JobRow /\ k.moved = TRUE /\ k.want = w.want /\ k.goal = w.goal
          /\ k.start = w.start /\ k.listed = w.listed /\ k.ids = w.ids /\ k.answers = w.answers
          /\ k.scope = w.scope /\ k.content = w.content /\ k.free = w.free /\ k.astray = w.astray
      BY <2>1, <2>2, <2>5 DEF JobRow
    <3>2. Missed(k) = Missed(w)
      BY <3>1 DEF Missed
    <3> QED BY <2>1, <2>5, <3>1, <3>2 DEF j, k
  <2> QED BY <2>4, <2>5
<1>5. job' \in [Call -> JobRow]
  <2>1. job' = [c \in Call |-> job'[c]]
    BY <1>1
  <2> QED BY <1>4, <2>1
<1>6. UNCHANGED <<clock, cache, pc>>
  BY <1>1
<1> HIDE DEF Inv
<1> QED BY <1>2, <1>3, <1>4, <1>5, <1>6, PeopleMove

-----------------------------------------------------------------------------
(* The flight of a call, for its ids and its reports.                           *)
LEMMA BeginStep ==
  ASSUME TagExclusionAssumption, Inv, NEW c \in Call, Begin(c) PROVE Inv'
<1>0. /\ clock \in 0..MaxClock /\ clock \in Int /\ MaxClock \in Nat /\ TAG_BUDGET \in Nat /\ TTL_SECONDS \in Nat
      /\ TagsRight(tag, on, clock) /\ CacheRight(cache, tag, clock) /\ Placing(parent)
  BY DEF Inv, Forms, TagExclusionAssumption
<1> DEFINE free == Visible(parent, tag, on, clock)
           ids == IF Fresh THEN cache.ids ELSE {}
           step == IF Fresh THEN "report" ELSE "list"
<1>1. PICK want \in Wants, goal \in {<<>>} \cup {Path[n] : n \in Node} \cup Node :
        /\ want = "byid" => goal \in Node
        /\ pc' = [pc EXCEPT ![c] = step] /\ job' = [job EXCEPT ![c] = Job(want, goal, clock, ids, free, {})]
        /\ UNCHANGED <<clock, outside, cache>>
  BY DEF Begin, Goto, Set
<1> DEFINE new == Job(want, goal, clock, ids, free, {})
<1>2. goal \in Seq(Node) \cup Node
  <2>1. \A n \in Node : Path[n] \in Seq(Node)
    BY <1>0, Paths DEF Path
  <2>2. goal = <<>> \/ (\E n \in Node : goal = Path[n]) \/ goal \in Node
    BY <1>1
  <2>3. <<>> \in Seq(Node)
    OBVIOUS
  <2> QED BY <2>1, <2>2, <2>3
<1>3. free \subseteq Spelling \X Node
      /\ \A p \in Spelling \X Node : p \notin free => Withdrawn(p[1], p[2], parent, tag, on, clock)
  BY DEF Visible
<1>4. /\ step \in {"report", "list"} /\ step \in Working
      /\ ids \in SUBSET Id /\ ids \subseteq GivenIn(tag)
      /\ step = "report" => /\ ids = cache.ids /\ ids # {} /\ clock - cache.at < TTL_SECONDS
  BY <1>0 DEF CacheRight, Fresh, Working
<1> HIDE DEF free, ids, step
<1>5. /\ new \in JobRow /\ new.astray = {} /\ new.want = want /\ new.goal = goal /\ new.start = clock
      /\ new.listed = {} /\ new.ids = ids /\ new.answers = {} /\ new.content = None /\ new.free = free
  <2>1. NoScope \in Scope
    BY NothingAsked
  <2>2. /\ new.astray = {} /\ new.want = want /\ new.goal = goal /\ new.start = clock
        /\ new.listed = {} /\ new.ids = ids /\ new.answers = {} /\ new.content = None /\ new.free = free
    BY DEF Job
  <2>3. new \in JobRow
    BY <1>0, <1>2, <1>3, <1>4, <2>1 DEF Job, JobRow
  <2> QED BY <2>2, <2>3
<1> HIDE DEF new
<1>6. Bounded(new, tag, clock) /\ Fetched(new, parent)
  BY <1>0, <1>1, <1>4, <1>5 DEF Bounded, Fetched
<1>7. \A p \in Missed(new) : Withdrawn(p[1], p[2], parent, tag, on, clock)
  BY <1>3, <1>5 DEF Missed
<1>8. ASSUME NEW p \in Missed(new), step = "report" PROVE Reported(new, p[1], p[2], parent, tag)
  <2>1. PICK q \in on : tag[q[1]].name = p[1] /\ Known(q[1], tag, clock)
    BY <1>7 DEF Withdrawn
  <2>2. q[1] \in LiveIn(tag) /\ q[1] \in GivenIn(tag)
    BY <1>0 DEF TagsRight
  <2>3. tag[q[1]].at \in Int
    BY <1>0, <2>2, Moment
  <2>4. clock - tag[q[1]].at >= TTL_SECONDS + TAG_BUDGET
    BY <2>1 DEF Known
  <2>5. cache.at \in Int /\ Covers(cache.ids, cache.at - TAG_BUDGET, tag)
    BY <1>0, <1>4, <1>8 DEF CacheRight
  <2>6. tag[q[1]].at < cache.at - TAG_BUDGET
    BY <1>0, <1>4, <1>8, <2>3, <2>4, <2>5
  <2>7. \E i \in cache.ids : Named(i, p[1], tag)
    BY <2>1, <2>2, <2>5, <2>6 DEF Covers
  <2> QED BY <1>4, <1>5, <1>8, <2>7 DEF Reported
<1>9. JobRight(step, new, parent, tag, on, clock)
  BY <1>4, <1>6, <1>7, <1>8 DEF JobRight, Promised
<1>10. pc' = [pc EXCEPT ![c] = step] /\ job' = [job EXCEPT ![c] = new] /\ UNCHANGED <<clock, outside>>
       /\ CacheRight(cache', tag, clock)
  BY <1>0, <1>1 DEF new
<1> HIDE DEF Inv
<1> QED BY <1>4, <1>5, <1>9, <1>10, CallMoves

(* Of every spelling that is alive the list names the lowest id.                *)
LEMMA EverySpellingIsListed ==
  ASSUME TagExclusionAssumption, NEW k \in Live
  PROVE  \E i \in Spelt : tag[i].name = tag[k].name
<1> DEFINE S == {i \in Live : tag[i].name = tag[k].name}
<1>1. S \subseteq Nat /\ S # {}
  BY DEF Live, TagExclusionAssumption
<1>2. PICK m \in S : \A i \in S : ~(<<i, m>> \in OpToRel(<, Nat))
  BY <1>1, NatLessThanWellFounded, WFMin
<1>3. \A i \in S : m <= i
  <2>1. \A i \in S : ~(i < m) /\ i \in Nat /\ m \in Nat
    BY <1>1, <1>2 DEF OpToRel
  <2> QED BY <2>1
<1>4. m \in Spelt
  BY <1>3 DEF Spelt
<1> QED BY <1>4

(* What a working call knows, to go on from.                                    *)
LEMMA AtWork ==
  ASSUME TagExclusionAssumption, Inv, NEW c \in Call, pc[c] \in Working
  PROVE  LET j == job[c] IN
         /\ j \in JobRow /\ j.astray = {} /\ Bounded(j, tag, clock) /\ Fetched(j, parent)
         /\ \A p \in Missed(j) : /\ Withdrawn(p[1], p[2], parent, tag, on, clock)
                               /\ Promised(pc[c], j, p[1], p[2], parent, tag)
         /\ pc[c] = "listed" => Covers(j.listed, j.start, tag)
         /\ clock \in 0..MaxClock /\ clock \in Int /\ j.start \in Int /\ TAG_BUDGET \in Nat
         /\ TagsRight(tag, on, clock) /\ CacheRight(cache, tag, clock) /\ Placing(parent)
<1>1. TagsRight(tag, on, clock) /\ CacheRight(cache, tag, clock) /\ Placing(parent)
  BY DEF Inv
<1> QED BY <1>1, Clocks DEF JobRight

LEMMA SpeltIsGiven ==
  ASSUME TagExclusionAssumption, TagsRight(tag, on, clock)
  PROVE  Spelt \in SUBSET Id /\ Spelt \subseteq GivenIn(tag) /\ Live = LiveIn(tag)
BY DEF Spelt, Live, LiveIn, TagsRight

LEMMA ListStep ==
  ASSUME TagExclusionAssumption, Inv, NEW c \in Call, List(c) PROVE Inv'
<1> DEFINE j == job[c]
           new == [j EXCEPT !.listed = Spelt]
<1>1. /\ pc[c] = "list" /\ pc[c] \in Working /\ pc' = [pc EXCEPT ![c] = "listed"]
      /\ job' = [job EXCEPT ![c] = new] /\ UNCHANGED <<clock, outside, cache>>
  BY DEF List, Goto, Set, Working
<1>2. /\ j \in JobRow /\ j.astray = {} /\ Bounded(j, tag, clock) /\ Fetched(j, parent)
      /\ \A p \in Missed(j) : Withdrawn(p[1], p[2], parent, tag, on, clock)
      /\ TagsRight(tag, on, clock) /\ CacheRight(cache, tag, clock)
  BY <1>1, AtWork
<1>3. Spelt \in SUBSET Id /\ Spelt \subseteq GivenIn(tag) /\ Live = LiveIn(tag)
  BY <1>2, SpeltIsGiven
<1>4. \A k \in LiveIn(tag) : \E i \in Spelt : Named(i, tag[k].name, tag)
  BY <1>3, EverySpellingIsListed DEF Named
<1> HIDE DEF j
<1>5. /\ new \in JobRow /\ new.listed = Spelt /\ new.want = j.want /\ new.goal = j.goal
      /\ new.start = j.start /\ new.ids = j.ids /\ new.answers = j.answers /\ new.content = j.content
      /\ new.free = j.free /\ new.moved = j.moved /\ new.astray = {}
  BY <1>2, <1>3 DEF JobRow
<1> HIDE DEF new
<1>6. Bounded(new, tag, clock) /\ Fetched(new, parent) /\ Missed(new) = Missed(j)
  BY <1>2, <1>3, <1>5 DEF Bounded, Fetched, Missed
<1>7. ASSUME NEW p \in Missed(new) PROVE \E i \in Spelt : Named(i, p[1], tag)
  <2>1. Withdrawn(p[1], p[2], parent, tag, on, clock)
    BY <1>2, <1>6
  <2>2. PICK q \in on : tag[q[1]].name = p[1]
    BY <2>1 DEF Withdrawn
  <2>3. q[1] \in LiveIn(tag)
    BY <1>2 DEF TagsRight
  <2> QED BY <1>4, <2>2, <2>3
<1>8. JobRight("listed", new, parent, tag, on, clock)
  BY <1>2, <1>4, <1>5, <1>6, <1>7 DEF JobRight, Promised, Covers
<1>9. "listed" \in Working /\ cache' = cache
  BY <1>1 DEF Working
<1> HIDE DEF Inv
<1> QED BY <1>1, <1>2, <1>5, <1>8, <1>9, CallMoves

LEMMA LearnStep ==
  ASSUME TagExclusionAssumption, Inv, NEW c \in Call, Learn(c) PROVE Inv'
<1> DEFINE j == job[c]
           ids == j.listed
<1>1. /\ pc[c] = "listed" /\ pc[c] \in Working /\ cache' = Kept(ids) /\ UNCHANGED <<clock, outside>>
  BY DEF Learn, Working
<1>2. /\ j \in JobRow /\ j.astray = {} /\ Bounded(j, tag, clock) /\ Fetched(j, parent)
      /\ \A p \in Missed(j) : /\ Withdrawn(p[1], p[2], parent, tag, on, clock)
                            /\ \E i \in ids : Named(i, p[1], tag)
      /\ Covers(ids, j.start, tag) /\ clock \in 0..MaxClock /\ clock \in Int /\ j.start \in Int
      /\ TAG_BUDGET \in Nat /\ TagsRight(tag, on, clock) /\ CacheRight(cache, tag, clock)
  BY <1>1, AtWork DEF Promised
<1> HIDE DEF j, ids
<1>3. ids \in SUBSET Id /\ ids \subseteq GivenIn(tag) /\ clock - j.start <= TAG_BUDGET
  BY <1>2 DEF Bounded, JobRow, ids
<1>4. CacheRight(cache', tag, clock)
  <2>1. CASE ids = {}
    BY <1>1, <1>2, <2>1 DEF Kept
  <2>2. CASE ids # {}
    <3>1. cache' = [ids |-> ids, at |-> clock]
      BY <1>1, <2>2 DEF Kept
    <3>2. ASSUME NEW k \in LiveIn(tag), tag[k].at < clock - TAG_BUDGET PROVE tag[k].at < j.start
      <4>1. k \in GivenIn(tag)
        BY <1>2 DEF TagsRight
      <4>2. tag[k].at \in Int
        BY <1>2, <4>1, Moment
      <4> QED BY <1>2, <1>3, <3>2, <4>2
    <3>3. Covers(ids, clock - TAG_BUDGET, tag)
      BY <1>2, <3>2 DEF Covers
    <3>4. cache' \in [ids : SUBSET Id, at : 0..MaxClock] /\ cache'.ids = ids /\ cache'.at = clock
      BY <1>2, <1>3, <3>1
    <3> QED BY <1>2, <1>3, <3>3, <3>4 DEF CacheRight
  <2> QED BY <2>1, <2>2
<1>5. CASE ids = {}
  <2> DEFINE new == [j EXCEPT !.scope = UNTAGGED]
  <2>1. pc' = [pc EXCEPT ![c] = "judged"] /\ job' = [job EXCEPT ![c] = new]
    BY <1>5 DEF Learn, Goto, Set, j, ids
  <2>2. UNTAGGED \in Scope
    BY DEF UNTAGGED, Scope
  <2>3. /\ new \in JobRow /\ new.want = j.want /\ new.goal = j.goal /\ new.listed = j.listed
        /\ new.start = j.start /\ new.ids = j.ids /\ new.answers = j.answers /\ new.content = j.content
        /\ new.free = j.free /\ new.moved = j.moved /\ new.astray = {}
    BY <1>2, <2>2 DEF JobRow
  <2> HIDE DEF new
  <2>4. Bounded(new, tag, clock) /\ Fetched(new, parent) /\ Missed(new) = {}
    <3>1. Missed(j) = {}
      BY <1>2, <1>5
    <3> QED BY <1>2, <2>3, <3>1 DEF Bounded, Fetched, Missed
  <2>5. JobRight("judged", new, parent, tag, on, clock)
    BY <2>4 DEF JobRight
  <2>6. "judged" \in Working
    BY DEF Working
  <2> HIDE DEF Inv
  <2> QED BY <1>1, <1>4, <2>1, <2>3, <2>5, <2>6, CallMoves
<1>6. CASE ids # {}
  <2> DEFINE new == [j EXCEPT !.ids = ids, !.answers = {}]
  <2>1. pc' = [pc EXCEPT ![c] = "report"] /\ job' = [job EXCEPT ![c] = new]
    BY <1>6 DEF Learn, Goto, Set, j, ids
  <2>3. /\ new \in JobRow /\ new.want = j.want /\ new.goal = j.goal /\ new.listed = j.listed
        /\ new.start = j.start /\ new.ids = ids /\ new.answers = {} /\ new.content = j.content
        /\ new.free = j.free /\ new.moved = j.moved /\ new.astray = {}
    BY <1>2, <1>3 DEF JobRow
  <2> HIDE DEF new
  <2>4. Bounded(new, tag, clock) /\ Fetched(new, parent) /\ Missed(new) = Missed(j)
    BY <1>2, <1>3, <2>3 DEF Bounded, Fetched, Missed
  <2>5. \A p \in Missed(new) : Reported(new, p[1], p[2], parent, tag)
    BY <1>2, <2>3, <2>4 DEF Reported
  <2>6. JobRight("report", new, parent, tag, on, clock)
    BY <1>2, <2>4, <2>5 DEF JobRight, Promised
  <2>7. "report" \in Working
    BY DEF Working
  <2> HIDE DEF Inv
  <2> QED BY <1>1, <1>4, <2>1, <2>3, <2>6, <2>7, CallMoves
<1> QED BY <1>5, <1>6

(* A REPORT of an id that lives names, by its path, every node of its name.     *)
LEMMA ReportNames ==
  ASSUME TagExclusionAssumption, Placing(parent), TagsRight(tag, on, clock), NEW i \in Id
  PROVE  LET row == ReportOf(i) IN
         /\ row \in ReportRow /\ row.id = i /\ (row.gone <=> i \notin Live)
         /\ i \in Live => \A p \in on : tag[p[1]].name = tag[i].name =>
                            [path |-> PathIn(parent)[p[2]], fileid |-> p[2]] \in row.nodes
<1> DEFINE of == {p[2] : p \in {q \in on : tag[q[1]].name = tag[i].name}}
           nodes == IF i \notin Live THEN {} ELSE Found(of)
<1>1. on \subseteq LiveIn(tag) \X Node
  BY DEF TagsRight
<1>2. of \subseteq Node
  BY <1>1
<1>3. \A n \in Node : Path[n] = PathIn(parent)[n] /\ PathIn(parent)[n] \in Seq(Node)
  BY Paths DEF Path
<1>4. \A p \in on : tag[p[1]].name = tag[i].name => p[2] \in of
  OBVIOUS
<1> HIDE DEF of
<1>5. Found(of) \subseteq FoundEntry
  BY <1>2, <1>3 DEF Found, FoundEntry
<1>6. \A n \in of : [path |-> PathIn(parent)[n], fileid |-> n] \in Found(of)
  BY <1>2, <1>3 DEF Found
<1>7. nodes \in SUBSET FoundEntry
  BY <1>5
<1>8. i \in Live => nodes = Found(of)
  OBVIOUS
<1>9. ReportOf(i) = [id |-> i, gone |-> i \notin Live, nodes |-> nodes]
  BY DEF ReportOf, of
<1> DEFINE row == ReportOf(i)
<1> HIDE DEF nodes, row
<1>10. row \in ReportRow /\ row.id = i /\ (row.gone <=> i \notin Live) /\ row.nodes = nodes
  <2>1. row = [id |-> i, gone |-> i \notin Live, nodes |-> nodes]
    BY <1>9 DEF row
  <2>2. row.id = i /\ row.gone = (i \notin Live) /\ row.nodes = nodes
    BY <2>1
  <2>3. row \in ReportRow
    BY <1>7, <2>1 DEF ReportRow
  <2> QED BY <2>2, <2>3
<1>11. i \in Live => \A p \in on : tag[p[1]].name = tag[i].name =>
                         [path |-> PathIn(parent)[p[2]], fileid |-> p[2]] \in row.nodes
  BY <1>4, <1>6, <1>8, <1>10
<1> QED BY <1>10, <1>11 DEF row

LEMMA ReportStep ==
  ASSUME TagExclusionAssumption, Inv, NEW c \in Call, Report(c) PROVE Inv'
<1> DEFINE j == job[c]
<1>1. PICK i \in j.ids :
        /\ pc[c] = "report" /\ pc[c] \in Working /\ UNCHANGED <<clock, outside, cache, pc>>
        /\ job' = [job EXCEPT ![c] = [j EXCEPT !.answers = @ \cup {ReportOf(i)}]]
  BY DEF Report, Set, Working
<1>2. /\ j \in JobRow /\ j.astray = {} /\ Bounded(j, tag, clock) /\ Fetched(j, parent)
      /\ \A p \in Missed(j) : /\ Withdrawn(p[1], p[2], parent, tag, on, clock)
                            /\ (~j.moved => Reported(j, p[1], p[2], parent, tag))
      /\ TagsRight(tag, on, clock) /\ CacheRight(cache, tag, clock) /\ Placing(parent)
  BY <1>1, AtWork DEF Promised
<1> DEFINE row == ReportOf(i)
           new == [j EXCEPT !.answers = @ \cup {row}]
<1> HIDE DEF j, row
<1>3. i \in Id
  BY <1>2 DEF JobRow
<1>4. /\ row \in ReportRow /\ row.id = i /\ (row.gone <=> i \notin Live)
      /\ i \in Live => \A p \in on : tag[p[1]].name = tag[i].name =>
                         [path |-> PathIn(parent)[p[2]], fileid |-> p[2]] \in row.nodes
  BY <1>2, <1>3, ReportNames DEF row
<1>5. /\ new \in JobRow /\ new.want = j.want /\ new.goal = j.goal /\ new.listed = j.listed
      /\ new.start = j.start /\ new.ids = j.ids /\ new.answers = j.answers \cup {row}
      /\ new.content = j.content /\ new.free = j.free /\ (new.moved <=> j.moved) /\ new.astray = {}
  BY <1>2, <1>4 DEF JobRow
<1> HIDE DEF new
<1>6. Bounded(new, tag, clock) /\ Fetched(new, parent) /\ Missed(new) = Missed(j)
  BY <1>1, <1>2, <1>4, <1>5 DEF Bounded, Fetched, Missed, j
<1>7. ASSUME NEW p \in Missed(new), ~new.moved PROVE Reported(new, p[1], p[2], parent, tag)
  <2>1. Reported(j, p[1], p[2], parent, tag) /\ Withdrawn(p[1], p[2], parent, tag, on, clock)
    BY <1>2, <1>5, <1>6, <1>7
  <2>2. CASE \E k \in j.ids : Named(k, p[1], tag) /\ \A a \in j.answers : a.id # k
    <3>1. PICK k \in j.ids : Named(k, p[1], tag) /\ \A a \in j.answers : a.id # k
      BY <2>2
    <3>2. CASE k # i
      BY <1>4, <1>5, <3>1, <3>2 DEF Reported
    <3>3. CASE k = i /\ i \notin Live
      BY <1>4, <1>5, <3>3 DEF Reported
    <3>4. CASE k = i /\ i \in Live
      <4>1. tag[i].name = p[1]
        BY <3>1, <3>4 DEF Named, Live
      <4>2. PICK q \in on : tag[q[1]].name = p[1] /\ Over(parent, q[2], p[2])
        BY <2>1 DEF Withdrawn, Over
      <4> DEFINE e == [path |-> PathIn(parent)[q[2]], fileid |-> q[2]]
      <4>3. e \in row.nodes /\ row \in new.answers
        BY <1>4, <1>5, <3>4, <4>1, <4>2
      <4>4. e.path = PathIn(parent)[e.fileid] /\ Over(parent, e.fileid, p[2])
        BY <4>2
      <4> HIDE DEF e
      <4> QED BY <4>3, <4>4 DEF Reported
    <3> QED BY <3>2, <3>3, <3>4
  <2>3. CASE \E a \in j.answers : a.gone
    BY <1>5, <2>3 DEF Reported
  <2>4. CASE \E a \in j.answers :
               \E e \in a.nodes : e.path = PathIn(parent)[e.fileid] /\ Over(parent, e.fileid, p[2])
    BY <1>5, <2>4 DEF Reported
  <2> QED BY <2>1, <2>2, <2>3, <2>4 DEF Reported
<1>8. JobRight("report", new, parent, tag, on, clock)
  BY <1>2, <1>5, <1>6, <1>7 DEF JobRight, Promised
<1>9. pc' = [pc EXCEPT ![c] = "report"] /\ job' = [job EXCEPT ![c] = new]
  BY <1>1 DEF Inv, Forms, j, row, new
<1>10. "report" \in Working /\ UNCHANGED <<clock, outside>> /\ CacheRight(cache', tag, clock)
  BY <1>1, <1>2 DEF Working
<1> HIDE DEF Inv
<1> QED BY <1>5, <1>8, <1>9, <1>10, CallMoves

LEMMA JudgeStep ==
  ASSUME TagExclusionAssumption, Inv, NEW c \in Call, Judge(c) PROVE Inv'
<1> DEFINE j == job[c]
<1>1. /\ pc[c] = "report" /\ pc[c] \in Working /\ {a.id : a \in j.answers} = j.ids
      /\ UNCHANGED <<clock, outside>>
  BY DEF Judge, Working
<1>2. /\ j \in JobRow /\ j.astray = {} /\ Bounded(j, tag, clock) /\ Fetched(j, parent)
      /\ \A p \in Missed(j) : /\ Withdrawn(p[1], p[2], parent, tag, on, clock)
                            /\ (~j.moved => Reported(j, p[1], p[2], parent, tag))
      /\ TagsRight(tag, on, clock) /\ CacheRight(cache, tag, clock) /\ Placing(parent)
      /\ clock \in 0..MaxClock
  BY <1>1, AtWork DEF Promised
<1>3. CASE \A a \in j.answers : ~a.gone
  <2> DEFINE new == [j EXCEPT !.scope = Active(j.answers)]
  <2>1. /\ pc' = [pc EXCEPT ![c] = "judged"] /\ job' = [job EXCEPT ![c] = new] /\ cache' = cache
    BY <1>3 DEF Judge, Goto, Set
  <2> DEFINE nodes == UNION {a.nodes : a \in j.answers}
             scope == Active(j.answers)
  <2>2. scope.state = "active" /\ scope.paths = {e.path : e \in nodes} /\ scope.fileids = {e.fileid : e \in nodes}
        /\ scope = [state |-> "active", paths |-> {e.path : e \in nodes}, fileids |-> {e.fileid : e \in nodes}]
    BY DEF Active
  <2> HIDE DEF j, scope
  <2>3. nodes \subseteq FoundEntry /\ \A a \in j.answers : a.nodes \subseteq nodes
    BY <1>2 DEF JobRow, ReportRow
  <2> HIDE DEF nodes
  <2>4. scope \in Scope
    BY <2>2, <2>3 DEF Scope, FoundEntry
  <2>5. /\ new \in JobRow /\ new.want = j.want /\ new.goal = j.goal /\ new.listed = j.listed
        /\ new.start = j.start /\ new.ids = j.ids /\ new.answers = j.answers /\ new.scope = scope
        /\ new.content = j.content /\ new.free = j.free /\ (new.moved <=> j.moved) /\ new.astray = {}
    BY <1>2, <2>4 DEF JobRow, scope
  <2> HIDE DEF new
  <2>6. Bounded(new, tag, clock) /\ Fetched(new, parent) /\ Missed(new) = Missed(j)
    BY <1>2, <2>5 DEF Bounded, Fetched, Missed
  <2>7. ASSUME NEW p \in Missed(new), ~new.moved PROVE Withholds(new.scope, p[2], parent)
    <3>1. Reported(j, p[1], p[2], parent, tag)
      BY <1>2, <2>5, <2>6, <2>7
    <3>2. PICK a \in j.answers :
            \E e \in a.nodes : e.path = PathIn(parent)[e.fileid] /\ Over(parent, e.fileid, p[2])
      BY <1>1, <1>3, <3>1 DEF Reported, j
    <3>3. PICK e \in nodes : e.path = PathIn(parent)[e.fileid] /\ Over(parent, e.fileid, p[2])
      BY <2>3, <3>2
    <3>4. e.fileid \in scope.fileids /\ e.path \in scope.paths
      BY <2>2, <3>3
    <3> QED BY <2>2, <2>5, <3>3, <3>4 DEF Withholds
  <2>8. JobRight("judged", new, parent, tag, on, clock)
    BY <1>2, <2>5, <2>6, <2>7 DEF JobRight, Promised
  <2>9. "judged" \in Working /\ job' = [job EXCEPT ![c] = new]
    BY <2>1 DEF Working, new, j
  <2> HIDE DEF Inv
  <2> QED BY <1>1, <1>2, <2>1, <2>5, <2>8, <2>9, CallMoves
<1>4. CASE ~\A a \in j.answers : ~a.gone
  <2>1. /\ cache' = NoCache
        /\ IF j.second THEN Unavailable(c)
           ELSE pc' = [pc EXCEPT ![c] = "list"] /\ job' = [job EXCEPT ![c] = [j EXCEPT !.second = TRUE]]
    BY <1>4 DEF Judge, Goto, Set
  <2>2. CacheRight(cache', tag, clock)
    BY <1>2, <2>1 DEF CacheRight, NoCache, TagExclusionAssumption
  <2>3. CASE j.second
    <3>1. Finish(c, {}) /\ {} \in SUBSET Node
      BY <2>1, <2>3 DEF Unavailable
    <3> HIDE DEF Inv
    <3> QED BY <1>1, <2>2, <3>1, CallEnds
  <2>4. CASE ~j.second
    <3> DEFINE new == [j EXCEPT !.second = TRUE]
    <3>1. pc' = [pc EXCEPT ![c] = "list"] /\ job' = [job EXCEPT ![c] = new]
      BY <2>1, <2>4
    <3> HIDE DEF j
    <3>2. /\ new \in JobRow /\ new.want = j.want /\ new.goal = j.goal /\ new.listed = j.listed
          /\ new.start = j.start /\ new.ids = j.ids /\ new.answers = j.answers /\ new.content = j.content
          /\ new.free = j.free /\ (new.moved <=> j.moved) /\ new.astray = {}
      BY <1>2 DEF JobRow
    <3> HIDE DEF new
    <3>3. Bounded(new, tag, clock) /\ Fetched(new, parent) /\ Missed(new) = Missed(j)
      BY <1>2, <3>2 DEF Bounded, Fetched, Missed
    <3>4. JobRight("list", new, parent, tag, on, clock)
      BY <1>2, <3>3 DEF JobRight, Promised
    <3>5. "list" \in Working
      BY DEF Working
    <3> HIDE DEF Inv
    <3> QED BY <1>1, <2>2, <3>1, <3>2, <3>4, <3>5, CallMoves
  <2> QED BY <2>3, <2>4
<1> QED BY <1>3, <1>4

(* Whatever goes unanswered shows nothing.                                      *)
LEMMA NothingShown ==
  ASSUME TagExclusionAssumption, Inv, NEW c \in Call, Unavailable(c), UNCHANGED <<clock, outside, cache>>
  PROVE  Inv'
<1>1. Finish(c, {}) /\ {} \in SUBSET Node /\ UNCHANGED <<clock, outside>>
  BY DEF Unavailable
<1>2. CacheRight(cache', tag, clock)
  BY DEF Inv
<1> HIDE DEF Inv
<1> QED BY <1>1, <1>2, CallEnds

LEMMA UnansweredStep ==
  ASSUME TagExclusionAssumption, Inv, NEW c \in Call, Unanswered(c) \/ NotResolved(c) PROVE Inv'
<1>1. Unavailable(c) /\ UNCHANGED <<clock, outside, cache>>
  BY DEF Unanswered, NotResolved
<1> HIDE DEF Inv
<1> QED BY <1>1, NothingShown

-----------------------------------------------------------------------------
(* What the call fetches beside its scope: entries as they are now.             *)
Current(entries, want, where) ==
  \A e \in entries : (e.path = None => want = "ids") /\ e.path \in {PathIn(where)[e.fileid], None}

LEMMA FoundIsCurrent ==
  ASSUME TagExclusionAssumption, Placing(parent), NEW S \in SUBSET Node, NEW want
  PROVE  Found(S) \in SUBSET Entry /\ Current(Found(S), want, parent)
<1>1. \A n \in Node : Path[n] = PathIn(parent)[n] /\ PathIn(parent)[n] \in Seq(Node) /\ PathIn(parent)[n] # None
  BY Paths DEF Path
<1>2. ASSUME NEW e \in Found(S)
      PROVE  e \in Entry /\ e.path # None /\ e.path = PathIn(parent)[e.fileid]
  <2>1. PICK n \in S : e = [path |-> Path[n], fileid |-> n]
    BY DEF Found
  <2>2. e.path = PathIn(parent)[n] /\ e.fileid = n
    BY <1>1, <2>1
  <2> QED BY <1>1, <2>1, <2>2 DEF Entry
<1> QED BY <1>2 DEF Current

LEMMA ContentIsCurrent ==
  ASSUME TagExclusionAssumption, Placing(parent), NEW want \in Wants, want # "place",
         NEW goal, want = "byid" => goal \in Node, NEW answer \in Content(want, goal)
  PROVE  answer \in SUBSET Entry /\ Current(answer, want, parent)
<1>1. want \in {"children", "below", "entry", "byid", "ids"}
  BY DEF TagExclusionAssumption
<1>2. CASE want # "ids"
  <2>1. \E S \in SUBSET Node : answer = Found(S)
    <3>1. CASE want = "children"
      <4>1. Listing(goal) \cup At(goal) \in SUBSET Node
        BY DEF Listing, At
      <4>2. answer = Found(Listing(goal) \cup At(goal))
        BY <3>1 DEF Content
      <4> QED BY <4>1, <4>2
    <3>2. CASE want = "below"
      <4>1. Below(goal) \in SUBSET Node
        BY DEF Below
      <4>2. answer = Found(Below(goal))
        BY <3>2 DEF Content
      <4> QED BY <4>1, <4>2
    <3>3. CASE want = "entry"
      <4>1. At(goal) \in SUBSET Node
        BY DEF At
      <4>2. answer = Found(At(goal))
        BY <3>3 DEF Content
      <4> QED BY <4>1, <4>2
    <3>4. CASE want = "byid"
      <4>1. {goal} \in SUBSET Node
        BY <3>4
      <4>2. answer = Found({goal})
        BY <3>4 DEF Content
      <4> QED BY <4>1, <4>2
    <3> QED BY <1>1, <1>2, <3>1, <3>2, <3>3, <3>4
  <2> QED BY <2>1, FoundIsCurrent
<1>3. CASE want = "ids"
  <2>1. answer = Found(Node) \/ answer = {[path |-> None, fileid |-> n] : n \in Node}
    BY <1>3 DEF Content
  <2>2. CASE answer = Found(Node)
    BY <2>2, FoundIsCurrent
  <2>3. CASE answer = {[path |-> None, fileid |-> n] : n \in Node}
    BY <1>3, <2>3 DEF Entry, Current
  <2> QED BY <2>1, <2>2, <2>3
<1> QED BY <1>2, <1>3

LEMMA NewContent ==
  ASSUME TagExclusionAssumption, Inv, NEW c \in Call, pc[c] \in Working, NEW answer \in SUBSET Entry,
         Current(answer, job[c].want, parent), UNCHANGED <<clock, outside, cache, pc>>,
         job' = [job EXCEPT ![c] = [job[c] EXCEPT !.content = answer]]
  PROVE  Inv'
<1> DEFINE j == job[c]
           new == [j EXCEPT !.content = answer]
           step == pc[c]
<1>1. /\ j \in JobRow /\ j.astray = {} /\ Bounded(j, tag, clock) /\ CacheRight(cache, tag, clock)
      /\ \A p \in Missed(j) : /\ Withdrawn(p[1], p[2], parent, tag, on, clock)
                            /\ Promised(step, j, p[1], p[2], parent, tag)
      /\ step = "listed" => Covers(j.listed, j.start, tag)
  BY AtWork
<1> HIDE DEF j
<1>2. /\ new \in JobRow /\ new.want = j.want /\ new.goal = j.goal /\ new.listed = j.listed
      /\ new.start = j.start /\ new.ids = j.ids /\ new.answers = j.answers /\ new.scope = j.scope
      /\ new.content = answer /\ new.free = j.free /\ (new.moved <=> j.moved) /\ new.astray = {}
  BY <1>1 DEF JobRow
<1> HIDE DEF new
<1>3. Bounded(new, tag, clock) /\ Missed(new) = Missed(j)
  BY <1>1, <1>2 DEF Bounded, Missed
<1>4. Fetched(new, parent)
  BY <1>2 DEF Fetched, Current, j
<1>5. ASSUME NEW p \in Missed(new) PROVE Promised(step, new, p[1], p[2], parent, tag)
  <2>1. Promised(step, j, p[1], p[2], parent, tag)
    BY <1>1, <1>3
  <2>2. Reported(j, p[1], p[2], parent, tag) => Reported(new, p[1], p[2], parent, tag)
    BY <1>2 DEF Reported
  <2> QED BY <1>2, <2>1, <2>2 DEF Promised
<1>6. JobRight(step, new, parent, tag, on, clock)
  BY <1>1, <1>2, <1>3, <1>4, <1>5 DEF JobRight
<1>7. /\ pc' = [pc EXCEPT ![c] = step] /\ job' = [job EXCEPT ![c] = new]
      /\ UNCHANGED <<clock, outside>> /\ CacheRight(cache', tag, clock) /\ step \in {"idle"} \cup Working
      /\ step # "idle"
  BY <1>1 DEF Inv, Forms, Working, j, new
<1> HIDE DEF Inv, step
<1> QED BY ZenonT(60), <1>2, <1>6, <1>7, CallMoves

LEMMA FetchStep ==
  ASSUME TagExclusionAssumption, Inv, NEW c \in Call, Fetch(c) PROVE Inv'
<1>1. PICK answer \in Content(job[c].want, job[c].goal) :
        /\ pc[c] \in Working /\ job[c].want # "place" /\ UNCHANGED <<clock, outside, cache, pc>>
        /\ job' = [job EXCEPT ![c] = [job[c] EXCEPT !.content = answer]]
  BY DEF Fetch, Set
<1>2. Bounded(job[c], tag, clock) /\ Placing(parent)
  BY <1>1, AtWork
<1>3. answer \in SUBSET Entry /\ Current(answer, job[c].want, parent)
  BY <1>1, <1>2, ContentIsCurrent DEF Bounded
<1> HIDE DEF Inv
<1> QED BY <1>1, <1>3, NewContent

LEMMA SearchMoreStep ==
  ASSUME TagExclusionAssumption, Inv, NEW c \in Call, SearchMore(c) PROVE Inv'
<1> DEFINE answer == Found(Below(job[c].goal))
<1>1. /\ pc[c] \in Working /\ UNCHANGED <<clock, outside, cache, pc>>
      /\ job' = [job EXCEPT ![c] = [job[c] EXCEPT !.content = answer]]
  BY DEF SearchMore, Ready, Set, Working
<1>2. Placing(parent) /\ Below(job[c].goal) \in SUBSET Node
  BY DEF Inv, Below
<1>3. answer \in SUBSET Entry /\ Current(answer, job[c].want, parent)
  BY <1>2, FoundIsCurrent
<1> HIDE DEF Inv, answer
<1> QED BY <1>1, <1>3, NewContent

LEMMA ResolveStep ==
  ASSUME TagExclusionAssumption, Inv, NEW c \in Call, Resolve(c) PROVE Inv'
<1> DEFINE S == {e.fileid : e \in job[c].content}
           answer == Found(S)
<1>1. /\ pc[c] \in Working /\ UNCHANGED <<clock, outside, cache, pc>> /\ job[c].content # None
      /\ job' = [job EXCEPT ![c] = [job[c] EXCEPT !.content = Found({e.fileid : e \in @})]]
  BY DEF Resolve, Ready, Set, Working
<1>2. job' = [job EXCEPT ![c] = [job[c] EXCEPT !.content = answer]]
  BY <1>1
<1>3. Placing(parent) /\ job[c] \in JobRow
  BY Clocks DEF Inv
<1>4. S \in SUBSET Node
  BY <1>1, <1>3 DEF JobRow, Entry
<1>5. answer \in SUBSET Entry /\ Current(answer, job[c].want, parent)
  <2> HIDE DEF S
  <2> QED BY <1>3, <1>4, FoundIsCurrent
<1> HIDE DEF Inv, answer
<1> QED BY <1>1, <1>2, <1>5, NewContent

-----------------------------------------------------------------------------
(* What the tools show.  A node withdrawn at every moment of the call is         *)
(* excluded by its path, and by its id unless a tagged folder asks for paths.   *)
LEMMA MissedIsExcluded ==
  ASSUME TagExclusionAssumption, Inv, NEW c \in Call, pc[c] = "judged", ~job[c].moved,
         NEW n \in Node, NEW s \in Spelling, <<s, n>> \in Missed(job[c])
  PROVE  LET scope == job[c].scope IN
         /\ \A fileid : Excludes(scope, PathIn(parent)[n], fileid)
         /\ NeedsPaths(scope) \/ \A path : Excludes(scope, path, n)
<1> DEFINE scope == job[c].scope
<1>1. pc[c] \in Working
  BY DEF Working
<1>2. Promised("judged", job[c], s, n, parent, tag) /\ Placing(parent) /\ job[c] \in JobRow
  BY <1>1, AtWork
<1>3. Withholds(scope, n, parent) /\ scope.fileids \subseteq Node
  BY <1>2 DEF Promised, JobRow, Scope
<1> HIDE DEF scope
<1>4. PICK m \in scope.fileids : PathIn(parent)[m] \in scope.paths /\ Over(parent, m, n)
  BY <1>3 DEF Withholds
<1>5. PathIn(parent)[n] # None /\ scope.state = "active"
  BY <1>2, <1>3, Paths DEF Withholds
<1>6. \A fileid : Excludes(scope, PathIn(parent)[n], fileid)
  BY <1>4, <1>5 DEF Excludes, Over
<1>7. m = n \/ m \in Folder
  BY <1>2, <1>3, <1>4, OverIsAFolder
<1>8. NeedsPaths(scope) \/ \A path : Excludes(scope, path, n)
  BY <1>4, <1>5, <1>7 DEF Excludes, NeedsPaths
<1> QED BY <1>6, <1>8 DEF scope

LEMMA AllowedIsVisible ==
  ASSUME TagExclusionAssumption, Inv, NEW c \in Call, pc[c] = "judged", job[c].content # None,
         NEW e \in Allowed(c), e.path = None => ~NeedsPaths(job[c].scope)
  PROVE  /\ e \in Entry /\ e.fileid \in Node /\ (e.path = None => job[c].want = "ids")
         /\ ~job[c].moved => /\ e.path \in {PathIn(parent)[e.fileid], None}
                             /\ \A s \in Spelling : <<s, e.fileid>> \notin Missed(job[c])
<1>1. pc[c] \in Working
  BY DEF Working
<1>2. Fetched(job[c], parent) /\ job[c] \in JobRow
  BY <1>1, AtWork
<1>3. e \in job[c].content /\ ~Excludes(job[c].scope, e.path, e.fileid)
  BY DEF Allowed, Shown
<1>4. e \in Entry /\ e.fileid \in Node
  BY <1>2, <1>3 DEF JobRow, Entry
<1>5. /\ e.path = None => job[c].want = "ids"
      /\ ~job[c].moved => e.path \in {PathIn(parent)[e.fileid], None}
  BY <1>2, <1>3 DEF Fetched
<1>6. ASSUME ~job[c].moved, NEW s \in Spelling, <<s, e.fileid>> \in Missed(job[c]) PROVE FALSE
  <2> HIDE DEF Inv
  <2>1. /\ \A fileid : Excludes(job[c].scope, PathIn(parent)[e.fileid], fileid)
        /\ NeedsPaths(job[c].scope) \/ \A path : Excludes(job[c].scope, path, e.fileid)
    BY <1>4, <1>6, MissedIsExcluded
  <2> QED BY <1>3, <1>5, <1>6, <2>1
<1> QED BY <1>4, <1>5, <1>6

LEMMA AnswerStep ==
  ASSUME TagExclusionAssumption, Inv, NEW c \in Call, pc[c] = "judged", job[c].content # None,
         NEW shown \in SUBSET Allowed(c), Answer(c, shown),
         \A e \in shown : e.path = None => ~NeedsPaths(job[c].scope)
  PROVE  Inv'
<1> HIDE DEF Inv
<1> DEFINE nodes == {e.fileid : e \in shown}
<1>1. Finish(c, nodes) /\ UNCHANGED <<clock, outside, cache>>
  BY DEF Answer
<1>2. \A e \in shown : /\ e.fileid \in Node
                       /\ ~job[c].moved => \A s \in Spelling : <<s, e.fileid>> \notin Missed(job[c])
  BY AllowedIsVisible
<1>3. nodes \in SUBSET Node /\ \A n \in nodes, s \in Spelling : ~job[c].moved => <<s, n>> \notin Missed(job[c])
  BY <1>2
<1>4. CacheRight(cache', tag, clock)
  BY <1>1 DEF Inv
<1> HIDE DEF nodes
<1> QED BY <1>1, <1>3, <1>4, CallEnds

(* The tools that work with paths have them.                                    *)
LEMMA PathsAreKnown ==
  ASSUME TagExclusionAssumption, Inv, NEW c \in Call, NEW want, Ready(c, want), want # "ids"
  PROVE  /\ pc[c] = "judged" /\ job[c].content # None
         /\ \A e \in Allowed(c) : e.path # None
<1>1. pc[c] = "judged" /\ pc[c] \in Working /\ job[c].want = want /\ job[c].content # None
  BY DEF Ready, Working
<1>2. Fetched(job[c], parent)
  BY <1>1, AtWork
<1>3. \A e \in Allowed(c) : e \in job[c].content
  BY DEF Allowed, Shown
<1> QED BY <1>1, <1>2, <1>3 DEF Fetched

LEMMA ContentStep ==
  ASSUME TagExclusionAssumption, Inv, NEW c \in Call, NEW want, Ready(c, want), want # "ids",
         ContentAt(c)
  PROVE  Inv'
<1> HIDE DEF Inv
<1> DEFINE nodes == UNION {At(e.path) : e \in Allowed(c)}
<1>1. Finish(c, nodes) /\ UNCHANGED <<clock, outside, cache>>
  BY DEF ContentAt
<1>2. /\ pc[c] = "judged" /\ job[c].content # None
      /\ \A e \in Allowed(c) : e.path # None
  BY PathsAreKnown
<1>3. nodes \in SUBSET Node
  BY DEF At
<1>4. ASSUME NEW n \in nodes, NEW s \in Spelling, ~job[c].moved PROVE <<s, n>> \notin Missed(job[c])
  <2>1. PICK e \in Allowed(c) : n \in At(e.path)
    OBVIOUS
  <2>2. n \in Node /\ PathIn(parent)[n] = e.path
    BY <2>1 DEF At, Path
  <2>3. e.fileid \in Node /\ PathIn(parent)[e.fileid] = e.path /\ <<s, e.fileid>> \notin Missed(job[c])
    BY <1>2, <1>4, AllowedIsVisible
  <2>4. Placing(parent)
    BY DEF Inv
  <2>5. n = e.fileid
    BY <2>2, <2>3, <2>4, Paths
  <2> QED BY <2>3, <2>5
<1>5. CacheRight(cache', tag, clock)
  BY <1>1 DEF Inv
<1> HIDE DEF nodes
<1> QED BY <1>1, <1>3, <1>4, <1>5, CallEnds

LEMMA WriteStep ==
  ASSUME TagExclusionAssumption, Inv, NEW c \in Call, WriteAt(c) PROVE Inv'
<1> HIDE DEF Inv
<1> DEFINE nodes == IF Excludes(job[c].scope, job[c].goal, None) THEN {} ELSE At(job[c].goal)
<1>1. pc[c] = "judged" /\ Finish(c, nodes) /\ UNCHANGED <<clock, outside, cache>>
  BY DEF WriteAt
<1>2. nodes \in SUBSET Node
  BY DEF At
<1>3. ASSUME NEW n \in nodes, NEW s \in Spelling, ~job[c].moved PROVE <<s, n>> \notin Missed(job[c])
  <2>1. ~Excludes(job[c].scope, job[c].goal, None) /\ n \in Node /\ PathIn(parent)[n] = job[c].goal
    BY <1>3 DEF At, Path
  <2> QED BY <1>1, <1>3, <2>1, MissedIsExcluded
<1>4. CacheRight(cache', tag, clock)
  BY <1>1 DEF Inv
<1> HIDE DEF nodes
<1> QED BY <1>1, <1>2, <1>3, <1>4, CallEnds

LEMMA FileToolsStep ==
  ASSUME TagExclusionAssumption, Inv, NEW c \in Call, FileTools(c) PROVE Inv'
<1> HIDE DEF Inv
<1>1. CASE ListDir(c)
  <2>1. Ready(c, "children") /\ "children" # "ids"
    BY <1>1 DEF ListDir
  <2>2. PICK shown \in SUBSET Allowed(c) : Answer(c, shown)
    BY <1>1 DEF ListDir
  <2>3. pc[c] = "judged" /\ job[c].content # None /\ \A e \in Allowed(c) : e.path # None
    BY <2>1, PathsAreKnown
  <2> QED BY <2>2, <2>3, AnswerStep
<1>2. CASE SearchMore(c)
  BY <1>2, SearchMoreStep
<1>3. CASE Search(c)
  <2>1. Ready(c, "below") /\ "below" # "ids"
    BY <1>3 DEF Search
  <2>2. PICK shown \in SUBSET Allowed(c) : Answer(c, shown)
    BY <1>3 DEF Search
  <2>3. pc[c] = "judged" /\ job[c].content # None /\ \A e \in Allowed(c) : e.path # None
    BY <2>1, PathsAreKnown
  <2> QED BY <2>2, <2>3, AnswerStep
<1>4. CASE Read(c) \/ ReadAsMarkdown(c) \/ Download(c) \/ Update(c)
  <2>1. Ready(c, "entry") /\ ContentAt(c) /\ "entry" # "ids"
    BY <1>4 DEF Read, ReadAsMarkdown, Download, Update
  <2> QED BY <2>1, ContentStep
<1>5. CASE FetchFile(c)
  <2>1. Ready(c, "byid") /\ ContentAt(c) /\ "byid" # "ids"
    BY <1>5 DEF FetchFile
  <2> QED BY <2>1, ContentStep
<1>6. CASE Upload(c) \/ UploadAttachment(c) \/ CreateNote(c)
  BY <1>6, WriteStep DEF Upload, UploadAttachment, CreateNote
<1> QED BY <1>1, <1>2, <1>3, <1>4, <1>5, <1>6 DEF FileTools

LEMMA OtherToolsStep ==
  ASSUME TagExclusionAssumption, Inv, NEW c \in Call, OtherTools(c) PROVE Inv'
<1> HIDE DEF Inv
<1>1. CASE Resolve(c)
  BY <1>1, ResolveStep
<1>2. CASE NotResolved(c)
  BY <1>2, UnansweredStep
<1>3. CASE UnifiedSearch(c) \/ TalkScreen(c) \/ TableLinks(c) \/ NoteSearch(c) \/ ReadNote(c)
  <2>1. Hits(c) /\ \E shown \in SUBSET Allowed(c) : Answer(c, shown)
    BY <1>3 DEF UnifiedSearch, TalkScreen, TableLinks, NoteSearch, ReadNote
  <2>2. PICK shown \in SUBSET Allowed(c) : Answer(c, shown)
    BY <2>1
  <2>3. pc[c] = "judged" /\ job[c].content # None /\ ~Unresolved(c)
    BY <2>1 DEF Hits, Ready
  <2>4. \A e \in shown : e.path = None => ~NeedsPaths(job[c].scope)
    BY <2>3 DEF Unresolved, Allowed, Shown
  <2> QED BY <2>2, <2>3, <2>4, AnswerStep
<1> QED BY <1>1, <1>2, <1>3 DEF OtherTools

-----------------------------------------------------------------------------
(* The invariant holds in the beginning and after every step.                   *)
LEMMA InvInit == ASSUME TagExclusionAssumption, Init PROVE Inv
<1>1. /\ clock = 0 /\ changes = 0 /\ parent = Placed /\ tag = [i \in Id |-> NoTag] /\ on = {}
      /\ cache = NoCache /\ pc = [c \in Call |-> "idle"] /\ job = [c \in Call |-> NoJob]
  BY DEF Init
<1>2. MaxClock \in Nat /\ MaxChanges \in Nat /\ TAG_BUDGET \in Nat
  BY DEF TagExclusionAssumption
<1>3. Placing(parent)
  <2>1. PICK depth \in [Node -> 0..Cardinality(Node)] :
          \A n \in Node : Placed[n] # Home => depth[Placed[n]] < depth[n]
    BY DEF TagExclusionAssumption
  <2>2. Cardinality(Node) \in Nat
    BY FS_CardinalityType DEF TagExclusionAssumption
  <2>3. depth \in [Node -> Nat]
    BY <2>2
  <2>4. Placed \in [Node -> Folder \cup {Home}]
    BY DEF TagExclusionAssumption
  <2> QED BY <1>1, <2>1, <2>3, <2>4 DEF Placing
<1>4. NoTag \in TagRow /\ NoTag.name = None /\ NoTag.at = None
  BY DEF NoTag, TagRow
<1>5. LiveIn(tag) = {} /\ GivenIn(tag) = {}
  BY <1>1, <1>4 DEF LiveIn, GivenIn
<1>6. TagsRight(tag, on, clock)
  BY <1>1, <1>4, <1>5 DEF TagsRight
<1>7. CacheRight(cache, tag, clock)
  BY <1>1, <1>2 DEF CacheRight, NoCache
<1>8. \A c \in Call : pc[c] = "idle" /\ job[c] = NoJob
  BY <1>1
<1>9. NoJob \in JobRow /\ NoJob.astray = {} /\ NoJob.answers = {}
  BY NothingAsked DEF NoJob
<1>10. Forms
  <2>1. clock \in 0..MaxClock /\ changes \in 0..MaxChanges
    BY <1>1, <1>2
  <2>2. pc \in [Call -> {"idle"} \cup Working] /\ job \in [Call -> JobRow]
    BY <1>1, <1>9
  <2> QED BY <1>8, <1>9, <2>1, <2>2 DEF Forms
<1>11. \A c \in Call : JobRight(pc[c], job[c], parent, tag, on, clock)
  BY <1>8 DEF JobRight, Working
<1> QED BY <1>3, <1>6, <1>7, <1>10, <1>11 DEF Inv

LEMMA FlightStep ==
  ASSUME TagExclusionAssumption, Inv, NEW c \in Call, Flight(c) PROVE Inv'
<1> HIDE DEF Inv
<1> QED BY BeginStep, ListStep, LearnStep, ReportStep, JudgeStep, UnansweredStep, FetchStep DEF Flight

LEMMA PeopleStep ==
  ASSUME TagExclusionAssumption, Inv, changes < MaxChanges, changes' = changes + 1, People PROVE Inv'
<1>1. changes' \in 0..MaxChanges
  BY DEF Inv, Forms, TagExclusionAssumption
<1> HIDE DEF Inv
<1> QED BY <1>1, CreateStep, DeleteStep, AssignStep, UnassignStep, MoveStep DEF People

LEMMA InvStep == ASSUME TagExclusionAssumption, Inv, [Next]_vars PROVE Inv'
<1>1. CASE UNCHANGED vars
  <2>1. /\ clock' = clock /\ parent' = parent /\ tag' = tag /\ on' = on /\ changes' = changes
        /\ cache' = cache /\ pc' = pc /\ job' = job
    BY <1>1 DEF vars, outside
  <2> QED BY <2>1 DEF Inv, Forms
<1> HIDE DEF Inv
<1>2. CASE Tick
  BY <1>2, TickStep
<1>3. CASE changes < MaxChanges /\ changes' = changes + 1 /\ People
  BY <1>3, PeopleStep
<1>4. CASE \E c \in Call : Flight(c) \/ FileTools(c) \/ OtherTools(c)
  BY <1>4, FlightStep, FileToolsStep, OtherToolsStep
<1> QED BY <1>1, <1>2, <1>3, <1>4 DEF Next

LEMMA InvHoldsTypes == ASSUME TagExclusionAssumption, Inv PROVE TypeOK
<1>1. /\ clock \in 0..MaxClock /\ changes \in 0..MaxChanges /\ parent \in [Node -> Folder \cup {Home}]
      /\ tag \in [Id -> TagRow] /\ on \subseteq LiveIn(tag) \X Node /\ pc \in [Call -> {"idle"} \cup Working]
  BY DEF Inv, Forms, Placing, TagsRight
<1>2. cache.ids \subseteq Id /\ cache.at \in 0..MaxClock
  BY DEF Inv, CacheRight
<1>3. ASSUME NEW c \in Call
      PROVE  /\ job[c].ids \cup job[c].listed \subseteq Id
             /\ job[c].free \subseteq Spelling \X Node /\ job[c].astray \subseteq Node
             /\ {a.id : a \in job[c].answers} \subseteq job[c].ids
             /\ job[c].scope.state \in {None, "untagged", "active"}
             /\ pc[c] \in Working => clock - job[c].start <= TAG_BUDGET
  <2>1. job[c] \in JobRow /\ JobRight(pc[c], job[c], parent, tag, on, clock)
    BY Clocks
  <2>2. pc[c] \in Working => Bounded(job[c], tag, clock)
    BY <2>1 DEF JobRight
  <2>3. pc[c] \notin Working => job[c].answers = {}
    BY <1>1 DEF Inv, Forms
  <2> HIDE DEF Inv
  <2>4. \A a \in job[c].answers : a.id \in job[c].ids
    BY <2>2, <2>3 DEF Bounded
  <2>5. job[c].ids \cup job[c].listed \subseteq Id /\ job[c].free \subseteq Spelling \X Node
        /\ job[c].astray \subseteq Node /\ job[c].scope \in Scope
    BY <2>1 DEF JobRow
  <2>6. job[c].scope.state \in {None, "untagged", "active"}
    BY <2>5 DEF Scope
  <2> QED BY <2>2, <2>4, <2>5, <2>6 DEF Bounded
<1>4. tag \in [Id -> [name : Spelling \cup {None}, at : 0..MaxClock \cup {None}]] /\ on \subseteq Live \X Node
  BY <1>1 DEF TagRow, Live, LiveIn
<1> HIDE DEF Inv
<1> QED BY <1>1, <1>2, <1>3, <1>4 DEF TypeOK

(* What carries the tag all through a call, or lies below what carries it, is   *)
(* neither shown nor written into by it: for every tree of files, every number  *)
(* of spellings, tags and calls, every lifetime of the cache and budget of a    *)
(* flight, whatever people tag, free, create, delete and move meanwhile         *)
(* (exclusion.py: load_scope, _flight, _cached_ids, TagScope.excludes).         *)
THEOREM TaggedIsWithheld ==
  ASSUME TagExclusionAssumption PROVE Spec => [](TypeOK /\ TaggedStaysWithheld)
<1>1. Init => Inv
  BY InvInit
<1>2. Inv /\ [Next]_vars => Inv'
  BY InvStep
<1>3. Inv => TypeOK /\ TaggedStaysWithheld
  BY InvHoldsTypes DEF Inv, Forms, TaggedStaysWithheld
<1> QED BY <1>1, <1>2, <1>3, PTL DEF Spec

-----------------------------------------------------------------------------
(* The diagnosis of the tags.                                                   *)

LEMMA SumsAgree ==
  ASSUME NEW S, \A t \in S : counted[t] = labels[t].items
  PROVE  TK!MapThenSumSet(LAMBDA t : counted[t], S) = TK!ItemsOf(S)
<1> DEFINE P(F) == F = [s \in SUBSET S |-> IF s = {} THEN 0
                          ELSE counted[CHOOSE x \in s : TRUE] + F[s \ {CHOOSE x \in s : TRUE}]]
           Q(F) == F = [s \in SUBSET S |-> IF s = {} THEN 0
                          ELSE labels[CHOOSE x \in s : TRUE].items + F[s \ {CHOOSE x \in s : TRUE}]]
<1>1. TK!MapThenSumSet(LAMBDA t : counted[t], S) = (CHOOSE F : P(F))[S]
  BY DEF TK!MapThenSumSet, TK!MapThenFoldSet
<1>2. TK!ItemsOf(S) = (CHOOSE F : Q(F))[S]
  BY DEF TK!ItemsOf, TK!MapThenSumSet, TK!MapThenFoldSet
<1>3. ASSUME NEW F PROVE P(F) <=> Q(F)
  <2>1. \A s \in SUBSET S : s # {} => counted[CHOOSE x \in s : TRUE] = labels[CHOOSE x \in s : TRUE].items
    OBVIOUS
  <2>2. [s \in SUBSET S |-> IF s = {} THEN 0
           ELSE counted[CHOOSE x \in s : TRUE] + F[s \ {CHOOSE x \in s : TRUE}]]
        = [s \in SUBSET S |-> IF s = {} THEN 0
             ELSE labels[CHOOSE x \in s : TRUE].items + F[s \ {CHOOSE x \in s : TRUE}]]
    BY <2>1
  <2> QED BY <2>2
<1> HIDE DEF P, Q
<1>4. (CHOOSE F : P(F)) = (CHOOSE F : Q(F))
  BY <1>3
<1> QED BY <1>1, <1>2, <1>4

LEMMA NoItems == TK!ItemsOf({}) = 0
<1> DEFINE Q(F) == F = [s \in SUBSET {} |-> IF s = {} THEN 0
                          ELSE labels[CHOOSE x \in s : TRUE].items + F[s \ {CHOOSE x \in s : TRUE}]]
<1>1. TK!ItemsOf({}) = (CHOOSE F : Q(F))[{}]
  BY DEF TK!ItemsOf, TK!MapThenSumSet, TK!MapThenFoldSet
<1>2. Q([s \in SUBSET {} |-> 0])
  OBVIOUS
<1>3. \A F : Q(F) => F[{}] = 0
  OBVIOUS
<1> HIDE DEF Q
<1>4. Q(CHOOSE F : Q(F))
  BY <1>2
<1> QED BY <1>1, <1>3, <1>4

-----------------------------------------------------------------------------
(* What the check knows, while people leave the tags alone. *)
FactOf(t) == [tag |-> t, kind |-> labels[t].kind, visible |-> labels[t].visible,
              assignable |-> labels[t].assignable]
Listable == {t \in Tag : labels[t] # None /\ (TK!AdminChecked \/ labels[t].visible)}
Facts == {FactOf(t) : t \in Listable}

Stages ==
  /\ labels \in [Tag -> TK!TagRow \cup {None}]
  /\ edits \in Nat /\ begun \in Nat /\ begun <= edits
  /\ stage \in {"free", "admin", "listing", "search", "count", "done"}
  /\ named \in Account \cup {None}
  /\ proven = "yes" => named \in Account /\ Role[named] = "admin"
  /\ stage \in {"admin", "listing"} => reader = named /\ named \in Account
  /\ stage \in {"free", "admin", "search"} => proven # "yes"
  /\ stage \in {"free", "admin", "listing", "search"} => \A t \in Tag : counted[t] = None
  /\ counted \in [Tag -> Nat \cup {Unknown, None}]

Knows ==
  stage = "count" /\ begun = edits =>
    /\ seen = Facts
    /\ \A t \in Tag : counted[t] \notin {Unknown, None} => labels[t] # None /\ counted[t] = labels[t].items

DiagnosisInv == Stages /\ Knows /\ TK!CheckTellsTheTruth

LEMMA ListedIsShown ==
  ASSUME TK!TagCheckAssumption, Stages, NEW a, TK!AdminChecked => Role[a] = "admin"
  PROVE  TK!Listed(TK!Sees(a)) = Facts
<1>1. {u \in TK!Sees(a) : TK!AdminChecked \/ labels[u].visible} = Listable
  BY DEF TK!Sees, Listable
<1> QED BY <1>1 DEF TK!Listed, Facts, FactOf

LEMMA SeenTags ==
  ASSUME Stages, seen = Facts
  PROVE  /\ TK!TagsOf(TK!VisibleExact) = TK!Protected
         /\ TK!TagsOf(TK!Gaps) = TK!Mistaken \cap Listable
         /\ TK!TagsOf(TK!VisibleExact) \cup TK!TagsOf(TK!Gaps) \subseteq TK!Wanted
         /\ \A d \in TK!VisibleExact : d.tag \in Tag /\ d.assignable = labels[d.tag].assignable
<1>1. \A d \in seen : /\ d.tag \in Listable /\ d = FactOf(d.tag)
  BY DEF Facts, FactOf
<1>2. \A t \in Listable : FactOf(t) \in seen /\ FactOf(t).tag = t
  BY DEF Facts, FactOf
<1>3. \A d \in seen : /\ d.kind = labels[d.tag].kind /\ (d.visible <=> labels[d.tag].visible)
                      /\ d.assignable = labels[d.tag].assignable
  BY <1>1 DEF FactOf
<1>4. \A t \in Listable : /\ t \in Tag /\ labels[t] # None
                       /\ FactOf(t).kind = labels[t].kind /\ (FactOf(t).visible <=> labels[t].visible)
  BY DEF FactOf, Listable
<1> HIDE DEF FactOf, Listable
<1>5. TK!TagsOf(TK!VisibleExact) = {t \in Listable : labels[t].kind = "exact" /\ labels[t].visible}
  BY <1>1, <1>2, <1>3, <1>4 DEF TK!TagsOf, TK!VisibleExact, TK!Exact, TK!OfKind
<1>6. TK!TagsOf(TK!Gaps) = {t \in Listable : labels[t].kind = "variant" \/ (labels[t].kind = "exact" /\ ~labels[t].visible)}
  BY <1>1, <1>2, <1>3, <1>4 DEF TK!TagsOf, TK!Gaps, TK!Variants, TK!InvisibleExact, TK!Exact, TK!OfKind
<1>7. {t \in Listable : labels[t].kind = "exact" /\ labels[t].visible} = TK!Protected
  BY DEF TK!Protected, Listable
<1>8. {t \in Listable : labels[t].kind = "variant" \/ (labels[t].kind = "exact" /\ ~labels[t].visible)}
      = TK!Mistaken \cap Listable
  BY DEF TK!Mistaken, Listable
<1>9. TK!TagsOf(TK!VisibleExact) \cup TK!TagsOf(TK!Gaps) \subseteq TK!Wanted
  BY DEF TK!TagsOf, TK!Gaps, TK!Variants, TK!VisibleExact, TK!InvisibleExact, TK!Exact, TK!OfKind, TK!Wanted
<1>10. \A d \in TK!VisibleExact : d \in seen
  BY DEF TK!VisibleExact, TK!Exact, TK!OfKind
<1> QED BY <1>1, <1>3, <1>4, <1>5, <1>6, <1>7, <1>8, <1>9, <1>10

LEMMA KnownTotals ==
  ASSUME TK!TagCheckAssumption, Stages, Knows, stage = "count", begun = edits,
         \A t \in TK!Wanted : counted[t] # None, NEW facts, TK!TagsOf(facts) \subseteq TK!Wanted,
         TK!Wanted \subseteq Tag, TK!Total(facts) # Unknown
  PROVE  TK!Total(facts) = TK!ItemsOf(TK!TagsOf(facts))
<1>1. \A t \in TK!TagsOf(facts) : counted[t] # Unknown
  BY DEF TK!Total
<1>2. \A t \in TK!TagsOf(facts) : counted[t] = labels[t].items
  BY <1>1 DEF Knows
<1> DEFINE S == TK!TagsOf(facts)
<1>3. TK!Total(facts) = TK!MapThenSumSet(LAMBDA t : counted[t], S)
  BY <1>1 DEF TK!Total
<1> HIDE DEF S
<1>4. TK!MapThenSumSet(LAMBDA t : counted[t], S) = TK!ItemsOf(S)
  BY <1>2, SumsAgree DEF S
<1> QED BY <1>3, <1>4 DEF S

LEMMA AuditTellsTheTruth ==
  ASSUME TK!TagCheckAssumption, DiagnosisInv, TK!Audit
  PROVE  TK!CheckTellsTheTruth'
<1> SUFFICES ASSUME begun = edits PROVE TK!CheckTellsTheTruth'
  BY DEF TK!Audit, TK!outside, TK!CheckTellsTheTruth
<1>1. /\ seen = Facts /\ Stages /\ Knows /\ stage = "count"
      /\ \A t \in TK!Wanted : counted[t] # None
  BY DEF DiagnosisInv, Knows, TK!Audit
<1>2. TK!Wanted \subseteq Tag
  BY <1>1 DEF TK!Wanted, Facts, FactOf, Listable
<1>3. /\ TK!TagsOf(TK!VisibleExact) = TK!Protected /\ TK!TagsOf(TK!Gaps) = TK!Mistaken \cap Listable
      /\ TK!TagsOf(TK!VisibleExact) \subseteq TK!Wanted /\ TK!TagsOf(TK!Gaps) \subseteq TK!Wanted
      /\ \A d \in TK!VisibleExact : d.tag \in Tag /\ d.assignable = labels[d.tag].assignable
  BY <1>1, SeenTags
<1>4. TK!AdminChecked => TK!Mistaken \cap Listable = TK!Mistaken
  BY DEF TK!Mistaken, Listable
<1>5. \A t \in TK!Mistaken : t \in Listable \/ (~TK!AdminChecked /\ ~labels[t].visible)
  BY DEF TK!Mistaken, Listable
<1> DEFINE r == IF TK!Exact \cup TK!Variants = {} THEN TK!NothingThere ELSE TK!Judgement
<1>6. /\ r.passed => r.assigned = TK!ItemsOf(TK!Protected)
      /\ r.passed /\ TK!AdminChecked => r.unprotected = TK!ItemsOf(TK!Mistaken)
      /\ r.passed /\ TK!AdminChecked => \A t \in TK!Mistaken : labels[t].kind = "variant"
      /\ \A t \in TK!Mistaken : t \in r.warned \/ (~ TK!AdminChecked /\ ~ labels[t].visible)
      /\ r.mode = "self_service" => \E t \in TK!Protected : labels[t].assignable
  <2>1. CASE TK!Exact \cup TK!Variants = {}
    <3>1. TK!TagsOf(TK!VisibleExact) = {} /\ TK!TagsOf(TK!Gaps) = {}
      BY <2>1 DEF TK!TagsOf, TK!VisibleExact, TK!Gaps, TK!InvisibleExact
    <3>2. TK!Protected = {} /\ (TK!AdminChecked => TK!Mistaken = {})
      BY <1>3, <1>4, <3>1
    <3>3. \A t \in TK!Mistaken : ~TK!AdminChecked /\ ~labels[t].visible
      BY <1>3, <1>5, <3>1
    <3>4. /\ r.passed /\ r.assigned = 0 /\ r.unprotected = 0 /\ r.mode # "self_service"
      BY <2>1 DEF TK!NothingThere
    <3> QED BY <3>2, <3>3, <3>4, NoItems
  <2>2. CASE TK!Exact \cup TK!Variants # {}
    <3>1. /\ r.passed <=> ~TK!Fails
          /\ r.assigned = TK!Total(TK!VisibleExact) /\ r.unprotected = TK!Total(TK!Gaps)
          /\ r.mode = TK!Mode /\ r.warned = TK!TagsOf(TK!Gaps)
      BY <2>2 DEF TK!Judgement
    <3> HIDE DEF r
    <3>2. ~TK!Fails => TK!Total(TK!VisibleExact) # Unknown /\ TK!Total(TK!Gaps) # Unknown
      BY DEF TK!Fails
    <3>3. ~TK!Fails => /\ TK!Total(TK!VisibleExact) = TK!ItemsOf(TK!TagsOf(TK!VisibleExact))
                    /\ TK!Total(TK!Gaps) = TK!ItemsOf(TK!TagsOf(TK!Gaps))
      BY <1>1, <1>2, <1>3, <3>2, KnownTotals
    <3>4. ~TK!Fails /\ TK!AdminChecked => \A t \in TK!Mistaken : labels[t].kind = "variant"
      <4> SUFFICES ASSUME ~TK!Fails, TK!AdminChecked, NEW t \in TK!Mistaken, labels[t].kind # "variant" PROVE FALSE
        OBVIOUS
      <4>1. t \in Listable /\ labels[t].kind = "exact" /\ ~labels[t].visible
        BY DEF TK!Mistaken, Listable
      <4>2. FactOf(t) \in TK!InvisibleExact
        BY <1>1, <4>1 DEF TK!InvisibleExact, TK!Exact, TK!OfKind, Facts, FactOf
      <4> QED BY <4>2 DEF TK!Fails
    <3>5. TK!Mode = "self_service" => \E t \in TK!Protected : labels[t].assignable
      <4>1. TK!Mode = "self_service" => \E d \in TK!VisibleExact : d.assignable
        BY DEF TK!Mode
      <4>2. \A d \in TK!VisibleExact : d.tag \in TK!Protected
        BY <1>3 DEF TK!TagsOf
      <4> QED BY <1>3, <4>1, <4>2
    <3> QED BY <1>3, <1>4, <1>5, <3>1, <3>3, <3>4, <3>5
  <2> QED BY <2>1, <2>2
<1>7. report' = r /\ labels' = labels /\ proven' = proven
  BY DEF TK!Audit, TK!outside
<1> HIDE DEF r
<1>8. TK!Mistaken' = TK!Mistaken /\ TK!Protected' = TK!Protected /\ TK!Unprotected' \subseteq TK!Mistaken
      /\ (TK!AdminChecked' <=> TK!AdminChecked)
  BY <1>7 DEF TK!Mistaken, TK!Protected, TK!Unprotected, TK!AdminChecked
<1>9. TK!ItemsOf(TK!Mistaken)' = TK!ItemsOf(TK!Mistaken) /\ TK!ItemsOf(TK!Protected)' = TK!ItemsOf(TK!Protected)
  BY <1>7, <1>8 DEF TK!ItemsOf, TK!MapThenSumSet, TK!MapThenFoldSet
<1> QED BY <1>6, <1>7, <1>8, <1>9 DEF TK!CheckTellsTheTruth

(* The places of a check, and what it knows at each. *)
LEMMA ChecksBegin == TK!TagCheckAssumption /\ TK!Init => DiagnosisInv
  BY DEF TK!TagCheckAssumption, TK!Init, DiagnosisInv, Stages, Knows, TK!CheckTellsTheTruth

LEMMA PeopleChangeTags ==
  ASSUME TK!TagCheckAssumption, DiagnosisInv, NEW t \in Tag, NEW row \in TK!TagRow \cup {None}, TK!Change(t, row)
  PROVE  DiagnosisInv'
<1>1. Stages /\ edits' # begun' /\ edits' \in Nat
  BY DEF DiagnosisInv, Stages, TK!Change
<1>2. labels' \in [Tag -> TK!TagRow \cup {None}]
  BY <1>1 DEF Stages, TK!Change
<1>3. Stages'
  BY <1>1, <1>2 DEF Stages, TK!Change
<1> QED BY <1>1, <1>3 DEF DiagnosisInv, Knows, TK!CheckTellsTheTruth

LEMMA ListingIsRead ==
  ASSUME TK!TagCheckAssumption, DiagnosisInv, stage \in {"listing", "search"}, NEW a \in Account,
         TK!AdminChecked => Role[a] = "admin", TK!Counting(a),
         UNCHANGED <<TK!outside, named, proven, begun, counted>>
  PROVE  DiagnosisInv'
<1>1. Stages /\ \A t \in Tag : counted[t] = None
  BY DEF DiagnosisInv, Stages
<1>2. seen' = Facts
  BY <1>1, ListedIsShown DEF TK!Counting
<1>3. Facts' = Facts
  BY DEF Facts, FactOf, Listable, TK!AdminChecked, TK!outside
<1>4. Stages'
  BY <1>1 DEF Stages, TK!Counting, TK!outside
<1>5. Knows'
  BY <1>1, <1>2, <1>3 DEF Knows, TK!outside
<1> QED BY <1>4, <1>5 DEF DiagnosisInv, TK!CheckTellsTheTruth, TK!Counting

LEMMA NothingIsRead ==
  ASSUME DiagnosisInv, stage \in {"listing", "search"}, TK!Unread, UNCHANGED <<TK!outside, named, proven, begun, counted>>
  PROVE  DiagnosisInv'
<1>1. stage' = "done" /\ ~report'.checked
  BY DEF TK!Unread, TK!Stopped
<1>2. Stages'
  BY <1>1 DEF DiagnosisInv, Stages, TK!outside, TK!Unread
<1> QED BY <1>1, <1>2 DEF DiagnosisInv, Knows, TK!CheckTellsTheTruth

LEMMA ChecksGoOn ==
  ASSUME TK!TagCheckAssumption, DiagnosisInv, [TK!Next]_(TK!vars)
  PROVE  DiagnosisInv'
<1>1. CASE \E t \in Tag : \E row \in TK!TagRow \cup {None} : TK!Change(t, row)
  BY <1>1, PeopleChangeTags
<1>2. CASE \E a \in Account \cup {None} : TK!Run(a)
  <2>1. PICK a \in Account \cup {None} : TK!Run(a)
    BY <1>2
  <2>2. Stages' /\ stage' \in {"search", "admin"}
    BY <2>1 DEF TK!Run, DiagnosisInv, Stages, TK!outside
  <2> QED BY <2>2 DEF DiagnosisInv, Knows, TK!CheckTellsTheTruth
<1>3. CASE TK!ConfirmAdmin
  <2>1. named \in Account \cup {None} /\ stage' \in {"listing", "done"}
        /\ (stage' = "done" => ~report'.checked)
    BY <1>3 DEF TK!ConfirmAdmin, DiagnosisInv, Stages, TK!Stopped
  <2>2. proven' = "yes" => named' \in Account /\ Role[named'] = "admin"
    <3> QED BY <1>3 DEF TK!ConfirmAdmin, TK!IsMember, DiagnosisInv, Stages, TK!TagCheckAssumption
  <2>3. Stages'
    BY <1>3, <2>1, <2>2 DEF TK!ConfirmAdmin, DiagnosisInv, Stages, TK!outside
  <2> QED BY <2>1, <2>3 DEF DiagnosisInv, Knows, TK!CheckTellsTheTruth
<1>4. CASE TK!ReadListing
  <2>1. CASE reader \in Readable /\ TK!Counting(reader)
    <3>1. reader \in Account /\ (TK!AdminChecked => Role[reader] = "admin")
      BY <1>4, <2>1 DEF TK!ReadListing, DiagnosisInv, Stages, TK!AdminChecked, TK!TagCheckAssumption
    <3> QED BY <1>4, <2>1, <3>1, ListingIsRead DEF TK!ReadListing
  <2>2. CASE TK!Unread
    BY <1>4, <2>2, NothingIsRead DEF TK!ReadListing
  <2> QED BY <1>4, <2>1, <2>2 DEF TK!ReadListing
<1>5. CASE TK!FirstReader
  <2>1. CASE \E a \in Readable : TK!Counting(a)
    <3>1. PICK a \in Readable : TK!Counting(a)
      BY <2>1
    <3>2. a \in Account /\ (TK!AdminChecked => Role[a] = "admin")
      BY <1>5 DEF TK!FirstReader, DiagnosisInv, Stages, TK!AdminChecked, TK!TagCheckAssumption
    <3> QED BY <1>5, <3>1, <3>2, ListingIsRead DEF TK!FirstReader
  <2>2. CASE TK!Unread
    BY <1>5, <2>2, NothingIsRead DEF TK!FirstReader
  <2> QED BY <1>5, <2>1, <2>2 DEF TK!FirstReader
<1>6. CASE \E t \in Tag : TK!CountTagObjects(t)
  <2>1. PICK t \in Tag : TK!CountTagObjects(t)
    BY <1>6
  <2>2. PICK n \in {Unknown} \cup (IF labels[t] = None THEN {} ELSE {labels[t].items}) :
          counted' = [counted EXCEPT ![t] = n]
    BY <2>1 DEF TK!CountTagObjects
  <2>3. Stages /\ Knows /\ stage = "count" /\ stage' = "count"
    BY <2>1 DEF DiagnosisInv, TK!CountTagObjects
  <2>4. n = Unknown \/ (labels[t] # None /\ n = labels[t].items /\ n \in Nat)
    BY <2>2, <2>3 DEF Stages, TK!TagRow, TK!TagCheckAssumption
  <2>5. counted' \in [Tag -> Nat \cup {Unknown, None}]
    BY <2>2, <2>3, <2>4 DEF Stages
  <2>6. Stages'
    BY <2>1, <2>3, <2>5 DEF Stages, TK!CountTagObjects, TK!outside
  <2>7. Facts' = Facts
    BY <2>1 DEF Facts, FactOf, Listable, TK!AdminChecked, TK!CountTagObjects, TK!outside
  <2>8. Knows'
    BY <2>1, <2>2, <2>3, <2>4, <2>7 DEF Knows, Stages, TK!CountTagObjects, TK!outside
  <2> QED BY <2>3, <2>6, <2>8 DEF DiagnosisInv, TK!CheckTellsTheTruth
<1>7. CASE TK!Audit
  <2>1. Stages' /\ stage' = "done"
    BY <1>7 DEF DiagnosisInv, Stages, TK!Audit, TK!outside
  <2> QED BY <1>7, <2>1, AuditTellsTheTruth DEF DiagnosisInv, Knows
<1>8. CASE TK!Again
  <2>1. Stages' /\ stage' = "free"
    BY <1>8 DEF DiagnosisInv, Stages, TK!Again, TK!outside, TK!TagCheckAssumption
  <2> QED BY <2>1 DEF DiagnosisInv, Knows, TK!CheckTellsTheTruth
<1>9. CASE UNCHANGED TK!vars
  <2>1. Stages' /\ Knows'
    BY <1>9 DEF DiagnosisInv, Stages, Knows, Facts, FactOf, Listable, TK!AdminChecked, TK!vars, TK!outside
  <2>2. TK!CheckTellsTheTruth'
    BY <1>9 DEF DiagnosisInv, TK!CheckTellsTheTruth, TK!Unprotected, TK!Protected, TK!Mistaken,
                TK!AdminChecked,
       TK!ItemsOf, TK!MapThenSumSet, TK!MapThenFoldSet, TK!vars, TK!outside
  <2> QED BY <2>1, <2>2 DEF DiagnosisInv
<1> QED BY <1>1, <1>2, <1>3, <1>4, <1>5, <1>6, <1>7, <1>8, <1>9 DEF TK!Next

(* A diagnosis during which nobody changed a tag tells the truth, for any number of *)
(* tags, accounts and items: what looks excluded and is not is warned of, and a     *)
(* green verdict counts what it says (exclusion_audit and the occ command).         *)
THEOREM DiagnosesTellTheTruth ==
  ASSUME TK!TagCheckAssumption PROVE TK!Spec => []TK!CheckTellsTheTruth
<1>1. TK!Init => DiagnosisInv
  BY ChecksBegin
<1>2. DiagnosisInv /\ [TK!Next]_(TK!vars) => DiagnosisInv'
  BY ChecksGoOn
<1>3. DiagnosisInv => TK!CheckTellsTheTruth
  BY DEF DiagnosisInv
<1> QED BY <1>1, <1>2, <1>3, PTL DEF TK!Spec

=============================================================================
