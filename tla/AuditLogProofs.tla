----------------------------- MODULE AuditLogProofs -----------------------------
(***************************************************************************)
(* The chains of the audit log stay linked, its sweeps take what they      *)
(* should, its markers and its counters say how much is gone, and its      *)
(* register stays small: for every number of accounts, tasks and rows and  *)
(* every size of a batch, however sweeps, drops, appends, failures and     *)
(* crashes interleave.                                                     *)
(***************************************************************************)
EXTENDS AuditLog, TLAPS, FiniteSetTheorems, NaturalsInduction, WellFoundedInduction

(* The rows of a table whose numbers reach up to n                          *)
RowsOK(S, n) ==
  /\ IsFiniteSet(S)
  /\ \A e \in S : /\ {"seq", "chain", "kind", "at", "prev", "whole", "gap", "end"} \subseteq DOMAIN e
                  /\ e.seq \in 1..n /\ e.chain \in Chain /\ e.at \in Int
                  /\ e.kind = "tombstone" => e.gap \in Chain \ {Instance}
  /\ \A e, d \in S : e.seq = d.seq => e = d

Before(S, e) == {d \in S : d.chain = e.chain /\ d.seq < e.seq}
MarksOf(S, c) == {m \in S : m.chain = Instance /\ m.kind = "tombstone" /\ m.gap = c}

(* A row attaches to the one before it; the head of a chain to nothing, or  *)
(* to the end that the newest marker of its chain names.                    *)
Fits(S, e) ==
  IF Before(S, e) # {} THEN e.prev = Newest(Before(S, e)).seq
  ELSE \/ e.prev = Genesis
       \/ MarksOf(S, e.chain) # {} /\ e.prev = Newest(MarksOf(S, e.chain)).end

AllFit(S) == \A e \in S : Fits(S, e)

-----------------------------------------------------------------------------
(* The newest of some rows                                                  *)
LEMMA LargestNumber ==
  ASSUME NEW n \in Nat, NEW T \in SUBSET (0..n), T # {}
  PROVE  \E x \in T : \A y \in T : y <= x
<1> DEFINE R == {n - x : x \in T}
<1>1. R \subseteq Nat /\ R # {}
  <2>1. \A x \in T : n - x \in Nat
    OBVIOUS
  <2> QED BY <2>1
<1>2. PICK m \in R : \A k \in R : ~(<<k, m>> \in OpToRel(<, Nat))
  BY <1>1, NatLessThanWellFounded, WFMin
<1>3. \A k \in R : ~(k < m)
  BY <1>1, <1>2 DEF OpToRel
<1> QED BY SMTT(40), <1>3

LEMMA NewestIs ==
  ASSUME NEW n \in Nat, NEW S, RowsOK(S, n), NEW T \in SUBSET S, T # {}
  PROVE  /\ Newest(T) \in T /\ \A d \in T : d.seq <= Newest(T).seq
         /\ \A e \in T : (\A d \in T : d.seq <= e.seq) => e = Newest(T)
<1>1. {e.seq : e \in T} \in SUBSET (0..n) /\ {e.seq : e \in T} # {}
  BY DEF RowsOK
<1>2. PICK x \in {e.seq : e \in T} : \A y \in {e.seq : e \in T} : y <= x
  BY <1>1, LargestNumber
<1>3. \E e \in T : \A d \in T : d.seq <= e.seq
  BY <1>2
<1>4. Newest(T) \in T /\ \A d \in T : d.seq <= Newest(T).seq
  BY <1>3 DEF Newest
<1>5. ASSUME NEW e \in T, \A d \in T : d.seq <= e.seq PROVE e = Newest(T)
  BY <1>4, <1>5 DEF RowsOK
<1> QED BY <1>4, <1>5

-----------------------------------------------------------------------------
(* The numbers of the markers of one transaction follow each other.         *)
Place(D, c) == Cardinality({d \in D : Rank[d] <= Rank[c]})

LEMMA ChainsAreFinite == IsFiniteSet(Chain)
<1>1. IsFiniteSet(User) /\ IsFiniteSet({Instance}) /\ IsFiniteSet({Exchange})
  BY AuditAssumption, FS_Singleton DEF AuditAssumption
<1>2. IsFiniteSet({Instance} \cup {Exchange})
  BY <1>1, FS_Union
<1>3. IsFiniteSet(User \cup ({Instance} \cup {Exchange}))
  BY <1>1, <1>2, FS_Union
<1>4. Chain = User \cup ({Instance} \cup {Exchange})
  BY DEF Chain
<1> QED BY <1>3, <1>4

LEMMA PlacesFollow ==
  ASSUME NEW D \in SUBSET Chain
  PROVE  /\ IsFiniteSet(D)
         /\ \A c \in D : Place(D, c) \in Nat \ {0}
         /\ \A c, d \in D : Place(D, c) = Place(D, d) => c = d
         /\ \A c \in D : Place(D, c) # 1 => \E d \in D : Place(D, d) = Place(D, c) - 1
<1> DEFINE Up(c) == {d \in D : Rank[d] <= Rank[c]}
<1>0. /\ \A c \in Chain : Rank[c] \in Nat
      /\ \A c, d \in Chain : Rank[c] = Rank[d] => c = d
  BY AuditAssumption DEF AuditAssumption
<1>1. IsFiniteSet(D) /\ \A c \in D : IsFiniteSet(Up(c)) /\ c \in Up(c)
  BY <1>0, ChainsAreFinite, FS_Subset
<1>2. \A c \in D : Place(D, c) = Cardinality(Up(c)) /\ Place(D, c) \in Nat \ {0}
  BY <1>1, FS_CardinalityType, FS_EmptySet DEF Place
<1>3. ASSUME NEW c \in D, NEW d \in D, Place(D, c) = Place(D, d), Rank[c] <= Rank[d] PROVE c = d
  <2>1. Up(c) \in SUBSET Up(d)
    BY <1>0, <1>3
  <2>2. Up(c) = Up(d)
    BY <1>1, <1>2, <1>3, <2>1, FS_Subset
  <2>3. d \in Up(c)
    BY <1>1, <2>2
  <2> QED BY <1>0, <1>3, <2>3
<1>4. ASSUME NEW c \in D, Place(D, c) # 1 PROVE \E d \in D : Place(D, d) = Place(D, c) - 1
  <2> DEFINE L == Up(c) \ {c}
  <2>1. IsFiniteSet(L) /\ Cardinality(L) = Place(D, c) - 1
    BY <1>1, <1>2, FS_RemoveElement
  <2>2. L # {}
    <3>1. Cardinality(L) # 0
      BY <1>2, <1>4, <2>1
    <3> HIDE DEF L
    <3> QED BY <3>1, FS_EmptySet
  <2>3. {Rank[d] : d \in L} \in SUBSET (0..Rank[c]) /\ {Rank[d] : d \in L} # {} /\ Rank[c] \in Nat
    BY <1>0, <2>2
  <2>4. PICK x \in {Rank[d] : d \in L} : \A y \in {Rank[d] : d \in L} : y <= x
    BY <2>3, LargestNumber
  <2>5. PICK d \in L : Rank[d] = x /\ \A b \in L : Rank[b] <= Rank[d]
    BY <2>4
  <2>6. Up(d) = L
    BY <1>0, <2>5
  <2> QED BY <1>2, <2>1, <2>5, <2>6
<1>5. \A c, d \in D : Place(D, c) = Place(D, d) => c = d
  BY <1>0, <1>3
<1> QED BY <1>1, <1>2, <1>4, <1>5

-----------------------------------------------------------------------------
LEMMA NewRowOK ==
  ASSUME NEW n \in Nat, NEW e, {"seq", "chain", "kind", "at", "prev", "whole", "gap", "end"} \subseteq DOMAIN e,
         e.seq = n + 1, e.chain \in Chain, e.at \in Int,
         e.kind = "tombstone" => e.gap \in Chain \ {Instance}
  PROVE  RowsOK({e}, n + 1)
<1>1. IsFiniteSet({e})
  BY FS_Singleton
<1>2. e.seq \in 1..(n + 1)
  OBVIOUS
<1> QED BY <1>1, <1>2 DEF RowsOK

(* A row that is appended attaches to the last of its chain, and a row in   *)
(* front of a number is in front of it whatever comes later.                *)
LEMMA AppendFits ==
  ASSUME NEW n \in Nat, NEW S, RowsOK(S, n), NEW e, RowsOK({e}, n + 1), e.seq = n + 1,
         e.kind # "tombstone", e.prev = LastHash(S, e.chain)
  PROVE  RowsOK(S \cup {e}, n + 1) /\ (AllFit(S) => AllFit(S \cup {e}))
<1> DEFINE A == S \cup {e}
<1>1. RowsOK(A, n + 1)
  <2>1. IsFiniteSet(A)
    BY FS_AddElement DEF RowsOK
  <2> QED BY <2>1 DEF RowsOK
<1>2. \A d \in S : Before(A, d) = Before(S, d) /\ MarksOf(A, d.chain) = MarksOf(S, d.chain)
  BY DEF Before, MarksOf, RowsOK
<1>3. AllFit(S) => \A d \in S : Fits(A, d)
  BY <1>2 DEF AllFit, Fits
<1>4. Before(A, e) = {d \in S : d.chain = e.chain}
  BY DEF Before, RowsOK
<1>5. Fits(A, e)
  BY <1>4 DEF Fits, LastHash
<1> QED BY <1>1, <1>3, <1>5 DEF AllFit

(* A chain that is dropped leaves a marker and all others as they were.     *)
LEMMA DropFits ==
  ASSUME NEW n \in Nat, NEW S, RowsOK(S, n), NEW c \in Chain \ {Instance},
         NEW e, RowsOK({e}, n + 1), e.seq = n + 1, e.chain = Instance, e.kind = "tombstone",
         e.gap = c, e.prev = LastHash(S, Instance)
  PROVE  LET A == (S \ {d \in S : d.chain = c}) \cup {e} IN RowsOK(A, n + 1) /\ (AllFit(S) => AllFit(A))
<1> DEFINE K == S \ {d \in S : d.chain = c}
           A == K \cup {e}
<1>1. RowsOK(A, n + 1)
  <2>1. IsFiniteSet(A)
    BY FS_AddElement, FS_Subset DEF RowsOK
  <2> QED BY <2>1 DEF RowsOK
<1>2. \A d \in K : Before(A, d) = Before(S, d) /\ MarksOf(A, d.chain) = MarksOf(S, d.chain)
  BY DEF Before, MarksOf, RowsOK
<1>3. AllFit(S) => \A d \in K : Fits(A, d)
  BY <1>2 DEF AllFit, Fits
<1>4. Before(A, e) = {d \in S : d.chain = Instance}
  BY DEF Before, RowsOK
<1>5. Fits(A, e)
  BY <1>4 DEF Fits, LastHash
<1> QED BY <1>1, <1>3, <1>5 DEF AllFit

-----------------------------------------------------------------------------
(* A batch.  The rows lost are the first of their chains.                   *)
FirstOfTheirChains(lost) ==
  /\ lost \subseteq Sweepable /\ lost # {}
  /\ \A d \in lost, e \in entries : e.chain = d.chain /\ e.seq <= d.seq => e \in lost

(* A row that a step writes: whole, with a new number, attached to nothing, *)
(* to a row of the table or to another new one; a marker names the end of   *)
(* what is lost, or of what an absorbed marker named.                       *)
Written(e, lost) ==
  /\ e.whole /\ e.seq > seq
  /\ e.prev = Genesis \/ e.prev > seq \/ \E d \in entries : d.seq = e.prev
  /\ e.kind = "tombstone" => \/ \E d \in lost : e.end = d.seq
                             \/ \E m \in entries : m.kind = "tombstone" /\ e.end = m.end

Named(batch, run) == {e.chain : e \in batch} \cup {m.gap : m \in run}

NewMark(kept, batch, run, c) ==
  LET p == Place(Named(batch, run), c) IN
  Marker(seq + p, IF p = 1 THEN LastHash(kept, Instance) ELSE seq + p - 1,
         c, CountOf(c, batch, run), EndOf(c, batch, run))

LEMMA MarkersForIs ==
  ASSUME NEW rest, NEW batch, NEW run
  PROVE  MarkersFor(rest, batch, run) =
           (rest \ run) \cup {NewMark(rest \ run, batch, run, c) : c \in Named(batch, run)}
BY DEF MarkersFor, NewMark, Named, Place

LEMMA BatchFits ==
  ASSUME seq \in Nat, RowsOK(entries, seq), NEW lost, FirstOfTheirChains(lost)
  PROVE  LET A == WithMarkers(entries \ lost, lost) IN
         /\ Newest(A).seq \in Nat /\ Newest(A).seq >= seq
         /\ RowsOK(A, Newest(A).seq)
         /\ {e \in A : e.chain # Instance} = Sweepable \ lost
         /\ AllFit(entries) => AllFit(A)
         /\ A \cap lost = {} /\ \A e \in A : e \in entries \/ Written(e, lost)
<1> DEFINE R == entries \ lost
           run == TrailingRun(R)
           K == R \ run
           D == Named(lost, run)
           Mark(c) == NewMark(K, lost, run, c)
           M == {Mark(c) : c \in D}
           A == WithMarkers(R, lost)
<1>1. A = K \cup M
  BY MarkersForIs DEF WithMarkers
<1>2. /\ \A e \in run : e \in entries /\ e.chain = Instance /\ e.kind = "tombstone" /\ e \notin lost
      /\ \A e \in run, d \in K : d.chain = Instance => d.seq < e.seq
  BY DEF TrailingRun, FirstOfTheirChains, Sweepable, RowsOK
<1>3. D \in SUBSET Chain /\ D # {} /\ Instance \notin D
  <2>1. \A e \in lost : e \in entries /\ e.chain # Instance /\ e.chain \in Chain
    BY DEF FirstOfTheirChains, Sweepable, RowsOK
  <2>2. \A m \in run : m.gap \in Chain \ {Instance}
    BY <1>2 DEF RowsOK
  <2>3. lost # {}
    BY DEF FirstOfTheirChains
  <2> HIDE DEF run
  <2> QED BY <2>1, <2>2, <2>3 DEF Named
<1>4. /\ IsFiniteSet(D)
      /\ \A c \in D : Place(D, c) \in Nat \ {0}
      /\ \A c, d \in D : Place(D, c) = Place(D, d) => c = d
      /\ \A c \in D : Place(D, c) # 1 => \E d \in D : Place(D, d) = Place(D, c) - 1
  BY <1>3, PlacesFollow
<1>5. \A c \in D : /\ {"seq", "chain", "kind", "at", "prev", "whole", "gap", "end"} \subseteq DOMAIN Mark(c)
                   /\ Mark(c).seq = seq + Place(D, c) /\ Mark(c).chain = Instance
                   /\ Mark(c).kind = "tombstone" /\ Mark(c).gap = c /\ Mark(c).at = 0
                   /\ Mark(c).whole
                   /\ Mark(c).end = EndOf(c, lost, run)
                   /\ Mark(c).prev = IF Place(D, c) = 1 THEN LastHash(K, Instance)
                                     ELSE seq + Place(D, c) - 1
  BY DEF NewMark, Marker
<1>a. \A e \in A : e \in K \/ \E c \in D : e = Mark(c)
  BY <1>1
<1>b. /\ \A e \in K : e \in A /\ e \in entries /\ e \notin lost /\ e \notin run
      /\ \A c \in D : Mark(c) \in A
      /\ \A e \in entries : e \in K \/ e \in lost \/ e \in run
  BY <1>1
<1> HIDE DEF D, Mark, A, K, run
<1>6. IsFiniteSet(M)
  <2> DEFINE f == [c \in D |-> Mark(c)]
  <2>1. f \in Surjection(D, M)
    BY DEF Surjection
  <2> QED BY <1>4, <2>1, FS_Surjection
<1>7. IsFiniteSet(A)
  <2>1. IsFiniteSet(K)
    <3>1. K \in SUBSET entries
      BY <1>b
    <3> QED BY <3>1, FS_Subset DEF RowsOK
  <2> QED BY <1>1, <1>6, <2>1, FS_Union
<1>8. \A e, d \in A : e.seq = d.seq => e = d
  BY <1>a, <1>b, <1>4, <1>5 DEF RowsOK
<1>9. PICK n \in Nat : n >= seq /\ \A e \in A : e.seq <= n
  <2>1. {Place(D, c) : c \in D} \subseteq Nat
    BY <1>4
  <2>2. \A c \in D : Place(D, c) <= Cardinality(D) /\ Cardinality(D) \in Nat
    <3>1. \A c \in D : {d \in D : Rank[d] <= Rank[c]} \in SUBSET D
      OBVIOUS
    <3> QED BY <1>4, <3>1, FS_Subset, FS_CardinalityType DEF Place
  <2>3. \A e \in A : e.seq <= seq + Cardinality(D)
    <3>1. \A e \in entries : e.seq \in Nat /\ e.seq <= seq
      BY DEF RowsOK
    <3>2. ASSUME NEW e \in A PROVE e.seq <= seq + Cardinality(D)
      <4>1. CASE e \in K
        BY <1>b, <1>3, <2>2, <3>1, <4>1
      <4>2. ASSUME NEW c \in D, e = Mark(c) PROVE e.seq <= seq + Cardinality(D)
        BY <1>4, <1>5, <2>2, <4>2
      <4> QED BY <1>a, <4>1, <4>2
    <3> QED BY <3>2
  <2> QED BY <1>3, <2>2, <2>3
<1>10. RowsOK(A, n)
  <2>1. Instance \in Chain
    BY DEF Chain
  <2> QED BY <1>a, <1>b, <1>3, <1>4, <1>5, <1>7, <1>8, <1>9, <2>1 DEF RowsOK
<1>11. /\ Newest(A) \in A /\ \A e \in A : e.seq <= Newest(A).seq
  <2>1. A # {}
    BY <1>b, <1>3
  <2> QED BY <1>9, <1>10, <2>1, NewestIs
<1>12. Newest(A).seq \in Nat /\ Newest(A).seq >= seq
  <2>1. PICK c \in D : TRUE
    BY <1>3
  <2>2. Mark(c) \in A
    BY <1>b
  <2>3. Mark(c).seq > seq
    BY <1>4, <1>5
  <2> QED BY <1>10, <1>11, <2>2, <2>3 DEF RowsOK
<1>13. RowsOK(A, Newest(A).seq)
  BY <1>9, <1>10, <1>11, <1>12 DEF RowsOK
<1>14. {e \in A : e.chain # Instance} = Sweepable \ lost
  <2>1. \A e \in K : e.chain # Instance => e \in Sweepable \ lost
    BY <1>b DEF Sweepable
  <2>2. \A e \in Sweepable \ lost : e \in A /\ e.chain # Instance
    BY <1>2, <1>b DEF Sweepable
  <2> QED BY <1>a, <1>5, <2>1, <2>2
<1>15. ASSUME AllFit(entries) PROVE AllFit(A)
  <2>1. \A S \in {entries, A} : \A e \in S : Before(S, e) \in SUBSET S /\ MarksOf(S, e.chain) \in SUBSET S
    BY DEF Before, MarksOf
  <2>2. \A T \in SUBSET A : T # {} => Newest(T) \in T /\ (\A d \in T : d.seq <= Newest(T).seq)
                                  /\ \A e \in T : (\A d \in T : d.seq <= e.seq) => e = Newest(T)
    BY <1>9, <1>10, NewestIs
  <2>3. \A T \in SUBSET entries : T # {} => Newest(T) \in T /\ (\A d \in T : d.seq <= Newest(T).seq)
                                  /\ \A e \in T : (\A d \in T : d.seq <= e.seq) => e = Newest(T)
    BY NewestIs
  <2>4. \A c \in D : \A e \in K : e.seq < Mark(c).seq
    BY <1>b, <1>4, <1>5 DEF RowsOK
  \* A row of an account or of the refused exchanges
  <2>5. ASSUME NEW e \in K, e.chain # Instance PROVE Fits(A, e)
    <3> DEFINE c == e.chain
               B == Before(entries, e)
               Ends == {m \in run : m.gap = c}
    <3>1. Before(A, e) = B \ lost
      <4>1. \A d \in Before(A, e) : d \in B \ lost
        BY <1>a, <1>b, <1>5, <2>5 DEF Before
      <4>2. \A d \in B \ lost : d \in Before(A, e)
        BY <1>2, <1>b, <2>5 DEF Before
      <4> QED BY <4>1, <4>2
    <3>2. Fits(entries, e) /\ e \in entries /\ e \notin lost /\ B \in SUBSET entries
      BY <1>15, <1>b, <2>1 DEF AllFit
    <3>3. \A x \in lost, y \in entries : x.chain = y.chain /\ y \notin lost => x.seq < y.seq
      BY DEF FirstOfTheirChains, Sweepable, RowsOK
    <3>4. \A x \in lost : x.chain = c => x \in B
      BY <3>2, <3>3 DEF FirstOfTheirChains, Sweepable, Before
    <3>5. c \in D => Mark(c) \in MarksOf(A, c) /\ Mark(c) = Newest(MarksOf(A, c))
      <4> SUFFICES ASSUME c \in D PROVE Mark(c) \in MarksOf(A, c) /\ Mark(c) = Newest(MarksOf(A, c))
        OBVIOUS
      <4>1. Mark(c) \in MarksOf(A, c)
        BY <1>b, <1>5 DEF MarksOf
      <4>2. \A m \in MarksOf(A, c) : m.seq <= Mark(c).seq
        <5>1. ASSUME NEW m \in MarksOf(A, c), m \in K PROVE m.seq <= Mark(c).seq
          <6>1. m.seq \in Int /\ Mark(c).seq \in Int
            BY <1>b, <1>4, <1>5, <5>1 DEF RowsOK
          <6> QED BY <2>4, <5>1, <6>1
        <5>2. ASSUME NEW d \in D, Mark(d) \in MarksOf(A, c) PROVE d = c
          BY <1>5, <5>2 DEF MarksOf
        <5>3. Mark(c).seq \in Int
          BY <1>4, <1>5
        <5> QED BY <1>a, <5>1, <5>2, <5>3 DEF MarksOf
      <4>3. MarksOf(A, c) \in SUBSET A
        BY DEF MarksOf
      <4> QED BY <2>2, <4>1, <4>2, <4>3
    <3> HIDE DEF B, c
    <3>6. CASE B \cap lost = {}
      <4>1. Before(A, e) = B
        BY <3>1, <3>6
      <4>2. CASE B # {}
        BY <3>2, <4>1, <4>2 DEF Fits, B
      <4>3. CASE B = {} /\ e.prev # Genesis
        <5>1. /\ MarksOf(entries, c) # {} /\ MarksOf(entries, c) \in SUBSET entries
              /\ e.prev = Newest(MarksOf(entries, c)).end
          BY <3>2, <4>3 DEF Fits, B, MarksOf, c
        <5>2. CASE c \in D
          <6>1. {x \in lost : x.chain = c} = {}
            BY <3>4, <3>6
          <6>2. Ends # {} /\ Ends \in SUBSET MarksOf(entries, c)
            BY <1>2, <5>2, <6>1 DEF D, Named, MarksOf
          <6>3. \A m \in MarksOf(entries, c) : m \in Ends \/ m \in K
            BY <1>b DEF MarksOf, FirstOfTheirChains, Sweepable
          <6>4. Newest(Ends) \in Ends /\ \A m \in Ends : m.seq <= Newest(Ends).seq
            BY <2>3, <5>1, <6>2
          <6>5. \A m \in MarksOf(entries, c) : m.seq <= Newest(Ends).seq
            <7>1. ASSUME NEW m \in MarksOf(entries, c), m \in K PROVE m.seq <= Newest(Ends).seq
              <8>1. m.chain = Instance /\ m \in entries /\ Newest(Ends) \in entries /\ Newest(Ends) \in run
                BY <5>1, <6>2, <6>4, <7>1 DEF MarksOf
              <8> QED BY <1>2, <7>1, <8>1 DEF RowsOK
            <7> QED BY <6>3, <6>4, <7>1
          <6>6. Newest(Ends) = Newest(MarksOf(entries, c))
            BY <2>3, <5>1, <6>2, <6>4, <6>5
          <6>7. Mark(c).end = Newest(Ends).end
            BY <1>5, <5>2, <6>1 DEF EndOf
          <6> QED BY <3>5, <4>1, <4>3, <5>1, <5>2, <6>6, <6>7 DEF Fits, c
        <5>3. CASE c \notin D
          <6>1. \A m \in run : m.gap # c
            BY <5>3 DEF D, Named
          <6>2. \A m \in MarksOf(A, c) : m \in MarksOf(entries, c)
            BY <1>a, <1>b, <1>5, <5>3 DEF MarksOf
          <6>3. \A m \in MarksOf(entries, c) : m \in MarksOf(A, c)
            BY <1>b, <6>1 DEF MarksOf, FirstOfTheirChains, Sweepable
          <6>4. MarksOf(A, c) = MarksOf(entries, c)
            BY <6>2, <6>3
          <6> QED BY <4>1, <4>3, <5>1, <6>4 DEF Fits, c
        <5> QED BY <5>2, <5>3
      <4>4. CASE B = {} /\ e.prev = Genesis
        BY <4>1, <4>4 DEF Fits
      <4> QED BY <4>2, <4>3, <4>4
    <3>7. CASE B \cap lost # {}
      <4>1. e.prev = Newest(B).seq /\ Newest(B) \in B /\ \A d \in B : d.seq <= Newest(B).seq
        BY <2>3, <3>2, <3>7 DEF Fits, B
      <4>2. CASE B \ lost # {}
        <5>1. PICK y \in B \ lost : TRUE
          BY <4>2
        <5>2. Newest(B) \notin lost
          BY <3>2, <3>3, <4>1, <5>1 DEF B, Before, RowsOK
        <5>3. Newest(B) \in Before(A, e) /\ \A d \in Before(A, e) : d.seq <= Newest(B).seq
          BY <3>1, <4>1, <5>2
        <5>4. Newest(B) = Newest(Before(A, e))
          BY <2>2, <5>3 DEF Before
        <5> QED BY <4>1, <5>3, <5>4 DEF Fits
      <4>3. CASE B \ lost = {}
        <5>1. B = {x \in lost : x.chain = c}
          BY <3>4, <4>3 DEF B, Before, c
        <5>2. c \in D
          BY <3>7, <5>1 DEF D, Named
        <5>3. Mark(c).end = Newest(B).seq
          BY <1>5, <3>7, <5>1, <5>2 DEF EndOf
        <5> QED BY <3>1, <3>5, <4>1, <4>3, <5>2, <5>3 DEF Fits, c
      <4> QED BY <4>2, <4>3
    <3> QED BY <3>6, <3>7
  \* A row of the instance that stays
  <2>6. ASSUME NEW e \in K, e.chain = Instance PROVE Fits(A, e)
    <3>1. Before(A, e) = Before(entries, e)
      <4>1. \A d \in Before(A, e) : d \in Before(entries, e)
        BY <1>a, <1>b, <2>4, <1>4, <1>5 DEF Before, RowsOK
      <4>2. \A d \in Before(entries, e) : d \in Before(A, e)
        BY <1>2, <1>b, <2>6 DEF Before, FirstOfTheirChains, Sweepable, RowsOK
      <4> QED BY <4>1, <4>2
    <3>2. MarksOf(entries, Instance) = {}
      BY DEF MarksOf, RowsOK
    <3> QED BY <1>b, <1>15, <2>6, <3>1, <3>2 DEF AllFit, Fits
  \* A new marker
  <2>7. ASSUME NEW c \in D PROVE Fits(A, Mark(c))
    <3> DEFINE B == Before(A, Mark(c))
               Last == {e \in K : e.chain = Instance}
    <3>1. \A e \in Last : e \in B
      BY <1>b, <1>5, <2>4 DEF Before
    <3>2. \A e \in B : e \in Last \/ \E d \in D : e = Mark(d) /\ Place(D, d) < Place(D, c)
      BY <1>a, <1>4, <1>5 DEF Before
    <3>3. CASE Place(D, c) = 1
      <4>1. B = Last
        BY <1>4, <3>1, <3>2, <3>3
      <4>2. Mark(c).prev = IF Last = {} THEN Genesis ELSE Newest(Last).seq
        BY <1>5, <3>3 DEF LastHash
      <4> QED BY <4>1, <4>2 DEF Fits
    <3>4. CASE Place(D, c) # 1
      <4>1. PICK d \in D : Place(D, d) = Place(D, c) - 1
        BY <1>4, <3>4
      <4>2. Mark(d) \in B
        BY <1>b, <1>4, <1>5, <4>1 DEF Before
      <4>3. \A e \in B : e.seq <= Mark(d).seq
        <5>1. ASSUME NEW e \in B, e \in Last PROVE e.seq <= Mark(d).seq
          BY <1>b, <1>4, <1>5, <2>4, <5>1 DEF RowsOK
        <5>2. ASSUME NEW b \in D, Place(D, b) < Place(D, c) PROVE Mark(b).seq <= Mark(d).seq
          BY <1>4, <1>5, <4>1, <5>2
        <5> QED BY <3>2, <5>1, <5>2
      <4>4. Mark(d) = Newest(B)
        BY <2>2, <4>2, <4>3 DEF Before
      <4>5. Mark(c).prev = Mark(d).seq
        BY <1>4, <1>5, <3>4, <4>1
      <4> QED BY <4>2, <4>4, <4>5 DEF Fits
    <3> QED BY <3>3, <3>4
  <2> QED BY <1>a, <2>5, <2>6, <2>7 DEF AllFit
<1>16. ASSUME NEW c \in D PROVE Written(Mark(c), lost)
  <2> DEFINE Rows == {e \in lost : e.chain = c}
             Ends == {m \in run : m.gap = c}
             Last == {e \in K : e.chain = Instance}
  <2>1. \A T \in SUBSET entries : T # {} => Newest(T) \in T
    BY NewestIs
  <2>2. Mark(c).prev = Genesis \/ Mark(c).prev > seq \/ \E d \in entries : d.seq = Mark(c).prev
    <3>1. CASE Place(D, c) = 1
      <4>1. Mark(c).prev = IF Last = {} THEN Genesis ELSE Newest(Last).seq
        BY <1>5, <3>1 DEF LastHash
      <4>2. Last \in SUBSET entries
        BY <1>b
      <4> QED BY <2>1, <4>1, <4>2
    <3>2. CASE Place(D, c) # 1
      BY <1>4, <1>5, <3>2
    <3> QED BY <3>1, <3>2
  <2>3. \/ \E d \in lost : Mark(c).end = d.seq
        \/ \E m \in entries : m.kind = "tombstone" /\ Mark(c).end = m.end
    <3>1. Rows \in SUBSET entries /\ Ends \in SUBSET entries
      BY <1>2 DEF FirstOfTheirChains, Sweepable
    <3>2. CASE Rows # {}
      <4>1. Newest(Rows) \in Rows
        BY <2>1, <3>1, <3>2
      <4>2. Mark(c).end = Newest(Rows).seq
        BY <1>5, <3>2 DEF EndOf
      <4> QED BY <4>1, <4>2
    <3>3. CASE Rows = {}
      <4>1. Ends # {}
        BY <3>3 DEF D, Named
      <4>2. Newest(Ends) \in Ends
        BY <2>1, <3>1, <4>1
      <4>3. Mark(c).end = Newest(Ends).end
        BY <1>5, <3>3 DEF EndOf
      <4> QED BY <1>2, <4>2, <4>3
    <3> QED BY <3>2, <3>3
  <2> QED BY <1>4, <1>5, <2>2, <2>3 DEF Written
<1>17. A \cap lost = {} /\ \A e \in A : e \in entries \/ Written(e, lost)
  <2>1. \A c \in D : Mark(c) \notin lost
    BY <1>5 DEF FirstOfTheirChains, Sweepable
  <2> QED BY <1>a, <1>b, <1>16, <2>1
<1> QED BY <1>12, <1>13, <1>14, <1>15, <1>17 DEF A

-----------------------------------------------------------------------------
(* A batch is all of the rows up to its end, although it was counted off    *)
(* by one statement and removed by another.                                 *)
LEMMA BatchIsLost ==
  ASSUME seq \in Nat, RowsOK(entries, seq), NEW E \in SUBSET Sweepable,
         \A d \in E, e \in entries : e.chain = d.chain /\ e.seq <= d.seq => e \in E,
         NEW n, NEW batch, batch = FirstRows(E, n), batch # {}, n \in Nat
  PROVE  UpTo(E, batch) = batch /\ FirstOfTheirChains(batch)
<1>1. batch \in SUBSET entries /\ batch \in SUBSET E
  BY DEF FirstRows, Sweepable
<1>2. Newest(batch) \in batch /\ \A d \in batch : d.seq <= Newest(batch).seq
  BY <1>1, NewestIs
<1>3. \A e \in E : e \in entries /\ e.seq \in Int
  BY DEF Sweepable, RowsOK
<1>4. ASSUME NEW e \in E, NEW b \in batch, e.seq <= b.seq PROVE e \in batch
  <2> DEFINE P(x) == {d \in E : d.seq <= x.seq}
  <2>1. P(e) \in SUBSET P(b)
    BY <1>1, <1>3, <1>4
  <2>2. IsFiniteSet(P(b)) /\ IsFiniteSet(P(e))
    <3>1. P(b) \in SUBSET entries /\ P(e) \in SUBSET entries
      BY <1>3
    <3> QED BY <3>1, FS_Subset DEF RowsOK
  <2>3. Cardinality(P(e)) <= Cardinality(P(b)) /\ Cardinality(P(e)) \in Nat /\ Cardinality(P(b)) \in Nat
    BY <2>1, <2>2, FS_Subset, FS_CardinalityType
  <2>4. Cardinality(P(b)) <= n
    BY DEF FirstRows
  <2>5. Cardinality(P(e)) <= n
    BY <2>3, <2>4
  <2> QED BY <2>5 DEF FirstRows
<1>5. UpTo(E, batch) = batch
  BY <1>1, <1>2, <1>4 DEF UpTo
<1>6. FirstOfTheirChains(batch)
  BY <1>1, <1>4 DEF FirstOfTheirChains
<1> QED BY <1>5, <1>6

(* What a task brings along                                                 *)
JobOK(j) ==
  /\ "step" \in DOMAIN j
  /\ j.step = "boot" => j.then \in {"on", "off"}
  /\ j.step = "append" => j.chain \in Chain \ {Instance} /\ j.at \in Int
  /\ j.step \in {"expire", "measure", "trim"} => j.moment \in Int
  /\ j.step \in {"measure", "trim"} => {"step", "moment", "round"} \subseteq DOMAIN j
  /\ j.step = "drop" => j.todo \in SUBSET User /\ {"step", "todo"} \subseteq DOMAIN j
  /\ j.step = "walk" => {"step", "todo", "found"} \subseteq DOMAIN j

TasksOK == DOMAIN task = Task /\ \A t \in Task : JobOK(task[t])

LinkInv ==
  /\ clock \in Int /\ seq \in Nat
  /\ RowsOK(entries, seq)
  /\ TasksOK
  /\ torn = {} => AllFit(entries)

LEMMA LinkInit == Init => LinkInv
<1> SUFFICES ASSUME Init PROVE LinkInv
  OBVIOUS
<1>1. RowsOK(entries, seq) /\ AllFit(entries)
  BY FS_EmptySet DEF Init, RowsOK, AllFit
<1>2. TasksOK
  BY DEF Init, TasksOK, JobOK, Idle
<1> QED BY <1>1, <1>2 DEF Init, LinkInv

LEMMA TaskBecomes ==
  ASSUME TasksOK, NEW t \in Task, NEW j, Become(t, j), JobOK(j)
  PROVE  TasksOK'
BY DEF TasksOK, Become

(* What a sweep takes                                                       *)
LEMMA ExpiredIsFirst ==
  ASSUME LinkInv, NEW cutoff \in Int
  PROVE  /\ ExpiredPrefix(cutoff) \in SUBSET Sweepable
         /\ \A d \in ExpiredPrefix(cutoff), e \in entries :
              e.chain = d.chain /\ e.seq <= d.seq => e \in ExpiredPrefix(cutoff)
         /\ \A e \in ExpiredPrefix(cutoff) : e.at <= cutoff
<1>1. \A e \in entries : e.seq \in Int /\ e.at \in Int
  BY DEF LinkInv, RowsOK
<1>2. ExpiredPrefix(cutoff) \in SUBSET Sweepable
  BY DEF ExpiredPrefix
<1>3. ASSUME NEW d \in ExpiredPrefix(cutoff), NEW e \in entries, e.chain = d.chain, e.seq <= d.seq
      PROVE  e \in ExpiredPrefix(cutoff)
  BY <1>1, <1>3 DEF ExpiredPrefix, Sweepable, Of
<1>4. ASSUME NEW e \in ExpiredPrefix(cutoff) PROVE e.at <= cutoff
  BY <1>1 DEF ExpiredPrefix, Sweepable, Of
<1> QED BY <1>2, <1>3, <1>4

(* What one batch does to the table                                         *)
LEMMA SweepsTake ==
  ASSUME LinkInv, NEW t \in Task, ExpireBatch(t) \/ TrimBatch(t)
  PROVE  \E lost \in SUBSET Sweepable :
           /\ lost # {} /\ Sweepable' = Sweepable \ lost
           /\ ExpireBatch(t) => \A e \in lost : e.at <= task[t].moment - RETENTION_DAYS
           /\ seq' \in Nat /\ RowsOK(entries', seq') /\ (AllFit(entries) => AllFit(entries'))
           /\ seq' >= seq /\ entries' \cap lost = {}
           /\ \A e \in entries' : e \in entries \/ Written(e, lost)
<1> DEFINE Goal == \E lost \in SUBSET Sweepable :
           /\ lost # {} /\ Sweepable' = Sweepable \ lost
           /\ ExpireBatch(t) => \A e \in lost : e.at <= task[t].moment - RETENTION_DAYS
           /\ seq' \in Nat /\ RowsOK(entries', seq') /\ (AllFit(entries) => AllFit(entries'))
           /\ seq' >= seq /\ entries' \cap lost = {}
           /\ \A e \in entries' : e \in entries \/ Written(e, lost)
<1>0. SWEEP_BATCH_ROWS \in Nat /\ RETENTION_DAYS \in Nat
  BY AuditAssumption DEF AuditAssumption
<1>1. ASSUME NEW lost, FirstOfTheirChains(lost), GiveUp(lost, lost),
             ExpireBatch(t) => \A e \in lost : e.at <= task[t].moment - RETENTION_DAYS
      PROVE  Goal
  <2> DEFINE A == WithMarkers(entries \ lost, lost)
  <2>1. entries' = A /\ seq' = Newest(A).seq
    BY <1>1 DEF GiveUp
  <2>2. /\ Newest(A).seq \in Nat /\ RowsOK(A, Newest(A).seq)
        /\ {e \in A : e.chain # Instance} = Sweepable \ lost
        /\ AllFit(entries) => AllFit(A)
        /\ Newest(A).seq >= seq /\ A \cap lost = {} /\ \A e \in A : e \in entries \/ Written(e, lost)
    BY <1>1, BatchFits DEF LinkInv
  <2>3. lost \in SUBSET Sweepable /\ lost # {}
    BY <1>1 DEF FirstOfTheirChains
  <2> HIDE DEF A
  <2>4. Sweepable' = Sweepable \ lost
    BY <2>1, <2>2 DEF Sweepable
  <2> QED BY <1>1, <2>1, <2>2, <2>3, <2>4
<1> HIDE DEF Goal
<1>2. CASE ExpireBatch(t)
  <2> DEFINE E == ExpiredPrefix(task[t].moment - RETENTION_DAYS)
             batch == FirstRows(E, SWEEP_BATCH_ROWS)
  <2>1. task[t].moment - RETENTION_DAYS \in Int
    BY <1>0, <1>2 DEF ExpireBatch, At, LinkInv, TasksOK, JobOK
  <2>2. /\ E \in SUBSET Sweepable
        /\ \A d \in E, e \in entries : e.chain = d.chain /\ e.seq <= d.seq => e \in E
        /\ \A e \in E : e.at <= task[t].moment - RETENTION_DAYS
    BY <2>1, ExpiredIsFirst
  <2>3. batch # {} /\ GiveUp(batch, UpTo(E, batch))
    BY <1>2 DEF ExpireBatch
  <2>4. UpTo(E, batch) = batch /\ FirstOfTheirChains(batch)
    BY <1>0, <2>2, <2>3, BatchIsLost DEF LinkInv
  <2>5. \A e \in batch : e.at <= task[t].moment - RETENTION_DAYS
    BY <2>2 DEF FirstRows
  <2> HIDE DEF batch, E
  <2> QED BY <1>1, <2>3, <2>4, <2>5 DEF Goal
<1>3. CASE TrimBatch(t) /\ ~ExpireBatch(t)
  <2> DEFINE batch == FirstRows(Sweepable, SWEEP_BATCH_ROWS)
  <2>1. \A d \in Sweepable, e \in entries : e.chain = d.chain /\ e.seq <= d.seq => e \in Sweepable
    BY DEF Sweepable
  <2>2. batch # {} /\ GiveUp(batch, UpTo(Sweepable, batch))
    BY <1>3 DEF TrimBatch
  <2>3. UpTo(Sweepable, batch) = batch /\ FirstOfTheirChains(batch)
    BY <1>0, <2>1, <2>2, BatchIsLost DEF LinkInv
  <2> HIDE DEF batch
  <2> QED BY <1>1, <1>3, <2>2, <2>3 DEF Goal
<1> QED BY <1>2, <1>3 DEF Goal

-----------------------------------------------------------------------------
(* Every step keeps the chains linked.                                      *)
Keeps == UNCHANGED <<seq, entries, torn>>

LEMMA KeepsTable ==
  ASSUME LinkInv, Keeps, clock' \in Int, TasksOK'
  PROVE  LinkInv'
BY DEF LinkInv, Keeps, RowsOK, AllFit

(* The steps that write nothing                                             *)
LEMMA TasksMove ==
  ASSUME LinkInv, NEW t \in Task,
         \/ \E setting \in {"on", "off"} : Start(t, setting)
         \/ \E u \in User : Note(t, u)
         \/ NoteRefusal(t) \/ ReadGaps(t) \/ ExpireEnd(t) \/ Measure(t) \/ TrimEnd(t)
         \/ \E read \in BOOLEAN : ReadAccounts(t, read)
         \/ ReadSilent(t) \/ ListChains(t) \/ WalkChain(t) \/ Report(t) \/ Fail(t)
  PROVE  LinkInv'
<1>0. JobOK(task[t]) /\ JobOK(Idle) /\ clock \in Int
  BY DEF LinkInv, TasksOK, JobOK, Idle
<1>1. ASSUME NEW j, Become(t, j), JobOK(j), UNCHANGED <<seq, entries, torn, clock>> PROVE LinkInv'
  <2>1. TasksOK'
    BY <1>1, TaskBecomes DEF LinkInv
  <2> QED BY <1>0, <1>1, <2>1, KeepsTable DEF Keeps
<1>2. ASSUME UNCHANGED <<seq, entries, torn, clock, task>> PROVE LinkInv'
  <2>1. TasksOK'
    BY <1>2 DEF LinkInv, TasksOK
  <2> QED BY <1>0, <1>2, <2>1, KeepsTable DEF Keeps
<1>3. ASSUME NEW then, NEW moment, Finish(t, then, moment), UNCHANGED <<seq, entries, torn, clock>>
      PROVE  LinkInv'
  <2>1. JobOK([step |-> "accounts", moment |-> moment])
    BY DEF JobOK
  <2> QED BY <1>0, <1>1, <1>3, <2>1 DEF Finish
<1> USE DEF table, history
<1>4. ASSUME NEW setting \in {"on", "off"}, Start(t, setting) PROVE LinkInv'
  <2>1. JobOK([step |-> "boot", then |-> setting])
    BY DEF JobOK
  <2> QED BY <1>1, <1>4, <2>1 DEF Start
<1>5. ASSUME NEW u \in User, Note(t, u) PROVE LinkInv'
  <2>1. u \in Chain \ {Instance}
    BY AuditAssumption DEF AuditAssumption, Chain
  <2>2. JobOK([step |-> "append", chain |-> u, at |-> clock, stands |-> 0])
    BY <1>0, <2>1 DEF JobOK
  <2> QED BY <1>1, <1>5, <2>2 DEF Note
<1>6. CASE NoteRefusal(t)
  <2>1. Exchange \in Chain \ {Instance}
    BY AuditAssumption DEF AuditAssumption, Chain
  <2>2. JobOK([step |-> "append", chain |-> Exchange, at |-> clock, stands |-> StandsFor])
    BY <1>0, <2>1 DEF JobOK
  <2>3. /\ UNCHANGED <<seq, entries, torn, clock>>
        /\ \/ UNCHANGED task
           \/ Become(t, [step |-> "append", chain |-> Exchange, at |-> clock, stands |-> StandsFor])
    BY <1>6 DEF NoteRefusal
  <2> QED BY <1>1, <1>2, <2>2, <2>3
<1>7. CASE ReadGaps(t) \/ ListChains(t)
  <2>1. PICK g, h, c, todo :
          \/ Become(t, [step |-> "list", gaps |-> g, hurt |-> h])
          \/ Become(t, [step |-> "walk", gaps |-> g, hurt |-> h, todo |-> todo, found |-> c])
    BY <1>7 DEF ReadGaps, ListChains
  <2>2. /\ JobOK([step |-> "list", gaps |-> g, hurt |-> h])
        /\ JobOK([step |-> "walk", gaps |-> g, hurt |-> h, todo |-> todo, found |-> c])
    BY DEF JobOK
  <2>3. UNCHANGED <<seq, entries, torn, clock>>
    BY <1>7 DEF ReadGaps, ListChains
  <2> QED BY <1>1, <2>1, <2>2, <2>3
<1>8. CASE ExpireEnd(t)
  <2>1. task[t].moment \in Int
    BY <1>0, <1>8 DEF ExpireEnd, At, JobOK
  <2>2. JobOK([step |-> "measure", moment |-> task[t].moment, then |-> task[t].then, round |-> 0])
    BY <2>1 DEF JobOK
  <2> QED BY <1>1, <1>8, <2>2 DEF ExpireEnd
<1>9. CASE Measure(t)
  <2>1. task[t].step = "measure"
    BY <1>9 DEF Measure, At
  <2>2. JobOK([task[t] EXCEPT !.step = "trim"])
    BY <1>0, <2>1 DEF JobOK
  <2> QED BY <1>1, <1>3, <1>9, <2>2 DEF Measure
<1>10. CASE TrimEnd(t)
  BY <1>3, <1>10 DEF TrimEnd
<1>11. ASSUME NEW read \in BOOLEAN, ReadAccounts(t, read) PROVE LinkInv'
  <2>1. JobOK([step |-> "silent", moment |-> task[t].moment, known |-> known])
    BY DEF JobOK
  <2> QED BY <1>0, <1>1, <1>11, <2>1 DEF ReadAccounts
<1>12. CASE ReadSilent(t)
  <2>1. SilentUsers(task[t].moment) \ task[t].known \in SUBSET User
    BY DEF SilentUsers
  <2>2. JobOK([step |-> "drop", moment |-> task[t].moment,
               todo |-> SilentUsers(task[t].moment) \ task[t].known])
    BY <2>1 DEF JobOK
  <2> QED BY <1>1, <1>12, <2>2 DEF ReadSilent
<1>13. CASE WalkChain(t)
  <2>1. task[t].step = "walk"
    BY <1>13 DEF WalkChain, At
  <2>2. PICK todo, found : Become(t, [task[t] EXCEPT !.todo = todo, !.found = found])
    BY <1>13 DEF WalkChain
  <2>3. JobOK([task[t] EXCEPT !.todo = todo, !.found = found])
    BY <1>0, <2>1 DEF JobOK
  <2> QED BY <1>1, <1>13, <2>2, <2>3 DEF WalkChain
<1>14. CASE Report(t) \/ Fail(t)
  BY <1>0, <1>1, <1>14 DEF Report, Fail
<1> QED BY <1>4, <1>5, <1>6, <1>7, <1>8, <1>9, <1>10, <1>11, <1>12, <1>13, <1>14

LEMMA BootLinks ==
  ASSUME LinkInv, NEW t \in Task, Boot(t)
  PROVE  LinkInv'
<1> DEFINE setting == task[t].then
           e == NewRow(Instance, setting, 0, 0)
<1>1. setting \in {"on", "off"} /\ clock' = clock /\ torn' = torn /\ clock \in Int
  BY DEF Boot, At, LinkInv, TasksOK, JobOK, table, history
<1>2. TasksOK'
  <2>1. /\ JobOK([step |-> "expire", moment |-> clock, then |-> setting]) /\ JobOK(Idle)
        /\ JobOK([step |-> "accounts", moment |-> clock])
    BY <1>1 DEF JobOK, Idle
  <2>2. \E j : Become(t, j) /\ JobOK(j)
    BY <2>1 DEF Boot, Finish
  <2> QED BY <2>2, TaskBecomes DEF LinkInv
<1>3. CASE UNCHANGED table
  BY <1>1, <1>2, <1>3, KeepsTable DEF Keeps, table
<1>4. CASE entries' = entries \cup {e} /\ seq' = seq + 1
  <2>1. /\ {"seq", "chain", "kind", "at", "prev", "whole", "gap", "end"} \subseteq DOMAIN e
        /\ e.seq = seq + 1 /\ e.chain \in Chain /\ e.at \in Int
        /\ e.kind # "tombstone" /\ e.prev = LastHash(entries, e.chain)
    BY <1>1 DEF NewRow, Chain
  <2> HIDE DEF e
  <2>2. RowsOK({e}, seq + 1)
    BY <2>1, NewRowOK DEF LinkInv
  <2>3. RowsOK(entries', seq') /\ (AllFit(entries) => AllFit(entries'))
    BY <1>4, <2>1, <2>2, AppendFits DEF LinkInv
  <2>4. seq' \in Nat
    BY <1>4 DEF LinkInv
  <2> QED BY <1>1, <1>2, <2>3, <2>4 DEF LinkInv, AllFit, RowsOK
<1> QED BY <1>3, <1>4 DEF Boot

LEMMA AppendLinks ==
  ASSUME LinkInv, NEW t \in Task, Append(t)
  PROVE  LinkInv'
<1> DEFINE j == task[t]
           e == NewRow(j.chain, IF j.chain = Exchange THEN "refusal" ELSE "call", j.at, j.stands)
<1>1. /\ j.chain \in Chain \ {Instance} /\ j.at \in Int /\ clock \in Int
      /\ clock' = clock /\ torn' = torn /\ entries' = entries \cup {e} /\ seq' = seq + 1
  BY DEF Append, At, LinkInv, TasksOK, JobOK
<1>2. TasksOK'
  <2>1. PICK then :
          \/ Become(t, Idle)
          \/ Become(t, [step |-> "expire", moment |-> j.at, then |-> then])
          \/ Become(t, [step |-> "expire", moment |-> clock, then |-> then])
    BY DEF Append
  <2>2. /\ JobOK([step |-> "expire", moment |-> j.at, then |-> then])
        /\ JobOK([step |-> "expire", moment |-> clock, then |-> then]) /\ JobOK(Idle)
    BY <1>1 DEF JobOK, Idle
  <2> QED BY <2>1, <2>2, TaskBecomes DEF LinkInv
<1>3. /\ {"seq", "chain", "kind", "at", "prev", "whole", "gap", "end"} \subseteq DOMAIN e
      /\ e.seq = seq + 1 /\ e.chain \in Chain /\ e.at \in Int
      /\ e.kind # "tombstone" /\ e.prev = LastHash(entries, e.chain)
  BY <1>1 DEF NewRow
<1> HIDE DEF e, j
<1>4. RowsOK({e}, seq + 1)
  BY <1>3, NewRowOK DEF LinkInv
<1>5. RowsOK(entries', seq') /\ (AllFit(entries) => AllFit(entries'))
  BY <1>1, <1>3, <1>4, AppendFits DEF LinkInv
<1>6. seq' \in Nat
  BY <1>1 DEF LinkInv
<1> QED BY <1>1, <1>2, <1>5, <1>6 DEF LinkInv, AllFit, RowsOK

LEMMA BatchLinks ==
  ASSUME LinkInv, NEW t \in Task, ExpireBatch(t) \/ TrimBatch(t)
  PROVE  LinkInv'
<1>1. seq' \in Nat /\ RowsOK(entries', seq') /\ (AllFit(entries) => AllFit(entries'))
  BY SweepsTake
<1>2. clock' = clock /\ torn' = torn
  BY DEF ExpireBatch, TrimBatch
<1>3. CASE ExpireBatch(t)
  <2>1. TasksOK'
    BY <1>3 DEF ExpireBatch, LinkInv, TasksOK
  <2> QED BY <1>1, <1>2, <2>1 DEF LinkInv, AllFit, RowsOK
<1>4. CASE TrimBatch(t)
  <2>1. task[t].step = "trim" /\ JobOK(task[t])
    BY <1>4 DEF TrimBatch, At, LinkInv, TasksOK
  <2>2. PICK round : Become(t, [task[t] EXCEPT !.step = "measure", !.round = round])
    BY <1>4 DEF TrimBatch
  <2>3. JobOK([task[t] EXCEPT !.step = "measure", !.round = round])
    BY <2>1 DEF JobOK
  <2>4. TasksOK'
    BY <2>2, <2>3, TaskBecomes DEF LinkInv
  <2> QED BY <1>1, <1>2, <2>4 DEF LinkInv, AllFit, RowsOK
<1> QED BY <1>3, <1>4

LEMMA DropLinks ==
  ASSUME LinkInv, NEW t \in Task, DropUserChain(t)
  PROVE  LinkInv'
<1> DEFINE todo == task[t].todo
           u == FirstByName(todo)
           e == Marker(seq + 1, LastHash(entries, Instance), u, Cardinality(Of(u)), Newest(Of(u)).seq)
<1>1. /\ todo \in SUBSET User /\ task[t].step = "drop" /\ JobOK(task[t])
      /\ clock' = clock /\ torn' = torn /\ clock \in Int
  BY DEF DropUserChain, At, LinkInv, TasksOK, JobOK
<1>2. TasksOK'
  <2>1. \/ Become(t, Idle)
        \/ Become(t, [task[t] EXCEPT !.todo = @ \ {u}])
    BY DEF DropUserChain
  <2>2. JobOK([task[t] EXCEPT !.todo = @ \ {u}]) /\ JobOK(Idle)
    BY <1>1 DEF JobOK, Idle
  <2> QED BY <2>1, <2>2, TaskBecomes DEF LinkInv
<1>3. CASE UNCHANGED table
  BY <1>1, <1>2, <1>3, KeepsTable DEF Keeps, table
<1>4. CASE todo # {} /\ Of(u) # {}
  <2>1. u \in User
    <3>1. User \subseteq Chain /\ \A c \in Chain : Rank[c] \in Nat
      BY AuditAssumption DEF AuditAssumption, Chain
    <3>2. {Rank[c] : c \in todo} \subseteq Nat /\ {Rank[c] : c \in todo} # {}
      BY <1>1, <1>4, <3>1
    <3>3. PICK x \in {Rank[c] : c \in todo} : \A y \in {Rank[c] : c \in todo} :
            ~(<<y, x>> \in OpToRel(<, Nat))
      BY <3>2, NatLessThanWellFounded, WFMin
    <3>4. \A y \in {Rank[c] : c \in todo} : x <= y
      <4>1. \A y \in {Rank[c] : c \in todo} : ~(y < x) /\ y \in Nat /\ x \in Nat
        BY <3>2, <3>3 DEF OpToRel
      <4> QED BY <4>1
    <3>5. \E c \in todo : \A d \in todo : Rank[c] <= Rank[d]
      BY <3>4
    <3>6. u \in todo
      BY <3>5 DEF FirstByName
    <3> QED BY <1>1, <3>6
  <2>2. u \in Chain \ {Instance} /\ Instance \in Chain
    BY <2>1, AuditAssumption DEF AuditAssumption, Chain
  <2>3. seq' = seq + 1 /\ entries' = (entries \ Of(u)) \cup {e}
    BY <1>4 DEF DropUserChain
  <2>4. /\ {"seq", "chain", "kind", "at", "prev", "whole", "gap", "end"} \subseteq DOMAIN e
        /\ e.seq = seq + 1 /\ e.chain = Instance /\ e.at \in Int
        /\ e.kind = "tombstone" /\ e.gap = u /\ e.prev = LastHash(entries, Instance)
    BY DEF Marker
  <2> HIDE DEF e, u, todo
  <2>5. RowsOK({e}, seq + 1)
    BY <2>2, <2>4, NewRowOK DEF LinkInv
  <2>6. RowsOK(entries', seq') /\ (AllFit(entries) => AllFit(entries'))
    BY <2>2, <2>3, <2>4, <2>5, DropFits DEF LinkInv, Of
  <2>7. seq' \in Nat
    BY <2>3 DEF LinkInv
  <2> QED BY <1>1, <1>2, <2>6, <2>7 DEF LinkInv, AllFit, RowsOK
<1> QED BY <1>3, <1>4 DEF DropUserChain

LEMMA AlteredNewest ==
  ASSUME NEW n \in Nat, NEW S, RowsOK(S, n), NEW e \in S, NEW a, a.seq = e.seq, a.end = e.end,
         RowsOK((S \ {e}) \cup {a}, n), NEW T \in SUBSET S, T # {},
         NEW U, \A x : x \in U <=> (x = a /\ e \in T) \/ (x \in T /\ x # e)
  PROVE  U # {} /\ Newest(U).seq = Newest(T).seq /\ Newest(U).end = Newest(T).end
<1> DEFINE A == (S \ {e}) \cup {a}
           x == IF Newest(T) = e THEN a ELSE Newest(T)
<1>1. Newest(T) \in T /\ \A d \in T : d.seq <= Newest(T).seq
  BY NewestIs
<1>2. U \in SUBSET A
  OBVIOUS
<1>3. x \in U /\ x.seq = Newest(T).seq /\ x.end = Newest(T).end
  BY <1>1
<1>4. \A d \in U : d.seq <= x.seq
  BY <1>1, <1>3
<1> HIDE DEF x, A
<1>5. x = Newest(U)
  BY <1>2, <1>3, <1>4, NewestIs DEF A
<1> QED BY <1>3, <1>5

(* Whoever tears a row out leaves a trace; whoever alters one leaves its    *)
(* place in the chain.                                                      *)
LEMMA HandsLink ==
  ASSUME LinkInv, NEW e \in entries, Tear(e) \/ Alter(e)
  PROVE  LinkInv'
<1>1. TasksOK' /\ clock' = clock /\ seq' = seq
  BY DEF Tear, Alter, LinkInv, TasksOK, history
<1>2. CASE Tear(e)
  <2>1. entries' \in SUBSET entries /\ torn' # {}
    BY <1>2 DEF Tear
  <2>2. IsFiniteSet(entries')
    BY <2>1, FS_Subset DEF LinkInv, RowsOK
  <2> QED BY <1>1, <2>1, <2>2 DEF LinkInv, RowsOK
<1>3. CASE Alter(e)
  <2> DEFINE a == [e EXCEPT !.whole = FALSE]
             same(x) == IF x = a THEN e ELSE x
  <2>1. /\ {"seq", "chain", "kind", "at", "prev", "whole", "gap", "end"} \subseteq DOMAIN e
        /\ DOMAIN a = DOMAIN e
        /\ a.seq = e.seq /\ a.chain = e.chain /\ a.kind = e.kind /\ a.at = e.at
        /\ a.prev = e.prev /\ a.gap = e.gap /\ a.end = e.end
    BY DEF LinkInv, RowsOK
  <2>2. entries' = (entries \ {e}) \cup {a} /\ torn' = torn
    BY <1>3 DEF Alter, history
  <2> HIDE DEF a
  <2>3. RowsOK(entries', seq')
    <3>1. IsFiniteSet(entries')
      BY <2>2, FS_AddElement, FS_RemoveElement DEF LinkInv, RowsOK
    <3> QED BY <1>1, <2>1, <2>2, <3>1 DEF LinkInv, RowsOK
  <2>4. ASSUME AllFit(entries) PROVE AllFit(entries')
    <3> DEFINE A == (entries \ {e}) \cup {a}
    <3>1. \A x, d : d \in Before(A, x) <=>
            (d = a /\ e \in Before(entries, x)) \/ (d \in Before(entries, x) /\ d # e)
      BY <2>1 DEF Before
    <3>2. \A c, m : m \in MarksOf(A, c) <=>
            (m = a /\ e \in MarksOf(entries, c)) \/ (m \in MarksOf(entries, c) /\ m # e)
      BY <2>1 DEF MarksOf
    <3>3. seq \in Nat /\ RowsOK(entries, seq) /\ RowsOK(A, seq)
      BY <1>1, <2>2, <2>3 DEF LinkInv
    <3>4. ASSUME NEW T \in SUBSET entries, T # {},
                 NEW U, \A x : x \in U <=> (x = a /\ e \in T) \/ (x \in T /\ x # e)
          PROVE  U # {} /\ Newest(U).seq = Newest(T).seq /\ Newest(U).end = Newest(T).end
      BY <2>1, <3>3, <3>4, AlteredNewest
    <3> HIDE DEF A
    <3>5. \A x : /\ Before(entries, x) = {} => Before(A, x) = {}
                 /\ Before(entries, x) # {} =>
                      Before(A, x) # {} /\ Newest(Before(A, x)).seq = Newest(Before(entries, x)).seq
      <4> SUFFICES ASSUME NEW x, Before(entries, x) # {}
                   PROVE  Before(A, x) # {} /\ Newest(Before(A, x)).seq = Newest(Before(entries, x)).seq
        BY <3>1
      <4>1. Before(entries, x) \in SUBSET entries
        BY DEF Before
      <4>2. \A d : d \in Before(A, x) <=>
              (d = a /\ e \in Before(entries, x)) \/ (d \in Before(entries, x) /\ d # e)
        BY <3>1
      <4> QED BY <3>4, <4>1, <4>2
    <3>6. \A c : MarksOf(entries, c) # {} =>
             MarksOf(A, c) # {} /\ Newest(MarksOf(A, c)).end = Newest(MarksOf(entries, c)).end
      <4> SUFFICES ASSUME NEW c, MarksOf(entries, c) # {}
                   PROVE  MarksOf(A, c) # {} /\ Newest(MarksOf(A, c)).end = Newest(MarksOf(entries, c)).end
        OBVIOUS
      <4>1. MarksOf(entries, c) \in SUBSET entries
        BY DEF MarksOf
      <4>2. \A m : m \in MarksOf(A, c) <=>
              (m = a /\ e \in MarksOf(entries, c)) \/ (m \in MarksOf(entries, c) /\ m # e)
        BY <3>2
      <4> QED BY <3>4, <4>1, <4>2
    <3>7. \A x \in entries : Fits(A, x)
      BY <2>4, <3>5, <3>6 DEF AllFit, Fits
    <3>8. Before(A, a) = Before(A, e)
      BY <2>1 DEF Before
    <3>9. Fits(A, a)
      BY <2>1, <3>7, <3>8 DEF Fits
    <3> QED BY <2>2, <3>7, <3>9 DEF AllFit, A
  <2> QED BY <1>1, <2>2, <2>3, <2>4 DEF LinkInv, AllFit, RowsOK
<1> QED BY <1>2, <1>3

LEMMA LinkStep == LinkInv /\ [Next]_vars => LinkInv'
<1> SUFFICES ASSUME LinkInv, [Next]_vars PROVE LinkInv'
  OBVIOUS
<1> USE DEF table, history
<1>1. CASE Crash
  <2>1. JobOK(Idle)
    BY DEF JobOK, Idle
  <2>2. TasksOK'
    BY <1>1, <2>1 DEF Crash, TasksOK
  <2> QED BY <1>1, <2>2, KeepsTable DEF Crash, Keeps, LinkInv
<1>2. CASE Clock
  <2>1. TasksOK' /\ clock' \in Int
    BY <1>2 DEF Clock, LinkInv, TasksOK
  <2> QED BY <1>2, <2>1, KeepsTable DEF Clock, Keeps
<1>3. ASSUME NEW u \in User, Administrate(u) PROVE LinkInv'
  <2>1. TasksOK' /\ clock' \in Int
    BY <1>3 DEF Administrate, LinkInv, TasksOK
  <2> QED BY <1>3, <2>1, KeepsTable DEF Administrate, Keeps
<1>4. CASE UNCHANGED vars
  <2>1. TasksOK' /\ clock' \in Int
    BY <1>4 DEF vars, LinkInv, TasksOK
  <2> QED BY <1>4, <2>1, KeepsTable DEF vars, Keeps
<1> QED BY <1>1, <1>2, <1>3, <1>4, TasksMove, BootLinks, AppendLinks, BatchLinks, DropLinks,
           HandsLink DEF Next, Work

-----------------------------------------------------------------------------
(* A table nobody touched has no finding, however many accounts, tasks and  *)
(* rows it has, and whatever swept, dropped, failed or died.                *)
THEOREM NoFalseAlarm == Spec => []Linked
<1>1. LinkInv => Linked
  <2> SUFFICES ASSUME LinkInv, Untouched, NEW c \in Chain, NEW e \in Of(c)
               PROVE  ~(LET before == {d \in Of(c) : d.seq < e.seq} IN
                          \/ ~e.whole
                          \/ before = {} /\ e.prev # Genesis /\ <<c, e.prev>> \notin ExplainedGaps
                          \/ before # {} /\ e.prev # Newest(before).seq)
    BY DEF Linked, Findings, HasFinding
  <2>1. e \in entries /\ e.chain = c /\ Fits(entries, e) /\ e.whole
    BY DEF LinkInv, AllFit, Untouched, Of
  <2>2. Before(entries, e) = {d \in Of(c) : d.seq < e.seq}
    BY <2>1 DEF Before, Of
  <2>3. MarksOf(entries, c) # {} => <<c, Newest(MarksOf(entries, c)).end>> \in ExplainedGaps
    <3> SUFFICES ASSUME MarksOf(entries, c) # {} PROVE <<c, Newest(MarksOf(entries, c)).end>> \in ExplainedGaps
      OBVIOUS
    <3>1. MarksOf(entries, c) \in SUBSET entries
      BY DEF MarksOf
    <3>2. Newest(MarksOf(entries, c)) \in MarksOf(entries, c)
      BY <3>1, NewestIs DEF LinkInv
    <3> QED BY <3>2 DEF MarksOf, ExplainedGaps, Tombstones, Of
  <2> QED BY <2>1, <2>2, <2>3 DEF Fits
<1> QED BY <1>1, LinkInit, LinkStep, PTL DEF Spec

(* The retention window takes no row that is younger than it, however full  *)
(* the table and however late the sweep.                                    *)
THEOREM RetentionKeepsTheYoung == Spec => YoungRowsStay
<1>1. LinkInv /\ [Next]_vars => [\A t \in Task : ExpireBatch(t) =>
        \A e \in Sweepable \ entries' : e.at <= task[t].moment - RETENTION_DAYS]_vars
  <2> SUFFICES ASSUME LinkInv, NEW t \in Task, ExpireBatch(t), NEW e \in Sweepable \ entries'
               PROVE  e.at <= task[t].moment - RETENTION_DAYS
    OBVIOUS
  <2>1. PICK lost \in SUBSET Sweepable :
          /\ Sweepable' = Sweepable \ lost
          /\ \A d \in lost : d.at <= task[t].moment - RETENTION_DAYS
    BY SweepsTake
  <2>2. Sweepable' \subseteq entries'
    BY DEF Sweepable
  <2> QED BY <2>1, <2>2
<1> QED BY <1>1, LinkInit, LinkStep, PTL DEF Spec, YoungRowsStay

(* Every batch takes at least one row and adds none that could be swept, so *)
(* the loops of a sweep end, whoever shares the work.                       *)
THEOREM SweepsGainGround == Spec => SweepGainsGround
<1>1. LinkInv /\ [Next]_vars => [\A t \in Task : ExpireBatch(t) \/ TrimBatch(t) =>
        Cardinality(Sweepable') < Cardinality(Sweepable)]_vars
  <2> SUFFICES ASSUME LinkInv, NEW t \in Task, ExpireBatch(t) \/ TrimBatch(t)
               PROVE  Cardinality(Sweepable') < Cardinality(Sweepable)
    OBVIOUS
  <2>1. PICK lost \in SUBSET Sweepable : lost # {} /\ Sweepable' = Sweepable \ lost
    BY SweepsTake
  <2>2. IsFiniteSet(Sweepable)
    <3>1. Sweepable \in SUBSET entries
      BY DEF Sweepable
    <3> QED BY <3>1, FS_Subset DEF LinkInv, RowsOK
  <2>3. Sweepable \ lost \in SUBSET Sweepable /\ Sweepable \ lost # Sweepable
    BY <2>1
  <2> HIDE DEF Sweepable
  <2>4. /\ Cardinality(Sweepable \ lost) <= Cardinality(Sweepable)
        /\ Cardinality(Sweepable \ lost) # Cardinality(Sweepable)
        /\ Cardinality(Sweepable) \in Nat /\ Cardinality(Sweepable \ lost) \in Nat
    BY <2>2, <2>3, FS_Subset, FS_CardinalityType
  <2> QED BY <2>1, <2>4
<1> QED BY <1>1, LinkInit, LinkStep, PTL DEF Spec, SweepGainsGround

-----------------------------------------------------------------------------
(* The check.  A number is given once, so what was torn out stays missing,  *)
(* no marker ever names it, and a task that knows of a damage meets it as   *)
(* long as the damaged row is there.                                        *)
LEMMA StepsWrite ==
  ASSUME LinkInv, [Next]_vars
  PROVE  \/ \E e \in entries : Tear(e) \/ Alter(e)
         \/ /\ torn' = torn /\ seq' >= seq
            /\ \E lost \in SUBSET entries :
                 entries' \cap lost = {} /\ \A e \in entries' : e \in entries \/ Written(e, lost)
<1> DEFINE Goal == /\ torn' = torn /\ seq' >= seq
                   /\ \E lost \in SUBSET entries :
                        entries' \cap lost = {} /\ \A e \in entries' : e \in entries \/ Written(e, lost)
<1> USE DEF table, history
<1>0. seq \in Nat /\ \A c : LastHash(entries, c) = Genesis \/ \E d \in entries : d.seq = LastHash(entries, c)
  <2>1. \A T \in SUBSET entries : T # {} => Newest(T) \in T
    BY NewestIs DEF LinkInv
  <2> QED BY <2>1 DEF LastHash, LinkInv
<1>1. ASSUME Keeps PROVE Goal
  <2>1. /\ {} \in SUBSET entries /\ entries' \cap {} = {}
        /\ \A e \in entries' : e \in entries \/ Written(e, {})
    BY <1>1 DEF Keeps
  <2>2. torn' = torn /\ seq' >= seq
    BY <1>0, <1>1 DEF Keeps
  <2> QED BY <2>1, <2>2
<1>2. ASSUME NEW t \in Task, Boot(t) \/ Append(t) PROVE Goal
  <2>1. PICK c, kind, at, stands :
          /\ kind # "tombstone"
          /\ \/ UNCHANGED table
             \/ entries' = entries \cup {NewRow(c, kind, at, stands)} /\ seq' = seq + 1
    <3>1. CASE Boot(t)
      <4>1. task[t].then # "tombstone"
        BY <3>1 DEF Boot, At, LinkInv, TasksOK, JobOK
      <4> QED BY <3>1, <4>1 DEF Boot
    <3>2. CASE Append(t)
      BY <3>2 DEF Append
    <3> QED BY <1>2, <3>1, <3>2
  <2> DEFINE e == NewRow(c, kind, at, stands)
  <2>2. e.whole /\ e.seq = seq + 1 /\ e.kind = kind /\ e.prev = LastHash(entries, c)
    BY DEF NewRow
  <2> HIDE DEF e
  <2>3. Written(e, {})
    BY <1>0, <2>1, <2>2 DEF Written
  <2>4. torn' = torn
    BY <1>2 DEF Boot, Append
  <2>5. entries' \cap {} = {} /\ \A d \in entries' : d \in entries \/ Written(d, {})
    BY <2>1, <2>3 DEF e
  <2> QED BY <1>0, <2>1, <2>4, <2>5
<1>3. ASSUME NEW t \in Task, ExpireBatch(t) \/ TrimBatch(t) PROVE Goal
  <2>1. torn' = torn
    BY <1>3 DEF ExpireBatch, TrimBatch
  <2>2. Sweepable \subseteq entries
    BY DEF Sweepable
  <2> QED BY <1>3, <2>1, <2>2, SweepsTake
<1>4. ASSUME NEW t \in Task, DropUserChain(t) PROVE Goal
  <2> DEFINE u == FirstByName(task[t].todo)
             lost == Of(u)
             e == Marker(seq + 1, LastHash(entries, Instance), u, Cardinality(lost), Newest(lost).seq)
  <2>1. CASE UNCHANGED table
    <3>1. Keeps
      BY <1>4, <2>1 DEF DropUserChain, Keeps
    <3> QED BY <1>1, <3>1
  <2>2. CASE lost # {} /\ seq' = seq + 1 /\ entries' = (entries \ lost) \cup {e}
    <3>1. lost \in SUBSET entries /\ Newest(lost) \in lost
      <4>1. lost \in SUBSET entries
        BY DEF Of
      <4> QED BY <2>2, <4>1, NewestIs DEF LinkInv
    <3>2. e.whole /\ e.seq = seq + 1 /\ e.prev = LastHash(entries, Instance) /\ e.end = Newest(lost).seq
      BY DEF Marker
    <3>3. torn' = torn
      BY <1>4 DEF DropUserChain
    <3> HIDE DEF e, lost
    <3>4. Written(e, lost)
      BY <1>0, <3>1, <3>2 DEF Written
    <3>5. e \notin entries
      BY <1>0, <3>2 DEF LinkInv, RowsOK
    <3>6. entries' \cap lost = {} /\ \A d \in entries' : d \in entries \/ Written(d, lost)
      BY <2>2, <3>1, <3>4, <3>5
    <3> QED BY <1>0, <2>2, <3>1, <3>3, <3>6
  <2> QED BY <1>4, <2>1, <2>2 DEF DropUserChain
<1>5. ASSUME NEW t \in Task,
             \/ \E setting \in {"on", "off"} : Start(t, setting)
             \/ \E u \in User : Note(t, u)
             \/ NoteRefusal(t) \/ ReadGaps(t) \/ ExpireEnd(t) \/ Measure(t) \/ TrimEnd(t)
             \/ \E read \in BOOLEAN : ReadAccounts(t, read)
             \/ ReadSilent(t) \/ ListChains(t) \/ WalkChain(t) \/ Report(t) \/ Fail(t)
      PROVE  Goal
  <2>1. Keeps
    BY <1>5 DEF Keeps, Start, Note, NoteRefusal, ReadGaps, ExpireEnd, Measure, TrimEnd, ReadAccounts,
                ReadSilent, ListChains, WalkChain, Report, Fail
  <2> QED BY <1>1, <2>1
<1>6. ASSUME Crash \/ Clock \/ (\E u \in User : Administrate(u)) \/ UNCHANGED vars PROVE Goal
  <2>1. Keeps
    BY <1>6 DEF Keeps, Crash, Clock, Administrate, vars
  <2> QED BY <1>1, <2>1
<1> HIDE DEF Goal
<1>7. Goal \/ \E e \in entries : Tear(e) \/ Alter(e)
  BY <1>2, <1>3, <1>4, <1>5, <1>6 DEF Next, Work
<1> QED BY <1>7 DEF Goal

LEMMA WhoChecks ==
  ASSUME LinkInv, [Next]_vars, NEW q \in Task
  PROVE  \/ task'[q] = task[q] \/ task'[q].step \notin {"list", "walk"}
         \/ /\ ReadGaps(q) \/ ListChains(q) \/ WalkChain(q)
            /\ Keeps
<1> DEFINE Goal == \/ task'[q] = task[q] \/ task'[q].step \notin {"list", "walk"}
                   \/ /\ ReadGaps(q) \/ ListChains(q) \/ WalkChain(q)
                      /\ Keeps
<1> USE DEF table, history
<1>0. DOMAIN task = Task /\ \A t \in Task : JobOK(task[t])
  BY DEF LinkInv, TasksOK
<1>1. ASSUME NEW t \in Task, NEW j, Become(t, j), j.step \notin {"list", "walk"} PROVE Goal
  BY <1>0, <1>1 DEF Become
<1>2. ASSUME UNCHANGED task PROVE Goal
  BY <1>2
<1>3. ASSUME NEW t \in Task, ReadGaps(t) \/ ListChains(t) \/ WalkChain(t) PROVE Goal
  <2>1. Keeps
    BY <1>3 DEF ReadGaps, ListChains, WalkChain, Keeps
  <2>2. t # q => task'[q] = task[q]
    BY <1>0, <1>3 DEF ReadGaps, ListChains, WalkChain, Become
  <2> QED BY <1>3, <2>1, <2>2
<1> HIDE DEF Goal
<1>4. ASSUME NEW then, NEW moment, NEW t \in Task, Finish(t, then, moment) PROVE Goal
  <2>1. Idle.step \notin {"list", "walk"} /\ [step |-> "accounts", moment |-> moment].step \notin {"list", "walk"}
    BY DEF Idle
  <2> QED BY <1>1, <1>4, <2>1 DEF Finish
<1>5. Idle.step = "idle"
  BY DEF Idle
<1>6. ASSUME NEW t \in Task,
             \/ \E setting \in {"on", "off"} : Start(t, setting)
             \/ \E u \in User : Note(t, u)
             \/ NoteRefusal(t) \/ Append(t) \/ ReadSilent(t)
             \/ \E read \in BOOLEAN : ReadAccounts(t, read)
      PROVE  Goal
  BY <1>1, <1>2, <1>5, <1>6 DEF Start, Note, NoteRefusal, Append, ReadSilent, ReadAccounts
<1>7. ASSUME NEW t \in Task, Boot(t) \/ ExpireEnd(t) \/ TrimEnd(t) \/ Report(t) \/ Fail(t) PROVE Goal
  BY <1>1, <1>4, <1>5, <1>7 DEF Boot, ExpireEnd, TrimEnd, Report, Fail
<1>8. ASSUME NEW t \in Task, Measure(t) PROVE Goal
  <2>1. [task[t] EXCEPT !.step = "trim"].step \notin {"list", "walk"}
    BY <1>0, <1>8 DEF Measure, At, JobOK
  <2> QED BY <1>1, <1>4, <1>8, <2>1 DEF Measure
<1>9. ASSUME NEW t \in Task, TrimBatch(t) PROVE Goal
  <2>1. PICK round : Become(t, [task[t] EXCEPT !.step = "measure", !.round = round])
    BY <1>9 DEF TrimBatch
  <2>2. [task[t] EXCEPT !.step = "measure", !.round = round].step \notin {"list", "walk"}
    BY <1>0, <1>9 DEF TrimBatch, At, JobOK
  <2> QED BY <1>1, <2>1, <2>2
<1>10. ASSUME NEW t \in Task, DropUserChain(t) PROVE Goal
  <2>1. PICK todo : Become(t, Idle) \/ Become(t, [task[t] EXCEPT !.todo = todo])
    BY <1>10 DEF DropUserChain
  <2>2. [task[t] EXCEPT !.todo = todo].step \notin {"list", "walk"}
    BY <1>0, <1>10 DEF DropUserChain, At, JobOK
  <2> QED BY <1>1, <1>5, <2>1, <2>2
<1>11. ASSUME NEW t \in Task, ExpireBatch(t) PROVE Goal
  BY <1>2, <1>11 DEF ExpireBatch
<1>12. ASSUME Crash PROVE Goal
  BY <1>5, <1>12 DEF Crash, Goal
<1>13. ASSUME \/ Clock \/ (\E u \in User : Administrate(u)) \/ UNCHANGED vars
              \/ \E e \in entries : Tear(e) \/ Alter(e)
       PROVE  Goal
  BY <1>2, <1>13 DEF Clock, Administrate, Tear, Alter, vars
<1>14. Goal
  BY <1>3, <1>6, <1>7, <1>8, <1>9, <1>10, <1>11, <1>12, <1>13 DEF Next, Work
<1> QED BY <1>14 DEF Goal

Damaged(e, hurt) == \/ ~e.whole /\ e.seq \in hurt
                    \/ e.prev \in hurt \cap torn

(* What a check knows of damage, and what it has yet to read                *)
Checks(j) ==
  /\ j.step \in {"list", "walk"} => \A s \in j.hurt :
       /\ s \in 1..seq
       /\ \A e \in entries : e.seq = s => ~e.whole
       /\ s \in torn => \A c \in Chain : <<c, s>> \notin j.gaps
  /\ j.step = "walk" =>
       /\ j.todo \subseteq Chain
       /\ \A e \in entries : Damaged(e, j.hurt) => e.chain \in j.todo \cup j.found

DamageInv ==
  /\ LinkInv
  /\ \A s \in torn : s \in 1..seq /\ \A e \in entries : e.seq # s
  /\ \A m \in entries : m.kind = "tombstone" =>
       m.end \in Int /\ m.end <= seq /\ m.end \notin torn /\ \A e \in entries : e.seq # m.end
  /\ \A t \in Task : Checks(task[t])

LEMMA DamageInit == Init => DamageInv
BY LinkInit DEF Init, DamageInv, Checks, Idle

(* What is written beside a check changes nothing it knows.                 *)
LEMMA DamageStays ==
  ASSUME DamageInv, [Next]_vars, LinkInv'
  PROVE  /\ \A s \in torn' : s \in 1..seq' /\ \A e \in entries' : e.seq # s
         /\ \A m \in entries' : m.kind = "tombstone" =>
              m.end \in Int /\ m.end <= seq' /\ m.end \notin torn' /\ \A e \in entries' : e.seq # m.end
         /\ \A t \in Task : task'[t] = task[t] => Checks(task[t])'
<1>0. /\ seq \in Nat /\ seq' \in Nat
      /\ \A e \in entries : e.seq \in 1..seq
      /\ \A e, d \in entries : e.seq = d.seq => e = d
  BY DEF DamageInv, LinkInv, RowsOK
<1>1. CASE /\ torn' = torn /\ seq' >= seq
           /\ \E lost \in SUBSET entries :
                entries' \cap lost = {} /\ \A e \in entries' : e \in entries \/ Written(e, lost)
  <2>1. PICK lost \in SUBSET entries :
          entries' \cap lost = {} /\ \A e \in entries' : e \in entries \/ Written(e, lost)
    BY <1>1
  <2>2. \A s \in torn' : s \in 1..seq' /\ \A e \in entries' : e.seq # s
    BY <1>0, <1>1, <2>1 DEF DamageInv, Written
  <2>3. ASSUME NEW m \in entries', m.kind = "tombstone"
        PROVE  m.end \in Int /\ m.end <= seq' /\ m.end \notin torn' /\ \A e \in entries' : e.seq # m.end
    <3>1. CASE (m \in entries) \/ \E d \in entries : d.kind = "tombstone" /\ m.end = d.end
      <4>1. m.end \in Int /\ m.end <= seq /\ m.end \notin torn /\ \A e \in entries : e.seq # m.end
        BY <2>3, <3>1 DEF DamageInv
      <4> QED BY <1>0, <1>1, <2>1, <4>1 DEF Written, LinkInv, RowsOK
    <3>2. CASE \E d \in lost : m.end = d.seq
      <4>1. PICK d \in lost : m.end = d.seq
        BY <3>2
      <4>2. d \in entries /\ d \notin entries' /\ m.end \in 1..seq /\ m.end \notin torn
        BY <1>0, <2>1, <4>1 DEF DamageInv
      <4>3. \A e \in entries' : e.seq # d.seq
        BY <1>0, <2>1, <4>2, <4>1 DEF Written
      <4> QED BY <1>0, <1>1, <4>1, <4>2, <4>3
    <3> QED BY <2>1, <2>3, <3>1, <3>2 DEF Written
  <2>4. ASSUME NEW t \in Task, task'[t] = task[t] PROVE Checks(task[t])'
    <3> DEFINE j == task[t]
    <3>1. Checks(j)
      BY DEF DamageInv
    <3>2. ASSUME j.step \in {"list", "walk"}, NEW s \in j.hurt
          PROVE  /\ s \in 1..seq'
                 /\ \A e \in entries' : e.seq = s => ~e.whole
                 /\ s \in torn' => \A c \in Chain : <<c, s>> \notin j.gaps
      <4>1. s \in 1..seq /\ (\A e \in entries : e.seq = s => ~e.whole)
            /\ (s \in torn => \A c \in Chain : <<c, s>> \notin j.gaps)
        BY <3>1, <3>2 DEF Checks
      <4> QED BY <1>0, <1>1, <2>1, <4>1 DEF Written
    <3>3. ASSUME j.step = "walk", NEW e \in entries', Damaged(e, j.hurt)' PROVE e.chain \in j.todo \cup j.found
      <4>1. \/ ~e.whole /\ e.seq \in j.hurt
            \/ e.prev \in j.hurt \cap torn
        BY <1>1, <2>4, <3>3 DEF Damaged
      <4>2. e \in entries
        <5> SUFFICES ASSUME Written(e, lost) PROVE FALSE
          BY <2>1
        <5>1. e.prev \in torn
          BY <4>1 DEF Written
        <5> QED BY <1>0, <5>1 DEF Written, DamageInv, Genesis
      <4> QED BY <3>1, <3>3, <4>1, <4>2 DEF Checks, Damaged
    <3> QED BY <2>4, <3>1, <3>2, <3>3 DEF Checks
  <2> QED BY <2>2, <2>3, <2>4
<1>2. ASSUME NEW e \in entries, Tear(e) \/ Alter(e)
      PROVE  /\ \A s \in torn' : s \in 1..seq' /\ \A d \in entries' : d.seq # s
             /\ \A m \in entries' : m.kind = "tombstone" =>
                  m.end \in Int /\ m.end <= seq' /\ m.end \notin torn' /\ \A d \in entries' : d.seq # m.end
             /\ \A t \in Task : task'[t] = task[t] => Checks(task[t])'
  <2>1. /\ torn = {} /\ (\A d \in entries : d.whole) /\ seq' = seq
        /\ UNCHANGED task
    BY <1>2 DEF Tear, Alter, Untouched, history
  <2>2. \A t \in Task : /\ Checks(task[t])
                        /\ task[t].step \in {"list", "walk"} =>
                             \A s \in task[t].hurt : s \in 1..seq /\ \A d \in entries : d.seq # s
    BY <2>1 DEF DamageInv, Checks
  <2>3. CASE Tear(e)
    <3>1. torn' = {e.seq} /\ entries' = entries \ {e}
      BY <2>3 DEF Tear
    <3>2. /\ \A s \in torn' : s \in 1..seq' /\ \A d \in entries' : d.seq # s
          /\ \A m \in entries' : m.kind = "tombstone" =>
               m.end \in Int /\ m.end <= seq' /\ m.end \notin torn' /\ \A d \in entries' : d.seq # m.end
      BY <1>0, <2>1, <3>1 DEF DamageInv
    <3>3. ASSUME NEW t \in Task, task[t].step \in {"list", "walk"}
          PROVE  task[t].hurt \cap torn' = {}
      BY <2>2, <3>1, <3>3
    <3>4. ASSUME NEW t \in Task PROVE Checks(task[t])'
      BY <2>1, <2>2, <3>1, <3>3 DEF Checks, Damaged
    <3> QED BY <3>2, <3>4
  <2>4. CASE Alter(e)
    <3> DEFINE a == [e EXCEPT !.whole = FALSE]
    <3>1. torn' = {} /\ entries' = (entries \ {e}) \cup {a}
      BY <2>1, <2>4 DEF Alter, history
    <3>2. a.seq = e.seq /\ a.kind = e.kind /\ a.end = e.end /\ a.prev = e.prev /\ a.chain = e.chain
      BY DEF DamageInv, LinkInv, RowsOK
    <3> HIDE DEF a
    <3>3. \A m \in entries' : m.kind = "tombstone" =>
               m.end \in Int /\ m.end <= seq' /\ m.end \notin torn' /\ \A d \in entries' : d.seq # m.end
      BY <2>1, <3>1, <3>2 DEF DamageInv
    <3>4. \A d \in entries' : (d \in entries /\ d.whole) \/ d.seq = e.seq
      BY <2>1, <3>1, <3>2
    <3>5. ASSUME NEW t \in Task PROVE Checks(task[t])'
      <4>1. ASSUME task[t].step \in {"list", "walk"}, NEW s \in task[t].hurt, NEW d \in entries', d.seq = s
            PROVE  FALSE
        BY <2>2, <3>4, <4>1
      <4>2. \A d \in entries' : task[t].step = "walk" => ~Damaged(d, task[t].hurt)'
        BY <2>1, <3>1, <3>4, <4>1 DEF Damaged
      <4> QED BY <2>1, <2>2, <3>1, <4>1, <4>2 DEF Checks
    <3> QED BY <3>1, <3>3, <3>5
  <2> QED BY <1>2, <2>3, <2>4
<1> QED BY <1>1, <1>2, StepsWrite DEF DamageInv

LEMMA DamageStep == DamageInv /\ [Next]_vars => DamageInv'
<1> SUFFICES ASSUME DamageInv, [Next]_vars PROVE DamageInv'
  OBVIOUS
<1> USE DEF table, history
<1>0. LinkInv /\ LinkInv'
  BY LinkStep DEF DamageInv
<1>1. ASSUME NEW q \in Task PROVE Checks(task[q])'
  <2>1. CASE task'[q] = task[q]
    BY <1>0, <2>1, DamageStays
  <2>2. CASE task'[q].step \notin {"list", "walk"}
    BY <2>2 DEF Checks
  <2>3. CASE (ReadGaps(q) \/ ListChains(q) \/ WalkChain(q)) /\ Keeps
    <3>0. /\ Checks(task[q]) /\ DOMAIN task = Task /\ JobOK(task[q])
          /\ seq' = seq /\ entries' = entries /\ torn' = torn
      BY <2>3 DEF DamageInv, LinkInv, TasksOK, Keeps
    <3>1. CASE ReadGaps(q)
      <4> DEFINE hurt == torn \cup {e.seq : e \in {d \in entries : ~d.whole}}
      <4>1. task'[q] = [step |-> "list", gaps |-> ExplainedGaps, hurt |-> hurt]
        BY <3>0, <3>1 DEF ReadGaps, Become
      <4>2. \A s \in hurt : s \in 1..seq /\ \A e \in entries : e.seq = s => ~e.whole
        BY <1>0 DEF DamageInv, LinkInv, RowsOK
      <4>3. \A s \in torn, c \in Chain : <<c, s>> \notin ExplainedGaps
        BY DEF DamageInv, ExplainedGaps, Tombstones, Of
      <4> HIDE DEF hurt
      <4> QED BY <3>0, <4>1, <4>2, <4>3 DEF Checks
    <3>2. CASE ListChains(q)
      <4>1. /\ task[q].step = "list"
            /\ task'[q] = [step |-> "walk", gaps |-> task[q].gaps, hurt |-> task[q].hurt,
                           todo |-> {e.chain : e \in entries}, found |-> {}]
        BY <3>0, <3>2 DEF ListChains, Become, At
      <4>2. {e.chain : e \in entries} \subseteq Chain
        BY <1>0 DEF LinkInv, RowsOK
      <4> QED BY <3>0, <4>1, <4>2 DEF Checks
    <3>3. CASE WalkChain(q)
      <4> DEFINE j == task[q]
                 c == FirstByName(j.todo)
                 found == j.found \cup (IF HasFinding(c, j.gaps) THEN {c} ELSE {})
      <4>1. j.step = "walk"
        BY <3>3 DEF WalkChain, At
      <4>2. task'[q] = [j EXCEPT !.todo = j.todo \ {c}, !.found = found]
        BY <3>0, <3>3 DEF WalkChain, Become
      <4> HIDE DEF c, found
      <4>3. /\ task'[q].step = "walk" /\ task'[q].todo = j.todo \ {c} /\ task'[q].found = found
            /\ task'[q].hurt = j.hurt /\ task'[q].gaps = j.gaps
        BY <3>0, <4>1, <4>2 DEF JobOK
      <4>4. ASSUME NEW e \in entries, e.chain = c, c \in Chain, Damaged(e, j.hurt) PROVE HasFinding(c, j.gaps)
        <5> DEFINE before == {d \in Of(c) : d.seq < e.seq}
        <5>1. before # {} => Newest(before).seq \notin torn
          <6>1. before \in SUBSET entries
            BY DEF Of
          <6> HIDE DEF before
          <6>2. before # {} => Newest(before) \in entries
            BY <1>0, <6>1, NewestIs DEF LinkInv
          <6> QED BY <6>2 DEF DamageInv
        <5>2. ~e.whole \/ (e.prev \in torn /\ e.prev # Genesis /\ <<c, e.prev>> \notin j.gaps)
          BY <3>0, <4>1, <4>4 DEF Damaged, DamageInv, Checks, Genesis
        <5>3. e \in Of(c)
          BY <4>4 DEF Of
        <5> QED BY <5>1, <5>2, <5>3 DEF HasFinding
      <4> QED BY <3>0, <4>1, <4>3, <4>4 DEF Checks, Damaged, found
    <3> QED BY <2>3, <3>1, <3>2, <3>3
  <2> QED BY <1>0, <2>1, <2>2, <2>3, WhoChecks
<1>2. \A q \in Task : Checks(task[q])'
  BY <1>1
<1> QED BY <1>0, <1>2, DamageStays DEF DamageInv

(* A check that began after a row was altered, or torn out, names the chain *)
(* of that row, or of the row behind the hole, whatever sweeps meanwhile.   *)
THEOREM DamageIsNamed == Spec => []ManipulationIsFound
<1>1. DamageInv => ManipulationIsFound
  BY DEF DamageInv, Checks, Damaged, ManipulationIsFound, Reported, At
<1> QED BY <1>1, DamageInit, DamageStep, PTL DEF Spec

-----------------------------------------------------------------------------
(* Sums.  The fold of the library takes its terms one by one, in the order  *)
(* of an arbitrary choice; the sum does not depend on it.                   *)
Pick(s) == CHOOSE x \in s : TRUE
Sums(g, S, F) == F = [s \in SUBSET S |-> IF s = {} THEN 0 ELSE g[Pick(s)] + F[s \ {Pick(s)}]]
Total(g, S) == (CHOOSE F : Sums(g, S, F))[S]

LEMMA SmallestSet ==
  ASSUME NEW B, B # {}, \A s \in B : IsFiniteSet(s)
  PROVE  \E s \in B : \A t \in B : Cardinality(s) <= Cardinality(t)
<1> DEFINE N == {Cardinality(s) : s \in B}
<1>1. N \subseteq Nat /\ N # {}
  BY FS_CardinalityType
<1>2. PICK m \in N : \A k \in N : ~(<<k, m>> \in OpToRel(<, Nat))
  BY <1>1, NatLessThanWellFounded, WFMin
<1>3. \A k \in N : m <= k
  <2>1. \A k \in N : ~(k < m) /\ k \in Nat /\ m \in Nat
    BY <1>1, <1>2 DEF OpToRel
  <2> QED BY <2>1
<1> QED BY <1>3

LEMMA PickOne ==
  ASSUME NEW s, s # {}, IsFiniteSet(s)
  PROVE  /\ Pick(s) \in s /\ IsFiniteSet(s \ {Pick(s)})
         /\ Cardinality(s \ {Pick(s)}) < Cardinality(s)
<1>1. Pick(s) \in s
  BY DEF Pick
<1>2. /\ IsFiniteSet(s \ {Pick(s)})
      /\ Cardinality(s \ {Pick(s)}) = Cardinality(s) - 1
      /\ Cardinality(s) \in Nat
  BY <1>1, FS_RemoveElement, FS_CardinalityType
<1> QED BY <1>1, <1>2

LEMMA SumsAgree ==
  ASSUME NEW g, NEW A, NEW C, NEW F, NEW G, Sums(g, A, F), Sums(g, C, G),
         NEW s, s \subseteq A, s \subseteq C, IsFiniteSet(s)
  PROVE  F[s] = G[s]
<1> DEFINE B == {t \in SUBSET A : t \subseteq C /\ IsFiniteSet(t) /\ F[t] # G[t]}
<1>1. SUFFICES ASSUME B # {} PROVE FALSE
  OBVIOUS
<1>2. PICK t \in B : \A u \in B : Cardinality(t) <= Cardinality(u)
  BY <1>1, SmallestSet
<1> DEFINE u == t \ {Pick(t)}
<1>3. t # {}
  BY <1>2 DEF Sums
<1>4. IsFiniteSet(u) /\ Cardinality(u) < Cardinality(t)
  BY <1>2, <1>3, PickOne
<1>5. Cardinality(u) \in Nat /\ Cardinality(t) \in Nat
  BY <1>2, <1>4, FS_CardinalityType
<1>6. u \notin B
  BY <1>2, <1>4, <1>5
<1>7. F[u] = G[u]
  BY <1>4, <1>6
<1>8. F[t] = g[Pick(t)] + F[u] /\ G[t] = g[Pick(t)] + G[u]
  BY <1>2, <1>3 DEF Sums
<1> QED BY <1>2, <1>7, <1>8

LEMMA SumsExist ==
  ASSUME NEW g, NEW S, IsFiniteSet(S)
  PROVE  \E F : Sums(g, S, F)
<1> DEFINE B == {t \in SUBSET S : ~\E F : Sums(g, t, F)}
<1>1. SUFFICES ASSUME B # {} PROVE FALSE
  OBVIOUS
<1>2. \A t \in SUBSET S : IsFiniteSet(t)
  BY FS_Subset
<1>3. PICK t \in B : \A u \in B : Cardinality(t) <= Cardinality(u)
  BY <1>1, <1>2, SmallestSet
<1> DEFINE H(u) == CHOOSE F : Sums(g, u, F)
           J == [s \in SUBSET t |-> IF s = {} THEN 0
                                    ELSE g[Pick(s)] + H(s \ {Pick(s)})[s \ {Pick(s)}]]
<1>4. ASSUME NEW u \in SUBSET t, u # t PROVE Sums(g, u, H(u))
  <2>1. Cardinality(u) <= Cardinality(t) /\ Cardinality(u) # Cardinality(t)
    BY <1>2, <1>4, FS_Subset
  <2>2. Cardinality(u) \in Nat /\ Cardinality(t) \in Nat
    BY <1>2, <1>4, FS_CardinalityType
  <2>3. u \notin B
    BY <1>3, <2>1, <2>2
  <2>4. \E F : Sums(g, u, F)
    BY <1>4, <2>3
  <2> QED BY <2>4
<1>5. \A u \in SUBSET t : u # t => J[u] = H(u)[u]
  <2> SUFFICES ASSUME NEW u \in SUBSET t, u # t PROVE J[u] = H(u)[u]
    OBVIOUS
  <2>1. Sums(g, u, H(u))
    BY <1>4
  <2>2. CASE u = {}
    BY <2>1, <2>2 DEF Sums
  <2>3. CASE u # {}
    <3> DEFINE v == u \ {Pick(u)}
    <3>1. v \in SUBSET u /\ v # t /\ IsFiniteSet(v)
      BY <1>2, <2>3, PickOne
    <3>2. Sums(g, v, H(v))
      BY <1>4, <3>1
    <3>3. H(u)[v] = H(v)[v]
      BY <2>1, <3>1, <3>2, SumsAgree
    <3> HIDE DEF H
    <3> QED BY <2>1, <2>3, <3>3 DEF Sums
  <2> QED BY <2>2, <2>3
<1>6. Sums(g, t, J)
  <2>1. \A s \in SUBSET t : s # {} => J[s] = g[Pick(s)] + J[s \ {Pick(s)}]
    <3> SUFFICES ASSUME NEW s \in SUBSET t, s # {} PROVE J[s] = g[Pick(s)] + J[s \ {Pick(s)}]
      OBVIOUS
    <3>1. s \ {Pick(s)} \in SUBSET t /\ s \ {Pick(s)} # t
      BY <1>2, PickOne
    <3>2. J[s \ {Pick(s)}] = H(s \ {Pick(s)})[s \ {Pick(s)}]
      BY <1>5, <3>1
    <3> HIDE DEF H
    <3> QED BY <3>2
  <2>2. J = [s \in SUBSET t |-> IF s = {} THEN 0 ELSE g[Pick(s)] + J[s \ {Pick(s)}]]
    <3>1. J[{}] = 0
      OBVIOUS
    <3>2. DOMAIN J = SUBSET t /\ J = [s \in DOMAIN J |-> J[s]]
      OBVIOUS
    <3> HIDE DEF J
    <3> QED BY <2>1, <3>1, <3>2
  <2> HIDE DEF J
  <2> QED BY <2>2 DEF Sums
<1> QED BY <1>3, <1>6

LEMMA TotalIs ==
  ASSUME NEW g, NEW S, IsFiniteSet(S), NEW F, Sums(g, S, F), NEW T \in SUBSET S
  PROVE  F[T] = Total(g, T)
<1>1. IsFiniteSet(T)
  BY FS_Subset
<1>2. Sums(g, T, CHOOSE G : Sums(g, T, G))
  BY <1>1, SumsExist
<1> QED BY <1>1, <1>2, SumsAgree DEF Total

LEMMA TotalPicks ==
  ASSUME NEW g, NEW S, IsFiniteSet(S), S # {}
  PROVE  Total(g, S) = g[Pick(S)] + Total(g, S \ {Pick(S)})
<1>1. PICK F : Sums(g, S, F)
  BY SumsExist
<1>2. F[S] = g[Pick(S)] + F[S \ {Pick(S)}]
  BY <1>1 DEF Sums
<1>3. F[S] = Total(g, S)
  <2>1. S \in SUBSET S
    OBVIOUS
  <2> QED BY <1>1, <2>1, TotalIs
<1>4. F[S \ {Pick(S)}] = Total(g, S \ {Pick(S)})
  <2>1. S \ {Pick(S)} \in SUBSET S
    OBVIOUS
  <2> QED BY <1>1, <2>1, TotalIs
<1> QED BY <1>2, <1>3, <1>4

LEMMA TotalOfNothing == \A g : Total(g, {}) = 0
<1> TAKE g
<1>1. PICK F : Sums(g, {}, F)
  BY SumsExist, FS_EmptySet
<1>2. F[{}] = 0
  BY <1>1 DEF Sums
<1> QED BY <1>1, <1>2, TotalIs, FS_EmptySet

LEMMA TotalType ==
  ASSUME NEW g, NEW S, IsFiniteSet(S), \A x \in S : g[x] \in Nat
  PROVE  Total(g, S) \in Nat
<1> DEFINE B == {t \in SUBSET S : Total(g, t) \notin Nat}
<1>1. SUFFICES ASSUME B # {} PROVE FALSE
  OBVIOUS
<1>2. \A t \in SUBSET S : IsFiniteSet(t)
  BY FS_Subset
<1>3. PICK t \in B : \A u \in B : Cardinality(t) <= Cardinality(u)
  BY <1>1, <1>2, SmallestSet
<1>4. t # {} /\ IsFiniteSet(t)
  BY <1>2, <1>3, TotalOfNothing
<1> DEFINE u == t \ {Pick(t)}
<1>5. Pick(t) \in t /\ IsFiniteSet(u) /\ Cardinality(u) < Cardinality(t)
  BY <1>4, PickOne
<1>6. Cardinality(u) \in Nat /\ Cardinality(t) \in Nat
  BY <1>4, <1>5, FS_CardinalityType
<1>7. Total(g, u) \in Nat
  BY <1>3, <1>5, <1>6
<1>8. Total(g, t) = g[Pick(t)] + Total(g, u)
  BY <1>4, TotalPicks
<1> QED BY <1>3, <1>5, <1>7, <1>8

LEMMA TotalTakes ==
  ASSUME NEW g, NEW S, IsFiniteSet(S), \A x \in S : g[x] \in Nat, NEW x \in S
  PROVE  Total(g, S) = g[x] + Total(g, S \ {x})
<1> DEFINE Fair(t) == \A y \in t : Total(g, t) = g[y] + Total(g, t \ {y})
           B == {t \in SUBSET S : ~Fair(t)}
<1>1. SUFFICES ASSUME B # {} PROVE FALSE
  OBVIOUS
<1>2. \A t \in SUBSET S : IsFiniteSet(t)
  BY FS_Subset
<1>3. PICK t \in B : \A u \in B : Cardinality(t) <= Cardinality(u)
  BY <1>1, <1>2, SmallestSet
<1>4. PICK y \in t : Total(g, t) # g[y] + Total(g, t \ {y})
  BY <1>3
<1> DEFINE p == Pick(t)
<1>5. IsFiniteSet(t) /\ t # {} /\ p \in t
  BY <1>2, <1>3, <1>4, PickOne
<1>6. Total(g, t) = g[p] + Total(g, t \ {p})
  BY <1>5, TotalPicks
<1>7. \A z \in t : Fair(t \ {z})
  <2> SUFFICES ASSUME NEW z \in t PROVE t \ {z} \notin B
    BY <1>3
  <2>1. /\ Cardinality(t \ {z}) = Cardinality(t) - 1
        /\ Cardinality(t) \in Nat
    BY <1>5, FS_RemoveElement, FS_CardinalityType
  <2> QED BY <1>3, <2>1
<1> HIDE DEF p
<1>8. p # y
  BY <1>4, <1>6
<1>9. Total(g, t \ {p}) = g[y] + Total(g, (t \ {p}) \ {y})
  BY <1>4, <1>5, <1>7, <1>8
<1>10. Total(g, t \ {y}) = g[p] + Total(g, (t \ {y}) \ {p})
  BY <1>4, <1>5, <1>7, <1>8
<1>11. (t \ {y}) \ {p} = (t \ {p}) \ {y}
  OBVIOUS
<1>12. g[p] \in Nat /\ g[y] \in Nat /\ Total(g, (t \ {p}) \ {y}) \in Nat
  <2>1. (t \ {p}) \ {y} \in SUBSET S
    BY <1>3
  <2>2. IsFiniteSet((t \ {p}) \ {y})
    BY <1>2, <2>1
  <2>3. Total(g, (t \ {p}) \ {y}) \in Nat
    BY <2>1, <2>2, TotalType
  <2> QED BY <1>3, <1>4, <1>5, <2>3
<1> DEFINE rest == Total(g, (t \ {p}) \ {y})
<1>13. Total(g, t \ {p}) = g[y] + rest /\ Total(g, t \ {y}) = g[p] + rest
  BY <1>9, <1>10, <1>11
<1> HIDE DEF rest
<1>14. g[p] + (g[y] + rest) = g[y] + (g[p] + rest)
  BY <1>12 DEF rest
<1> QED BY <1>4, <1>6, <1>13, <1>14

LEMMA TotalAdds ==
  ASSUME NEW g, NEW S, IsFiniteSet(S), \A y \in S : g[y] \in Nat, NEW x, x \notin S, g[x] \in Nat
  PROVE  Total(g, S \cup {x}) = Total(g, S) + g[x]
<1>1. IsFiniteSet(S \cup {x}) /\ (S \cup {x}) \ {x} = S
  BY FS_AddElement
<1>2. Total(g, S) \in Nat
  BY TotalType
<1>3. Total(g, S \cup {x}) = g[x] + Total(g, S)
  BY <1>1, TotalTakes
<1> QED BY <1>2, <1>3

LEMMA TotalSame ==
  ASSUME NEW g, NEW h, NEW S, IsFiniteSet(S), \A x \in S : g[x] = h[x]
  PROVE  Total(g, S) = Total(h, S)
<1>1. PICK F : Sums(g, S, F)
  BY SumsExist
<1>2. \A s \in SUBSET S : s # {} => g[Pick(s)] = h[Pick(s)]
  BY DEF Pick
<1>3. Sums(h, S, F)
  <2>1. \A s \in SUBSET S : F[s] = IF s = {} THEN 0 ELSE h[Pick(s)] + F[s \ {Pick(s)}]
    BY <1>1, <1>2 DEF Sums
  <2>2. F = [s \in SUBSET S |-> F[s]]
    BY <1>1 DEF Sums
  <2> QED BY <2>1, <2>2 DEF Sums
<1> QED BY <1>1, <1>3, TotalIs

LEMMA TotalOfZeros ==
  ASSUME NEW g, NEW S, IsFiniteSet(S), \A x \in S : g[x] = 0
  PROVE  Total(g, S) = 0
<1> DEFINE B == {t \in SUBSET S : Total(g, t) # 0}
<1>1. SUFFICES ASSUME B # {} PROVE FALSE
  OBVIOUS
<1>2. \A t \in SUBSET S : IsFiniteSet(t)
  BY FS_Subset
<1>3. PICK t \in B : \A u \in B : Cardinality(t) <= Cardinality(u)
  BY <1>1, <1>2, SmallestSet
<1>4. t # {} /\ IsFiniteSet(t)
  BY <1>2, <1>3, TotalOfNothing
<1> DEFINE u == t \ {Pick(t)}
<1>5. Pick(t) \in t /\ IsFiniteSet(u) /\ Cardinality(u) < Cardinality(t)
  BY <1>4, PickOne
<1>6. Cardinality(u) \in Nat /\ Cardinality(t) \in Nat
  BY <1>4, <1>5, FS_CardinalityType
<1>7. Total(g, u) = 0
  BY <1>3, <1>5, <1>6
<1>8. Total(g, t) = g[Pick(t)] + Total(g, u)
  BY <1>4, TotalPicks
<1> QED BY <1>3, <1>5, <1>7, <1>8

LEMMA TotalSplits ==
  ASSUME NEW g, NEW S, IsFiniteSet(S), \A x \in S : g[x] \in Nat, NEW A \in SUBSET S
  PROVE  Total(g, S) = Total(g, A) + Total(g, S \ A)
<1> DEFINE B == {t \in SUBSET S : Total(g, S) # Total(g, t) + Total(g, S \ t)}
<1>1. SUFFICES ASSUME B # {} PROVE FALSE
  OBVIOUS
<1>2. \A t \in SUBSET S : IsFiniteSet(t) /\ Total(g, t) \in Nat
  <2> SUFFICES ASSUME NEW t \in SUBSET S PROVE IsFiniteSet(t) /\ Total(g, t) \in Nat
    OBVIOUS
  <2>1. IsFiniteSet(t)
    BY FS_Subset
  <2> QED BY <2>1, TotalType
<1>3. PICK t \in B : \A u \in B : Cardinality(t) <= Cardinality(u)
  BY <1>1, <1>2, SmallestSet
<1>4. t # {} /\ IsFiniteSet(t)
  <2>1. S \ {} = S /\ Total(g, S) \in Nat
    BY <1>2
  <2> QED BY <1>2, <1>3, <2>1, TotalOfNothing
<1> DEFINE p == Pick(t)
           u == t \ {p}
<1>5. p \in t /\ IsFiniteSet(u) /\ Cardinality(u) < Cardinality(t)
  BY <1>4, PickOne
<1>6. Cardinality(u) \in Nat /\ Cardinality(t) \in Nat
  BY <1>4, <1>5, FS_CardinalityType
<1> HIDE DEF p
<1>7. Total(g, S) = Total(g, u) + Total(g, S \ u)
  BY <1>3, <1>5, <1>6
<1>8. Total(g, t) = g[p] + Total(g, u)
  BY <1>3, <1>4, <1>5, TotalTakes
<1>9. Total(g, S \ u) = g[p] + Total(g, S \ t)
  <2>1. (S \ u) \ {p} = S \ t /\ S \ u \in SUBSET S /\ p \in S \ u
    BY <1>3, <1>5
  <2> QED BY <1>2, <2>1, TotalTakes
<1>10. g[p] \in Nat /\ Total(g, u) \in Nat /\ Total(g, S \ t) \in Nat
  BY <1>2, <1>3, <1>5
<1> QED BY <1>3, <1>7, <1>8, <1>9, <1>10

(* What the two sums of the log are                                         *)
LEMMA RemovedTotal ==
  ASSUME NEW S, IsFiniteSet(S)
  PROVE  MapThenSumSet(RemovedOf, S) = Total([e \in S |-> e.removed], S)
<1> DEFINE g == [e \in S |-> e.removed]
           P(F) == F = [s \in SUBSET S |-> IF s = {} THEN 0
                          ELSE RemovedOf(CHOOSE x \in s : TRUE) + F[s \ {CHOOSE x \in s : TRUE}]]
           I == CHOOSE F : P(F)
<1>1. MapThenSumSet(RemovedOf, S) = I[S]
  BY DEF MapThenSumSet, MapThenFoldSet
<1>2. \A s \in SUBSET S : s # {} => Pick(s) \in S /\ g[Pick(s)] = Pick(s).removed
  BY DEF Pick
<1>3. ASSUME NEW F PROVE P(F) <=> Sums(g, S, F)
  <2>1. [s \in SUBSET S |-> IF s = {} THEN 0
           ELSE RemovedOf(CHOOSE x \in s : TRUE) + F[s \ {CHOOSE x \in s : TRUE}]]
        = [s \in SUBSET S |-> IF s = {} THEN 0 ELSE g[Pick(s)] + F[s \ {Pick(s)}]]
    <3> HIDE DEF g
    <3> QED BY <1>2 DEF RemovedOf, Pick
  <2> HIDE DEF g
  <2> QED BY <2>1 DEF Sums
<1> HIDE DEF g, P
<1>4. \E F : P(F)
  BY <1>3, SumsExist
<1>5. P(I)
  BY <1>4
<1> QED BY <1>1, <1>3, <1>5, TotalIs DEF g

LEMMA StandsTotal ==
  ASSUME IsFiniteSet(Task)
  PROVE  MapThenSumSet(LAMBDA t : StandsOf(task[t]), Task) = Total([t \in Task |-> StandsOf(task[t])], Task)
<1> DEFINE g == [t \in Task |-> StandsOf(task[t])]
           P(F) == F = [s \in SUBSET Task |-> IF s = {} THEN 0
                          ELSE StandsOf(task[CHOOSE x \in s : TRUE]) + F[s \ {CHOOSE x \in s : TRUE}]]
           I == CHOOSE F : P(F)
<1>1. MapThenSumSet(LAMBDA t : StandsOf(task[t]), Task) = I[Task]
  BY DEF MapThenSumSet, MapThenFoldSet
<1>2. \A s \in SUBSET Task : s # {} => Pick(s) \in Task /\ g[Pick(s)] = StandsOf(task[Pick(s)])
  BY DEF Pick
<1>3. ASSUME NEW F PROVE P(F) <=> Sums(g, Task, F)
  <2>1. [s \in SUBSET Task |-> IF s = {} THEN 0
           ELSE StandsOf(task[CHOOSE x \in s : TRUE]) + F[s \ {CHOOSE x \in s : TRUE}]]
        = [s \in SUBSET Task |-> IF s = {} THEN 0 ELSE g[Pick(s)] + F[s \ {Pick(s)}]]
    <3> HIDE DEF g
    <3> QED BY <1>2 DEF Pick
  <2> HIDE DEF g
  <2> QED BY <2>1 DEF Sums
<1> HIDE DEF g, P
<1>4. \E F : P(F)
  BY <1>3, SumsExist
<1>5. P(I)
  BY <1>4
<1> QED BY <1>1, <1>3, <1>5, TotalIs DEF g

-----------------------------------------------------------------------------
(* What a step does to the table and to its history                         *)
TableRests == UNCHANGED <<seq, entries, gone, drops, torn>>

Adds(e) ==
  /\ seq < MaxSeq /\ seq' = seq + 1 /\ entries' = entries \cup {e}
  /\ UNCHANGED <<gone, drops, torn>>

Sweeps(lost) ==
  /\ FirstOfTheirChains(lost) /\ GiveUp(lost, lost)
  /\ UNCHANGED <<drops, torn>>

DropMark(u) ==
  Marker(seq + 1, LastHash(entries, Instance), u, Cardinality(Of(u)), Newest(Of(u)).seq)

Drops(u) ==
  /\ Of(u) # {} /\ seq < MaxSeq /\ seq' = seq + 1
  /\ entries' = (entries \ Of(u)) \cup {DropMark(u)}
  /\ gone' = [gone EXCEPT ![u] = @ + Cardinality(Of(u))]
  /\ drops' = drops + 1 /\ torn' = torn

TableSteps ==
  \/ TableRests
  \/ \E kind \in {"on", "off"} : Adds(NewRow(Instance, kind, 0, 0))
  \/ \E t \in Task : At(t, "append")
       /\ Adds(NewRow(task[t].chain, IF task[t].chain = Exchange THEN "refusal" ELSE "call",
                      task[t].at, task[t].stands))
  \/ \E lost \in SUBSET entries : Sweeps(lost)
  \/ \E u \in User : Drops(u)
  \/ \E e \in entries : Tear(e) \/ Alter(e)

LEMMA FirstIsThere ==
  ASSUME NEW C \in SUBSET Chain, C # {}
  PROVE  FirstByName(C) \in C
<1>1. \A c \in Chain : Rank[c] \in Nat
  BY AuditAssumption DEF AuditAssumption
<1>2. {Rank[c] : c \in C} \subseteq Nat /\ {Rank[c] : c \in C} # {}
  BY <1>1
<1>3. PICK x \in {Rank[c] : c \in C} : \A y \in {Rank[c] : c \in C} : ~(<<y, x>> \in OpToRel(<, Nat))
  BY <1>2, NatLessThanWellFounded, WFMin
<1>4. \A y \in {Rank[c] : c \in C} : x <= y
  <2>1. \A y \in {Rank[c] : c \in C} : ~(y < x) /\ y \in Nat /\ x \in Nat
    BY <1>2, <1>3 DEF OpToRel
  <2> QED BY <2>1
<1>5. \E c \in C : \A d \in C : Rank[c] <= Rank[d]
  BY <1>4
<1> QED BY <1>5 DEF FirstByName

LEMMA BatchesSweep ==
  ASSUME LinkInv, NEW t \in Task, ExpireBatch(t) \/ TrimBatch(t)
  PROVE  \E lost \in SUBSET entries : Sweeps(lost)
<1>0. SWEEP_BATCH_ROWS \in Nat /\ RETENTION_DAYS \in Nat
  BY AuditAssumption DEF AuditAssumption
<1>1. UNCHANGED <<drops, torn>>
  BY DEF ExpireBatch, TrimBatch
<1>2. ASSUME NEW E \in SUBSET Sweepable,
             \A d \in E, e \in entries : e.chain = d.chain /\ e.seq <= d.seq => e \in E,
             NEW batch, batch = FirstRows(E, SWEEP_BATCH_ROWS), batch # {},
             GiveUp(batch, UpTo(E, batch))
      PROVE  \E lost \in SUBSET entries : Sweeps(lost)
  <2>1. UpTo(E, batch) = batch /\ FirstOfTheirChains(batch)
    BY <1>0, <1>2, BatchIsLost DEF LinkInv
  <2>2. batch \in SUBSET entries
    BY <2>1 DEF FirstOfTheirChains, Sweepable
  <2> QED BY <1>1, <1>2, <2>1, <2>2 DEF Sweeps
<1>3. CASE ExpireBatch(t)
  <2> DEFINE E == ExpiredPrefix(task[t].moment - RETENTION_DAYS)
             batch == FirstRows(E, SWEEP_BATCH_ROWS)
  <2>1. task[t].moment - RETENTION_DAYS \in Int
    BY <1>0, <1>3 DEF ExpireBatch, At, LinkInv, TasksOK, JobOK
  <2>2. E \in SUBSET Sweepable /\ \A d \in E, e \in entries : e.chain = d.chain /\ e.seq <= d.seq => e \in E
    BY <2>1, ExpiredIsFirst
  <2>3. batch # {} /\ GiveUp(batch, UpTo(E, batch))
    BY <1>3 DEF ExpireBatch
  <2> HIDE DEF E
  <2> QED BY <1>2, <2>2, <2>3
<1>4. CASE TrimBatch(t)
  <2> DEFINE batch == FirstRows(Sweepable, SWEEP_BATCH_ROWS)
  <2>1. \A d \in Sweepable, e \in entries : e.chain = d.chain /\ e.seq <= d.seq => e \in Sweepable
    BY DEF Sweepable
  <2>2. batch # {} /\ GiveUp(batch, UpTo(Sweepable, batch))
    BY <1>4 DEF TrimBatch
  <2> QED BY <1>2, <2>1, <2>2
<1> QED BY <1>3, <1>4

LEMMA StepsOfTheTable ==
  ASSUME LinkInv, [Next]_vars
  PROVE  TableSteps
<1> USE DEF table, history
<1>1. ASSUME NEW t \in Task, Boot(t) PROVE TableSteps
  <2>1. task[t].then \in {"on", "off"}
    BY <1>1 DEF Boot, At, LinkInv, TasksOK, JobOK
  <2>2. TableRests \/ Adds(NewRow(Instance, task[t].then, 0, 0))
    BY <1>1 DEF Boot, TableRests, Adds
  <2> QED BY <2>1, <2>2 DEF TableSteps
<1>2. ASSUME NEW t \in Task, Append(t) PROVE TableSteps
  BY <1>2 DEF Append, Adds, TableSteps
<1>3. ASSUME NEW t \in Task, ExpireBatch(t) \/ TrimBatch(t) PROVE TableSteps
  BY <1>3, BatchesSweep DEF TableSteps
<1>4. ASSUME NEW t \in Task, DropUserChain(t) PROVE TableSteps
  <2> DEFINE todo == task[t].todo
  <2>1. todo \in SUBSET User /\ User \subseteq Chain
    BY <1>4 DEF DropUserChain, At, LinkInv, TasksOK, JobOK, Chain
  <2>2. CASE todo = {}
    BY <1>4, <2>2 DEF DropUserChain, TableRests, TableSteps
  <2>3. CASE todo # {}
    <3>1. FirstByName(todo) \in User
      BY <2>1, <2>3, FirstIsThere
    <3>2. TableRests \/ Drops(FirstByName(todo))
      BY <1>4, <2>3 DEF DropUserChain, TableRests, Drops, DropMark
    <3> QED BY <3>1, <3>2 DEF TableSteps
  <2> QED BY <2>2, <2>3
<1>5. ASSUME NEW t \in Task,
             \/ \E setting \in {"on", "off"} : Start(t, setting)
             \/ \E u \in User : Note(t, u)
             \/ NoteRefusal(t) \/ ReadGaps(t) \/ ExpireEnd(t) \/ Measure(t) \/ TrimEnd(t)
             \/ \E read \in BOOLEAN : ReadAccounts(t, read)
             \/ ReadSilent(t) \/ ListChains(t) \/ WalkChain(t) \/ Report(t) \/ Fail(t)
      PROVE  TableSteps
  <2>1. TableRests
    BY <1>5 DEF TableRests, Start, Note, NoteRefusal, ReadGaps, ExpireEnd, Measure, TrimEnd,
                ReadAccounts, ReadSilent, ListChains, WalkChain, Report, Fail
  <2> QED BY <2>1 DEF TableSteps
<1>6. ASSUME Crash \/ Clock \/ (\E u \in User : Administrate(u)) \/ UNCHANGED vars PROVE TableSteps
  <2>1. TableRests
    BY <1>6 DEF TableRests, Crash, Clock, Administrate, vars
  <2> QED BY <2>1 DEF TableSteps
<1>7. ASSUME NEW e \in entries, Tear(e) \/ Alter(e) PROVE TableSteps
  BY <1>7 DEF TableSteps
<1> QED BY <1>1, <1>2, <1>3, <1>4, <1>5, <1>6, <1>7 DEF Next, Work

(* What a batch leaves: the rows it did not take, without the markers at    *)
(* the end of the register, and one marker for each chain those named or    *)
(* the batch is of.                                                         *)
Kept(lost) == (entries \ lost) \ TrailingRun(entries)
NamedBy(lost) == Named(lost, TrailingRun(entries))
MarkBy(lost, c) == NewMark(Kept(lost), lost, TrailingRun(entries), c)

LEMMA SweepLeaves ==
  ASSUME LinkInv, NEW lost \in SUBSET entries, Sweeps(lost)
  PROVE  /\ entries' = Kept(lost) \cup {MarkBy(lost, c) : c \in NamedBy(lost)}
         /\ seq' \in Nat /\ seq <= seq' /\ seq' <= MaxSeq
         /\ Sweepable' = Sweepable \ lost
         /\ TrailingRun(entries) \in SUBSET Tombstones
         /\ TrailingRun(entries) \cap lost = {}
         /\ NamedBy(lost) \in SUBSET (Chain \ {Instance})
         /\ \A c \in NamedBy(lost) :
              /\ Place(NamedBy(lost), c) \in Nat \ {0}
              /\ MarkBy(lost, c).seq = seq + Place(NamedBy(lost), c)
              /\ MarkBy(lost, c).seq <= seq'
              /\ MarkBy(lost, c) = Marker(seq + Place(NamedBy(lost), c),
                   IF Place(NamedBy(lost), c) = 1 THEN LastHash(Kept(lost), Instance)
                   ELSE seq + Place(NamedBy(lost), c) - 1,
                   c, CountOf(c, lost, TrailingRun(entries)), EndOf(c, lost, TrailingRun(entries)))
<1> DEFINE A == WithMarkers(entries \ lost, lost)
           run == TrailingRun(entries)
           D == NamedBy(lost)
<1>1. seq \in Nat /\ RowsOK(entries, seq) /\ FirstOfTheirChains(lost)
  BY DEF LinkInv, Sweeps
<1>2. \A d \in lost : d \in entries /\ d.chain # Instance /\ d.chain \in Chain
  BY <1>1 DEF FirstOfTheirChains, Sweepable, RowsOK
<1>3. TrailingRun(entries \ lost) = run
  BY <1>2 DEF TrailingRun
<1>4. run \in SUBSET Tombstones /\ run \cap lost = {}
  BY <1>2 DEF TrailingRun, Tombstones, Of
<1>5. D \in SUBSET (Chain \ {Instance})
  <2>1. \A m \in run : m.gap \in Chain \ {Instance}
    BY <1>1, <1>4 DEF Tombstones, Of, RowsOK
  <2> HIDE DEF run
  <2> QED BY <1>2, <2>1 DEF NamedBy, Named, run
<1>6. entries' = A /\ seq' = Newest(A).seq /\ Newest(A).seq <= MaxSeq
  BY DEF Sweeps, GiveUp
<1>7. A = Kept(lost) \cup {MarkBy(lost, c) : c \in D}
  BY <1>3, MarkersForIs DEF WithMarkers, Kept, MarkBy, NamedBy
<1>8. /\ Newest(A).seq \in Nat /\ Newest(A).seq >= seq /\ RowsOK(A, Newest(A).seq)
      /\ {e \in A : e.chain # Instance} = Sweepable \ lost
  BY <1>1, BatchFits
<1> HIDE DEF A
<1>9. Sweepable' = Sweepable \ lost
  BY <1>6, <1>8 DEF Sweepable
<1>10. seq' \in Nat /\ seq <= seq' /\ seq' <= MaxSeq
  BY <1>1, <1>6, <1>8
<1>11. ASSUME NEW c \in D
       PROVE  /\ Place(D, c) \in Nat \ {0}
              /\ MarkBy(lost, c).seq = seq + Place(D, c)
              /\ MarkBy(lost, c).seq <= seq'
              /\ MarkBy(lost, c) = Marker(seq + Place(D, c),
                   IF Place(D, c) = 1 THEN LastHash(Kept(lost), Instance) ELSE seq + Place(D, c) - 1,
                   c, CountOf(c, lost, run), EndOf(c, lost, run))
  <2>1. Place(D, c) \in Nat \ {0}
    <3>1. D \in SUBSET Chain
      BY <1>5
    <3> HIDE DEF D
    <3> QED BY <3>1, PlacesFollow
  <2>2. MarkBy(lost, c) = Marker(seq + Place(D, c),
                   IF Place(D, c) = 1 THEN LastHash(Kept(lost), Instance) ELSE seq + Place(D, c) - 1,
                   c, CountOf(c, lost, run), EndOf(c, lost, run))
    BY DEF MarkBy, NewMark, NamedBy
  <2>3. MarkBy(lost, c).seq = seq + Place(D, c)
    BY <2>2 DEF Marker
  <2>4. MarkBy(lost, c) \in A
    BY <1>7
  <2>5. MarkBy(lost, c).seq <= seq'
    BY <1>6, <1>8, <2>4 DEF RowsOK
  <2> QED BY <2>1, <2>2, <2>3, <2>5
<1> QED BY <1>4, <1>5, <1>6, <1>7, <1>9, <1>10, <1>11

-----------------------------------------------------------------------------
(* The rows have their types, and what the statements find is of them.      *)
RowInv ==
  /\ seq \in 0..MaxSeq
  /\ entries \subseteq Row
  /\ \A e \in entries : e.chain = Instance <=> e.kind \in {"on", "off", "tombstone"}
  /\ \A e \in entries : e.kind = "tombstone" => e.end # Genesis

(* Tasks that trim have a round left                                        *)
Jobs == {j \in Job : j.step = "trim" => j.round < SWEEP_MAX_ROUNDS}
JobsInv == task \in [Task -> Jobs]

LEMMA BoundsAreNumbers ==
  /\ MaxSeq \in Nat /\ MaxClock \in Nat /\ MaxSwallowed \in Nat /\ SWEEP_MAX_ROUNDS \in Nat
  /\ Instance \in Chain /\ Exchange \in Chain \ {Instance} /\ User \subseteq Chain \ {Instance}
BY AuditAssumption DEF AuditAssumption, Chain

LEMMA NewestOf ==
  ASSUME LinkInv, NEW T \in SUBSET entries, T # {}
  PROVE  Newest(T) \in T /\ \A d \in T : d.seq <= Newest(T).seq
BY NewestIs DEF LinkInv

LEMMA LastHashType ==
  ASSUME LinkInv, RowInv, NEW T \in SUBSET entries, NEW c
  PROVE  LastHash(T, c) \in 0..MaxSeq
<1> DEFINE rows == {e \in T : e.chain = c}
<1>1. CASE rows = {}
  BY <1>1, BoundsAreNumbers DEF LastHash, Genesis
<1>2. CASE rows # {}
  <2>1. Newest(rows) \in entries
    BY <1>2, NewestOf
  <2>2. Newest(rows).seq \in 1..MaxSeq
    BY <2>1 DEF RowInv, Row
  <2> QED BY <1>2, <2>2, BoundsAreNumbers DEF LastHash
<1> QED BY <1>1, <1>2

LEMMA NewRowType ==
  ASSUME LinkInv, RowInv, seq < MaxSeq, NEW c \in Chain,
         NEW kind \in {"call", "refusal", "on", "off"}, NEW at \in 0..MaxClock, NEW stands \in Nat
  PROVE  NewRow(c, kind, at, stands) \in Row
<1>1. LastHash(entries, c) \in 0..MaxSeq
  BY LastHashType
<1>2. seq + 1 \in 1..MaxSeq
  BY BoundsAreNumbers DEF RowInv
<1> QED BY <1>1, <1>2, BoundsAreNumbers DEF NewRow, Row, Genesis

LEMMA MarkerType ==
  ASSUME NEW number \in 1..MaxSeq, NEW prev \in 0..MaxSeq, NEW c \in Chain, NEW count \in Nat,
         NEW end \in 1..MaxSeq
  PROVE  /\ Marker(number, prev, c, count, end) \in Row
         /\ Marker(number, prev, c, count, end).chain = Instance
         /\ Marker(number, prev, c, count, end).kind = "tombstone"
         /\ Marker(number, prev, c, count, end).end # Genesis
<1>1. end \in 0..MaxSeq /\ 0 \in 0..MaxClock
  BY BoundsAreNumbers
<1>2. Marker(number, prev, c, count, end) \in Row
  BY <1>1, BoundsAreNumbers DEF Marker, Row
<1> QED BY <1>2, BoundsAreNumbers DEF Marker, Genesis

LEMMA AlteredRow ==
  ASSUME NEW e \in Row
  PROVE  LET a == [e EXCEPT !.whole = FALSE] IN
         /\ a \in Row /\ a.seq = e.seq /\ a.chain = e.chain /\ a.kind = e.kind /\ a.gap = e.gap
         /\ a.end = e.end /\ a.removed = e.removed
BY DEF Row

RemovedIn(S) == MapThenSumSet(RemovedOf, S)

LEMMA RemovedInType ==
  ASSUME NEW S, IsFiniteSet(S), \A e \in S : e.removed \in Nat
  PROVE  RemovedIn(S) \in Nat
<1> DEFINE g == [e \in S |-> e.removed]
<1>1. \A e \in S : g[e] \in Nat
  OBVIOUS
<1>2. RemovedIn(S) = Total(g, S)
  BY RemovedTotal DEF RemovedIn
<1> HIDE DEF g
<1> QED BY <1>1, <1>2, TotalType

LEMMA SubsetsAreFinite ==
  ASSUME LinkInv, RowInv, NEW T \in SUBSET entries
  PROVE  /\ IsFiniteSet(T) /\ Cardinality(T) \in Nat
         /\ \A e \in T : e.removed \in Nat
         /\ RemovedIn(T) \in Nat
<1>1. IsFiniteSet(T) /\ Cardinality(T) \in Nat
  BY FS_Subset, FS_CardinalityType DEF LinkInv, RowsOK
<1>2. \A e \in T : e.removed \in Nat
  BY DEF RowInv, Row
<1> QED BY <1>1, <1>2, RemovedInType

LEMMA MarkIsRow ==
  ASSUME LinkInv, RowInv, NEW lost \in SUBSET entries, Sweeps(lost), NEW c \in NamedBy(lost)
  PROVE  /\ MarkBy(lost, c) \in Row /\ MarkBy(lost, c).chain = Instance
         /\ MarkBy(lost, c).kind = "tombstone" /\ MarkBy(lost, c).end # Genesis
         /\ MarkBy(lost, c).gap = c /\ MarkBy(lost, c).seq > seq
         /\ MarkBy(lost, c).removed =
              Cardinality({e \in lost : e.chain = c})
                + RemovedIn({m \in TrailingRun(entries) : m.gap = c})
<1> DEFINE run == TrailingRun(entries)
           p == Place(NamedBy(lost), c)
           mine == {e \in lost : e.chain = c}
           marks == {m \in run : m.gap = c}
           prev == IF p = 1 THEN LastHash(Kept(lost), Instance) ELSE seq + p - 1
<1>1. /\ run \in SUBSET Tombstones /\ NamedBy(lost) \in SUBSET (Chain \ {Instance})
      /\ p \in Nat \ {0} /\ MarkBy(lost, c).seq = seq + p /\ MarkBy(lost, c).seq <= seq'
      /\ seq' <= MaxSeq /\ seq' \in Nat
      /\ MarkBy(lost, c) = Marker(seq + p, prev, c, CountOf(c, lost, run), EndOf(c, lost, run))
  BY SweepLeaves
<1>2. mine \in SUBSET entries /\ marks \in SUBSET entries /\ \A m \in marks : m.kind = "tombstone"
  BY <1>1 DEF Tombstones, Of
<1>3. CountOf(c, lost, run) = Cardinality(mine) + RemovedIn(marks)
  BY DEF CountOf, RemovedIn
<1>4. CountOf(c, lost, run) \in Nat
  BY <1>2, <1>3, SubsetsAreFinite
<1>5. EndOf(c, lost, run) \in 1..MaxSeq
  <2>1. CASE mine # {}
    <3>1. Newest(mine) \in entries
      BY <1>2, <2>1, NewestOf
    <3> QED BY <2>1, <3>1 DEF EndOf, RowInv, Row
  <2>2. CASE mine = {}
    <3>1. marks # {}
      BY <2>2 DEF NamedBy, Named
    <3>2. Newest(marks) \in entries /\ Newest(marks) \in marks
      BY <1>2, <3>1, NewestOf
    <3>3. Newest(marks).end \in 0..MaxSeq /\ Newest(marks).end # Genesis
      BY <1>2, <3>2 DEF RowInv, Row
    <3>4. EndOf(c, lost, run) = Newest(marks).end
      BY <2>2 DEF EndOf
    <3> QED BY <3>3, <3>4, BoundsAreNumbers DEF Genesis
  <2> QED BY <2>1, <2>2
<1>6. prev \in 0..MaxSeq
  <2>1. LastHash(Kept(lost), Instance) \in 0..MaxSeq
    <3>1. Kept(lost) \in SUBSET entries
      BY DEF Kept
    <3> QED BY <3>1, LastHashType
  <2>2. p # 1 => seq + p - 1 \in 0..MaxSeq
    BY <1>1, BoundsAreNumbers DEF RowInv
  <2> QED BY <2>1, <2>2
<1>7. seq + p \in 1..MaxSeq /\ seq + p > seq /\ c \in Chain
  BY <1>1, BoundsAreNumbers DEF RowInv
<1>8. MarkBy(lost, c).gap = c /\ MarkBy(lost, c).removed = CountOf(c, lost, run)
  BY <1>1 DEF Marker
<1> HIDE DEF prev, p, run, mine, marks
<1>9. /\ MarkBy(lost, c) \in Row /\ MarkBy(lost, c).chain = Instance
      /\ MarkBy(lost, c).kind = "tombstone" /\ MarkBy(lost, c).end # Genesis
  BY SMTT(40), <1>1, <1>4, <1>5, <1>6, <1>7, MarkerType
<1>10. MarkBy(lost, c).seq > seq
  BY <1>1, <1>7
<1> QED BY <1>3, <1>8, <1>9, <1>10 DEF run, mine, marks

LEMMA DropMarkIsRow ==
  ASSUME LinkInv, RowInv, NEW u \in User, Drops(u)
  PROVE  /\ DropMark(u) \in Row /\ DropMark(u).chain = Instance /\ DropMark(u).kind = "tombstone"
         /\ DropMark(u).end # Genesis /\ DropMark(u).gap = u /\ DropMark(u).seq = seq + 1
         /\ DropMark(u).removed = Cardinality(Of(u))
<1>1. Of(u) \in SUBSET entries /\ Of(u) # {}
  BY DEF Of, Drops
<1>2. Newest(Of(u)) \in entries
  BY <1>1, NewestOf
<1>3. Newest(Of(u)).seq \in 1..MaxSeq
  BY <1>2 DEF RowInv, Row
<1>4. LastHash(entries, Instance) \in 0..MaxSeq
  BY LastHashType
<1>5. Cardinality(Of(u)) \in Nat
  BY <1>1, SubsetsAreFinite
<1>6. seq + 1 \in 1..MaxSeq /\ u \in Chain
  BY BoundsAreNumbers DEF RowInv, Drops
<1>7. /\ DropMark(u) \in Row /\ DropMark(u).chain = Instance /\ DropMark(u).kind = "tombstone"
      /\ DropMark(u).end # Genesis
  BY <1>3, <1>4, <1>5, <1>6, MarkerType DEF DropMark
<1> QED BY <1>7 DEF DropMark, Marker

LEMMA RowsStay ==
  ASSUME LinkInv, RowInv, JobsInv, [Next]_vars
  PROVE  RowInv'
<1>1. CASE TableRests
  BY <1>1 DEF TableRests, RowInv
<1>2. ASSUME NEW c \in Chain, NEW kind \in {"call", "refusal", "on", "off"},
             NEW at \in 0..MaxClock, NEW stands \in Nat, Adds(NewRow(c, kind, at, stands)),
             c = Instance <=> kind \in {"on", "off"}
      PROVE  RowInv'
  <2> DEFINE e == NewRow(c, kind, at, stands)
  <2>1. e \in Row
    BY <1>2, NewRowType DEF Adds
  <2>2. e.chain = c /\ e.kind = kind
    BY DEF NewRow
  <2> HIDE DEF e
  <2>3. entries' = entries \cup {e} /\ seq' \in 0..MaxSeq
    BY <1>2, BoundsAreNumbers DEF Adds, RowInv, e
  <2> QED BY <1>2, <2>1, <2>2, <2>3 DEF RowInv
<1>3. ASSUME NEW kind \in {"on", "off"}, Adds(NewRow(Instance, kind, 0, 0)) PROVE RowInv'
  <2>1. 0 \in 0..MaxClock /\ 0 \in Nat
    BY BoundsAreNumbers
  <2> QED BY <1>2, <1>3, <2>1, BoundsAreNumbers
<1>4. ASSUME NEW t \in Task, At(t, "append"),
             Adds(NewRow(task[t].chain, IF task[t].chain = Exchange THEN "refusal" ELSE "call",
                         task[t].at, task[t].stands))
      PROVE  RowInv'
  <2>1. task[t] \in [step: {"append"}, chain: Chain \ {Instance}, at: 0..MaxClock, stands: Nat]
    BY <1>4 DEF JobsInv, Jobs, Job, At, Idle
  <2>2. /\ task[t].chain \in Chain /\ task[t].chain # Instance /\ task[t].at \in 0..MaxClock
        /\ task[t].stands \in Nat
    BY <2>1
  <2>3. (IF task[t].chain = Exchange THEN "refusal" ELSE "call") \in {"call", "refusal"}
    OBVIOUS
  <2> QED BY <1>2, <1>4, <2>2, <2>3
<1>5. ASSUME NEW lost \in SUBSET entries, Sweeps(lost) PROVE RowInv'
  <2>1. /\ entries' = Kept(lost) \cup {MarkBy(lost, c) : c \in NamedBy(lost)}
        /\ seq' \in Nat /\ seq' <= MaxSeq
    BY <1>5, SweepLeaves
  <2>2. \A c \in NamedBy(lost) :
           /\ MarkBy(lost, c) \in Row /\ MarkBy(lost, c).chain = Instance
           /\ MarkBy(lost, c).kind = "tombstone" /\ MarkBy(lost, c).end # Genesis
    BY <1>5, MarkIsRow
  <2>3. Kept(lost) \subseteq entries
    BY DEF Kept
  <2> QED BY <2>1, <2>2, <2>3, BoundsAreNumbers DEF RowInv
<1>6. ASSUME NEW u \in User, Drops(u) PROVE RowInv'
  <2>1. /\ DropMark(u) \in Row /\ DropMark(u).chain = Instance /\ DropMark(u).kind = "tombstone"
        /\ DropMark(u).end # Genesis
    BY <1>6, DropMarkIsRow
  <2>2. entries' = (entries \ Of(u)) \cup {DropMark(u)} /\ seq' \in 0..MaxSeq
    BY <1>6, BoundsAreNumbers DEF Drops, RowInv
  <2> QED BY <2>1, <2>2 DEF RowInv
<1>7. ASSUME NEW e \in entries, Tear(e) PROVE RowInv'
  BY <1>7 DEF Tear, RowInv
<1>8. ASSUME NEW e \in entries, Alter(e) PROVE RowInv'
  <2> DEFINE a == [e EXCEPT !.whole = FALSE]
  <2>1. e \in Row
    BY DEF RowInv
  <2>2. a \in Row /\ a.chain = e.chain /\ a.kind = e.kind /\ a.end = e.end
    BY <2>1, AlteredRow
  <2>3. entries' = (entries \ {e}) \cup {a} /\ seq' = seq
    BY <1>8 DEF Alter
  <2> HIDE DEF a
  <2> QED BY <2>2, <2>3 DEF RowInv
<1> QED BY <1>1, <1>3, <1>4, <1>5, <1>6, <1>7, <1>8, StepsOfTheTable DEF TableSteps

-----------------------------------------------------------------------------
(* What tasks carry, and the variables beside the table                     *)
BesidesInv ==
  /\ offered \in Scenario
  /\ clock \in 0..MaxClock
  /\ known \subseteq User
  /\ log \in {"down", "starting", "on", "off"}
  /\ window \in {NoWindow} \cup [opened: 0..MaxClock, swallowed: 0..MaxSwallowed]
  /\ drops \in Nat
  /\ torn \subseteq 1..MaxSeq

LEMMA JobForms ==
  ASSUME NEW j \in Job
  PROVE  /\ j.step \in {"idle", "boot", "append", "expire", "measure", "trim", "accounts", "silent",
                        "drop", "list", "walk"}
         /\ j.step = "idle" => j = Idle
         /\ j.step = "boot" => j \in [step: {"boot"}, then: {"on", "off"}]
         /\ j.step = "append" =>
              j \in [step: {"append"}, chain: Chain \ {Instance}, at: 0..MaxClock, stands: Nat]
         /\ j.step = "expire" => j \in [step: {"expire"}, moment: 0..MaxClock, then: Then]
         /\ j.step \in {"measure", "trim"} =>
              j \in [step: {"measure", "trim"}, moment: 0..MaxClock, then: Then,
                     round: 0..SWEEP_MAX_ROUNDS]
         /\ j.step = "accounts" => j \in [step: {"accounts"}, moment: 0..MaxClock]
         /\ j.step = "silent" => j \in [step: {"silent"}, moment: 0..MaxClock, known: SUBSET User]
         /\ j.step = "drop" => j \in [step: {"drop"}, moment: 0..MaxClock, todo: SUBSET User]
         /\ j.step = "list" => j \in [step: {"list"}, gaps: Gaps, hurt: SUBSET (1..MaxSeq)]
         /\ j.step = "walk" =>
              j \in [step: {"walk"}, gaps: Gaps, hurt: SUBSET (1..MaxSeq), todo: SUBSET Chain,
                     found: SUBSET Chain]
BY DEF Job, Idle

LEMMA IdleIsJob == Idle \in Jobs
BY DEF Idle, Jobs, Job

LEMMA JobsBecome ==
  ASSUME JobsInv, NEW t \in Task, NEW j \in Jobs, Become(t, j)
  PROVE  JobsInv'
BY DEF JobsInv, Become

LEMMA SweepJobs ==
  ASSUME NEW moment \in 0..MaxClock, NEW then \in Then
  PROVE  /\ [step |-> "expire", moment |-> moment, then |-> then] \in Jobs
         /\ [step |-> "measure", moment |-> moment, then |-> then, round |-> 0] \in Jobs
         /\ [step |-> "accounts", moment |-> moment] \in Jobs
BY BoundsAreNumbers DEF Jobs, Job

LEMMA Finishes ==
  ASSUME JobsInv, BesidesInv, NEW t \in Task, NEW then \in Then, NEW moment \in 0..MaxClock,
         Finish(t, then, moment)
  PROVE  JobsInv' /\ log' \in {"down", "starting", "on", "off"}
<1>1. [step |-> "accounts", moment |-> moment] \in Jobs /\ Idle \in Jobs
  BY SweepJobs, IdleIsJob
<1>2. JobsInv'
  BY <1>1, JobsBecome DEF Finish
<1> QED BY <1>2 DEF Finish, BesidesInv

LEMMA JobsStay ==
  ASSUME LinkInv, RowInv, JobsInv, BesidesInv, [Next]_vars
  PROVE  JobsInv' /\ log' \in {"down", "starting", "on", "off"}
<1> DEFINE Goal == JobsInv' /\ log' \in {"down", "starting", "on", "off"}
<1>0. log \in {"down", "starting", "on", "off"} /\ clock \in 0..MaxClock
  BY DEF BesidesInv
<1>1. ASSUME NEW t \in Task, NEW j \in Jobs, Become(t, j), log' = log PROVE Goal
  BY <1>0, <1>1, JobsBecome
<1>2. ASSUME UNCHANGED <<task, log>> PROVE Goal
  BY <1>0, <1>2 DEF JobsInv
<1>3. \A t \in Task : task[t] \in Jobs /\ task[t] \in Job
  BY DEF JobsInv, Jobs
<1> USE DEF table, history
<1>4. ASSUME NEW t \in Task, NEW setting \in {"on", "off"}, Start(t, setting) PROVE Goal
  <2>1. [step |-> "boot", then |-> setting] \in Jobs
    BY DEF Jobs, Job
  <2>2. JobsInv'
    BY <1>4, <2>1, JobsBecome DEF Start
  <2> QED BY <1>4, <2>2 DEF Start
<1>5. ASSUME NEW t \in Task, Boot(t) PROVE Goal
  <2>1. task[t].then \in {"on", "off"} /\ task[t].then \in Then
    BY <1>3, <1>5, JobForms DEF Boot, At, Then
  <2>2. [step |-> "expire", moment |-> clock, then |-> task[t].then] \in Jobs
    BY <1>0, <2>1, SweepJobs
  <2>3. CASE Finish(t, task[t].then, clock)
    BY <1>0, <2>1, <2>3, Finishes
  <2> QED BY <1>1, <1>5, <2>2, <2>3 DEF Boot
<1>6. ASSUME NEW t \in Task, NEW u \in User, Note(t, u) PROVE Goal
  <2>1. [step |-> "append", chain |-> u, at |-> clock, stands |-> 0] \in Jobs
    BY <1>0, BoundsAreNumbers DEF Jobs, Job
  <2> QED BY <1>1, <1>6, <2>1 DEF Note
<1>7. ASSUME NEW t \in Task, NoteRefusal(t) PROVE Goal
  <2>1. StandsFor \in Nat
    BY BoundsAreNumbers DEF StandsFor, BesidesInv, NoWindow
  <2>2. [step |-> "append", chain |-> Exchange, at |-> clock, stands |-> StandsFor] \in Jobs
    BY <1>0, <2>1, BoundsAreNumbers DEF Jobs, Job
  <2>3. /\ log' = log
        /\ \/ UNCHANGED task
           \/ Become(t, [step |-> "append", chain |-> Exchange, at |-> clock, stands |-> StandsFor])
    BY <1>7 DEF NoteRefusal
  <2> QED BY <1>1, <1>2, <2>2, <2>3
<1>8. ASSUME NEW t \in Task, Append(t) PROVE Goal
  <2>1. task[t].at \in 0..MaxClock
    BY <1>3, <1>8, JobForms DEF Append, At
  <2> DEFINE j == task[t]
             refusal == j.chain = Exchange
             moment == IF refusal THEN j.at ELSE clock
             then == IF ~refusal /\ (seq + 1) % (SWEEP_EVERY * SWEEP_USER_CHECK_EVERY) = 0
                     THEN "accounts" ELSE "done"
  <2>2. moment \in 0..MaxClock /\ then \in Then
    BY <1>0, <2>1 DEF Then
  <2>3. /\ log' = log
        /\ Become(t, Idle) \/ Become(t, [step |-> "expire", moment |-> moment, then |-> then])
    BY <1>8 DEF Append
  <2> HIDE DEF moment, then
  <2>4. [step |-> "expire", moment |-> moment, then |-> then] \in Jobs
    BY <2>2, SweepJobs
  <2> QED BY <1>1, <2>3, <2>4, IdleIsJob
<1>9. ASSUME (\E t \in Task : ExpireBatch(t)) \/ (\E u \in User : Administrate(u)) \/ Clock
             \/ UNCHANGED vars \/ \E e \in entries : Tear(e) \/ Alter(e)
      PROVE  Goal
  BY <1>2, <1>9 DEF ExpireBatch, Administrate, Clock, Tear, Alter, vars
<1>10. ASSUME NEW t \in Task, ExpireEnd(t) PROVE Goal
  <2>1. task[t].moment \in 0..MaxClock /\ task[t].then \in Then
    BY <1>3, <1>10, JobForms DEF ExpireEnd, At
  <2> QED BY <1>1, <1>10, <2>1, SweepJobs DEF ExpireEnd
<1>11. ASSUME NEW t \in Task, Measure(t) PROVE Goal
  <2>1. /\ task[t] \in [step: {"measure", "trim"}, moment: 0..MaxClock, then: Then,
                        round: 0..SWEEP_MAX_ROUNDS]
        /\ task[t].step = "measure"
    BY <1>3, <1>11, JobForms DEF Measure, At
  <2>2. task[t].round < SWEEP_MAX_ROUNDS => [task[t] EXCEPT !.step = "trim"] \in Jobs
    BY <2>1 DEF Jobs, Job
  <2>3. CASE Finish(t, task[t].then, task[t].moment)
    BY <2>1, <2>3, Finishes
  <2> QED BY <1>1, <1>11, <2>2, <2>3 DEF Measure
<1>12. ASSUME NEW t \in Task, TrimBatch(t) PROVE Goal
  <2>1. /\ task[t] \in [step: {"measure", "trim"}, moment: 0..MaxClock, then: Then,
                        round: 0..SWEEP_MAX_ROUNDS]
        /\ task[t].round < SWEEP_MAX_ROUNDS
    BY <1>3, <1>12, JobForms DEF TrimBatch, At, Jobs
  <2>2. task[t].round + 1 \in 0..SWEEP_MAX_ROUNDS
    BY <2>1, BoundsAreNumbers
  <2>3. [task[t] EXCEPT !.step = "measure", !.round = task[t].round + 1]
          \in [step: {"measure", "trim"}, moment: 0..MaxClock, then: Then, round: 0..SWEEP_MAX_ROUNDS]
        /\ [task[t] EXCEPT !.step = "measure", !.round = task[t].round + 1].step = "measure"
    BY <2>1, <2>2
  <2>4. [task[t] EXCEPT !.step = "measure", !.round = task[t].round + 1] \in Jobs
    BY <2>3 DEF Jobs, Job
  <2> QED BY <1>1, <1>12, <2>4 DEF TrimBatch
<1>13. ASSUME NEW t \in Task, TrimEnd(t) PROVE Goal
  <2>1. task[t].moment \in 0..MaxClock /\ task[t].then \in Then
    BY <1>3, <1>13, JobForms DEF TrimEnd, At
  <2> QED BY <1>13, <2>1, Finishes DEF TrimEnd
<1>14. ASSUME NEW t \in Task, NEW read \in BOOLEAN, ReadAccounts(t, read) PROVE Goal
  <2>1. task[t].moment \in 0..MaxClock
    BY <1>3, <1>14, JobForms DEF ReadAccounts, At
  <2>2. [step |-> "silent", moment |-> task[t].moment, known |-> known] \in Jobs
    BY <2>1 DEF Jobs, Job, BesidesInv
  <2> QED BY <1>1, <1>14, <2>2, IdleIsJob DEF ReadAccounts
<1>15. ASSUME NEW t \in Task, ReadSilent(t) PROVE Goal
  <2>1. task[t].moment \in 0..MaxClock
    BY <1>3, <1>15, JobForms DEF ReadSilent, At
  <2>2. SilentUsers(task[t].moment) \ task[t].known \in SUBSET User
    BY DEF SilentUsers
  <2>3. [step |-> "drop", moment |-> task[t].moment,
         todo |-> SilentUsers(task[t].moment) \ task[t].known] \in Jobs
    BY <2>1, <2>2 DEF Jobs, Job
  <2> QED BY <1>1, <1>15, <2>3 DEF ReadSilent
<1>16. ASSUME NEW t \in Task, DropUserChain(t) PROVE Goal
  <2>1. task[t] \in [step: {"drop"}, moment: 0..MaxClock, todo: SUBSET User]
    BY <1>3, <1>16, JobForms DEF DropUserChain, At
  <2>2. \A u : [task[t] EXCEPT !.todo = @ \ {u}] \in Jobs
    BY <2>1 DEF Jobs, Job
  <2> QED BY <1>1, <1>16, <2>2, IdleIsJob DEF DropUserChain
<1>17. ASSUME NEW t \in Task, ReadGaps(t) PROVE Goal
  <2> DEFINE hurt == torn \cup {e.seq : e \in {d \in entries : ~d.whole}}
  <2>1. ExplainedGaps \in Gaps
    <3> SUFFICES ASSUME NEW m \in Tombstones PROVE m.gap \in Chain /\ m.end \in 1..MaxSeq
      BY DEF ExplainedGaps, Gaps
    <3>1. m \in entries /\ m.kind = "tombstone"
      BY DEF Tombstones, Of
    <3>2. m.gap \in Chain
      BY <3>1 DEF LinkInv, RowsOK
    <3>3. m.end \in 0..MaxSeq /\ m.end # Genesis
      BY <3>1 DEF RowInv, Row
    <3> QED BY <3>2, <3>3, BoundsAreNumbers DEF Genesis
  <2>2. hurt \in SUBSET (1..MaxSeq)
    BY DEF BesidesInv, RowInv, Row
  <2>3. Become(t, [step |-> "list", gaps |-> ExplainedGaps, hurt |-> hurt]) /\ log' = log
    BY <1>17 DEF ReadGaps
  <2> HIDE DEF hurt
  <2>4. [step |-> "list", gaps |-> ExplainedGaps, hurt |-> hurt] \in Jobs
    BY <2>1, <2>2 DEF Jobs, Job
  <2> QED BY <1>1, <2>3, <2>4
<1>18. ASSUME NEW t \in Task, ListChains(t) PROVE Goal
  <2>1. task[t] \in [step: {"list"}, gaps: Gaps, hurt: SUBSET (1..MaxSeq)]
    BY <1>3, <1>18, JobForms DEF ListChains, At
  <2>2. {e.chain : e \in entries} \in SUBSET Chain
    BY DEF RowInv, Row
  <2>3. [step |-> "walk", gaps |-> task[t].gaps, hurt |-> task[t].hurt,
         todo |-> {e.chain : e \in entries}, found |-> {}] \in Jobs
    BY <2>1, <2>2 DEF Jobs, Job
  <2> QED BY <1>1, <1>18, <2>3 DEF ListChains
<1>19. ASSUME NEW t \in Task, WalkChain(t) PROVE Goal
  <2> DEFINE c == FirstByName(task[t].todo)
             more == IF HasFinding(c, task[t].gaps) THEN {c} ELSE {}
  <2>1. /\ task[t] \in [step: {"walk"}, gaps: Gaps, hurt: SUBSET (1..MaxSeq), todo: SUBSET Chain,
                        found: SUBSET Chain]
        /\ task[t].todo # {}
    BY <1>3, <1>19, JobForms DEF WalkChain, At
  <2>2. c \in Chain
    BY <2>1, FirstIsThere
  <2>3. more \in SUBSET Chain
    BY <2>2
  <2>4. Become(t, [task[t] EXCEPT !.todo = @ \ {c}, !.found = @ \cup more]) /\ log' = log
    BY <1>19 DEF WalkChain
  <2> HIDE DEF more, c
  <2>5. [task[t] EXCEPT !.todo = @ \ {c}, !.found = @ \cup more] \in Jobs
    BY <2>1, <2>3 DEF Jobs, Job
  <2> QED BY <1>1, <2>4, <2>5
<1>20. ASSUME NEW t \in Task, Report(t) PROVE Goal
  BY <1>1, <1>20, IdleIsJob DEF Report
<1>21. ASSUME NEW t \in Task, Fail(t) PROVE Goal
  <2>1. JobsInv'
    BY <1>21, IdleIsJob, JobsBecome DEF Fail
  <2> QED BY <1>0, <1>21, <2>1 DEF Fail
<1>22. ASSUME Crash PROVE Goal
  BY <1>22, IdleIsJob DEF Crash, JobsInv
<1> HIDE DEF Goal
<1>23. Goal
  BY <1>4, <1>5, <1>6, <1>7, <1>8, <1>9, <1>10, <1>11, <1>12, <1>13, <1>14, <1>15, <1>16, <1>17,
     <1>18, <1>19, <1>20, <1>21, <1>22 DEF Next, Work
<1> QED BY <1>23 DEF Goal

LEMMA BesidesStay ==
  ASSUME LinkInv, RowInv, JobsInv, BesidesInv, [Next]_vars
  PROVE  BesidesInv'
<1>1. log' \in {"down", "starting", "on", "off"}
  BY SMTT(40), JobsStay
<1>2. offered' = offered
  BY ZenonT(60) DEF Next, Work, vars, Start, Note, NoteRefusal, ReadGaps, Boot, Append, ExpireBatch, ExpireEnd,
         Measure, TrimBatch, TrimEnd, ReadAccounts, ReadSilent, DropUserChain, ListChains, WalkChain,
         Report, Fail, Crash, Clock, Administrate, Tear, Alter
<1>3. drops' \in Nat /\ torn' \subseteq 1..MaxSeq
  <2>1. CASE TableRests
    BY <2>1 DEF TableRests, BesidesInv
  <2>2. ASSUME NEW e, Adds(e) PROVE drops' \in Nat /\ torn' \subseteq 1..MaxSeq
    BY <2>2 DEF Adds, BesidesInv
  <2>3. ASSUME NEW lost, Sweeps(lost) PROVE drops' \in Nat /\ torn' \subseteq 1..MaxSeq
    BY <2>3 DEF Sweeps, BesidesInv
  <2>4. ASSUME NEW u \in User, Drops(u) PROVE drops' \in Nat /\ torn' \subseteq 1..MaxSeq
    BY <2>4 DEF Drops, BesidesInv
  <2>5. ASSUME NEW e \in entries, Tear(e) \/ Alter(e) PROVE drops' \in Nat /\ torn' \subseteq 1..MaxSeq
    <3>1. e.seq \in 1..MaxSeq
      BY DEF RowInv, Row
    <3> QED BY <2>5, <3>1 DEF Tear, Alter, BesidesInv, history
  <2> QED BY <2>1, <2>2, <2>3, <2>4, <2>5, StepsOfTheTable DEF TableSteps
<1>4. clock' \in 0..MaxClock
  BY ZenonT(60) DEF Next, Work, vars, Start, Note, NoteRefusal, ReadGaps, Boot, Append, ExpireBatch, ExpireEnd,
         Measure, TrimBatch, TrimEnd, ReadAccounts, ReadSilent, DropUserChain, ListChains, WalkChain,
         Report, Fail, Crash, Clock, Administrate, Tear, Alter, BesidesInv
<1>5. known' \subseteq User
  BY ZenonT(60) DEF Next, Work, vars, Start, Note, NoteRefusal, ReadGaps, Boot, Append, ExpireBatch, ExpireEnd,
         Measure, TrimBatch, TrimEnd, ReadAccounts, ReadSilent, DropUserChain, ListChains, WalkChain,
         Report, Fail, Crash, Clock, Administrate, Tear, Alter, BesidesInv
<1>6. window' \in {NoWindow} \cup [opened: 0..MaxClock, swallowed: 0..MaxSwallowed]
  <2>1. ASSUME NEW t \in Task, NoteRefusal(t)
        PROVE  window' \in {NoWindow} \cup [opened: 0..MaxClock, swallowed: 0..MaxSwallowed]
    <3>1. CASE window # NoWindow /\ window.swallowed < MaxSwallowed
                /\ window' = [window EXCEPT !.swallowed = @ + 1]
      BY <3>1, BoundsAreNumbers DEF BesidesInv
    <3>2. CASE window' = [opened |-> clock, swallowed |-> 0]
      BY <3>2, BoundsAreNumbers DEF BesidesInv
    <3> QED BY <2>1, <3>1, <3>2 DEF NoteRefusal
  <2>2. (\E t \in Task : NoteRefusal(t)) \/ window' = window \/ window' = NoWindow
    BY ZenonT(60) DEF Next, Work, vars, Start, Note, ReadGaps, Boot, Append, ExpireBatch, ExpireEnd,
           Measure, TrimBatch, TrimEnd, ReadAccounts, ReadSilent, DropUserChain, ListChains, WalkChain,
           Report, Fail, Crash, Clock, Administrate, Tear, Alter
  <2> QED BY <2>1, <2>2 DEF BesidesInv
<1> QED BY <1>1, <1>2, <1>3, <1>4, <1>5, <1>6 DEF BesidesInv

-----------------------------------------------------------------------------
(* What a chain gave up and what it has, it was once given numbers for.     *)
GoneInv ==
  /\ gone \in [Chain -> Nat] /\ gone[Instance] = 0
  /\ \A c \in Chain \ {Instance} : gone[c] + Cardinality(Of(c)) <= seq

LEMMA GoneStays ==
  ASSUME LinkInv, RowInv, JobsInv, GoneInv, [Next]_vars
  PROVE  GoneInv'
<1>0. seq \in Nat /\ \A c : Of(c) \in SUBSET entries
  BY DEF LinkInv, Of
<1>1. \A c : IsFiniteSet(Of(c)) /\ Cardinality(Of(c)) \in Nat
  BY <1>0, SubsetsAreFinite
<1>2. ASSUME gone' = gone, seq' >= seq, seq' \in Nat,
             \A c \in Chain \ {Instance} : Cardinality(Of(c)') \in Nat
                                           /\ Cardinality(Of(c)') + seq <= Cardinality(Of(c)) + seq'
      PROVE  GoneInv'
  BY <1>0, <1>1, <1>2 DEF GoneInv
<1>3. CASE TableRests
  BY <1>3 DEF TableRests, GoneInv, Of
<1>4. ASSUME NEW e, Adds(e) PROVE GoneInv'
  <2>1. seq' = seq + 1 /\ gone' = gone
    BY <1>4 DEF Adds
  <2>2. ASSUME NEW c PROVE /\ Cardinality(Of(c)') \in Nat
                           /\ Cardinality(Of(c)') <= Cardinality(Of(c)) + 1
    <3>1. Of(c)' \in SUBSET (Of(c) \cup {e})
      BY <1>4 DEF Adds, Of
    <3>2. /\ IsFiniteSet(Of(c) \cup {e})
          /\ Cardinality(Of(c) \cup {e}) <= Cardinality(Of(c)) + 1
          /\ Cardinality(Of(c) \cup {e}) \in Nat
      <4>1. /\ IsFiniteSet(Of(c) \cup {e})
            /\ Cardinality(Of(c) \cup {e}) \in {Cardinality(Of(c)), Cardinality(Of(c)) + 1}
        BY <1>1, FS_AddElement
      <4> QED BY <1>1, <4>1
    <3>3. Cardinality(Of(c)') \in Nat /\ Cardinality(Of(c)') <= Cardinality(Of(c) \cup {e})
      BY <3>1, <3>2, FS_Subset, FS_CardinalityType
    <3> QED BY <1>1, <3>2, <3>3
  <2> QED BY <1>0, <1>1, <1>2, <2>1, <2>2
<1>5. ASSUME NEW lost \in SUBSET entries, Sweeps(lost) PROVE GoneInv'
  <2>1. seq' \in Nat /\ seq <= seq' /\ Sweepable' = Sweepable \ lost
    BY <1>5, SweepLeaves
  <2>2. gone' = [c \in Chain |-> gone[c] + Cardinality({e \in lost : e.chain = c})]
    BY <1>5 DEF Sweeps, GiveUp
  <2>3. ASSUME NEW c \in Chain
        PROVE  /\ {e \in lost : e.chain = c} = Of(c) \cap lost
               /\ Cardinality({e \in lost : e.chain = c}) \in Nat
    <3>1. {e \in lost : e.chain = c} = Of(c) \cap lost
      BY DEF Of
    <3> QED BY <1>1, <3>1, FS_Intersection, FS_CardinalityType
  <2>4. gone' \in [Chain -> Nat]
    BY <2>2, <2>3 DEF GoneInv
  <2>5. gone'[Instance] = 0
    <3>1. {e \in lost : e.chain = Instance} = {}
      BY <1>5 DEF Sweeps, FirstOfTheirChains, Sweepable
    <3> QED BY <2>2, <3>1, FS_EmptySet, BoundsAreNumbers DEF GoneInv
  <2>6. ASSUME NEW c \in Chain \ {Instance} PROVE gone'[c] + Cardinality(Of(c)') <= seq'
    <3>1. Of(c)' = Of(c) \ lost
      BY <2>1 DEF Of, Sweepable
    <3>2. /\ IsFiniteSet(Of(c) \ lost)
          /\ Cardinality(Of(c) \ lost) = Cardinality(Of(c)) - Cardinality(Of(c) \cap lost)
      BY <1>1, FS_Difference
    <3>3. gone'[c] = gone[c] + Cardinality(Of(c) \cap lost) /\ Cardinality(Of(c) \cap lost) \in Nat
      BY <2>2, <2>3
    <3>4. gone[c] \in Nat /\ gone[c] + Cardinality(Of(c)) <= seq
      BY DEF GoneInv
    <3> QED BY <1>0, <1>1, <2>1, <3>1, <3>2, <3>3, <3>4
  <2> QED BY <2>4, <2>5, <2>6 DEF GoneInv
<1>6. ASSUME NEW u \in User, Drops(u) PROVE GoneInv'
  <2>0. u \in Chain \ {Instance} /\ Instance \in Chain
    BY BoundsAreNumbers
  <2>1. DropMark(u).chain = Instance
    BY <1>6, DropMarkIsRow
  <2>2. /\ entries' = (entries \ Of(u)) \cup {DropMark(u)} /\ seq' = seq + 1
        /\ gone' = [gone EXCEPT ![u] = @ + Cardinality(Of(u))]
    BY <1>6 DEF Drops
  <2>3. Of(u)' = {} /\ \A c \in Chain \ {Instance, u} : Of(c)' = Of(c)
    BY <2>0, <2>1, <2>2 DEF Of
  <2>4. gone' \in [Chain -> Nat] /\ gone'[Instance] = 0
    BY <1>1, <2>0, <2>2 DEF GoneInv
  <2>5. gone'[u] + Cardinality(Of(u)') <= seq'
    BY <1>0, <1>1, <2>0, <2>2, <2>3, FS_EmptySet DEF GoneInv
  <2>6. \A c \in Chain \ {Instance, u} : gone'[c] + Cardinality(Of(c)') <= seq'
    BY <1>0, <1>1, <2>2, <2>3 DEF GoneInv
  <2> QED BY <2>4, <2>5, <2>6 DEF GoneInv
<1>7. ASSUME NEW e \in entries, Tear(e) PROVE GoneInv'
  <2>1. gone' = gone /\ seq' = seq /\ \A c : Of(c)' \in SUBSET Of(c)
    BY <1>7 DEF Tear, Of
  <2>2. \A c : Cardinality(Of(c)') \in Nat /\ Cardinality(Of(c)') <= Cardinality(Of(c))
    BY <1>1, <2>1, FS_Subset, FS_CardinalityType
  <2> QED BY <1>0, <1>1, <1>2, <2>1, <2>2
<1>8. ASSUME NEW e \in entries, Alter(e) PROVE GoneInv'
  <2> DEFINE a == [e EXCEPT !.whole = FALSE]
  <2>1. a.chain = e.chain
    BY AlteredRow DEF RowInv
  <2>2. entries' = (entries \ {e}) \cup {a} /\ seq' = seq /\ gone' = gone
    BY <1>8 DEF Alter, history
  <2> HIDE DEF a
  <2>3. ASSUME NEW c PROVE Cardinality(Of(c)') \in Nat /\ Cardinality(Of(c)') <= Cardinality(Of(c))
    <3>1. CASE c # e.chain
      <4>1. Of(c)' = Of(c)
        BY <2>1, <2>2, <3>1 DEF Of
      <4> QED BY <1>1, <4>1
    <3>2. CASE c = e.chain
      <4>1. Of(c)' = (Of(c) \ {e}) \cup {a} /\ e \in Of(c)
        BY <2>1, <2>2, <3>2 DEF Of
      <4>2. IsFiniteSet(Of(c) \ {e}) /\ Cardinality(Of(c) \ {e}) = Cardinality(Of(c)) - 1
        BY <1>1, <4>1, FS_RemoveElement
      <4>3. /\ IsFiniteSet(Of(c)')
            /\ Cardinality(Of(c)') \in {Cardinality(Of(c)) - 1, Cardinality(Of(c)) - 1 + 1}
        BY <4>1, <4>2, FS_AddElement
      <4> QED BY <1>1, <4>3, FS_CardinalityType
    <3> QED BY <3>1, <3>2
  <2> QED BY <1>0, <1>1, <1>2, <2>2, <2>3
<1> QED BY <1>3, <1>4, <1>5, <1>6, <1>7, <1>8, StepsOfTheTable DEF TableSteps

-----------------------------------------------------------------------------
(* The refusals a row will stand for, of all tasks under way                *)
Owing(tasks) == Total([t \in Task |-> StandsOf(tasks[t])], Task)

RefusalInv == unsaid = window.swallowed + Owing(task)

(* While no process runs, nothing is under way.                             *)
DownInv == log = "down" => \A t \in Task : task[t] = Idle

LEMMA DownStays ==
  ASSUME JobsInv, DownInv, [Next]_vars
  PROVE  DownInv'
<1>1. \A t \in Task : task[t] \in Job
  BY DEF JobsInv, Jobs
<1>2. CASE UNCHANGED <<task, log>>
  BY <1>2 DEF DownInv
<1>3. CASE Crash
  BY <1>3 DEF Crash, DownInv
<1>4. ASSUME NEW t \in Task, \/ \E setting \in {"on", "off"} : Start(t, setting)
                             \/ (\E u \in User : Note(t, u)) \/ NoteRefusal(t) \/ ReadGaps(t)
      PROVE  DownInv'
  BY <1>4 DEF Start, Note, NoteRefusal, ReadGaps, DownInv
<1>5. ASSUME NEW t \in Task, Work(t) \/ Fail(t) PROVE DownInv'
  <2>1. task[t] # Idle
    BY <1>5 DEF Work, Fail, Boot, Append, ExpireBatch, ExpireEnd, Measure, TrimBatch, TrimEnd,
                ReadAccounts, ReadSilent, DropUserChain, ListChains, WalkChain, Report, Reported, At,
                Idle
  <2>2. log # "down"
    BY <2>1 DEF DownInv
  <2>3. task[t].step = "boot" => task[t].then \in {"on", "off"}
    BY <1>1, JobForms
  <2>4. log' \in {log, "on", "off"}
    BY <1>5, <2>3 DEF Work, Fail, Boot, Append, ExpireBatch, ExpireEnd, Measure, TrimBatch, TrimEnd,
                ReadAccounts, ReadSilent, DropUserChain, ListChains, WalkChain, Report, Finish, At
  <2> QED BY <2>2, <2>4 DEF DownInv
<1>6. ASSUME Clock \/ (\E u \in User : Administrate(u)) \/ UNCHANGED vars
             \/ \E e \in entries : Tear(e) \/ Alter(e)
      PROVE  UNCHANGED <<task, log>>
  BY <1>6 DEF Clock, Administrate, Tear, Alter, vars
<1> QED BY <1>2, <1>3, <1>4, <1>5, <1>6 DEF Next

LEMMA StandsType == \A j \in Jobs : StandsOf(j) \in Nat
BY JobForms DEF Jobs, StandsOf

LEMMA OwingType ==
  ASSUME IsFiniteSet(Task), JobsInv
  PROVE  Owing(task) \in Nat
<1> DEFINE g == [t \in Task |-> StandsOf(task[t])]
<1>1. \A t \in Task : g[t] \in Nat
  BY StandsType DEF JobsInv
<1> HIDE DEF g
<1>2. Total(g, Task) \in Nat
  BY <1>1, TotalType
<1> QED BY <1>2 DEF Owing, g

LEMMA OwingMoves ==
  ASSUME IsFiniteSet(Task), JobsInv, NEW t \in Task, NEW j, StandsOf(j) \in Nat, Become(t, j)
  PROVE  Owing(task') = Owing(task) - StandsOf(task[t]) + StandsOf(j)
<1> DEFINE g == [q \in Task |-> StandsOf(task[q])]
           h == [q \in Task |-> StandsOf(task'[q])]
           Rest == Task \ {t}
<1>1. \A q \in Task : g[q] \in Nat
  BY StandsType DEF JobsInv
<1>2. \A q \in Rest : g[q] = h[q]
  BY DEF Become, JobsInv
<1>3. g[t] = StandsOf(task[t]) /\ h[t] = StandsOf(j)
  BY DEF Become, JobsInv
<1> HIDE DEF g, h
<1>4. \A q \in Task : h[q] \in Nat
  BY <1>1, <1>2, <1>3
<1>5. Total(g, Task) = g[t] + Total(g, Rest) /\ Total(h, Task) = h[t] + Total(h, Rest)
  BY <1>1, <1>4, TotalTakes
<1>6. IsFiniteSet(Rest)
  BY FS_RemoveElement
<1>7. Total(g, Rest) = Total(h, Rest)
  BY <1>2, <1>6, TotalSame
<1>8. Total(g, Rest) \in Nat
  BY <1>1, <1>6, TotalType
<1> QED BY <1>1, <1>3, <1>4, <1>5, <1>7, <1>8 DEF Owing, g, h

LEMMA RefusalsStay ==
  ASSUME IsFiniteSet(Task), LinkInv, RowInv, JobsInv, BesidesInv, DownInv, RefusalInv, [Next]_vars
  PROVE  RefusalInv'
<1>0. Owing(task) \in Nat /\ window.swallowed \in Nat
  BY OwingType, BoundsAreNumbers DEF BesidesInv, NoWindow
<1>1. \A t \in Task : task[t] \in Jobs /\ StandsOf(task[t]) \in Nat
  BY StandsType DEF JobsInv
<1>2. StandsOf(Idle) = 0
  BY DEF StandsOf, Idle
<1>3. ASSUME NEW t \in Task, NEW j, Become(t, j), StandsOf(j) \in Nat,
             unsaid' - window'.swallowed = unsaid - window.swallowed - StandsOf(task[t]) + StandsOf(j),
             window'.swallowed \in Nat, unsaid' \in Int
      PROVE  RefusalInv'
  BY <1>0, <1>1, <1>3, OwingMoves DEF RefusalInv
<1>4. ASSUME NEW t \in Task, NEW j, Become(t, j), StandsOf(j) = 0, task[t].step # "append",
             UNCHANGED <<unsaid, window>>
      PROVE  RefusalInv'
  <2>1. StandsOf(task[t]) = 0
    BY <1>4 DEF StandsOf
  <2> QED BY <1>0, <1>3, <1>4, <2>1 DEF RefusalInv
<1>5. ASSUME UNCHANGED <<task, unsaid, window>> PROVE RefusalInv'
  BY <1>5 DEF RefusalInv
<1> USE DEF table, history
<1>6. ASSUME NEW t \in Task, NEW then, NEW moment, Finish(t, then, moment), task[t].step # "append",
             UNCHANGED <<unsaid, window>>
      PROVE  RefusalInv'
  <2>1. StandsOf([step |-> "accounts", moment |-> moment]) = 0
    BY DEF StandsOf
  <2> QED BY <1>2, <1>4, <1>6, <2>1 DEF Finish
<1>7. ASSUME NEW t \in Task, NEW setting \in {"on", "off"}, Start(t, setting) PROVE RefusalInv'
  <2>1. task[t].step # "append"
    BY <1>7 DEF Start, DownInv, Idle
  <2>2. StandsOf([step |-> "boot", then |-> setting]) = 0
    BY DEF StandsOf
  <2> QED BY <1>4, <1>7, <2>1, <2>2 DEF Start
<1>8. ASSUME NEW t \in Task, Boot(t) PROVE RefusalInv'
  <2>1. StandsOf([step |-> "expire", moment |-> clock, then |-> task[t].then]) = 0
    BY DEF StandsOf
  <2>2. task[t].step # "append" /\ UNCHANGED <<unsaid, window>>
    BY <1>8 DEF Boot, At
  <2>3. \/ Become(t, [step |-> "expire", moment |-> clock, then |-> task[t].then])
        \/ Finish(t, task[t].then, clock)
    BY <1>8 DEF Boot
  <2> QED BY <1>4, <1>6, <2>1, <2>2, <2>3
<1>9. ASSUME NEW t \in Task, NEW u \in User, Note(t, u) PROVE RefusalInv'
  <2>1. StandsOf([step |-> "append", chain |-> u, at |-> clock, stands |-> 0]) = 0
    BY DEF StandsOf
  <2>2. task[t].step # "append" /\ UNCHANGED <<unsaid, window>>
    BY <1>9 DEF Note, At
  <2> QED BY <1>4, <1>9, <2>1, <2>2 DEF Note
<1>10. ASSUME NEW t \in Task, NoteRefusal(t) PROVE RefusalInv'
  <2>1. task[t].step = "idle" /\ unsaid' = unsaid + 1
    BY <1>10 DEF NoteRefusal, At
  <2>2. StandsOf(task[t]) = 0
    BY <2>1 DEF StandsOf
  <2>3. ASSUME window # NoWindow, window' = [window EXCEPT !.swallowed = @ + 1], UNCHANGED task
        PROVE  RefusalInv'
    <3>1. window'.swallowed = window.swallowed + 1
      BY <2>3 DEF BesidesInv
    <3> QED BY <1>0, <2>1, <2>3, <3>1 DEF RefusalInv
  <2>4. ASSUME window' = [opened |-> clock, swallowed |-> 0],
               Become(t, [step |-> "append", chain |-> Exchange, at |-> clock, stands |-> StandsFor])
        PROVE  RefusalInv'
    <3>1. StandsOf([step |-> "append", chain |-> Exchange, at |-> clock, stands |-> StandsFor])
            = window.swallowed + 1
      BY DEF StandsOf, StandsFor
    <3>2. window'.swallowed = 0
      BY <2>4
    <3>3. unsaid \in Int
      BY <1>0 DEF RefusalInv
    <3> QED BY <1>0, <1>3, <2>1, <2>2, <2>4, <3>1, <3>2, <3>3
  <2> QED BY <1>10, <2>3, <2>4 DEF NoteRefusal
<1>11. ASSUME NEW t \in Task, Append(t) PROVE RefusalInv'
  <2> DEFINE j == task[t]
             refusal == j.chain = Exchange
             moment == IF refusal THEN j.at ELSE clock
             then == IF ~refusal /\ (seq + 1) % (SWEEP_EVERY * SWEEP_USER_CHECK_EVERY) = 0
                     THEN "accounts" ELSE "done"
  <2>1. /\ unsaid' = unsaid - StandsOf(task[t]) /\ UNCHANGED window
        /\ Become(t, Idle) \/ Become(t, [step |-> "expire", moment |-> moment, then |-> then])
    BY <1>11 DEF Append, At, StandsOf
  <2>2. StandsOf([step |-> "expire", moment |-> moment, then |-> then]) = 0
    BY DEF StandsOf
  <2> HIDE DEF moment, then
  <2>3. unsaid \in Int /\ StandsOf(task[t]) \in Nat
    BY <1>0, <1>1 DEF RefusalInv
  <2> QED BY <1>0, <1>2, <1>3, <2>1, <2>2, <2>3
<1>12. ASSUME (\E t \in Task : ExpireBatch(t)) \/ (\E u \in User : Administrate(u)) \/ Clock
              \/ UNCHANGED vars \/ \E e \in entries : Tear(e) \/ Alter(e)
       PROVE  RefusalInv'
  BY <1>5, <1>12 DEF ExpireBatch, Administrate, Clock, Tear, Alter, vars
<1>13. ASSUME NEW t \in Task, NEW j, Become(t, j), j.step \notin {"append"}, task[t].step # "append",
              UNCHANGED <<unsaid, window>>
       PROVE  RefusalInv'
  BY <1>4, <1>13 DEF StandsOf
<1>14. ASSUME NEW t \in Task, ExpireEnd(t) \/ Measure(t) \/ TrimBatch(t) \/ TrimEnd(t) PROVE RefusalInv'
  <2>1. task[t].step \in {"expire", "measure", "trim"} /\ UNCHANGED <<unsaid, window>>
    BY <1>14 DEF ExpireEnd, Measure, TrimBatch, TrimEnd, At
  <2>2. CASE ExpireEnd(t)
    BY <1>13, <2>1, <2>2 DEF ExpireEnd
  <2>3. CASE Measure(t) \/ TrimBatch(t)
    <3>1. /\ task[t] \in [step: {"measure", "trim"}, moment: 0..MaxClock, then: Then,
                          round: 0..SWEEP_MAX_ROUNDS]
      BY <1>1, <2>3, JobForms DEF Measure, TrimBatch, At, Jobs
    <3>2. /\ [task[t] EXCEPT !.step = "trim"].step = "trim"
          /\ [task[t] EXCEPT !.step = "measure", !.round = @ + 1].step = "measure"
      BY <3>1
    <3> QED BY <1>6, <1>13, <2>1, <2>3, <3>2 DEF Measure, TrimBatch
  <2>4. CASE TrimEnd(t)
    BY <1>6, <2>1, <2>4 DEF TrimEnd
  <2> QED BY <1>14, <2>2, <2>3, <2>4
<1>15. ASSUME NEW t \in Task, ReadSilent(t) \/ ReadGaps(t) \/ ListChains(t) \/ Report(t)
                              \/ \E read \in BOOLEAN : ReadAccounts(t, read)
       PROVE  RefusalInv'
  <2>1. task[t].step # "append" /\ UNCHANGED <<unsaid, window>>
    BY <1>15 DEF ReadSilent, ReadGaps, ListChains, Report, Reported, ReadAccounts, At
  <2>2. \E j : Become(t, j) /\ j.step \notin {"append"}
    BY <1>15 DEF ReadSilent, ReadGaps, ListChains, Report, ReadAccounts, Idle
  <2> QED BY <1>13, <2>1, <2>2
<1>16. ASSUME NEW t \in Task, DropUserChain(t) \/ WalkChain(t) PROVE RefusalInv'
  <2>1. task[t].step \in {"drop", "walk"} /\ UNCHANGED <<unsaid, window>>
    BY <1>16 DEF DropUserChain, WalkChain, At
  <2>2. \E j : Become(t, j) /\ j.step \notin {"append"}
    <3>1. CASE DropUserChain(t)
      <4>1. task[t] \in [step: {"drop"}, moment: 0..MaxClock, todo: SUBSET User]
        BY <1>1, <3>1, JobForms DEF DropUserChain, At, Jobs
      <4>2. \A todo : [task[t] EXCEPT !.todo = todo].step = "drop"
        BY <4>1
      <4>3. PICK todo : Become(t, Idle) \/ Become(t, [task[t] EXCEPT !.todo = todo])
        BY <3>1 DEF DropUserChain
      <4>4. Idle.step = "idle"
        BY DEF Idle
      <4> QED BY <4>2, <4>3, <4>4
    <3>2. CASE WalkChain(t)
      <4>1. task[t] \in [step: {"walk"}, gaps: Gaps, hurt: SUBSET (1..MaxSeq), todo: SUBSET Chain,
                         found: SUBSET Chain]
        BY <1>1, <3>2, JobForms DEF WalkChain, At, Jobs
      <4>2. \A todo, found : [task[t] EXCEPT !.todo = todo, !.found = found].step = "walk"
        BY <4>1
      <4>3. PICK todo, found : Become(t, [task[t] EXCEPT !.todo = todo, !.found = found])
        BY <3>2 DEF WalkChain
      <4> QED BY <4>2, <4>3
    <3> QED BY <1>16, <3>1, <3>2
  <2> QED BY <1>13, <2>1, <2>2
<1>17. ASSUME NEW t \in Task, Fail(t) PROVE RefusalInv'
  <2>1. unsaid' = unsaid - StandsOf(task[t]) /\ UNCHANGED window /\ Become(t, Idle)
    BY <1>17 DEF Fail
  <2>2. unsaid \in Int /\ StandsOf(task[t]) \in Nat
    BY <1>0, <1>1 DEF RefusalInv
  <2> QED BY <1>0, <1>2, <1>3, <2>1, <2>2
<1>18. ASSUME Crash PROVE RefusalInv'
  <2>1. task' = [t \in Task |-> Idle] /\ window'.swallowed = 0 /\ unsaid' = 0
    BY <1>18 DEF Crash, NoWindow
  <2> DEFINE h == [t \in Task |-> StandsOf(task'[t])]
  <2>2. \A t \in Task : h[t] = 0
    BY <1>2, <2>1
  <2> HIDE DEF h
  <2>3. Total(h, Task) = 0
    BY <2>2, TotalOfZeros
  <2> QED BY <2>1, <2>3 DEF RefusalInv, Owing, h
<1> QED BY <1>7, <1>8, <1>9, <1>10, <1>11, <1>12, <1>14, <1>15, <1>16, <1>17, <1>18 DEF Next, Work

-----------------------------------------------------------------------------
(* What the markers say.  A marker of a chain sums up what it absorbed.     *)
LEMMA RemovedAdds ==
  ASSUME NEW S, IsFiniteSet(S), \A e \in S : e.removed \in Nat,
         NEW x, x \notin S, x.removed \in Nat
  PROVE  RemovedIn(S \cup {x}) = RemovedIn(S) + x.removed
<1> DEFINE g == [e \in S |-> e.removed]
           h == [e \in S \cup {x} |-> e.removed]
<1>1. IsFiniteSet(S \cup {x})
  BY FS_AddElement
<1>2. \A e \in S : g[e] = h[e] /\ h[e] \in Nat
  OBVIOUS
<1>3. h[x] = x.removed /\ h[x] \in Nat
  OBVIOUS
<1>4. RemovedIn(S) = Total(g, S) /\ RemovedIn(S \cup {x}) = Total(h, S \cup {x})
  BY <1>1, RemovedTotal DEF RemovedIn
<1> HIDE DEF g, h
<1>5. Total(g, S) = Total(h, S)
  BY <1>2, TotalSame
<1>6. Total(h, S \cup {x}) = Total(h, S) + h[x]
  BY <1>2, <1>3, TotalAdds
<1> QED BY <1>3, <1>4, <1>5, <1>6

LEMMA RemovedSplits ==
  ASSUME NEW S, IsFiniteSet(S), \A e \in S : e.removed \in Nat, NEW A \in SUBSET S
  PROVE  RemovedIn(S) = RemovedIn(A) + RemovedIn(S \ A)
<1> DEFINE f == [e \in S |-> e.removed]
           g == [e \in A |-> e.removed]
           h == [e \in S \ A |-> e.removed]
<1>1. IsFiniteSet(A) /\ IsFiniteSet(S \ A)
  BY FS_Subset
<1>2. /\ \A e \in S : f[e] \in Nat
      /\ \A e \in A : g[e] = f[e]
      /\ \A e \in S \ A : h[e] = f[e]
  OBVIOUS
<1>3. /\ RemovedIn(S) = Total(f, S) /\ RemovedIn(A) = Total(g, A)
      /\ RemovedIn(S \ A) = Total(h, S \ A)
  BY <1>1, RemovedTotal DEF RemovedIn
<1> HIDE DEF f, g, h
<1>4. Total(g, A) = Total(f, A) /\ Total(h, S \ A) = Total(f, S \ A)
  BY <1>1, <1>2, TotalSame
<1>5. Total(f, S) = Total(f, A) + Total(f, S \ A)
  BY <1>2, TotalSplits
<1> QED BY <1>3, <1>4, <1>5

(* A row that is altered in place leaves every count of rows as it was.     *)
LEMMA AlteredCounts ==
  ASSUME NEW T, IsFiniteSet(T), \A x \in T : x.removed \in Nat, NEW e, NEW a, a \in T => a = e,
         e \in T => a.removed = e.removed,
         NEW U, \A x : x \in U <=> (x = a /\ e \in T) \/ (x \in T /\ x # e)
  PROVE  Cardinality(U) = Cardinality(T) /\ RemovedIn(U) = RemovedIn(T)
<1>1. CASE e \notin T \/ a = e
  <2>1. U = T
    BY <1>1
  <2> QED BY <2>1
<1>2. CASE e \in T /\ a # e
  <2> DEFINE R == T \ {e}
  <2>1. U = R \cup {a} /\ T = R \cup {e} /\ a \notin R /\ e \notin R
    BY <1>2
  <2>2. IsFiniteSet(R) /\ \A x \in R : x.removed \in Nat
    BY FS_RemoveElement
  <2>3. e.removed \in Nat /\ a.removed = e.removed
    BY <1>2
  <2> HIDE DEF R
  <2>4. Cardinality(U) = Cardinality(R) + 1 /\ Cardinality(T) = Cardinality(R) + 1
    BY <2>1, <2>2, FS_AddElement
  <2>5. RemovedIn(U) = RemovedIn(R) + e.removed /\ RemovedIn(T) = RemovedIn(R) + e.removed
    BY <2>1, <2>2, <2>3, RemovedAdds
  <2> QED BY <2>4, <2>5
<1> QED BY <1>1, <1>2

GapInv == torn = {} => \A c \in Chain : gone[c] = RemovedIn(MarksOf(entries, c))

LEMMA GapsStay ==
  ASSUME LinkInv, RowInv, JobsInv, GoneInv, GapInv, [Next]_vars
  PROVE  GapInv'
<1>0. \A c : /\ MarksOf(entries, c) \in SUBSET entries /\ IsFiniteSet(MarksOf(entries, c))
             /\ RemovedIn(MarksOf(entries, c)) \in Nat
             /\ \A e \in MarksOf(entries, c) : e.removed \in Nat
  <2>1. \A c : MarksOf(entries, c) \in SUBSET entries
    BY DEF MarksOf
  <2> QED BY <2>1, SubsetsAreFinite
<1>1. CASE TableRests
  BY <1>1 DEF TableRests, GapInv
<1>2. ASSUME NEW e, e.kind # "tombstone", Adds(e) PROVE GapInv'
  <2>1. \A c : MarksOf(entries', c) = MarksOf(entries, c)
    BY <1>2 DEF Adds, MarksOf
  <2> QED BY <1>2, <2>1 DEF Adds, GapInv
<1>3. ASSUME NEW kind \in {"on", "off"}, Adds(NewRow(Instance, kind, 0, 0)) PROVE GapInv'
  BY <1>2, <1>3 DEF NewRow
<1>4. ASSUME NEW t \in Task, At(t, "append"),
             Adds(NewRow(task[t].chain, IF task[t].chain = Exchange THEN "refusal" ELSE "call",
                         task[t].at, task[t].stands))
      PROVE  GapInv'
  BY <1>2, <1>4 DEF NewRow
<1>5. ASSUME NEW lost \in SUBSET entries, Sweeps(lost), torn' = {} , NEW c \in Chain
      PROVE  gone'[c] = RemovedIn(MarksOf(entries', c))
  <2> DEFINE run == TrailingRun(entries)
             mine == {e \in lost : e.chain = c}
             marks == {m \in run : m.gap = c}
             old == MarksOf(entries, c)
             kept == MarksOf(Kept(lost), c)
  <2>1. gone'[c] = gone[c] + Cardinality(mine) /\ gone[c] = RemovedIn(old)
    BY <1>5 DEF Sweeps, GiveUp, GapInv
  <2>2. /\ entries' = Kept(lost) \cup {MarkBy(lost, d) : d \in NamedBy(lost)}
        /\ run \in SUBSET Tombstones /\ run \cap lost = {}
    BY <1>5, SweepLeaves
  <2>3. \A e \in lost : e.chain # Instance
    BY <1>5 DEF Sweeps, FirstOfTheirChains, Sweepable
  <2>4. marks \in SUBSET old /\ old \ marks = kept
    BY <2>2, <2>3 DEF MarksOf, Kept, Tombstones, Of
  <2>5. /\ IsFiniteSet(kept) /\ (\A e \in kept : e.removed \in Nat) /\ RemovedIn(kept) \in Nat
        /\ RemovedIn(marks) \in Nat
    <3>1. kept \in SUBSET entries /\ marks \in SUBSET entries
      BY <1>0, <2>4
    <3> QED BY <3>1, SubsetsAreFinite
  <2>6. RemovedIn(old) = RemovedIn(marks) + RemovedIn(kept)
    <3> HIDE DEF old, marks, kept
    <3>1. IsFiniteSet(old) /\ \A e \in old : e.removed \in Nat
      BY <1>0 DEF old
    <3> QED BY <2>4, <3>1, RemovedSplits
  <2>7. \A d \in NamedBy(lost) :
           /\ MarkBy(lost, d).chain = Instance /\ MarkBy(lost, d).kind = "tombstone"
           /\ MarkBy(lost, d).gap = d /\ MarkBy(lost, d).seq > seq
    BY <1>5, MarkIsRow
  <2>8. Cardinality(mine) \in Nat
    <3>1. mine \in SUBSET entries
      OBVIOUS
    <3> QED BY <3>1, SubsetsAreFinite
  <2>9. CASE c \in NamedBy(lost)
    <3>1. MarksOf(entries', c) = kept \cup {MarkBy(lost, c)}
      BY <2>2, <2>7, <2>9 DEF MarksOf
    <3>2. MarkBy(lost, c) \notin kept
      <4>1. \A e \in entries : e.seq <= seq /\ e.seq \in Nat
        BY DEF LinkInv, RowsOK
      <4>2. kept \in SUBSET entries
        BY <1>0, <2>4
      <4> QED BY <2>7, <2>9, <4>1, <4>2 DEF LinkInv
    <3>3. MarkBy(lost, c).removed = Cardinality(mine) + RemovedIn(marks)
      BY <1>5, <2>9, MarkIsRow
    <3> HIDE DEF kept, mine, marks, old
    <3>4. RemovedIn(MarksOf(entries', c)) = RemovedIn(kept) + (Cardinality(mine) + RemovedIn(marks))
      BY <2>5, <2>8, <3>1, <3>2, <3>3, RemovedAdds
    <3> QED BY <2>1, <2>5, <2>6, <2>8, <3>4
  <2>10. CASE c \notin NamedBy(lost)
    <3>1. MarksOf(entries', c) = kept
      BY <2>2, <2>7, <2>10 DEF MarksOf
    <3>2. mine = {} /\ marks = {}
      BY <2>10 DEF NamedBy, Named
    <3>3. kept = old /\ Cardinality(mine) = 0
      BY <2>4, <3>2, FS_EmptySet
    <3> HIDE DEF kept, mine, marks, old
    <3> QED BY <2>1, <2>5, <3>1, <3>3
  <2> QED BY <2>9, <2>10
<1>6. ASSUME NEW u \in User, Drops(u) PROVE GapInv'
  <2> SUFFICES ASSUME torn' = {}, NEW c \in Chain PROVE gone'[c] = RemovedIn(MarksOf(entries', c))
    BY DEF GapInv
  <2>0. u \in Chain \ {Instance}
    BY BoundsAreNumbers
  <2>1. /\ DropMark(u).chain = Instance /\ DropMark(u).kind = "tombstone" /\ DropMark(u).gap = u
        /\ DropMark(u).seq = seq + 1 /\ DropMark(u).removed = Cardinality(Of(u))
    BY <1>6, DropMarkIsRow
  <2>2. /\ entries' = (entries \ Of(u)) \cup {DropMark(u)} /\ torn = {}
        /\ gone' = [gone EXCEPT ![u] = @ + Cardinality(Of(u))]
    BY <1>6 DEF Drops
  <2>3. gone[c] = RemovedIn(MarksOf(entries, c))
    BY <2>2 DEF GapInv
  <2>4. CASE c # u
    <3>1. MarksOf(entries', c) = MarksOf(entries, c)
      BY <2>0, <2>1, <2>2, <2>4 DEF MarksOf, Of
    <3> QED BY <2>2, <2>3, <2>4, <3>1 DEF GoneInv
  <2>5. CASE c = u
    <3>1. MarksOf(entries', c) = MarksOf(entries, c) \cup {DropMark(u)}
      BY <2>0, <2>1, <2>2, <2>5 DEF MarksOf, Of
    <3>2. DropMark(u) \notin MarksOf(entries, c)
      BY <2>1 DEF LinkInv, RowsOK, MarksOf
    <3>3. Cardinality(Of(u)) \in Nat
      <4>1. Of(u) \in SUBSET entries
        BY DEF Of
      <4> QED BY <4>1, SubsetsAreFinite
    <3>4. RemovedIn(MarksOf(entries', c)) = RemovedIn(MarksOf(entries, c)) + Cardinality(Of(u))
      BY <1>0, <2>1, <3>1, <3>2, <3>3, RemovedAdds
    <3> QED BY <2>0, <2>2, <2>3, <2>5, <3>4 DEF GoneInv
  <2> QED BY <2>4, <2>5
<1>7. ASSUME NEW e \in entries, Tear(e) PROVE GapInv'
  BY <1>7 DEF Tear, GapInv
<1>8. ASSUME NEW e \in entries, Alter(e) PROVE GapInv'
  <2> DEFINE a == [e EXCEPT !.whole = FALSE]
  <2>1. /\ a.seq = e.seq /\ a.chain = e.chain /\ a.kind = e.kind /\ a.gap = e.gap
        /\ a.removed = e.removed
    BY AlteredRow DEF RowInv
  <2>2. entries' = (entries \ {e}) \cup {a} /\ gone' = gone /\ torn' = torn
    BY <1>8 DEF Alter, history
  <2> HIDE DEF a
  <2>3. a \in entries => a = e
    BY <2>1 DEF LinkInv, RowsOK
  <2>4. ASSUME NEW c PROVE RemovedIn(MarksOf(entries', c)) = RemovedIn(MarksOf(entries, c))
    <3> DEFINE T == MarksOf(entries, c)
               U == MarksOf(entries', c)
    <3>1. \A x : x \in U <=> (x = a /\ e \in T) \/ (x \in T /\ x # e)
      BY <2>1, <2>2 DEF MarksOf
    <3>2. IsFiniteSet(T) /\ (\A x \in T : x.removed \in Nat) /\ (a \in T => a = e)
      BY <1>0, <2>3
    <3> HIDE DEF T, U
    <3>3. RemovedIn(U) = RemovedIn(T)
      BY <2>1, <3>1, <3>2, AlteredCounts
    <3> QED BY <3>3 DEF T, U
  <2> QED BY <2>2, <2>4 DEF GapInv
<1>9. ASSUME NEW lost \in SUBSET entries, Sweeps(lost) PROVE GapInv'
  BY <1>5, <1>9 DEF GapInv
<1> QED BY <1>1, <1>3, <1>4, <1>6, <1>7, <1>8, <1>9, StepsOfTheTable DEF TableSteps

-----------------------------------------------------------------------------
(* How many markers there are.  Between two switches a batch leaves at most *)
(* one per chain, and a chain that is dropped adds one; what is not at the  *)
(* end of the register was there before the last switch.                    *)
Others == Cardinality(Chain \ {Instance})

RegisterInv ==
  torn = {} =>
    /\ Cardinality(Tombstones \ TrailingRun(entries)) <= Cardinality(SwitchRows) * Others + drops
    /\ Cardinality(Tombstones) <= (Cardinality(SwitchRows) + 1) * Others + drops

LEMMA OthersIsNumber == IsFiniteSet(Chain \ {Instance}) /\ Others \in Nat
BY ChainsAreFinite, FS_RemoveElement, FS_CardinalityType DEF Others

LEMMA MoreSwitches == \A a, b \in Nat : (a + 1) * b = a * b + b /\ a * b \in Nat
OBVIOUS

LEMMA RegisterStays ==
  ASSUME LinkInv, RowInv, JobsInv, BesidesInv, RegisterInv, [Next]_vars
  PROVE  RegisterInv'
<1> DEFINE early == Tombstones \ TrailingRun(entries)
           switches == Cardinality(SwitchRows)
<1>0. /\ Tombstones \in SUBSET entries /\ SwitchRows \in SUBSET entries /\ early \in SUBSET entries
      /\ TrailingRun(entries) \in SUBSET Tombstones
  BY DEF Tombstones, SwitchRows, Of, TrailingRun
<1>1. /\ IsFiniteSet(Tombstones) /\ IsFiniteSet(SwitchRows) /\ IsFiniteSet(early)
      /\ Cardinality(Tombstones) \in Nat /\ switches \in Nat /\ Cardinality(early) \in Nat
      /\ Others \in Nat /\ drops \in Nat
  BY <1>0, SubsetsAreFinite, OthersIsNumber DEF BesidesInv
<1>2. ASSUME torn' = torn, drops' = drops, Cardinality(SwitchRows') = switches,
             Cardinality((Tombstones \ TrailingRun(entries))') = Cardinality(early),
             Cardinality(Tombstones') = Cardinality(Tombstones)
      PROVE  RegisterInv'
  BY <1>2 DEF RegisterInv, Others
<1>3. CASE TableRests
  BY <1>3 DEF TableRests, RegisterInv, Tombstones, SwitchRows, TrailingRun, Of, Others
<1>4. ASSUME NEW kind \in {"on", "off"}, Adds(NewRow(Instance, kind, 0, 0)) PROVE RegisterInv'
  <2> DEFINE e == NewRow(Instance, kind, 0, 0)
  <2>1. e.kind \in {"on", "off"} /\ e.chain = Instance /\ e.seq = seq + 1
    BY DEF NewRow
  <2>2. entries' = entries \cup {e} /\ torn' = torn /\ drops' = drops
    BY <1>4 DEF Adds
  <2> HIDE DEF e
  <2>3. Tombstones' = Tombstones /\ SwitchRows' = SwitchRows \cup {e} /\ e \notin SwitchRows
    BY <2>1, <2>2 DEF Tombstones, SwitchRows, Of, LinkInv, RowsOK
  <2>4. Cardinality(SwitchRows') = switches + 1
    BY <1>1, <2>3, FS_AddElement
  <2>5. (Tombstones \ TrailingRun(entries))' \in SUBSET Tombstones
    BY <2>3
  <2>6. /\ Cardinality((Tombstones \ TrailingRun(entries))') <= Cardinality(Tombstones)
        /\ Cardinality((Tombstones \ TrailingRun(entries))') \in Nat
    BY <1>1, <2>5, FS_Subset, FS_CardinalityType
  <2> DEFINE before == (switches + 1) * Others
  <2>7. /\ before \in Nat /\ (switches + 1 + 1) * Others = before + Others
        /\ switches + 1 \in Nat
    <3>1. switches + 1 \in Nat
      BY <1>1
    <3> HIDE DEF switches
    <3> QED BY <1>1, <3>1, MoreSwitches
  <2>8. torn' = {} => Cardinality(Tombstones) <= before + drops
    BY <2>2 DEF RegisterInv
  <2>9. torn' = {} => Cardinality((Tombstones \ TrailingRun(entries))') <= before + drops
    <3> HIDE DEF before
    <3> QED BY <1>1, <2>6, <2>7, <2>8
  <2>10. torn' = {} => Cardinality(Tombstones) <= (switches + 1 + 1) * Others + drops
    <3> HIDE DEF before
    <3> QED BY <1>1, <2>7, <2>8
  <2> HIDE DEF switches
  <2> QED BY <2>2, <2>3, <2>4, <2>9, <2>10 DEF RegisterInv, Others
<1>5. ASSUME NEW t \in Task, At(t, "append"),
             Adds(NewRow(task[t].chain, IF task[t].chain = Exchange THEN "refusal" ELSE "call",
                         task[t].at, task[t].stands))
      PROVE  RegisterInv'
  <2> DEFINE e == NewRow(task[t].chain, IF task[t].chain = Exchange THEN "refusal" ELSE "call",
                         task[t].at, task[t].stands)
  <2>1. task[t].chain # Instance
    BY <1>5, JobForms DEF JobsInv, Jobs, At
  <2>2. e.chain # Instance
    BY <2>1 DEF NewRow
  <2>3. entries' = entries \cup {e} /\ torn' = torn /\ drops' = drops
    BY <1>5 DEF Adds
  <2> HIDE DEF e
  <2>4. Tombstones' = Tombstones /\ SwitchRows' = SwitchRows
    BY <2>2, <2>3 DEF Tombstones, SwitchRows, Of
  <2>5. TrailingRun(entries') = TrailingRun(entries)
    BY <2>2, <2>3 DEF TrailingRun
  <2> QED BY <1>2, <2>3, <2>4, <2>5
<1>6. ASSUME NEW lost \in SUBSET entries, Sweeps(lost) PROVE RegisterInv'
  <2> DEFINE run == TrailingRun(entries)
             D == NamedBy(lost)
             M == {MarkBy(lost, c) : c \in D}
  <2>1. /\ entries' = Kept(lost) \cup M
        /\ run \in SUBSET Tombstones /\ run \cap lost = {} /\ D \in SUBSET (Chain \ {Instance})
    BY <1>6, SweepLeaves
  <2>2. \A e \in lost : e.chain # Instance
    BY <1>6 DEF Sweeps, FirstOfTheirChains, Sweepable
  <2>3. \A m \in M : m.chain = Instance /\ m.kind = "tombstone" /\ m.seq > seq
    <3>1. ASSUME NEW c \in D
          PROVE  /\ MarkBy(lost, c).chain = Instance /\ MarkBy(lost, c).kind = "tombstone"
                 /\ MarkBy(lost, c).seq > seq
      BY <1>6, MarkIsRow
    <3> HIDE DEF D
    <3> QED BY <3>1
  <2>4. torn' = torn /\ drops' = drops
    BY <1>6 DEF Sweeps
  <2>5. IsFiniteSet(M) /\ Cardinality(M) <= Others /\ Cardinality(M) \in Nat
    <3>1. IsFiniteSet(D) /\ Cardinality(D) <= Others /\ Cardinality(D) \in Nat
      <4> HIDE DEF D
      <4> QED BY <2>1, OthersIsNumber, FS_Subset, FS_CardinalityType DEF Others
    <3> DEFINE f == [c \in D |-> MarkBy(lost, c)]
    <3>2. f \in Surjection(D, M)
      BY DEF Surjection
    <3> HIDE DEF D, M, f
    <3>3. IsFiniteSet(M) /\ Cardinality(M) <= Cardinality(D)
      BY <3>1, <3>2, FS_Surjection
    <3> QED BY <1>1, <3>1, <3>3, FS_CardinalityType
  <2> HIDE DEF M, D
  <2>6. SwitchRows' = SwitchRows
    <3>1. \A e \in SwitchRows : e \in Kept(lost)
      BY <2>1, <2>2 DEF SwitchRows, Kept, Of, Tombstones
    <3>2. \A e \in Kept(lost) : e \in entries
      BY DEF Kept
    <3> QED BY <2>1, <2>3, <3>1, <3>2 DEF SwitchRows, Of
  <2>7. Tombstones' = early \cup M
    <3>1. \A e : e \in Kept(lost) <=> e \in entries /\ e \notin lost /\ e \notin run
      BY DEF Kept
    <3> HIDE DEF run
    <3> QED BY <2>1, <2>2, <2>3, <3>1 DEF Tombstones, Of, run
  <2>8. TrailingRun(entries') = M
    <3>1. \A e : e \in Kept(lost) <=> e \in entries /\ e \notin lost /\ e \notin run
      BY DEF Kept
    <3>2. \A e \in entries : e.seq <= seq /\ e.seq \in Nat /\ seq \in Nat
      BY DEF LinkInv, RowsOK
    <3>3. ASSUME NEW m \in M PROVE m \in TrailingRun(entries')
      <4>1. \A s \in entries' : s.kind # "tombstone" => s \in entries
        BY <2>1, <2>3, <3>1
      <4>2. m.seq > seq /\ m.chain = Instance /\ m.kind = "tombstone" /\ m \in entries'
        BY <2>1, <2>3
      <4>3. m.seq \in Int
        BY <4>2, RowsStay DEF RowInv, Row
      <4> QED BY <3>2, <4>1, <4>2, <4>3 DEF TrailingRun
    <3>4. ASSUME NEW m \in TrailingRun(entries'), m \notin M PROVE FALSE
      <4>1. m \in entries /\ m \notin run /\ m.chain = Instance /\ m.kind = "tombstone"
        BY <2>1, <3>1, <3>4 DEF TrailingRun
      <4>2. PICK s \in entries : s.chain = Instance /\ s.kind # "tombstone" /\ ~(s.seq < m.seq)
        BY <4>1 DEF TrailingRun
      <4>3. s \in entries'
        BY <2>1, <2>2, <3>1, <4>2 DEF Tombstones, Of
      <4> QED BY <3>4, <4>2, <4>3 DEF TrailingRun
    <3> QED BY <3>3, <3>4
  <2>9. (Tombstones \ TrailingRun(entries))' = early
    <3>1. early \cap M = {}
      <4>1. \A e \in early : e.seq <= seq /\ e.seq \in Nat /\ seq \in Nat
        BY <1>0 DEF LinkInv, RowsOK
      <4> QED BY <2>3, <4>1
    <3> HIDE DEF early
    <3> QED BY <2>7, <2>8, <3>1
  <2>10. /\ Cardinality(Tombstones') <= Cardinality(early) + Cardinality(M)
         /\ Cardinality(Tombstones') \in Nat
    <3>1. /\ IsFiniteSet(early \cup M)
          /\ Cardinality(early \cup M) = Cardinality(early) + Cardinality(M) - Cardinality(early \cap M)
      BY <1>1, <2>5, FS_Union
    <3>2. Cardinality(early \cap M) \in Nat
      BY <1>1, FS_Intersection, FS_CardinalityType
    <3> QED BY <1>1, <2>5, <2>7, <3>1, <3>2, FS_CardinalityType
  <2> DEFINE before == switches * Others
  <2>11. before \in Nat /\ (switches + 1) * Others = before + Others
    <3> HIDE DEF switches
    <3> QED BY <1>1, MoreSwitches
  <2>12. torn' = {} => Cardinality(early) <= before + drops
    BY <2>4 DEF RegisterInv
  <2>13. torn' = {} => Cardinality(Tombstones') <= (switches + 1) * Others + drops
    <3> HIDE DEF before, early
    <3> QED BY <1>1, <2>5, <2>10, <2>11, <2>12
  <2> HIDE DEF early
  <2> QED BY <2>4, <2>6, <2>9, <2>12, <2>13 DEF RegisterInv, Others
<1>7. ASSUME NEW u \in User, Drops(u) PROVE RegisterInv'
  <2> DEFINE m == DropMark(u)
  <2>0. u \in Chain \ {Instance}
    BY BoundsAreNumbers
  <2>1. m.chain = Instance /\ m.kind = "tombstone" /\ m.seq = seq + 1
    BY <1>7, DropMarkIsRow
  <2>2. entries' = (entries \ Of(u)) \cup {m} /\ torn' = torn /\ drops' = drops + 1
    BY <1>7 DEF Drops
  <2> HIDE DEF m
  <2>3. SwitchRows' = SwitchRows /\ Tombstones' = Tombstones \cup {m} /\ m \notin Tombstones
    BY <2>0, <2>1, <2>2 DEF SwitchRows, Tombstones, Of, LinkInv, RowsOK
  <2>4. TrailingRun(entries') = TrailingRun(entries) \cup {m}
    <3>1. \A e \in entries : e.seq < m.seq
      BY <2>1 DEF LinkInv, RowsOK
    <3> QED BY <2>0, <2>1, <2>2, <3>1 DEF TrailingRun, Of
  <2>5. (Tombstones \ TrailingRun(entries))' = early
    BY <2>3, <2>4
  <2>6. Cardinality(Tombstones') = Cardinality(Tombstones) + 1
    BY <1>1, <2>3, FS_AddElement
  <2> DEFINE less == switches * Others
             more == (switches + 1) * Others
  <2>7. less \in Nat /\ more \in Nat
    <3>1. switches + 1 \in Nat
      BY <1>1
    <3> HIDE DEF switches
    <3> QED BY <1>1, <3>1, MoreSwitches
  <2>8. torn' = {} => Cardinality(early) <= less + drops /\ Cardinality(Tombstones) <= more + drops
    BY <2>2 DEF RegisterInv
  <2>9. torn' = {} => Cardinality(early) <= less + drops' /\ Cardinality(Tombstones') <= more + drops'
    <3> HIDE DEF less, more, early
    <3> QED BY <1>1, <2>2, <2>6, <2>7, <2>8
  <2> HIDE DEF early
  <2> QED BY <2>3, <2>5, <2>9 DEF RegisterInv, Others
<1>8. ASSUME NEW e \in entries, Tear(e) PROVE RegisterInv'
  BY <1>8 DEF Tear, RegisterInv
<1>9. ASSUME NEW e \in entries, Alter(e) PROVE RegisterInv'
  <2> DEFINE a == [e EXCEPT !.whole = FALSE]
  <2>1. a.seq = e.seq /\ a.chain = e.chain /\ a.kind = e.kind /\ a.removed = e.removed
    BY AlteredRow DEF RowInv
  <2>2. entries' = (entries \ {e}) \cup {a} /\ torn' = torn /\ drops' = drops
    BY <1>9 DEF Alter, history
  <2> HIDE DEF a
  <2>3. a \in entries => a = e
    BY <2>1 DEF LinkInv, RowsOK
  <2>4. ASSUME NEW T \in SUBSET entries, NEW U, \A x : x \in U <=> (x = a /\ e \in T) \/ (x \in T /\ x # e)
        PROVE  Cardinality(U) = Cardinality(T)
    <3>1. IsFiniteSet(T) /\ (\A x \in T : x.removed \in Nat)
      BY SubsetsAreFinite
    <3> QED BY <2>1, <2>3, <2>4, <3>1, AlteredCounts
  <2>5. Cardinality(SwitchRows') = switches
    <3>1. \A x : x \in SwitchRows' <=> (x = a /\ e \in SwitchRows) \/ (x \in SwitchRows /\ x # e)
      BY <2>1, <2>2 DEF SwitchRows, Of
    <3> QED BY <1>0, <2>4, <3>1
  <2>6. \A x : x \in Tombstones' <=> (x = a /\ e \in Tombstones) \/ (x \in Tombstones /\ x # e)
    BY <2>1, <2>2 DEF Tombstones, Of
  <2>7. Cardinality(Tombstones') = Cardinality(Tombstones)
    BY <1>0, <2>4, <2>6
  <2>8. \A x : x \in TrailingRun(entries') <=>
               (x = a /\ e \in TrailingRun(entries)) \/ (x \in TrailingRun(entries) /\ x # e)
    BY <2>1, <2>2 DEF TrailingRun
  <2>9. \A x : x \in (Tombstones \ TrailingRun(entries))' <=> (x = a /\ e \in early) \/ (x \in early /\ x # e)
    BY <1>0, <2>3, <2>6, <2>8
  <2>10. Cardinality((Tombstones \ TrailingRun(entries))') = Cardinality(early)
    <3> HIDE DEF early
    <3> QED BY <1>0, <2>4, <2>9
  <2> QED BY <1>2, <2>2, <2>5, <2>7, <2>10
<1> QED BY <1>3, <1>4, <1>5, <1>6, <1>7, <1>8, <1>9, StepsOfTheTable DEF TableSteps

-----------------------------------------------------------------------------
CountsInv == RowInv /\ JobsInv /\ BesidesInv /\ DownInv /\ GoneInv /\ GapInv /\ RegisterInv

LEMMA CountsInit == Init => CountsInv
<1> SUFFICES ASSUME Init PROVE CountsInv
  OBVIOUS
<1>1. RowInv
  BY BoundsAreNumbers DEF Init, RowInv
<1>2. JobsInv
  BY IdleIsJob DEF Init, JobsInv
<1>3. BesidesInv
  BY BoundsAreNumbers DEF Init, BesidesInv
<1>4. DownInv
  BY DEF Init, DownInv
<1>5. \A c : Of(c) = {} /\ MarksOf(entries, c) = {}
  BY DEF Init, Of, MarksOf
<1>6. GoneInv
  BY <1>5, FS_EmptySet, BoundsAreNumbers DEF Init, GoneInv
<1>7. RemovedIn({}) = 0
  BY RemovedTotal, TotalOfNothing, FS_EmptySet DEF RemovedIn
<1>8. GapInv
  BY <1>5, <1>7 DEF Init, GapInv
<1>9. Tombstones = {} /\ SwitchRows = {} /\ Tombstones \ TrailingRun(entries) = {}
  BY <1>5 DEF Tombstones, SwitchRows
<1>10. RegisterInv
  BY <1>9, FS_EmptySet, OthersIsNumber DEF Init, RegisterInv
<1> QED BY <1>1, <1>2, <1>3, <1>4, <1>6, <1>8, <1>10 DEF CountsInv

LEMMA CountsStay == LinkInv /\ CountsInv /\ [Next]_vars => (LinkInv /\ CountsInv)'
<1> SUFFICES ASSUME LinkInv, CountsInv, [Next]_vars PROVE (LinkInv /\ CountsInv)'
  OBVIOUS
<1>1. LinkInv'
  BY LinkStep
<1>2. RowInv' /\ JobsInv' /\ BesidesInv' /\ DownInv' /\ GoneInv' /\ GapInv' /\ RegisterInv'
  BY RowsStay, JobsStay, BesidesStay, DownStays, GoneStays, GapsStay, RegisterStays DEF CountsInv
<1> QED BY <1>1, <1>2 DEF CountsInv

LEMMA CountsHold == Spec => [](LinkInv /\ CountsInv)
BY LinkInit, CountsInit, CountsStay, PTL DEF Spec

(* GapsAreCounted: the markers of a chain sum up to all the rows it ever    *)
(* gave up, although sweeps absorb and rewrite them and tasks share the     *)
(* work.                                                                    *)
THEOREM MarkersSumUp == Spec => []GapsAreCounted
<1>1. CountsInv => GapsAreCounted
  <2>1. \A c : {m \in Tombstones : m.gap = c} = MarksOf(entries, c)
    BY DEF Tombstones, Of, MarksOf
  <2> QED BY <2>1 DEF CountsInv, GapInv, GapsAreCounted, RemovedIn
<1> QED BY <1>1, CountsHold, PTL

(* RegisterIsBounded: however often is swept, the register holds at most    *)
(* one marker per chain between two switches, and one per dropped chain.    *)
THEOREM RegisterStaysSmall == Spec => []RegisterIsBounded
<1>1. CountsInv => RegisterIsBounded
  BY DEF CountsInv, RegisterInv, RegisterIsBounded, Others
<1> QED BY <1>1, CountsHold, PTL

(* RefusalsAreCounted: a refused exchange stands in a row, in a task that   *)
(* writes one, or in the window of the brake, whatever fails or dies        *)
(* (a process has finitely many tasks in flight).                           *)
THEOREM EveryRefusalIsCounted == ASSUME IsFiniteSet(Task) PROVE Spec => []RefusalsAreCounted
<1>1. Init => RefusalInv
  <2> SUFFICES ASSUME Init PROVE RefusalInv
    OBVIOUS
  <2> DEFINE g == [t \in Task |-> StandsOf(task[t])]
  <2>1. \A t \in Task : g[t] = 0
    BY DEF Init, StandsOf, Idle
  <2> HIDE DEF g
  <2>2. Total(g, Task) = 0
    BY <2>1, TotalOfZeros
  <2> QED BY <2>2 DEF Init, RefusalInv, Owing, NoWindow, g
<1>2. LinkInv /\ CountsInv /\ RefusalInv /\ [Next]_vars => RefusalInv'
  BY RefusalsStay DEF CountsInv
<1>3. RefusalInv => RefusalsAreCounted
  BY StandsTotal DEF RefusalInv, RefusalsAreCounted, Owing
<1> QED BY <1>1, <1>2, <1>3, CountsHold, PTL DEF Spec

(* TypeOK: every row, task and counter has its type; in particular numbers  *)
(* are given once, no chain gives up more than was ever written, and no     *)
(* count of refusals becomes negative.                                      *)
THEOREM LogTypeCorrect == ASSUME IsFiniteSet(Task) PROVE Spec => []TypeOK
<1>1. LinkInv /\ CountsInv /\ RefusalsAreCounted => TypeOK
  <2> SUFFICES ASSUME LinkInv, CountsInv, RefusalsAreCounted PROVE TypeOK
    OBVIOUS
  <2>1. unsaid \in Nat
    <3>1. unsaid = window.swallowed + Owing(task)
      BY StandsTotal DEF RefusalsAreCounted, Owing
    <3>2. Owing(task) \in Nat
      BY OwingType DEF CountsInv
    <3>3. window.swallowed \in Nat
      BY BoundsAreNumbers DEF CountsInv, BesidesInv, NoWindow
    <3> QED BY <3>1, <3>2, <3>3
  <2>2. gone \in [Chain -> 0..MaxSeq]
    <3>1. \A c \in Chain : gone[c] \in 0..MaxSeq
      <4> SUFFICES ASSUME NEW c \in Chain \ {Instance} PROVE gone[c] \in 0..MaxSeq
        BY BoundsAreNumbers DEF CountsInv, GoneInv
      <4>1. Of(c) \in SUBSET entries
        BY DEF Of
      <4>2. Cardinality(Of(c)) \in Nat
        BY <4>1, SubsetsAreFinite DEF CountsInv
      <4> QED BY <4>2, BoundsAreNumbers DEF CountsInv, GoneInv, RowInv
    <3> QED BY <3>1 DEF CountsInv, GoneInv
  <2>3. task \in [Task -> Job]
    BY DEF CountsInv, JobsInv, Jobs
  <2> QED BY <2>1, <2>2, <2>3 DEF TypeOK, CountsInv, RowInv, BesidesInv, LinkInv, RowsOK
<1> QED BY <1>1, CountsHold, EveryRefusalIsCounted, PTL
=============================================================================
