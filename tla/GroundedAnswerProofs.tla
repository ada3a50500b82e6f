------------------------ MODULE GroundedAnswerProofs ------------------------
(***************************************************************************)
(* Proofs about GroundedAnswer, for any evidence the tools may return, any  *)
(* texts the model may write and any bounds: the evidence stays bounded,    *)
(* what the verifier lists and passes stands, and an answer of the model    *)
(* cites the turn's evidence only.                                          *)
(***************************************************************************)
EXTENDS GroundedAnswer, FiniteSetTheorems, SequenceTheorems, WellFoundedInduction, TLAPS

-----------------------------------------------------------------------------
(* Lists by the places of their members: the order is a bijection.          *)

StrictOrder(places, before) ==
    /\ \A i \in places : <<i, i>> \notin before
    /\ \A i, j, k \in places : <<i, j>> \in before /\ <<j, k>> \in before => <<i, k>> \in before
    /\ \A i, j \in places : i # j => <<i, j>> \in before \/ <<j, i>> \in before

\* Every place of a finite set has its own rank, and every rank its place.
LEMMA InOrderBijection ==
  ASSUME NEW places, IsFiniteSet(places), NEW before, StrictOrder(places, before)
  PROVE  /\ Cardinality(places) \in Nat
         /\ InOrder(places, before) \in Bijection(1 .. Cardinality(places), places)
<1> DEFINE n == Cardinality(places)
           Below(i) == {j \in places : <<j, i>> \in before}
           rank == [i \in places |-> Cardinality(Below(i))]
           ranks == 0 .. n - 1
<1>1. n \in Nat
  BY FS_CardinalityType
<1>2. ASSUME NEW i \in places PROVE IsFiniteSet(Below(i)) /\ rank[i] \in ranks
  <2>1. Below(i) \in SUBSET places /\ Below(i) # places
    BY DEF StrictOrder
  <2> HIDE DEF Below
  <2>2. IsFiniteSet(Below(i)) /\ Cardinality(Below(i)) <= n /\ Cardinality(Below(i)) # n
    BY <2>1, FS_Subset
  <2>3. Cardinality(Below(i)) \in Nat
    BY <2>2, FS_CardinalityType
  <2> QED BY <1>1, <2>2, <2>3
<1>3. ASSUME NEW i \in places, NEW j \in places, <<i, j>> \in before PROVE rank[i] < rank[j]
  <2>1. Below(i) \in SUBSET Below(j) /\ i \in Below(j) /\ i \notin Below(i)
    BY <1>3 DEF StrictOrder
  <2> HIDE DEF Below
  <2>2. IsFiniteSet(Below(j)) /\ IsFiniteSet(Below(i))
    BY <1>2
  <2>3. Cardinality(Below(i)) <= Cardinality(Below(j)) /\ Cardinality(Below(i)) # Cardinality(Below(j))
    BY <2>1, <2>2, FS_Subset
  <2>4. Cardinality(Below(i)) \in Nat /\ Cardinality(Below(j)) \in Nat
    BY <2>2, FS_CardinalityType
  <2> QED BY <2>3, <2>4
<1>4. rank \in Injection(places, ranks)
  <2>1. \A i, j \in places : rank[i] = rank[j] => i = j
    <3>1. SUFFICES ASSUME NEW i \in places, NEW j \in places, rank[i] = rank[j], i # j PROVE FALSE
      OBVIOUS
    <3>2. rank[i] < rank[j] \/ rank[j] < rank[i]
      BY <1>3, <3>1 DEF StrictOrder
    <3>3. rank[i] \in Nat /\ rank[j] \in Nat
      BY <1>1, <1>2
    <3> QED BY <3>1, <3>2, <3>3
  <2>2. rank \in [places -> ranks]
    BY <1>2
  <2>3. DOMAIN rank = places
    OBVIOUS
  <2> HIDE DEF rank
  <2> QED BY <2>1, <2>2, <2>3 DEF Injection, IsInjective
<1>5. rank \in Surjection(places, ranks)
  <2>1. IsFiniteSet(ranks) /\ Cardinality(ranks) = n
    BY <1>1, FS_Interval
  <2> HIDE DEF rank, ranks
  <2> QED BY <1>4, <2>1, FS_Injection
<1>6. \A k \in 1 .. n : \E i \in places : rank[i] = k - 1
  <2>1. \A k \in 1 .. n : k - 1 \in ranks
    BY <1>1
  <2> HIDE DEF rank, ranks
  <2> QED BY <1>5, <2>1 DEF Surjection
<1> DEFINE order == InOrder(places, before)
           place(k) == CHOOSE i \in places : Cardinality(Below(i)) = k - 1
<1>7. order = [k \in 1 .. n |-> place(k)]
  BY DEF InOrder
<1> HIDE DEF order
<1>8. \A k \in 1 .. n : place(k) \in places /\ rank[place(k)] = k - 1
  <2>1. TAKE k \in 1 .. n
  <2>2. PICK i \in places : Cardinality(Below(i)) = k - 1
    BY <1>6
  <2> HIDE DEF Below
  <2> QED BY <2>2
<1> HIDE DEF place, rank
<1>9. order \in [1 .. n -> places] /\ \A k \in 1 .. n : order[k] \in places /\ rank[order[k]] = k - 1
  BY <1>7, <1>8
<1>10. \A k, l \in 1 .. n : order[k] = order[l] => k = l
  <2>1. \A k, l \in 1 .. n : k - 1 = l - 1 => k = l
    BY <1>1
  <2> QED BY <1>9, <2>1
<1>11. \A i \in places : \E k \in 1 .. n : order[k] = i
  <2>1. TAKE i \in places
  <2>2. rank[i] \in ranks
    BY <1>2
  <2>3. rank[i] + 1 \in 1 .. n /\ (rank[i] + 1) - 1 = rank[i]
    BY <1>1, <2>2
  <2>4. rank[order[rank[i] + 1]] = rank[i] /\ order[rank[i] + 1] \in places
    BY <1>9, <2>3
  <2>5. order[rank[i] + 1] = i
    BY <1>4, <2>4 DEF Injection, IsInjective
  <2> QED BY <2>3, <2>5
<1>12. order \in Injection(1 .. n, places) /\ order \in Surjection(1 .. n, places)
  BY <1>9, <1>10, <1>11 DEF Injection, IsInjective, Surjection
<1> QED BY <1>1, <1>12 DEF Bijection, order

\* A list of what another one holds at some places, once for each of them.
Picks(t, s, places) ==
    /\ Cardinality(places) \in Nat /\ DOMAIN t = 1 .. Cardinality(places) /\ Len(t) = Cardinality(places)
    /\ \A k \in DOMAIN t : \E i \in places : t[k] = s[i]
    /\ \A k, l \in DOMAIN t : k # l => \E i, j \in places : i # j /\ t[k] = s[i] /\ t[l] = s[j]
    /\ \A i \in places : \E k \in DOMAIN t : t[k] = s[i]

LEMMA ListDomain ==
  ASSUME NEW S, NEW s \in Seq(S)
  PROVE  IsFiniteSet(DOMAIN s) /\ Cardinality(DOMAIN s) = Len(s)
<1>1. Len(s) \in Nat /\ DOMAIN s = 1 .. Len(s)
  OBVIOUS
<1>2. IsFiniteSet(1 .. Len(s)) /\ Cardinality(1 .. Len(s)) = Len(s)
  BY <1>1, FS_Interval
<1> QED BY <1>1, <1>2

LEMMA SubsetList ==
  ASSUME NEW S, NEW T, S \subseteq T, NEW s \in Seq(S)
  PROVE  s \in Seq(T)
<1>1. s \in [1 .. Len(s) -> S] /\ Len(s) \in Nat
  OBVIOUS
<1>2. s \in [1 .. Len(s) -> T]
  BY <1>1
<1> QED BY <1>1, <1>2

LEMMA Joined ==
  ASSUME NEW S, NEW s \in Seq(S), NEW t \in Seq(S)
  PROVE  /\ s \o t \in Seq(S) /\ Len(s) \in Nat /\ Len(t) \in Nat
         /\ DOMAIN (s \o t) = 1 .. Len(s) + Len(t) /\ Len(s \o t) = Len(s) + Len(t)
         /\ DOMAIN s = 1 .. Len(s) /\ DOMAIN t = 1 .. Len(t)
         /\ \A i \in DOMAIN (s \o t) : IF i <= Len(s) THEN i \in DOMAIN s /\ (s \o t)[i] = s[i]
                                       ELSE i - Len(s) \in DOMAIN t /\ (s \o t)[i] = t[i - Len(s)]
<1>1. /\ s \o t \in Seq(S) /\ Len(s \o t) = Len(s) + Len(t)
      /\ \A i \in 1 .. Len(s) + Len(t) : (s \o t)[i] = IF i <= Len(s) THEN s[i] ELSE t[i - Len(s)]
  BY ConcatProperties
<1>2. Len(s) \in Nat /\ Len(t) \in Nat /\ DOMAIN s = 1 .. Len(s) /\ DOMAIN t = 1 .. Len(t)
  OBVIOUS
<1>3. DOMAIN (s \o t) = 1 .. Len(s) + Len(t)
  BY <1>1
<1>4. \A i \in 1 .. Len(s) + Len(t) : IF i <= Len(s) THEN i \in 1 .. Len(s) ELSE i - Len(s) \in 1 .. Len(t)
  BY <1>2
<1> QED BY <1>1, <1>2, <1>3, <1>4

LEMMA PicksByOrder ==
  ASSUME NEW S, NEW s \in Seq(S), NEW places \in SUBSET (DOMAIN s), NEW before, StrictOrder(places, before)
  PROVE  LET t == [k \in 1 .. Cardinality(places) |-> s[InOrder(places, before)[k]]]
         IN  t \in Seq(S) /\ Picks(t, s, places) /\ Len(t) <= Len(s)
<1> DEFINE n == Cardinality(places)
           f == InOrder(places, before)
           t == [k \in 1 .. n |-> s[f[k]]]
<1>1. DOMAIN s = 1 .. Len(s) /\ Len(s) \in Nat /\ \A i \in DOMAIN s : s[i] \in S
  OBVIOUS
<1>2. IsFiniteSet(DOMAIN s) /\ Cardinality(DOMAIN s) = Len(s)
  BY <1>1, ListDomain
<1>3. IsFiniteSet(places) /\ n <= Len(s)
  BY <1>2, FS_Subset
<1>4. n \in Nat /\ f \in Bijection(1 .. n, places)
  BY <1>3, InOrderBijection
<1> HIDE DEF f, n
<1>5. /\ f \in [1 .. n -> places]
      /\ \A k, l \in 1 .. n : f[k] = f[l] => k = l
      /\ \A i \in places : \E k \in 1 .. n : f[k] = i
  BY <1>4 DEF Bijection, Injection, IsInjective, Surjection
<1>6. t \in Seq(S) /\ DOMAIN t = 1 .. n /\ Len(t) = n
  <2>1. \A k \in 1 .. n : s[f[k]] \in S
    BY <1>1, <1>5
  <2>2. t \in [1 .. n -> S]
    BY <2>1
  <2>3. t \in Seq(S)
    BY <1>4, <2>2
  <2> QED BY <1>4, <2>3
<1>7. \A k \in 1 .. n : f[k] \in places /\ t[k] = s[f[k]]
  BY <1>5
<1> HIDE DEF t
<1>8. Picks(t, s, places)
  <2>1. \A k, l \in DOMAIN t : k # l => \E i, j \in places : i # j /\ t[k] = s[i] /\ t[l] = s[j]
    BY <1>5, <1>6, <1>7
  <2>2. \A i \in places : \E k \in DOMAIN t : t[k] = s[i]
    BY <1>5, <1>6, <1>7
  <2>3. \A k \in DOMAIN t : \E i \in places : t[k] = s[i]
    BY <1>6, <1>7
  <2>4. Cardinality(places) \in Nat /\ DOMAIN t = 1 .. Cardinality(places) /\ Len(t) = Cardinality(places)
    BY <1>4, <1>6 DEF n
  <2> QED BY Zenon, <2>1, <2>2, <2>3, <2>4 DEF Picks
<1> QED BY <1>3, <1>6, <1>8 DEF t, f, n

LEMMA AtPicks ==
  ASSUME NEW S, NEW s \in Seq(S), NEW places \in SUBSET (DOMAIN s)
  PROVE  At(s, places) \in Seq(S) /\ Picks(At(s, places), s, places) /\ Len(At(s, places)) <= Len(s)
<1>1. StrictOrder(places, Upwards(places))
  <2>1. places \subseteq Int
    OBVIOUS
  <2> QED BY <2>1 DEF StrictOrder, Upwards
<1> QED BY <1>1, PicksByOrder DEF At

\* What is picked from places all of whose values are in a set is a list of
\* that set.
LEMMA PicksIn ==
  ASSUME NEW S, NEW T, NEW s, NEW places, NEW t \in Seq(S), Picks(t, s, places), \A i \in places : s[i] \in T
  PROVE  t \in Seq(T)
<1>1. \A k \in DOMAIN t : t[k] \in T
  BY DEF Picks
<1>2. t \in [1 .. Len(t) -> S] /\ Len(t) \in Nat /\ DOMAIN t = 1 .. Len(t)
  OBVIOUS
<1>3. t \in [1 .. Len(t) -> T]
  BY <1>1, <1>2
<1> QED BY <1>2, <1>3

LEMMA TopKeeps ==
  ASSUME NEW S, NEW s \in Seq(S), NEW n \in Nat
  PROVE  /\ Top(s, n) \in Seq(S) /\ Len(Top(s, n)) <= n /\ Len(Top(s, n)) <= Len(s)
         /\ \A k \in DOMAIN Top(s, n) : k \in DOMAIN s /\ Top(s, n)[k] = s[k]
         /\ Top(s, n) = <<>> => s = <<>> \/ n = 0
<1> DEFINE m == IF Len(s) < n THEN Len(s) ELSE n
<1>1. m \in Nat /\ m <= Len(s) /\ m <= n /\ Len(s) \in Nat
  OBVIOUS
<1>2. Top(s, n) = SubSeq(s, 1, m)
  BY DEF Top
<1>3. SubSeq(s, 1, m) \in Seq(S) /\ Len(SubSeq(s, 1, m)) = m /\ \A k \in 1 .. m : SubSeq(s, 1, m)[k] = s[k]
  BY <1>1
<1>4. m = 0 => s = <<>> \/ n = 0
  BY <1>1
<1> HIDE DEF m
<1>5. DOMAIN SubSeq(s, 1, m) = 1 .. m /\ \A k \in 1 .. m : k \in DOMAIN s
  BY <1>1, <1>3
<1>6. SubSeq(s, 1, m) = <<>> => m = 0
  BY <1>3
<1> QED BY <1>1, <1>2, <1>3, <1>4, <1>5, <1>6

LEMMA FirstInOrder ==
  ASSUME NEW S, NEW s \in Seq(S), NEW places \in SUBSET (DOMAIN s), places # {},
         NEW before, StrictOrder(places, before)
  PROVE  InOrder(places, before)[1] \in places
<1>1. IsFiniteSet(places)
  BY ListDomain, FS_Subset
<1>2. Cardinality(places) \in Nat /\ InOrder(places, before) \in Bijection(1 .. Cardinality(places), places)
  BY <1>1, InOrderBijection
<1>3. Cardinality(places) # 0
  BY <1>1, FS_EmptySet
<1>4. 1 \in 1 .. Cardinality(places)
  BY <1>2, <1>3
<1> QED BY <1>2, <1>4 DEF Bijection, Injection

-----------------------------------------------------------------------------
(* Evidence: what normalising and merging keep.                             *)

LEMMA AheadOrders ==
  ASSUME NEW s \in Seq(Evidence), NEW places \in SUBSET (DOMAIN s)
  PROVE  StrictOrder(places, Ahead(s))
<1> DEFINE Score(i) == s[i].score
<1>1. \A i \in DOMAIN s : i \in Int /\ Score(i) \in Int
  <2>1. \A i \in DOMAIN s : i \in Int /\ s[i] \in Evidence
    OBVIOUS
  <2>2. \A e \in Evidence : e.score \in Int
    BY DEF Evidence
  <2> QED BY <2>1, <2>2
<1>2. \A i, j \in places :
        <<i, j>> \in Ahead(s) <=> Score(i) > Score(j) \/ (Score(i) = Score(j) /\ i < j)
  BY DEF Ahead
<1> HIDE DEF Score
<1> QED BY <1>1, <1>2 DEF StrictOrder

LEMMA RankedPicks ==
  ASSUME NEW S \in SUBSET Evidence, NEW s \in Seq(S)
  PROVE  Ranked(s) \in Seq(S) /\ Picks(Ranked(s), s, DOMAIN s)
<1>1. s \in Seq(Evidence)
  <2>1. s \in [1 .. Len(s) -> S] /\ Len(s) \in Nat
    OBVIOUS
  <2>2. s \in [1 .. Len(s) -> Evidence]
    BY <2>1
  <2> QED BY <2>1, <2>2
<1>2. StrictOrder(DOMAIN s, Ahead(s))
  BY <1>1, AheadOrders
<1>3. DOMAIN s = 1 .. Cardinality(DOMAIN s)
  <2>1. Cardinality(DOMAIN s) = Len(s) /\ DOMAIN s = 1 .. Len(s)
    BY ListDomain
  <2> QED BY <2>1
<1> DEFINE t == [k \in 1 .. Cardinality(DOMAIN s) |-> s[InOrder(DOMAIN s, Ahead(s))[k]]]
<1>4. t \in Seq(S) /\ Picks(t, s, DOMAIN s)
  BY <1>2, PicksByOrder
<1>5. Ranked(s) = t
  BY <1>3 DEF Ranked
<1> QED BY <1>4, <1>5

\* The best of a key, and the newest of a key, are of that key.
LEMMA BestIsThere ==
  ASSUME NEW s \in Seq(Evidence), NEW i \in DOMAIN s
  PROVE  \E j \in PlacesOf(s, s[i]) : BestOf(s, s[i]) = s[j]
<1>1. PlacesOf(s, s[i]) \in SUBSET (DOMAIN s) /\ PlacesOf(s, s[i]) # {}
  BY DEF PlacesOf
<1>2. StrictOrder(PlacesOf(s, s[i]), Ahead(s))
  BY <1>1, AheadOrders
<1>3. InOrder(PlacesOf(s, s[i]), Ahead(s))[1] \in PlacesOf(s, s[i])
  BY <1>1, <1>2, FirstInOrder
<1> QED BY <1>3 DEF BestOf

LEMMA NewestIsThere ==
  ASSUME NEW S, NEW s \in Seq(S), NEW e, PlacesOf(s, e) # {}
  PROVE  \E j \in PlacesOf(s, e) : Newest(s, e) = s[j]
<1>1. PlacesOf(s, e) \in SUBSET (DOMAIN s)
  BY DEF PlacesOf
<1>2. StrictOrder(PlacesOf(s, e), Downwards(DOMAIN s))
  <2>1. DOMAIN s \subseteq Int
    OBVIOUS
  <2> QED BY <1>1, <2>1 DEF StrictOrder, Downwards
<1>3. InOrder(PlacesOf(s, e), Downwards(DOMAIN s))[1] \in PlacesOf(s, e)
  BY <1>1, <1>2, FirstInOrder
<1> QED BY <1>3 DEF Newest

\* What is normalised is usable.
LEMMA NormalisedKeeps ==
  ASSUME NEW S \in SUBSET Evidence, NEW raw \in Seq(S), NEW n \in Nat
  PROVE  Normalised(raw, n) \in Seq({e \in S : e.validity # "invalid"})
<1> DEFINE U == {e \in S : e.validity # "invalid"}
           kept == At(raw, {i \in DOMAIN raw : Usable(raw[i])})
           best == [i \in DOMAIN kept |-> BestOf(kept, kept[i])]
<1>1. kept \in Seq(U)
  <2>1. {i \in DOMAIN raw : Usable(raw[i])} \in SUBSET (DOMAIN raw)
    OBVIOUS
  <2>2. kept \in Seq(S) /\ Picks(kept, raw, {i \in DOMAIN raw : Usable(raw[i])})
    BY <2>1, AtPicks
  <2>3. \A i \in {i \in DOMAIN raw : Usable(raw[i])} : raw[i] \in U
    BY DEF Usable
  <2> HIDE DEF U, kept
  <2> QED BY <2>2, <2>3, PicksIn
<1> HIDE DEF kept
<1>2. best \in Seq(U)
  <2>1. kept \in Seq(Evidence) /\ Len(kept) \in Nat /\ DOMAIN kept = 1 .. Len(kept)
    <3>1. kept \in [1 .. Len(kept) -> U] /\ Len(kept) \in Nat
      BY <1>1
    <3>2. kept \in [1 .. Len(kept) -> Evidence]
      BY <3>1
    <3> QED BY <1>1, <3>1, <3>2
  <2>2. ASSUME NEW i \in DOMAIN kept PROVE BestOf(kept, kept[i]) \in U
    <3>1. PICK j \in PlacesOf(kept, kept[i]) : BestOf(kept, kept[i]) = kept[j]
      BY <2>1, BestIsThere
    <3>2. j \in DOMAIN kept
      BY DEF PlacesOf
    <3> QED BY <1>1, <3>1, <3>2
  <2>3. best \in [1 .. Len(kept) -> U]
    BY <2>1, <2>2
  <2> QED BY <2>1, <2>3
<1>3. KeepBest(kept) \in Seq(U)
  <2>1. Firsts(kept) \in SUBSET (DOMAIN best)
    BY DEF Firsts
  <2> HIDE DEF best
  <2>2. At(best, Firsts(kept)) \in Seq(U)
    BY <1>2, <2>1, AtPicks
  <2> QED BY <2>2 DEF KeepBest, best
<1>4. Ranked(KeepBest(kept)) \in Seq(U)
  <2>1. U \in SUBSET Evidence
    OBVIOUS
  <2> HIDE DEF U
  <2> QED BY <1>3, <2>1, RankedPicks
<1>5. Top(Ranked(KeepBest(kept)), n) \in Seq(U)
  <2> HIDE DEF U
  <2> QED BY <1>4, TopKeeps
<1> QED BY <1>5 DEF Normalised, kept

DistinctKeys(s) == \A i, j \in DOMAIN s : EvidenceKey(s[i]) = EvidenceKey(s[j]) => i = j

\* A key is in the merged list once when it was in the state's list once.
LEMMA MergedUniqueKeeps ==
  ASSUME NEW S, NEW left \in Seq(S), NEW right \in Seq(S), DistinctKeys(left)
  PROVE  MergedUnique(left, right) \in Seq(S) /\ DistinctKeys(MergedUnique(left, right))
<1> DEFINE known == [i \in DOMAIN left |->
                        IF PlacesOf(right, left[i]) = {} THEN left[i] ELSE Newest(right, left[i])]
           new == {i \in Firsts(right) : PlacesOf(left, right[i]) = {}}
           late == [i \in DOMAIN right |-> Newest(right, right[i])]
           fresh == At(late, new)
<1>1. CASE right = <<>>
  <2>1. MergedUnique(left, right) = <<>>
    BY <1>1 DEF MergedUnique
  <2>2. <<>> \in Seq(S) /\ DOMAIN <<>> = {}
    OBVIOUS
  <2> QED BY <2>1, <2>2 DEF DistinctKeys
<1>2. ASSUME NEW e, PlacesOf(right, e) # {}
      PROVE  Newest(right, e) \in S /\ EvidenceKey(Newest(right, e)) = EvidenceKey(e)
  <2>1. PICK j \in PlacesOf(right, e) : Newest(right, e) = right[j]
    BY <1>2, NewestIsThere
  <2>2. j \in DOMAIN right /\ EvidenceKey(right[j]) = EvidenceKey(e)
    BY DEF PlacesOf
  <2> QED BY <2>1, <2>2
<1>3. /\ known \in Seq(S) /\ DOMAIN known = DOMAIN left /\ Len(known) = Len(left)
      /\ \A i \in DOMAIN left : EvidenceKey(known[i]) = EvidenceKey(left[i])
  <2>1. left \in [1 .. Len(left) -> S] /\ Len(left) \in Nat /\ DOMAIN left = 1 .. Len(left)
    OBVIOUS
  <2>2. \A i \in DOMAIN left : known[i] \in S /\ EvidenceKey(known[i]) = EvidenceKey(left[i])
    BY <1>2, <2>1
  <2>3. known \in [1 .. Len(left) -> S]
    BY <2>1, <2>2
  <2> HIDE DEF known
  <2> QED BY <2>1, <2>2, <2>3
<1>4. /\ late \in Seq(S) /\ DOMAIN late = DOMAIN right
      /\ \A i \in DOMAIN right : EvidenceKey(late[i]) = EvidenceKey(right[i])
  <2>1. right \in [1 .. Len(right) -> S] /\ Len(right) \in Nat /\ DOMAIN right = 1 .. Len(right)
    OBVIOUS
  <2>2. \A i \in DOMAIN right : PlacesOf(right, right[i]) # {}
    BY DEF PlacesOf
  <2>3. \A i \in DOMAIN right : late[i] \in S /\ EvidenceKey(late[i]) = EvidenceKey(right[i])
    BY <1>2, <2>2
  <2>4. late \in [1 .. Len(right) -> S]
    BY <2>1, <2>3
  <2> HIDE DEF late
  <2> QED BY <2>1, <2>3, <2>4
<1>5. new \in SUBSET (DOMAIN late) /\ \A i \in new : i \in Firsts(right) /\ PlacesOf(left, right[i]) = {}
  BY <1>4 DEF Firsts
<1> HIDE DEF known, new, late
<1>6. fresh \in Seq(S) /\ Picks(fresh, late, new)
  BY <1>4, <1>5, AtPicks
<1> HIDE DEF fresh
<1>7. ASSUME NEW i \in new, NEW j \in new, EvidenceKey(late[i]) = EvidenceKey(late[j]) PROVE i = j
  <2>1. i \in DOMAIN right /\ j \in DOMAIN right /\ i \in Int /\ j \in Int
    BY <1>4, <1>5
  <2>2. EvidenceKey(right[i]) = EvidenceKey(right[j])
    BY <1>4, <1>7, <2>1
  <2>3. j \in PlacesOf(right, right[i]) /\ i \in PlacesOf(right, right[j])
    BY <2>1, <2>2 DEF PlacesOf
  <2>4. i <= j /\ j <= i
    BY <1>5, <2>3 DEF Firsts
  <2> QED BY <2>1, <2>4
<1>8. \A k \in DOMAIN fresh : \A i \in DOMAIN left : EvidenceKey(fresh[k]) # EvidenceKey(left[i])
  <2>1. TAKE k \in DOMAIN fresh
  <2>2. TAKE i \in DOMAIN left
  <2>3. PICK j \in new : fresh[k] = late[j]
    BY <1>6 DEF Picks
  <2>4. EvidenceKey(fresh[k]) = EvidenceKey(right[j])
    BY <1>4, <1>5, <2>3
  <2> QED BY <1>5, <2>4 DEF PlacesOf
<1>9. DistinctKeys(fresh)
  <2>1. SUFFICES ASSUME NEW k \in DOMAIN fresh, NEW l \in DOMAIN fresh,
                        EvidenceKey(fresh[k]) = EvidenceKey(fresh[l]), k # l
                 PROVE  FALSE
    BY DEF DistinctKeys
  <2>2. \E i, j \in new : i # j /\ fresh[k] = late[i] /\ fresh[l] = late[j]
    BY <1>6, <2>1 DEF Picks
  <2> QED BY <1>7, <2>1, <2>2
<1>10. DistinctKeys(known)
  BY <1>3 DEF DistinctKeys
<1>11. known \o fresh \in Seq(S) /\ DistinctKeys(known \o fresh)
  <2> DEFINE t == known \o fresh
             N == Len(known)
  <2>1. /\ t \in Seq(S) /\ N \in Nat /\ DOMAIN t = 1 .. N + Len(fresh) /\ Len(fresh) \in Nat
        /\ \A i \in DOMAIN t : IF i <= N THEN i \in DOMAIN known /\ t[i] = known[i]
                              ELSE i - N \in DOMAIN fresh /\ t[i] = fresh[i - N]
    <3>1. known \in Seq(S)
      BY <1>3
    <3>2. fresh \in Seq(S)
      BY <1>6
    <3> QED BY <3>1, <3>2, Joined
  <2> HIDE DEF t, N
  <2>2. \A i \in DOMAIN t : i \in Int
    BY <2>1
  <2>3. \A k \in DOMAIN fresh : \A i \in DOMAIN known : EvidenceKey(fresh[k]) # EvidenceKey(known[i])
    BY <1>3, <1>8
  <2>4. ASSUME NEW i \in DOMAIN t, NEW j \in DOMAIN t, EvidenceKey(t[i]) = EvidenceKey(t[j]) PROVE i = j
    <3>1. i \in Int /\ j \in Int
      BY <2>2
    <3>2. CASE i <= N /\ j <= N
      BY <1>10, <2>1, <2>4, <3>2 DEF DistinctKeys
    <3>3. CASE ~(i <= N) /\ ~(j <= N)
      <4>1. i - N \in DOMAIN fresh /\ j - N \in DOMAIN fresh /\ t[i] = fresh[i - N] /\ t[j] = fresh[j - N]
        BY <2>1, <3>3
      <4>2. i - N = j - N
        BY <1>9, <2>4, <4>1 DEF DistinctKeys
      <4> QED BY <2>1, <3>1, <4>2
    <3>4. CASE ~(i <= N <=> j <= N)
      BY <2>1, <2>3, <2>4, <3>4
    <3> QED BY <3>2, <3>3, <3>4
  <2> QED BY <2>1, <2>4 DEF DistinctKeys, t
<1>12. CASE right # <<>>
  <2>1. MergedUnique(left, right) = known \o fresh
    BY <1>12 DEF MergedUnique, known, fresh, late, new
  <2> QED BY <1>11, <2>1
<1> QED BY <1>1, <1>12

\* What is picked from a list holds a key once when the list does.
LEMMA PicksKeepKeys ==
  ASSUME NEW t, NEW s, NEW places \in SUBSET (DOMAIN s), Picks(t, s, places), DistinctKeys(s)
  PROVE  DistinctKeys(t)
<1>1. SUFFICES ASSUME NEW k \in DOMAIN t, NEW l \in DOMAIN t, EvidenceKey(t[k]) = EvidenceKey(t[l]), k # l
               PROVE  FALSE
  BY DEF DistinctKeys
<1>2. \E i, j \in places : i # j /\ t[k] = s[i] /\ t[l] = s[j]
  BY <1>1 DEF Picks
<1> QED BY <1>1, <1>2 DEF DistinctKeys

\* One list of the state: bounded, every key once, all of it of one set.
Pool(s, S, limit) == s \in Seq(S) /\ Len(s) <= limit /\ DistinctKeys(s)

LEMMA MergedTopKeeps ==
  ASSUME NEW S \in SUBSET Evidence, NEW left \in Seq(S), NEW right \in Seq(S), DistinctKeys(left),
         NEW limit \in Nat
  PROVE  Pool(MergedTop(left, right, limit), S, limit)
<1> DEFINE merged == MergedUnique(left, right)
<1>1. merged \in Seq(S) /\ DistinctKeys(merged)
  BY MergedUniqueKeeps
<1> HIDE DEF merged
<1>2. Ranked(merged) \in Seq(S) /\ DistinctKeys(Ranked(merged))
  BY <1>1, RankedPicks, PicksKeepKeys
<1>3. Pool(Top(Ranked(merged), limit), S, limit)
  <2>1. Top(Ranked(merged), limit) \in Seq(S) /\ Len(Top(Ranked(merged), limit)) <= limit
    BY <1>2, TopKeeps
  <2>2. \A k \in DOMAIN Top(Ranked(merged), limit) :
          k \in DOMAIN Ranked(merged) /\ Top(Ranked(merged), limit)[k] = Ranked(merged)[k]
    BY <1>2, TopKeeps
  <2> QED BY <1>2, <2>1, <2>2 DEF Pool, DistinctKeys
<1>4. MergedTop(left, right, limit) = IF Len(merged) <= limit THEN merged ELSE Top(Ranked(merged), limit)
  BY DEF MergedTop, merged
<1> QED BY <1>1, <1>3, <1>4 DEF Pool

\* A case shows a known number, or a name and a source that are no numbers.
Numbering(c) ==
    c.kind = "case" => c.no \in CaseNumbers /\ (c.no = None => {c.name, c.src} \cap CaseNumbers \subseteq {None})

Stock(kind) == {e \in Evidence : e.kind = kind /\ Numbering(e)}
InForce(kind) == {e \in Stock(kind) : e.validity # "invalid"}

LEMMA NumberedKeeps ==
  ASSUME NEW kind, NEW s \in Seq(InForce(kind))
  PROVE  Numbered(s) \in Seq(InForce(kind))
<1>1. Len(s) \in Nat /\ DOMAIN s = 1 .. Len(s) /\ \A i \in DOMAIN s : s[i] \in InForce(kind) /\ i \in Nat
  OBVIOUS
<1>2. ASSUME NEW e \in InForce(kind), NEW i \in Nat PROVE [e EXCEPT !.ref = i] \in InForce(kind)
  <2>1. e \in Evidence /\ e.kind = kind /\ Numbering(e) /\ e.validity # "invalid"
    BY DEF InForce, Stock
  <2> DEFINE f == [e EXCEPT !.ref = i]
  <2>2. f \in Evidence /\ f.kind = e.kind /\ f.name = e.name /\ f.no = e.no /\ f.src = e.src /\ f.validity = e.validity
    BY <2>1 DEF Evidence
  <2> HIDE DEF f
  <2>3. Numbering(f)
    BY <2>1, <2>2 DEF Numbering
  <2>4. f \in InForce(kind)
    BY <2>1, <2>2, <2>3 DEF InForce, Stock
  <2> QED BY <2>4 DEF f
<1>3. Numbered(s) \in [1 .. Len(s) -> InForce(kind)]
  BY <1>1, <1>2 DEF Numbered
<1> QED BY <1>1, <1>3

LEMMA AfterBatchKeeps ==
  ASSUME NEW kind, NEW pool, NEW raw \in Seq(Stock(kind)), NEW n \in Nat, NEW limit \in Nat,
         Pool(pool, InForce(kind), limit)
  PROVE  Pool(AfterBatch(pool, raw, n, limit), InForce(kind), limit)
<1> DEFINE S == InForce(kind)
           merged == Numbered(MergedTop(pool, Normalised(raw, n), limit))
<1>1. S \in SUBSET Evidence /\ Stock(kind) \in SUBSET Evidence /\ S = {e \in Stock(kind) : e.validity # "invalid"}
  BY DEF InForce, Stock
<1>2. pool \in Seq(S) /\ DistinctKeys(pool)
  BY DEF Pool
<1>3. Normalised(raw, n) \in Seq(S)
  BY <1>1, NormalisedKeeps
<1> HIDE DEF S
<1>4. MergedTop(pool, Normalised(raw, n), limit) \in Seq(S)
  BY <1>1, <1>2, <1>3, MergedTopKeeps DEF Pool
<1>5. merged \in Seq(S)
  BY <1>4, NumberedKeeps DEF S
<1> HIDE DEF merged
<1>6. Pool(MergedTop(pool, merged, limit), S, limit)
  BY <1>1, <1>2, <1>5, MergedTopKeeps
<1>7. AfterBatch(pool, raw, n, limit) = IF merged = <<>> THEN pool ELSE MergedTop(pool, merged, limit)
  BY DEF AfterBatch, merged
<1> QED BY <1>6, <1>7 DEF S

LEMMA BatchIsStock ==
  ASSUME NEW batch \in Batches, NEW kind
  PROVE  OfKind(batch, kind) \in Seq(Stock(kind))
<1> DEFINE places == {i \in DOMAIN batch : batch[i].kind = kind}
<1>1. batch \in Seq(Evidence)
  BY BatchesAssumption
<1>2. OfKind(batch, kind) \in Seq(Evidence) /\ Picks(OfKind(batch, kind), batch, places)
  BY <1>1, AtPicks DEF OfKind
<1>3. ASSUME NEW i \in places PROVE batch[i] \in Stock(kind)
  <2>1. batch[i] \in Evidence /\ batch[i].kind = kind
    BY <1>1
  <2>2. ASSUME batch[i].kind = "case" PROVE batch[i] \in CaseItems
    BY <2>2 DEF CaseItems
  <2>3. \A e \in CaseItems : e.no \in CaseNumbers
    BY DEF CaseNumbers
  <2>4. Numbering(batch[i])
    BY <2>2, <2>3, CaseNumbersAssumption DEF Numbering
  <2> QED BY <2>1, <2>4 DEF Stock
<1> QED BY <1>2, <1>3, PicksIn

-----------------------------------------------------------------------------
(* Matching.                                                                *)

\* What Match finds is in the pool and does not contradict the citation; when
\* no identifier leads anywhere, it is what the citation shows.
LEMMA MatchFinds ==
  ASSUME NEW c, NEW ls, NEW cs, NEW S, PoolOf(c, ls, cs) \in Seq(S), Match(c, ls, cs) # <<>>
  PROVE  LET pool == PoolOf(c, ls, cs)
             e == Match(c, ls, cs)[1]
         IN  /\ \E i \in DOMAIN pool : pool[i] = e
             /\ ~Conflicts(c, e)
             /\ ByIdentifiers(c, pool) = <<>> => Shows(c, e)
<1> DEFINE pool == PoolOf(c, ls, cs)
           named == ByIdentifiers(c, pool)
           shown == ByWhatItShows(c, pool)
           agreeing == {i \in DOMAIN named : ~Conflicts(c, named[i])}
           stay == At(named, agreeing)
           In == {pool[i] : i \in DOMAIN pool}
<1>1. ASSUME NEW places \in SUBSET (DOMAIN pool)
      PROVE  First(pool, places) \in Seq({pool[i] : i \in places})
  <2> HIDE DEF pool
  <2>1. At(pool, places) \in Seq(S) /\ Picks(At(pool, places), pool, places)
    BY AtPicks DEF pool
  <2>2. At(pool, places) \in Seq({pool[i] : i \in places})
    BY <2>1, PicksIn
  <2> QED BY <2>2, TopKeeps DEF First
<1>2. named \in Seq(In)
  <2> DEFINE A == {i \in DOMAIN pool : c.ref # 0 /\ pool[i].ref = c.ref}
             B == {i \in DOMAIN pool : EvidenceId(pool[i]) = c.eid}
             C == {i \in DOMAIN pool : c.src # None /\ pool[i].src = c.src /\ (c.kind = "case" \/ pool[i].no = c.no)}
  <2>1. named = First(pool, A) \o First(pool, B) \o First(pool, C)
    BY DEF ByIdentifiers
  <2>2. A \in SUBSET (DOMAIN pool) /\ B \in SUBSET (DOMAIN pool) /\ C \in SUBSET (DOMAIN pool)
    OBVIOUS
  <2> HIDE DEF A, B, C, pool, named
  <2>3. ASSUME NEW places \in SUBSET (DOMAIN pool) PROVE First(pool, places) \in Seq(In)
    BY <1>1, SubsetList
  <2> QED BY <2>1, <2>2, <2>3
<1>3. shown \in Seq({e \in In : Shows(c, e)})
  <2> DEFINE A == {i \in DOMAIN pool : Shows(c, pool[i]) /\ (c.kind = "law" => pool[i].no = c.no)}
             B == {i \in DOMAIN pool : Shows(c, pool[i])}
             T == {e \in In : Shows(c, e)}
  <2>1. shown = First(pool, A) \o First(pool, B)
    BY DEF ByWhatItShows
  <2>2. A \in SUBSET (DOMAIN pool) /\ B \in SUBSET (DOMAIN pool)
    OBVIOUS
  <2>3. {pool[i] : i \in A} \subseteq T /\ {pool[i] : i \in B} \subseteq T
    OBVIOUS
  <2> HIDE DEF A, B, T, pool, shown
  <2>4. First(pool, A) \in Seq(T) /\ First(pool, B) \in Seq(T)
    BY <1>1, <2>2, <2>3, SubsetList
  <2> QED BY <2>1, <2>4 DEF T
<1>4. stay \in Seq({e \in In : ~Conflicts(c, e)}) /\ (named = <<>> => stay = <<>>)
  <2>1. agreeing \in SUBSET (DOMAIN named)
    OBVIOUS
  <2> HIDE DEF named, In
  <2>2. stay \in Seq(In) /\ Picks(stay, named, agreeing) /\ Len(stay) <= Len(named)
    BY <1>2, <2>1, AtPicks
  <2>3. \A i \in agreeing : named[i] \in {e \in In : ~Conflicts(c, e)}
    BY <1>2
  <2> HIDE DEF agreeing
  <2>4. stay \in Seq({e \in In : ~Conflicts(c, e)})
    <3> HIDE DEF stay
    <3> QED BY <2>2, <2>3, PicksIn
  <2>5. named = <<>> => Len(named) = 0
    OBVIOUS
  <2> QED BY <2>2, <2>4, <2>5
<1>5. \A e : Shows(c, e) => ~Conflicts(c, e)
  BY DEF Shows, Conflicts
<1> DEFINE T == {e \in In : ~Conflicts(c, e) /\ (named = <<>> => Shows(c, e))}
<1>6. stay \o shown \in Seq(T)
  <2>1. {e \in In : Shows(c, e)} \subseteq T
    BY <1>5
  <2>2. named # <<>> => {e \in In : ~Conflicts(c, e)} \subseteq T
    OBVIOUS
  <2> HIDE DEF T, In, named, stay, shown
  <2>3. shown \in Seq(T)
    BY <1>3, <2>1, SubsetList
  <2>4. stay \in Seq(T)
    BY <1>4, <2>2, SubsetList
  <2> QED BY <2>3, <2>4
<1>7. Match(c, ls, cs) = Top(stay \o shown, 1)
  BY DEF Match
<1> HIDE DEF stay, shown, T
<1>8. Match(c, ls, cs) \in Seq(T)
  <2> DEFINE list == stay \o shown
  <2>1. list \in Seq(T) /\ Match(c, ls, cs) = Top(list, 1) /\ 1 \in Nat
    BY <1>6, <1>7
  <2> HIDE DEF list
  <2>2. Top(list, 1) \in Seq(T)
    BY <2>1, TopKeeps
  <2> QED BY <2>1, <2>2
<1>9. Match(c, ls, cs)[1] \in T
  BY <1>8
<1> QED BY <1>9 DEF T, In

\* A citation of a text carries no identifiers: it is matched by what it shows.
LEMMA BareHasNoIdentifiers ==
  ASSUME NEW c, c.ref = 0, c.src = None, c.eid = <<>>, NEW S, NEW pool \in Seq(S)
  PROVE  ByIdentifiers(c, pool) = <<>>
<1>1. First(pool, {}) = <<>>
  <2>1. At(pool, {}) \in Seq(S) /\ Len(At(pool, {})) = 0
    BY AtPicks, FS_EmptySet DEF Picks
  <2>2. First(pool, {}) \in Seq(S) /\ Len(First(pool, {})) <= Len(At(pool, {}))
    BY <2>1, TopKeeps DEF First
  <2> QED BY <2>1, <2>2
<1>2. {i \in DOMAIN pool : c.ref # 0 /\ pool[i].ref = c.ref} = {}
  OBVIOUS
<1>3. {i \in DOMAIN pool : EvidenceId(pool[i]) = c.eid} = {}
  <2>1. \A e : EvidenceId(e) # <<>>
    BY DEF EvidenceId
  <2> QED BY <2>1
<1>4. {i \in DOMAIN pool : c.src # None /\ pool[i].src = c.src /\ (c.kind = "case" \/ pool[i].no = c.no)} = {}
  OBVIOUS
<1>5. ByIdentifiers(c, pool) = <<>> \o <<>> \o <<>>
  BY <1>1, <1>2, <1>3, <1>4 DEF ByIdentifiers
<1> QED BY <1>5

-----------------------------------------------------------------------------
(* Texts: the sources and the notice put no citation in.                    *)

Token == Seq(STRING) \cup {SourceNote, Word("risk"), SentenceEnd, LineBreak}
Text  == Seq(Token)

LEMMA FixedTokens ==
  /\ SourceNote \in Token /\ Word("risk") \in Token /\ SentenceEnd \in Token /\ LineBreak \in Token
  /\ SourceNote[1] = "source" /\ Word("risk")[1] = "word" /\ SentenceEnd[1] = "end" /\ LineBreak[1] = "line break"
<1>1. SourceNote[1] = "source" /\ SentenceEnd[1] = "end" /\ LineBreak[1] = "line break"
  BY DEF SourceNote, SentenceEnd, LineBreak
<1>2. Word("risk")[1] = "word"
  BY DEF Word
<1> QED BY <1>1, <1>2 DEF Token

LEMMA MovedFacts ==
  ASSUME NEW text \in Text, NEW noted \in SUBSET (DOMAIN text)
  PROVE  /\ Cardinality(noted) \in Nat
         /\ \A i \in DOMAIN text : Moved(noted, i) \in 1 .. Len(text) + Cardinality(noted)
         /\ \A i, j \in DOMAIN text : i < j => Moved(noted, i) < Moved(noted, j)
<1> DEFINE Before(i) == {j \in noted : j < i}
<1>1. Len(text) \in Nat /\ DOMAIN text = 1 .. Len(text)
  BY DEF Text
<1>2. IsFiniteSet(noted)
  BY ListDomain, FS_Subset DEF Text
<1>3. \A i \in DOMAIN text : IsFiniteSet(Before(i)) /\ Cardinality(Before(i)) <= Cardinality(noted)
  <2>1. TAKE i \in DOMAIN text
  <2>2. Before(i) \in SUBSET noted
    OBVIOUS
  <2> HIDE DEF Before
  <2> QED BY <1>2, <2>2, FS_Subset
<1>4. \A i \in DOMAIN text : Cardinality(Before(i)) \in Nat
  <2> HIDE DEF Before
  <2> QED BY <1>3, FS_CardinalityType
<1>5. Cardinality(noted) \in Nat
  BY <1>2, FS_CardinalityType
<1>6. \A i, j \in DOMAIN text : i < j => Cardinality(Before(i)) <= Cardinality(Before(j))
  <2>1. SUFFICES ASSUME NEW i \in DOMAIN text, NEW j \in DOMAIN text, i < j
                 PROVE  Cardinality(Before(i)) <= Cardinality(Before(j))
    OBVIOUS
  <2>2. Before(i) \in SUBSET Before(j)
    BY <1>1, <2>1
  <2> HIDE DEF Before
  <2> QED BY <1>3, <2>2, FS_Subset
<1>7. \A i : Moved(noted, i) = i + Cardinality(Before(i))
  BY DEF Moved
<1> HIDE DEF Before
<1>8. \A i \in DOMAIN text : i \in Nat /\ 1 <= i /\ i <= Len(text)
  BY <1>1
<1>9. \A i \in DOMAIN text : Moved(noted, i) \in 1 .. Len(text) + Cardinality(noted)
  BY <1>1, <1>3, <1>4, <1>5, <1>7, <1>8
<1>10. \A i, j \in DOMAIN text : i < j => Moved(noted, i) < Moved(noted, j)
  BY <1>4, <1>6, <1>7, <1>8
<1> QED BY <1>5, <1>9, <1>10

\* A text with its sources is the text, its tokens in their order, and notes.
Extends(w, text, f) ==
    /\ \A i \in DOMAIN text : f[i] \in DOMAIN w /\ w[f[i]] = text[i]
    /\ \A i, j \in DOMAIN text : i < j => f[i] < f[j]
    /\ \A k \in DOMAIN w : w[k][1] \in {"law", "article", "case"} => \E i \in DOMAIN text : k = f[i] /\ w[k] = text[i]

LEMMA ExtensionCitesNothingNew ==
  ASSUME NEW w \in Text, NEW text \in Text, NEW f \in [DOMAIN text -> Nat], Extends(w, text, f)
  PROVE  CitationsOf(w) \subseteq CitationsOf(text)
<1>0. (DOMAIN text) \subseteq Nat /\ (DOMAIN w) \subseteq Nat
  BY DEF Text
<1>1. CaseCitations(w) \subseteq CaseCitations(text)
  BY DEF CaseCitations, Extends
<1>2. ASSUME NEW c \in LawCitations(w, {LineBreak}) PROVE c \in LawCitations(text, {LineBreak})
  <2>2. PICK p \in (DOMAIN w) \X (DOMAIN w) :
            /\ p[1] < p[2] /\ w[p[1]][1] = "law" /\ w[p[2]][1] = "article"
            /\ \A k \in p[1] + 1 .. p[2] - 1 : w[k] \in {LineBreak}
            /\ c = Bare("law", w[p[1]][2], w[p[2]][2])
    BY DEF LawCitations
  <2>3. p[1] \in DOMAIN w /\ p[2] \in DOMAIN w
    BY <2>2
  <2>4. PICK i \in DOMAIN text : p[1] = f[i] /\ w[p[1]] = text[i]
    BY <2>2, <2>3 DEF Extends
  <2>5. PICK j \in DOMAIN text : p[2] = f[j] /\ w[p[2]] = text[j]
    BY <2>2, <2>3 DEF Extends
  <2>6. i < j
    <3>1. i \in Nat /\ j \in Nat /\ f[i] \in Nat /\ f[j] \in Nat
      BY <1>0
    <3>2. CASE j < i
      BY <2>2, <2>4, <2>5, <3>1, <3>2 DEF Extends
    <3>3. CASE i = j
      BY <2>2, <2>4, <2>5, <3>1, <3>3
    <3> QED BY <3>1, <3>2, <3>3
  <2>7. \A l \in i + 1 .. j - 1 : text[l] \in {LineBreak}
    <3>1. TAKE l \in i + 1 .. j - 1
    <3>2. l \in DOMAIN text /\ i < l /\ l < j
      <4>1. DOMAIN text = 1 .. Len(text) /\ Len(text) \in Nat
        BY DEF Text
      <4> QED BY <4>1
    <3>3. f[i] < f[l] /\ f[l] < f[j] /\ f[i] \in Nat /\ f[l] \in Nat /\ f[j] \in Nat
      BY <3>2 DEF Extends
    <3>4. f[l] \in p[1] + 1 .. p[2] - 1
      BY <2>4, <2>5, <3>3
    <3>5. w[f[l]] = text[l]
      BY <3>2 DEF Extends
    <3> QED BY <2>2, <3>4, <3>5
  <2> DEFINE q == <<i, j>>
  <2>8. q \in (DOMAIN text) \X (DOMAIN text) /\ q[1] = i /\ q[2] = j
    OBVIOUS
  <2>9. text[i][1] = "law" /\ text[j][1] = "article" /\ c = Bare("law", text[i][2], text[j][2])
    BY <2>2, <2>4, <2>5
  <2> HIDE DEF q
  <2>10. q \in {r \in (DOMAIN text) \X (DOMAIN text) :
                  /\ r[1] < r[2] /\ text[r[1]][1] = "law" /\ text[r[2]][1] = "article"
                  /\ \A k \in r[1] + 1 .. r[2] - 1 : text[k] \in {LineBreak}}
    BY <2>6, <2>7, <2>8, <2>9
  <2> QED BY <2>8, <2>9, <2>10 DEF LawCitations
<1> QED BY <1>1, <1>2 DEF CitationsOf

LEMMA WithSourcesCitesNothingNew ==
  ASSUME NEW text \in Text, NEW ls, NEW cs
  PROVE  /\ WithSources(text, ls, cs) \in Text
         /\ CitationsOf(WithSources(text, ls, cs)) \subseteq CitationsOf(text)
<1> DEFINE noted == Unsourced(text, ls, cs)
           w == WithSources(text, ls, cs)
           N == Len(text) + Cardinality(noted)
           Origin(k) == CHOOSE i \in DOMAIN text : Moved(noted, i) = k
           f == [i \in DOMAIN text |-> Moved(noted, i)]
<1>1. noted \in SUBSET (DOMAIN text)
  BY DEF Unsourced
<1>2. w = [k \in 1 .. N |-> IF \E i \in DOMAIN text : Moved(noted, i) = k THEN text[Origin(k)] ELSE SourceNote]
  BY DEF WithSources
<1> HIDE DEF noted, w
<1>3. Len(text) \in Nat /\ DOMAIN text = 1 .. Len(text) /\ \A i \in DOMAIN text : text[i] \in Token
  BY DEF Text
<1>4. /\ Cardinality(noted) \in Nat
      /\ \A i \in DOMAIN text : Moved(noted, i) \in 1 .. N
      /\ \A i, j \in DOMAIN text : i < j => Moved(noted, i) < Moved(noted, j)
  BY <1>1, MovedFacts
<1>5. N \in Nat
  BY <1>3, <1>4
<1>6. \A i, j \in DOMAIN text : Moved(noted, i) = Moved(noted, j) => i = j
  <2>1. SUFFICES ASSUME NEW i \in DOMAIN text, NEW j \in DOMAIN text, Moved(noted, i) = Moved(noted, j), i # j
                 PROVE  FALSE
    OBVIOUS
  <2>2. Moved(noted, i) \in Int /\ Moved(noted, j) \in Int /\ i \in Int /\ j \in Int
    BY <1>3, <1>4, <1>5
  <2> QED BY <1>4, <2>1, <2>2
<1>7. \A i \in DOMAIN text : Origin(Moved(noted, i)) = i
  BY <1>6
<1>8. \A k : (\E i \in DOMAIN text : Moved(noted, i) = k) => Origin(k) \in DOMAIN text /\ Moved(noted, Origin(k)) = k
  OBVIOUS
<1> HIDE DEF Origin, N
<1>9. \A k \in 1 .. N :
        \/ \E i \in DOMAIN text : k = Moved(noted, i) /\ w[k] = text[i]
        \/ w[k] = SourceNote
  BY <1>2, <1>8
<1>10. \A i \in DOMAIN text : w[Moved(noted, i)] = text[i]
  BY <1>2, <1>4, <1>7
<1>11. w \in Text /\ DOMAIN w = 1 .. N
  <2>1. SourceNote \in Token
    BY FixedTokens
  <2>2. \A k \in 1 .. N : w[k] \in Token
    BY <1>3, <1>9, <2>1
  <2>3. w \in [1 .. N -> Token]
    <3> DEFINE v(k) == IF \E i \in DOMAIN text : Moved(noted, i) = k THEN text[Origin(k)] ELSE SourceNote
    <3>1. w = [k \in 1 .. N |-> v(k)]
      BY <1>2
    <3> HIDE DEF v
    <3> QED BY <2>2, <3>1
  <2> QED BY <1>5, <2>3 DEF Text
<1>12. f \in [DOMAIN text -> Nat] /\ \A i \in DOMAIN text : f[i] = Moved(noted, i)
  BY <1>4, <1>5
<1> HIDE DEF f
<1>13. Extends(w, text, f)
  <2>1. \A i \in DOMAIN text : f[i] \in DOMAIN w /\ w[f[i]] = text[i]
    BY <1>4, <1>10, <1>11, <1>12 DEF N
  <2>2. \A i, j \in DOMAIN text : i < j => f[i] < f[j]
    BY <1>4, <1>12
  <2>3. SourceNote[1] \notin {"law", "article", "case"}
    BY FixedTokens
  <2>4. \A k \in DOMAIN w : w[k][1] \in {"law", "article", "case"} => \E i \in DOMAIN text : k = f[i] /\ w[k] = text[i]
    BY <1>9, <1>11, <1>12, <2>3
  <2> QED BY <2>1, <2>2, <2>4 DEF Extends
<1>14. CitationsOf(w) \subseteq CitationsOf(text)
  BY <1>11, <1>12, <1>13, ExtensionCitesNothingNew
<1> QED BY <1>11, <1>14 DEF w

LEMMA Triple ==
  ASSUME NEW S, NEW a \in S, NEW b \in S, NEW c \in S
  PROVE  <<a, b, c>> \in Seq(S) /\ Len(<<a, b, c>>) = 3
OBVIOUS

LEMMA NoticeCitesNothing ==
  ASSUME NEW text \in Text
  PROVE  CitationsOf(RiskNotice \o text) \subseteq CitationsOf(text)
<1> DEFINE w == RiskNotice \o text
           f == [i \in DOMAIN text |-> i + 3]
<1>1. /\ RiskNotice \in Text /\ Len(RiskNotice) = 3
      /\ \A i \in 1 .. 3 : RiskNotice[i][1] \notin {"law", "article", "case"}
  <2>1. RiskNotice \in Text /\ Len(RiskNotice) = 3
    BY FixedTokens, Triple DEF RiskNotice, Text
  <2>2. RiskNotice[1] = Word("risk") /\ RiskNotice[2] = SentenceEnd /\ RiskNotice[3] = LineBreak
    BY DEF RiskNotice
  <2>3. \A i \in 1 .. 3 : i = 1 \/ i = 2 \/ i = 3
    OBVIOUS
  <2> QED BY <2>1, <2>2, <2>3, FixedTokens
<1>2. Len(text) \in Nat /\ DOMAIN text = 1 .. Len(text)
  BY DEF Text
<1>3. /\ w \in Text /\ DOMAIN w = 1 .. 3 + Len(text)
      /\ \A i \in DOMAIN w : IF i <= 3 THEN w[i] = RiskNotice[i] ELSE i - 3 \in DOMAIN text /\ w[i] = text[i - 3]
  <2> DEFINE r == RiskNotice
  <2>0. text \in Seq(Token)
    BY DEF Text
  <2>1. r \in Seq(Token)
    BY <1>1 DEF Text
  <2>4. Len(r) = 3
    BY <1>1
  <2> HIDE DEF r
  <2>2. /\ r \o text \in Seq(Token) /\ DOMAIN (r \o text) = 1 .. Len(r) + Len(text)
        /\ \A i \in DOMAIN (r \o text) : IF i <= Len(r) THEN i \in DOMAIN r /\ (r \o text)[i] = r[i]
                                         ELSE i - Len(r) \in DOMAIN text /\ (r \o text)[i] = text[i - Len(r)]
    BY <2>0, <2>1, Joined
  <2>3. w = r \o text
    BY DEF r
  <2> HIDE DEF w
  <2> QED BY <2>2, <2>3, <2>4 DEF r, Text
<1> HIDE DEF w
<1>4. f \in [DOMAIN text -> Nat] /\ \A i \in DOMAIN text : f[i] = i + 3
  BY <1>2
<1> HIDE DEF f
<1>5. Extends(w, text, f)
  <2>1. \A i \in DOMAIN text : f[i] \in DOMAIN w /\ w[f[i]] = text[i]
    <3>1. TAKE i \in DOMAIN text
    <3>2. i + 3 \in 1 .. 3 + Len(text) /\ ~(i + 3 <= 3) /\ (i + 3) - 3 = i
      BY <1>2
    <3> QED BY <1>3, <1>4, <3>2
  <2>2. \A i, j \in DOMAIN text : i < j => f[i] < f[j]
    BY <1>2, <1>4
  <2>3. ASSUME NEW k \in DOMAIN w, w[k][1] \in {"law", "article", "case"}
        PROVE  \E i \in DOMAIN text : k = f[i] /\ w[k] = text[i]
    <3>1. k \in Nat /\ k >= 1
      BY <1>2, <1>3
    <3>2. ~(k <= 3)
      <4>1. k <= 3 => k \in 1 .. 3 /\ w[k] = RiskNotice[k]
        BY <1>3, <3>1
      <4> QED BY <1>1, <2>3, <4>1
    <3>3. k - 3 \in DOMAIN text /\ w[k] = text[k - 3] /\ (k - 3) + 3 = k
      BY <1>3, <3>1, <3>2
    <3> QED BY <1>4, <3>3
  <2> QED BY <2>1, <2>2, <2>3 DEF Extends
<1> QED BY <1>3, <1>4, <1>5, ExtensionCitesNothingNew DEF w

-----------------------------------------------------------------------------
(* The inductive invariant.                                                 *)

\* A report's source, as it was copied from evidence.
Sourced ==
    {c \in [kind : {"law", "case"}, name : STRING, no : STRING, src : STRING,
            eid : {"law", "case"} \X STRING \X STRING, ref : Nat] : Numbering(c)}

ReportInv(r) == r.sources \in Seq(Sourced) /\ r.text \in Texts \cup {<<>>} /\ r.steps \in NextSteps \cup {<<>>}

\* The state's lists hold evidence in force, bounded, each key once.
EvidenceInv ==
    /\ Pool(laws, InForce("law"), RETAINED_LAWS)
    /\ Pool(cases, InForce("case"), RETAINED_CASES)

CountersInv ==
    /\ phase \in {"work", "verify", "answer", "done"}
    /\ insufficient \in BOOLEAN
    /\ rounds \in 0 .. MaxRounds /\ repairs \in 0 .. MAX_REPAIR_ROUNDS
    /\ attempts \in 0 .. MAX_ANSWER_ATTEMPTS
    /\ answer.outcome \in {"none", "model", "rewritten", "deterministic"}

\* The answer is audited against evidence the state holds.
VerifiedInv ==
    phase \in {"answer", "done"} => verified.laws \in Seq(ToSet(laws)) /\ verified.cases = cases

IInv ==
    /\ CountersInv
    /\ EvidenceInv
    /\ ReportInv(statute) /\ ReportInv(reasoning)
    /\ VerifiedInv
    /\ phase # "done" => answer.outcome = "none"
    /\ CitationsStand
    /\ PassedMeansSupported
    /\ ModelAnswersAreGrounded

-----------------------------------------------------------------------------
(* What a citation leads to.                                                *)

Citation(c) == c.kind \in {"law", "case"} /\ Numbering(c)

\* Evidence the turn holds is in force, and in the list of its kind.
LEMMA HeldInForce ==
  ASSUME EvidenceInv, NEW kind \in {"law", "case"}, NEW i,
         i \in DOMAIN (IF kind = "law" THEN laws ELSE cases)
  PROVE  LET e == (IF kind = "law" THEN laws ELSE cases)[i]
         IN  e \in Held /\ e.kind = kind /\ e.validity # "invalid"
<1>1. laws \in Seq(InForce("law")) /\ cases \in Seq(InForce("case"))
  BY DEF EvidenceInv, Pool
<1>2. \A k \in DOMAIN laws : laws[k] \in InForce("law") /\ laws[k] \in Held
  BY <1>1 DEF Held, ToSet
<1>3. \A k \in DOMAIN cases : cases[k] \in InForce("case") /\ cases[k] \in Held
  BY <1>1 DEF Held, ToSet
<1> QED BY <1>2, <1>3 DEF InForce, Stock

\* What a matching citation finds in the state's evidence.
LEMMA SupportedFinds ==
  ASSUME EvidenceInv, NEW c, Citation(c), Supported(c, laws, cases)
  PROVE  LET e == Match(c, laws, cases)[1]
         IN  e \in Held /\ e.kind = c.kind /\ e.validity # "invalid" /\ ~Conflicts(c, e) /\ Supports(e, c)
<1> DEFINE pool == PoolOf(c, laws, cases)
           e == Match(c, laws, cases)[1]
<1>1. pool \in Seq(InForce(c.kind)) /\ Match(c, laws, cases) # <<>>
  BY DEF EvidenceInv, Pool, PoolOf, Citation, Supported
<1>2. (\E i \in DOMAIN pool : pool[i] = e) /\ ~Conflicts(c, e)
  BY <1>1, MatchFinds
<1>3. PICK i \in DOMAIN pool : pool[i] = e
  BY <1>2
<1>4. pool = IF c.kind = "law" THEN laws ELSE cases
  BY DEF PoolOf
<1> HIDE DEF pool, e
<1>5. e \in Held /\ e.kind = c.kind /\ e.validity # "invalid"
  BY <1>3, <1>4, HeldInForce DEF Citation
<1>6. Supports(e, c)
  BY <1>2, <1>5 DEF Supports, Conflicts, Citation
<1> QED BY <1>2, <1>5, <1>6 DEF e

\* Citations of one label are supported together.
LEMMA LabelDecides ==
  ASSUME NEW c, NEW d, Citation(c), Citation(d), Label(c) = Label(d), NEW e, Supports(e, c)
  PROVE  Supports(e, d)
<1>1. CASE c.kind = "law"
  <2>1. Label(c) = <<"law", c.name, c.no>>
    BY <1>1 DEF Label
  <2>2. CASE d.kind = "law"
    <3>1. Label(d) = <<"law", d.name, d.no>>
      BY <2>2 DEF Label
    <3>2. c.name = d.name /\ c.no = d.no
      <4>1. Label(c)[2] = c.name /\ Label(c)[3] = c.no
        BY <2>1
      <4>2. Label(d)[2] = d.name /\ Label(d)[3] = d.no
        BY <3>1
      <4> QED BY <4>1, <4>2
    <3> QED BY <1>1, <2>2, <3>2 DEF Supports
  <2>3. CASE d.kind # "law"
    <3>1. Label(d)[1] = "case" /\ Label(c)[1] = "law"
      BY <2>1, <2>3 DEF Label
    <3> QED BY <3>1
  <2> QED BY <2>2, <2>3
<1>2. CASE c.kind # "law"
  <2> DEFINE Shown(x) == IF x.no # None THEN x.no ELSE IF x.name # None THEN x.name ELSE x.src
  <2>1. Label(c) = <<"case", Shown(c)>> /\ c.kind = "case"
    BY <1>2 DEF Label, Citation
  <2>2. d.kind = "case"
    <3>1. SUFFICES ASSUME d.kind = "law" PROVE FALSE
      BY DEF Citation
    <3>2. Label(d)[1] = "law" /\ Label(c)[1] = "case"
      BY <2>1, <3>1 DEF Label
    <3> QED BY <3>2
  <2>3. Label(d) = <<"case", Shown(d)>>
    BY <2>2 DEF Label
  <2>4. Shown(c) = Shown(d)
    <3> HIDE DEF Shown
    <3>1. Label(c)[2] = Shown(c)
      BY <2>1
    <3>2. Label(d)[2] = Shown(d)
      BY <2>3
    <3> QED BY <3>1, <3>2
  <2>5. /\ c.no \in CaseNumbers /\ (c.no = None => {c.name, c.src} \cap CaseNumbers \subseteq {None})
        /\ d.no \in CaseNumbers
    BY <2>1, <2>2 DEF Citation, Numbering
  <2>6. e.kind = "case" /\ e.validity # "invalid" /\ c.no \in {None, e.no}
    BY <2>1 DEF Supports
  <2>7. d.no \in {None, e.no}
    <3>1. SUFFICES ASSUME d.no # None PROVE d.no = e.no
      OBVIOUS
    <3>2. Shown(c) = d.no
      BY <2>4, <3>1
    <3>3. c.no # None
      <4>1. SUFFICES ASSUME c.no = None PROVE FALSE
        OBVIOUS
      <4>2. d.no \in {c.name, c.src}
        BY <3>2, <4>1
      <4> QED BY <2>5, <3>1, <4>1, <4>2
    <3> QED BY <2>6, <3>2, <3>3
  <2> QED BY <2>2, <2>6, <2>7 DEF Supports
<1> QED BY <1>1, <1>2

\* A citation of a text that matches the evidence is backed by it.
LEMMA GroundedIsBacked ==
  ASSUME EvidenceInv, NEW vl \in Seq(ToSet(laws)), NEW text, Grounded(text, vl, cases),
         NEW c \in CitationsOf(text)
  PROVE  Backed(c)
<1> DEFINE pool == PoolOf(c, vl, cases)
           e == Match(c, vl, cases)[1]
<1>1. /\ c.ref = 0 /\ c.src = None /\ c.eid = <<>> /\ c.kind \in {"law", "case"}
      /\ c.kind = "case" => c.name = None
  BY DEF CitationsOf, LawCitations, CaseCitations, Bare
<1>2. Match(c, vl, cases) # <<>>
  BY DEF Grounded
<1>3. pool \in Seq(ToSet(laws) \cup ToSet(cases))
  <2>1. cases \in Seq(ToSet(cases))
    <3>1. cases \in Seq(InForce("case"))
      BY DEF EvidenceInv, Pool
    <3>2. cases \in [1 .. Len(cases) -> ToSet(cases)] /\ Len(cases) \in Nat
      BY <3>1 DEF ToSet
    <3> QED BY <3>2
  <2> DEFINE S == ToSet(laws) \cup ToSet(cases)
  <2>2. ToSet(laws) \subseteq S /\ ToSet(cases) \subseteq S
    OBVIOUS
  <2> HIDE DEF S
  <2>3. vl \in Seq(S) /\ cases \in Seq(S)
    BY <2>1, <2>2, SubsetList
  <2> QED BY <2>3 DEF PoolOf, S
<1>4. ByIdentifiers(c, pool) = <<>>
  <2> HIDE DEF pool
  <2> QED BY <1>1, <1>3, BareHasNoIdentifiers
<1>5. (\E i \in DOMAIN pool : pool[i] = e) /\ (ByIdentifiers(c, pool) = <<>> => Shows(c, e))
  BY <1>2, <1>3, MatchFinds
<1>6. Shows(c, e)
  BY <1>4, <1>5
<1>7. PICK i \in DOMAIN pool : pool[i] = e
  BY <1>5
<1>8. e \in Held /\ e.kind = c.kind /\ e.validity # "invalid"
  <2>1. CASE c.kind = "law"
    <3>1. pool = vl
      BY <2>1 DEF PoolOf
    <3>2. e \in ToSet(laws)
      BY <1>7, <3>1
    <3>3. PICK k \in DOMAIN laws : e = laws[k]
      BY <3>2 DEF ToSet
    <3> HIDE DEF e, pool
    <3> QED BY <2>1, <3>3, HeldInForce
  <2>2. CASE c.kind = "case"
    <3>1. pool = cases
      BY <2>2 DEF PoolOf
    <3> HIDE DEF e
    <3>2. i \in DOMAIN cases /\ e = cases[i]
      BY <1>7, <3>1
    <3> HIDE DEF pool
    <3> QED BY <2>2, <3>2, HeldInForce
  <2> QED BY <1>1, <2>1, <2>2
<1> HIDE DEF e
<1> QED BY <1>1, <1>6, <1>8 DEF Backed, Shows

-----------------------------------------------------------------------------
(* What is audited.                                                         *)

LEMMA EscapedIsFinite ==
  ASSUME NEW text \in Text
  PROVE  IsFiniteSet(EscapedCitationsOf(text))
<1> DEFINE D == DOMAIN text
           pairs == {p \in D \X D : /\ p[1] < p[2] /\ text[p[1]][1] = "law" /\ text[p[2]][1] = "article"
                                    /\ \A k \in p[1] + 1 .. p[2] - 1 : text[k] \in {}}
           numbers == {i \in D : text[i][1] = "case"}
           f == [p \in pairs |-> Bare("law", text[p[1]][2], text[p[2]][2])]
           g == [i \in numbers |-> Bare("case", None, text[i][2])]
<1>1. IsFiniteSet(D)
  BY ListDomain DEF Text
<1>2. IsFiniteSet(pairs)
  <2>1. IsFiniteSet(D \X D)
    BY <1>1, FS_Product
  <2>2. pairs \in SUBSET (D \X D)
    OBVIOUS
  <2> HIDE DEF pairs, D
  <2> QED BY <2>1, <2>2, FS_Subset
<1>3. IsFiniteSet(numbers)
  <2>1. numbers \in SUBSET D
    OBVIOUS
  <2> HIDE DEF numbers, D
  <2> QED BY <1>1, <2>1, FS_Subset
<1>4. LawCitations(text, {}) = {f[p] : p \in pairs}
  BY DEF LawCitations
<1>5. CaseCitations(text) = {g[i] : i \in numbers}
  BY DEF CaseCitations
<1>6. DOMAIN f = pairs /\ DOMAIN g = numbers
  OBVIOUS
<1>7. f \in [pairs -> {f[p] : p \in pairs}] /\ g \in [numbers -> {g[i] : i \in numbers}]
  <2>1. f = [p \in pairs |-> f[p]] /\ g = [i \in numbers |-> g[i]]
    OBVIOUS
  <2> HIDE DEF f, g, pairs, numbers
  <2> QED BY <2>1
<1> HIDE DEF f, g, pairs, numbers
<1>8. f \in Surjection(pairs, {f[p] : p \in pairs}) /\ g \in Surjection(numbers, {g[i] : i \in numbers})
  BY <1>7 DEF Surjection
<1>9. IsFiniteSet({f[p] : p \in pairs}) /\ IsFiniteSet({g[i] : i \in numbers})
  BY <1>2, <1>3, <1>8, FS_Surjection
<1> QED BY <1>4, <1>5, <1>9, FS_Union DEF EscapedCitationsOf

LEMMA SetToSeqLists ==
  ASSUME NEW S, IsFiniteSet(S)
  PROVE  SetToSeq(S) \in Seq(S)
<1> DEFINE n == Cardinality(S)
<1>1. n \in Nat /\ \E f \in [1 .. n -> S] : IsInjective(f)
  BY FS_CardinalityType DEF ExistsBijection, Bijection, Injection
<1> HIDE DEF n
<1>2. SetToSeq(S) \in [1 .. n -> S]
  BY <1>1 DEF SetToSeq, n
<1> QED BY <1>1, <1>2

LEMMA TextsAreTexts ==
  ASSUME NEW t \in Texts \cup {<<>>}, NEW u \in NextSteps \cup {<<>>}
  PROVE  t \in Text /\ u \in Text /\ t \o u \in Text
<1>1. Seq(STRING) \subseteq Token
  BY DEF Token
<1>2. \A x \in Texts \cup NextSteps : x \in Seq(Seq(STRING))
  BY TextsAssumption
<1> DEFINE Plain == Seq(STRING)
<1>3. (t # <<>> => t \in Seq(Plain)) /\ (u # <<>> => u \in Seq(Plain)) /\ Plain \subseteq Token
  BY <1>1, <1>2
<1> HIDE DEF Plain
<1>4. <<>> \in Seq(Token)
  OBVIOUS
<1>5. t \in Seq(Token)
  BY <1>3, <1>4, SubsetList
<1>6. u \in Seq(Token)
  BY <1>3, <1>4, SubsetList
<1>7. t \o u \in Seq(Token)
  BY <1>5, <1>6, Joined
<1> QED BY <1>5, <1>6, <1>7 DEF Text

\* The citations of a report's text carry a case number as the texts do.
LEMMA EscapedAreCitations ==
  ASSUME NEW t \in Texts \cup {<<>>}, NEW u \in NextSteps \cup {<<>>}, NEW c \in EscapedCitationsOf(t \o u)
  PROVE  Citation(c)
<1>1. CASE c \in LawCitations(t \o u, {})
  <2>1. c.kind = "law"
    BY <1>1 DEF LawCitations, Bare
  <2> QED BY <2>1 DEF Citation, Numbering
<1>2. CASE c \in CaseCitations(t \o u)
  <2>1. t \in Seq(Token) /\ u \in Seq(Token)
    BY TextsAreTexts DEF Text
  <2> DEFINE w == t \o u
  <2>2. PICK i \in DOMAIN w : w[i][1] = "case" /\ c = Bare("case", None, w[i][2])
    BY <1>2 DEF CaseCitations
  <2>3. (\E k \in DOMAIN t : w[i] = t[k]) \/ (\E k \in DOMAIN u : w[i] = u[k])
    <3>1. IF i <= Len(t) THEN i \in DOMAIN t /\ w[i] = t[i] ELSE i - Len(t) \in DOMAIN u /\ w[i] = u[i - Len(t)]
      BY <2>1, Joined
    <3> HIDE DEF w
    <3> QED BY <3>1
  <2> HIDE DEF w
  <2>4. c.kind = "case" /\ c.name = None /\ c.src = None /\ c.no = w[i][2]
    BY <2>2 DEF Bare
  <2>5. c \in CaseCitations(t) \/ c \in CaseCitations(u)
    BY <2>2, <2>3 DEF CaseCitations
  <2>6. CaseCitations(<<>>) = {}
    BY DEF CaseCitations
  <2>7. \E x \in Texts \cup NextSteps : c \in CaseCitations(x)
    BY <2>5, <2>6
  <2>8. c.no \in CaseNumbers
    BY <2>7 DEF CaseNumbers
  <2> QED BY <2>4, <2>8 DEF Citation, Numbering
<1> QED BY <1>1, <1>2 DEF EscapedCitationsOf

LEMMA AuditedAreCitations ==
  ASSUME NEW r, ReportInv(r)
  PROVE  \E C : Audited(r) \in Seq(C) /\ \A c \in C : Citation(c)
<1> DEFINE E == EscapedCitationsOf(r.text \o r.steps)
           C == Sourced \cup E
<1>1. r.sources \in Seq(Sourced) /\ r.text \in Texts \cup {<<>>} /\ r.steps \in NextSteps \cup {<<>>}
  BY DEF ReportInv
<1>2. IsFiniteSet(E)
  BY <1>1, TextsAreTexts, EscapedIsFinite
<1>3. \A c \in E : Citation(c)
  BY <1>1, EscapedAreCitations
<1>4. \A c \in Sourced : Citation(c)
  BY DEF Sourced, Citation
<1>5. Audited(r) = r.sources \o SetToSeq(E)
  BY DEF Audited
<1> HIDE DEF E
<1>6. SetToSeq(E) \in Seq(E)
  BY <1>2, SetToSeqLists
<1>7. Sourced \subseteq C /\ E \subseteq C
  OBVIOUS
<1>8. \A c \in C : Citation(c)
  BY <1>3, <1>4
<1> HIDE DEF C
<1>9. r.sources \in Seq(C)
  BY <1>1, <1>7, SubsetList
<1>10. SetToSeq(E) \in Seq(C)
  BY <1>6, <1>7, SubsetList
<1>11. Audited(r) \in Seq(C)
  BY <1>5, <1>9, <1>10, Joined
<1> QED BY <1>8, <1>11

LEMMA AllAuditedAreCitations ==
  ASSUME ReportInv(statute), ReportInv(reasoning)
  PROVE  \E C : AllAudited \in Seq(C) /\ \A c \in C : Citation(c)
<1>1. PICK A : Audited(statute) \in Seq(A) /\ \A c \in A : Citation(c)
  BY AuditedAreCitations
<1>2. PICK B : Audited(reasoning) \in Seq(B) /\ \A c \in B : Citation(c)
  BY AuditedAreCitations
<1> DEFINE C == A \cup B
<1>3. A \subseteq C /\ B \subseteq C /\ \A c \in C : Citation(c)
  BY <1>1, <1>2
<1> HIDE DEF C
<1>4. Audited(statute) \in Seq(C)
  BY <1>1, <1>3, SubsetList
<1>5. Audited(reasoning) \in Seq(C)
  BY <1>2, <1>3, SubsetList
<1>6. AllAudited \in Seq(C)
  BY <1>4, <1>5, Joined DEF AllAudited
<1> QED BY <1>3, <1>6

\* A non-empty set of natural numbers has a least element.
LEMMA LeastPlace ==
  ASSUME NEW T, T \subseteq Nat, T # {}
  PROVE  \E x \in T : \A y \in T : x <= y
<1> DEFINE R == OpToRel(<, Nat)
<1>1. IsWellFoundedOn(R, Nat)
  BY NatLessThanWellFounded
<1>2. \A x, y \in Nat : x < y => <<x, y>> \in R
  BY DEF OpToRel
<1> HIDE DEF R
<1>3. PICK x \in T : \A y \in T : ~(<<y, x>> \in R)
  BY <1>1, WFMin
<1>4. ASSUME NEW y \in T PROVE x <= y
  <2>1. x \in Nat /\ y \in Nat /\ ~(y < x)
    BY <1>2, <1>3
  <2> QED BY <2>1
<1> QED BY <1>4

\* Every audited citation has a first one of its label.
LEMMA FirstOfLabel ==
  ASSUME NEW C, NEW audited \in Seq(C), NEW i \in DOMAIN audited
  PROVE  \E j \in DOMAIN audited : Label(audited[j]) = Label(audited[i]) /\ ~Seen(audited, j)
<1> DEFINE T == {j \in DOMAIN audited : Label(audited[j]) = Label(audited[i])}
<1>1. DOMAIN audited = 1 .. Len(audited) /\ Len(audited) \in Nat
  OBVIOUS
<1>2. T \subseteq Nat /\ T # {}
  BY <1>1
<1>3. T \subseteq DOMAIN audited /\ \A j \in DOMAIN audited : j \in T <=> Label(audited[j]) = Label(audited[i])
  OBVIOUS
<1> HIDE DEF T
<1>4. PICK j \in T : \A k \in T : j <= k
  BY <1>2, LeastPlace
<1>5. j \in DOMAIN audited /\ Label(audited[j]) = Label(audited[i])
  BY <1>3
<1>6. ~Seen(audited, j)
  <2>1. SUFFICES ASSUME NEW k \in 1 .. j - 1, Label(audited[k]) = Label(audited[j]) PROVE FALSE
    BY DEF Seen
  <2>2. k \in DOMAIN audited /\ ~(j <= k)
    BY <1>1, <1>5
  <2>3. k \in T
    BY <1>3, <1>5, <2>1, <2>2
  <2> QED BY <1>4, <2>2, <2>3
<1> QED BY <1>5, <1>6

\* The list of citations holds evidence of the list it is made of, once.
LEMMA ListHolds ==
  ASSUME NEW S, NEW found \in Seq(S)
  PROVE  /\ \A i \in DOMAIN List(found) : \E k \in DOMAIN found : List(found)[i].eid = EvidenceId(found[k])
         /\ \A i, j \in DOMAIN List(found) : List(found)[i].eid = List(found)[j].eid => i = j
<1> DEFINE all == [k \in DOMAIN found |-> Listed(found[k])]
           places == {k \in DOMAIN found : \A j \in 1 .. k - 1 : EvidenceId(found[j]) # EvidenceId(found[k])}
           L == {Listed(found[k]) : k \in DOMAIN found}
<1>1. all \in Seq(L) /\ DOMAIN all = DOMAIN found
  <2>1. Len(found) \in Nat /\ DOMAIN found = 1 .. Len(found)
    OBVIOUS
  <2>2. all \in [1 .. Len(found) -> L]
    BY <2>1
  <2> HIDE DEF all, L
  <2> QED BY <2>1, <2>2
<1>2. \A k \in DOMAIN found : all[k].eid = EvidenceId(found[k])
  BY DEF Listed
<1>3. places \in SUBSET (DOMAIN all)
  OBVIOUS
<1>4. \A k, l \in places : EvidenceId(found[k]) = EvidenceId(found[l]) => k = l
  <2>1. SUFFICES ASSUME NEW k \in places, NEW l \in places, EvidenceId(found[k]) = EvidenceId(found[l]), k # l
                 PROVE  FALSE
    OBVIOUS
  <2>2. k \in Nat /\ l \in Nat /\ k >= 1 /\ l >= 1
    OBVIOUS
  <2>3. k \in 1 .. l - 1 \/ l \in 1 .. k - 1
    BY <2>1, <2>2
  <2> QED BY <2>1, <2>3
<1>5. List(found) = At(all, places)
  BY DEF List
<1> HIDE DEF all, places, L
<1>6. Picks(List(found), all, places)
  BY <1>1, <1>3, <1>5, AtPicks
<1>7. \A i \in DOMAIN List(found) : \E k \in DOMAIN found : List(found)[i].eid = EvidenceId(found[k])
  <2>1. TAKE i \in DOMAIN List(found)
  <2>2. PICK k \in places : List(found)[i] = all[k]
    BY <1>6 DEF Picks
  <2>3. k \in DOMAIN found
    BY <1>1, <1>3
  <2> QED BY <1>2, <2>2, <2>3
<1>8. ASSUME NEW i \in DOMAIN List(found), NEW j \in DOMAIN List(found), i # j
      PROVE  List(found)[i].eid # List(found)[j].eid
  <2>1. \E k, l \in places : k # l /\ List(found)[i] = all[k] /\ List(found)[j] = all[l]
    BY <1>6, <1>8 DEF Picks
  <2> QED BY <1>1, <1>2, <1>3, <1>4, <2>1
<1> QED BY <1>7, <1>8

\* What verify_citations finds, on evidence in force.
Found(v) ==
    /\ \A i \in DOMAIN v.citations :
          /\ \E e \in Held : EvidenceId(e) = v.citations[i].eid /\ e.validity # "invalid"
          /\ \A j \in DOMAIN v.citations : v.citations[j].eid = v.citations[i].eid => i = j
    /\ \A check \in v.checks :
          check.verified => \E e \in Held : EvidenceId(e) = check.evidence /\ ~Conflicts(check.citation, e)
    /\ v.issues = {} => \A i \in DOMAIN AllAudited : \E e \in Held : Supports(e, AllAudited[i])
    /\ \A issue \in v.issues : issue.severity = "blocking"

LEMMA VerifyCitationsFinds ==
  ASSUME EvidenceInv, ReportInv(statute), ReportInv(reasoning)
  PROVE  Found(VerifyCitations)
<1> DEFINE audited == AllAudited
           first == {i \in DOMAIN audited : ~Seen(audited, i)}
           stand == {i \in first : Supported(audited[i], laws, cases)}
           standing == At(audited, stand)
           found == [k \in DOMAIN standing |-> Match(standing[k], laws, cases)[1]]
           v == VerifyCitations
<1>1. PICK C : audited \in Seq(C) /\ \A c \in C : Citation(c)
  BY AllAuditedAreCitations
<1>2. /\ v.checks = {Check(audited[i]) : i \in first} /\ v.citations = List(found)
      /\ v.issues = {Issue("citation_invalid", Label(audited[i]), "blocking") : i \in first \ stand}
  BY DEF VerifyCitations
<1>3. first \subseteq DOMAIN audited /\ stand \in SUBSET (DOMAIN audited) /\ stand \subseteq first
  OBVIOUS
<1>4. \A i \in first : i \in stand <=> Supported(audited[i], laws, cases)
  OBVIOUS
<1>5. \A i \in DOMAIN audited : Citation(audited[i])
  BY <1>1
<1>6. \A i \in DOMAIN audited : i \in first <=> ~Seen(audited, i)
  OBVIOUS
<1>7. /\ \A k \in DOMAIN standing : \E i \in stand : standing[k] = audited[i]
      /\ standing \in Seq(C)
  <2> HIDE DEF audited, stand
  <2> QED BY <1>1, <1>3, AtPicks DEF Picks
<1> HIDE DEF v, audited, first, stand, standing
<1>8. /\ found \in Seq(Held) /\ DOMAIN found = DOMAIN standing
      /\ \A k \in DOMAIN found : found[k] \in Held /\ found[k].validity # "invalid"
  <2>1. ASSUME NEW k \in DOMAIN standing
        PROVE  LET e == Match(standing[k], laws, cases)[1] IN e \in Held /\ e.validity # "invalid"
    <3>1. PICK i \in stand : standing[k] = audited[i]
      BY <1>7
    <3>2. Citation(standing[k]) /\ Supported(standing[k], laws, cases)
      BY <1>3, <1>4, <1>5, <3>1
    <3> QED BY <3>2, SupportedFinds
  <2>2. Len(standing) \in Nat /\ DOMAIN standing = 1 .. Len(standing)
    BY <1>7
  <2>3. found \in [1 .. Len(standing) -> Held]
    BY <2>1, <2>2
  <2> QED BY <2>1, <2>2, <2>3
<1> HIDE DEF found
<1>9. \A i \in DOMAIN v.citations :
        /\ \E e \in Held : EvidenceId(e) = v.citations[i].eid /\ e.validity # "invalid"
        /\ \A j \in DOMAIN v.citations : v.citations[j].eid = v.citations[i].eid => i = j
  <2>1. /\ \A i \in DOMAIN List(found) : \E k \in DOMAIN found : List(found)[i].eid = EvidenceId(found[k])
        /\ \A i, j \in DOMAIN List(found) : List(found)[i].eid = List(found)[j].eid => i = j
    BY <1>8, ListHolds
  <2> QED BY <1>2, <1>8, <2>1
<1>10. ASSUME NEW check \in v.checks, check.verified
       PROVE  \E e \in Held : EvidenceId(e) = check.evidence /\ ~Conflicts(check.citation, e)
  <2>1. PICK i \in first : check = Check(audited[i])
    BY <1>2
  <2> DEFINE c == audited[i]
             e == Match(c, laws, cases)[1]
  <2>2. Citation(c)
    BY <1>3, <1>5
  <2> HIDE DEF c
  <2>3. check.citation = c /\ Supported(c, laws, cases) /\ check.evidence = EvidenceId(e)
    BY <1>10, <2>1 DEF Check, c
  <2>4. e \in Held /\ ~Conflicts(c, e)
    BY <2>2, <2>3, SupportedFinds
  <2> QED BY <2>3, <2>4
<1>11. ASSUME v.issues = {}, NEW i \in DOMAIN audited
       PROVE  \E e \in Held : Supports(e, audited[i])
  <2>1. PICK j \in DOMAIN audited : Label(audited[j]) = Label(audited[i]) /\ ~Seen(audited, j)
    BY <1>1, FirstOfLabel
  <2>2. j \in first /\ j \notin first \ stand
    BY <1>2, <1>6, <1>11, <2>1
  <2>3. Supported(audited[j], laws, cases)
    BY <1>4, <2>2
  <2>4. Citation(audited[i]) /\ Citation(audited[j])
    BY <1>5
  <2> DEFINE e == Match(audited[j], laws, cases)[1]
  <2>5. e \in Held /\ Supports(e, audited[j])
    BY <2>3, <2>4, SupportedFinds
  <2> HIDE DEF e
  <2>6. Supports(e, audited[i])
    BY <2>1, <2>4, <2>5, LabelDecides
  <2> QED BY <2>5, <2>6
<1>12. \A issue \in v.issues : issue.severity = "blocking"
  BY <1>2 DEF Issue
<1> QED BY <1>9, <1>10, <1>11, <1>12 DEF Found, v, audited

-----------------------------------------------------------------------------
(* The actions keep the invariant.                                          *)

LEMMA InitInv == Init => IInv
<1>1. SUFFICES ASSUME Init PROVE IInv
  OBVIOUS
<1>2. phase = "work" /\ laws = <<>> /\ cases = <<>> /\ statute = NoReport /\ reasoning = NoReport /\ answer = NoAnswer
  BY <1>1 DEF Init
<1>3. CountersInv
  <2>1. MaxRounds \in Nat /\ MAX_REPAIR_ROUNDS \in Nat /\ MAX_ANSWER_ATTEMPTS \in Nat
    BY RoundsAssumption
  <2>2. answer.outcome = "none"
    BY <1>2 DEF NoAnswer
  <2>3. rounds = 0 /\ repairs = 0 /\ attempts = 0 /\ insufficient = FALSE
    BY <1>1 DEF Init
  <2>4. \A n \in Nat : 0 \in 0 .. n
    OBVIOUS
  <2> QED BY <1>2, <2>1, <2>2, <2>3, <2>4 DEF CountersInv
<1>4. \A S : \A limit \in Nat : Pool(<<>>, S, limit)
  BY DEF Pool, DistinctKeys
<1>5. EvidenceInv
  BY <1>2, <1>4, CapacityAssumption DEF EvidenceInv
<1>6. ReportInv(NoReport)
  BY DEF ReportInv, NoReport
<1>7. answer.outcome = "none"
  BY <1>2 DEF NoAnswer
<1> QED BY <1>2, <1>3, <1>5, <1>6, <1>7
        DEF IInv, VerifiedInv, CitationsStand, PassedMeansSupported, ModelAnswersAreGrounded

LEMMA NormalizeEvidenceKeeps == IInv /\ NormalizeEvidence => IInv'
<1>1. SUFFICES ASSUME IInv, NormalizeEvidence PROVE IInv'
  OBVIOUS
<1>2. /\ phase = "work" /\ phase' = "work" /\ rounds < MaxRounds /\ rounds' = rounds + 1
      /\ statute' = statute /\ reasoning' = reasoning /\ repairs' = repairs /\ attempts' = attempts
      /\ answer' = answer
  BY <1>1 DEF NormalizeEvidence, reports
<1>3. PICK batch \in Batches :
        /\ laws' = AfterBatch(laws, OfKind(batch, "law"), LAW_TOP_K, RETAINED_LAWS)
        /\ cases' = AfterBatch(cases, OfKind(batch, "case"), CASE_TOP_K, RETAINED_CASES)
        /\ insufficient' \in BOOLEAN
  BY <1>1 DEF NormalizeEvidence
<1>4. EvidenceInv'
  <2>1. LAW_TOP_K \in Nat /\ CASE_TOP_K \in Nat /\ RETAINED_LAWS \in Nat /\ RETAINED_CASES \in Nat
    BY CapacityAssumption
  <2>2. OfKind(batch, "law") \in Seq(Stock("law")) /\ OfKind(batch, "case") \in Seq(Stock("case"))
    BY BatchIsStock
  <2>3. Pool(laws, InForce("law"), RETAINED_LAWS) /\ Pool(cases, InForce("case"), RETAINED_CASES)
    BY <1>1 DEF IInv, EvidenceInv
  <2>4. Pool(laws', InForce("law"), RETAINED_LAWS)
    BY <1>3, <2>1, <2>2, <2>3, AfterBatchKeeps
  <2>5. Pool(cases', InForce("case"), RETAINED_CASES)
    BY <1>3, <2>1, <2>2, <2>3, AfterBatchKeeps
  <2> QED BY <2>4, <2>5 DEF EvidenceInv
<1>5. CountersInv'
  BY <1>1, <1>2, <1>3, RoundsAssumption DEF IInv, CountersInv
<1> QED BY <1>1, <1>2, <1>4, <1>5
        DEF IInv, VerifiedInv, CitationsStand, PassedMeansSupported, ModelAnswersAreGrounded

LEMMA SourcesKeep ==
  ASSUME NEW S, S \subseteq Stock("law") \cup Stock("case"), NEW s \in Seq(S)
  PROVE  Sources(s) \in Seq(Sourced)
<1>1. ASSUME NEW e \in Stock("law") \cup Stock("case") PROVE SourceOf(e) \in Sourced
  <2>1. e \in Evidence /\ Numbering(e)
    BY DEF Stock
  <2>2. /\ e.kind \in {"law", "case"} /\ e.name \in STRING /\ e.no \in STRING /\ e.src \in STRING /\ e.ref \in Nat
    BY <2>1 DEF Evidence
  <2>3. EvidenceId(e) \in {"law", "case"} \X STRING \X STRING
    BY <2>2 DEF EvidenceId
  <2> DEFINE c == SourceOf(e)
  <2>4. c \in [kind : {"law", "case"}, name : STRING, no : STRING, src : STRING,
               eid : {"law", "case"} \X STRING \X STRING, ref : Nat]
    BY <2>2, <2>3 DEF SourceOf
  <2>5. c.kind = e.kind /\ c.name = e.name /\ c.no = e.no /\ c.src = e.src
    BY DEF SourceOf
  <2> HIDE DEF c
  <2>6. Numbering(c)
    BY <2>1, <2>5 DEF Numbering
  <2>7. c \in Sourced
    BY <2>4, <2>6 DEF Sourced
  <2> QED BY <2>7 DEF c
<1>2. Len(s) \in Nat /\ DOMAIN s = 1 .. Len(s) /\ \A i \in DOMAIN s : s[i] \in S
  OBVIOUS
<1>3. Sources(s) \in [1 .. Len(s) -> Sourced]
  BY <1>1, <1>2 DEF Sources
<1> QED BY <1>2, <1>3

LEMMA DistinctSourcesKeep ==
  ASSUME NEW S, NEW s \in Seq(S)
  PROVE  DistinctSources(s) \in Seq(S)
<1> DEFINE places == {i \in DOMAIN s : \A j \in 1 .. i - 1 : ~SameSource(s[j], s[i])}
<1>1. places \in SUBSET (DOMAIN s)
  OBVIOUS
<1>2. DistinctSources(s) = At(s, places)
  BY DEF DistinctSources
<1> HIDE DEF places
<1> QED BY <1>1, <1>2, AtPicks

\* The lists of the state are of what a source may be copied from.
LEMMA PoolsAreStock ==
  ASSUME EvidenceInv
  PROVE  laws \in Seq(Stock("law") \cup Stock("case")) /\ cases \in Seq(Stock("law") \cup Stock("case"))
<1> DEFINE S == Stock("law") \cup Stock("case")
<1>1. InForce("law") \subseteq S /\ InForce("case") \subseteq S
  BY DEF InForce
<1>2. laws \in Seq(InForce("law")) /\ cases \in Seq(InForce("case"))
  BY DEF EvidenceInv, Pool
<1> HIDE DEF S
<1>3. laws \in Seq(S)
  BY <1>1, <1>2, SubsetList
<1>4. cases \in Seq(S)
  BY <1>1, <1>2, SubsetList
<1> QED BY <1>3, <1>4 DEF S

LEMMA WriteStatuteReportKeeps == IInv /\ WriteStatuteReport => IInv'
<1>1. SUFFICES ASSUME IInv, WriteStatuteReport PROVE IInv'
  OBVIOUS
<1>2. /\ phase = "work" /\ phase' = "work" /\ laws' = laws /\ cases' = cases /\ insufficient' = insufficient
      /\ rounds' = rounds /\ reasoning' = reasoning /\ repairs' = repairs /\ attempts' = attempts
      /\ answer' = answer
  BY <1>1 DEF WriteStatuteReport, evidence
<1>3. PICK relevant \in {laws, Top(laws, 1), <<>>} :
        /\ statute'.sources = DistinctSources(Sources(relevant))
        /\ statute'.text = <<>> /\ statute'.steps = <<>>
  BY <1>1 DEF WriteStatuteReport
<1> DEFINE S == Stock("law") \cup Stock("case")
<1>4. relevant \in Seq(S)
  <2>1. laws \in Seq(S)
    BY <1>1, PoolsAreStock DEF IInv
  <2> HIDE DEF S
  <2>2. Top(laws, 1) \in Seq(S)
    <3>1. 1 \in Nat
      OBVIOUS
    <3> QED BY <2>1, <3>1, TopKeeps
  <2>3. <<>> \in Seq(S)
    OBVIOUS
  <2> QED BY <2>1, <2>2, <2>3
<1>5. S \subseteq Stock("law") \cup Stock("case")
  OBVIOUS
<1> HIDE DEF S
<1>6. Sources(relevant) \in Seq(Sourced)
  BY <1>4, <1>5, SourcesKeep
<1>7. DistinctSources(Sources(relevant)) \in Seq(Sourced)
  BY <1>6, DistinctSourcesKeep
<1>8. ReportInv(statute')
  BY <1>3, <1>7 DEF ReportInv
<1>9. CountersInv'
  BY <1>1, <1>2 DEF IInv, CountersInv
<1>10. EvidenceInv'
  BY <1>1, <1>2 DEF IInv, EvidenceInv
<1>11. ReportInv(reasoning')
  BY <1>1, <1>2 DEF IInv
<1> QED BY <1>1, <1>2, <1>8, <1>9, <1>10, <1>11
        DEF IInv, VerifiedInv, CitationsStand, PassedMeansSupported, ModelAnswersAreGrounded

LEMMA WriteReasoningReportKeeps == IInv /\ WriteReasoningReport => IInv'
<1>1. SUFFICES ASSUME IInv, WriteReasoningReport PROVE IInv'
  OBVIOUS
<1>2. /\ phase = "work" /\ phase' = "verify" /\ laws' = laws /\ cases' = cases /\ insufficient' = insufficient
      /\ rounds' = rounds /\ statute' = statute /\ repairs' = repairs /\ attempts' = attempts
      /\ answer' = answer
  BY <1>1 DEF WriteReasoningReport, evidence
<1> DEFINE s == Sources(laws \o cases) \o statute.sources \o reasoning.sources
<1>3. PICK text \in Texts, steps \in NextSteps :
        /\ reasoning'.sources = DistinctSources(s)
        /\ reasoning'.text = text /\ reasoning'.steps = steps
  BY <1>1 DEF WriteReasoningReport
<1>4. Sources(laws \o cases) \in Seq(Sourced)
  <2> DEFINE S == Stock("law") \cup Stock("case")
  <2>1. laws \in Seq(S)
    BY <1>1, PoolsAreStock DEF IInv
  <2>2. cases \in Seq(S)
    BY <1>1, PoolsAreStock DEF IInv
  <2>3. S \subseteq Stock("law") \cup Stock("case")
    OBVIOUS
  <2> HIDE DEF S
  <2>4. laws \o cases \in Seq(S)
    BY <2>1, <2>2, Joined
  <2> QED BY <2>3, <2>4, SourcesKeep
<1>5. statute.sources \in Seq(Sourced) /\ reasoning.sources \in Seq(Sourced)
  BY <1>1 DEF IInv, ReportInv
<1>6. s \in Seq(Sourced)
  BY <1>4, <1>5
<1> HIDE DEF s
<1>7. DistinctSources(s) \in Seq(Sourced)
  BY <1>6, DistinctSourcesKeep
<1>8. ReportInv(reasoning')
  BY <1>3, <1>7 DEF ReportInv
<1>9. CountersInv'
  BY <1>1, <1>2 DEF IInv, CountersInv
<1>10. EvidenceInv'
  BY <1>1, <1>2 DEF IInv, EvidenceInv
<1>11. ReportInv(statute')
  BY <1>1, <1>2 DEF IInv
<1> QED BY <1>1, <1>2, <1>8, <1>9, <1>10, <1>11
        DEF IInv, VerifiedInv, CitationsStand, PassedMeansSupported, ModelAnswersAreGrounded


\* What the verifier found on evidence and reports that a step leaves alone.
LEMMA CarriedFacts ==
  ASSUME laws' = laws, cases' = cases, statute' = statute, reasoning' = reasoning
  PROVE  /\ Held' = Held /\ AllAudited' = AllAudited
         /\ EvidenceInv' = EvidenceInv
         /\ ReportInv(statute') = ReportInv(statute) /\ ReportInv(reasoning') = ReportInv(reasoning)
         /\ \A c : Backed(c)' = Backed(c)
<1>1. Held' = Held
  BY DEF Held
<1>2. AllAudited' = AllAudited
  BY DEF AllAudited
<1>3. EvidenceInv' = EvidenceInv
  BY DEF EvidenceInv
<1>4. \A c : Backed(c)' = Backed(c)
  BY <1>1 DEF Backed
<1> QED BY <1>1, <1>2, <1>3, <1>4

LEMMA VerifyKeeps == IInv /\ Verify => IInv'
<1>1. SUFFICES ASSUME IInv, Verify PROVE IInv'
  OBVIOUS
<1> DEFINE found == VerifyCitations
           inForce == {i \in DOMAIN laws : laws[i].validity # "invalid"}
<1>2. /\ phase = "verify" /\ laws' = laws /\ cases' = cases /\ insufficient' = insufficient
      /\ rounds' = rounds /\ statute' = statute /\ reasoning' = reasoning /\ attempts' = attempts
      /\ answer' = answer
  BY <1>1 DEF Verify, evidence, reports
<1>3. PICK semantic \in SemanticIssues :
        LET issues == found.issues \cup SourceIssues \cup ValidityWarnings \cup semantic
        IN  /\ verified' = [laws |-> At(laws, inForce), cases |-> cases, checks |-> found.checks,
                            citations |-> found.citations, issues |-> issues]
            /\ IF NeedsRetry(issues)
               THEN phase' = "work" /\ repairs' = repairs + 1
               ELSE phase' = "answer" /\ repairs' = repairs
  BY <1>1 DEF Verify
<1>4. Found(found)
  BY <1>1, VerifyCitationsFinds DEF IInv
<1>5. At(laws, inForce) \in Seq(ToSet(laws))
  <2>1. laws \in Seq(InForce("law"))
    BY <1>1 DEF IInv, EvidenceInv, Pool
  <2>2. inForce \in SUBSET (DOMAIN laws)
    OBVIOUS
  <2>3. \A i \in inForce : laws[i] \in ToSet(laws)
    BY <2>2 DEF ToSet
  <2> HIDE DEF inForce
  <2>4. At(laws, inForce) \in Seq(InForce("law")) /\ Picks(At(laws, inForce), laws, inForce)
    BY <2>1, <2>2, AtPicks
  <2> QED BY <2>3, <2>4, PicksIn
<1> HIDE DEF found, inForce
<1>6. /\ verified'.laws = At(laws, inForce) /\ verified'.cases = cases /\ verified'.checks = found.checks
      /\ verified'.citations = found.citations /\ found.issues \subseteq verified'.issues
  BY <1>3
<1>7. \/ phase' = "work" /\ repairs' = repairs + 1 /\ repairs < MAX_REPAIR_ROUNDS
      \/ phase' = "answer" /\ repairs' = repairs
  BY <1>3 DEF NeedsRetry
<1>8. CountersInv'
  <2>1. MAX_REPAIR_ROUNDS \in Nat
    BY RoundsAssumption
  <2>2. repairs' \in 0 .. MAX_REPAIR_ROUNDS
    BY <1>1, <1>7, <2>1 DEF IInv, CountersInv
  <2> QED BY <1>1, <1>2, <1>7, <2>2 DEF IInv, CountersInv
<1>9. Held' = Held /\ AllAudited' = AllAudited /\ EvidenceInv' /\ ReportInv(statute') /\ ReportInv(reasoning')
  BY <1>1, <1>2, CarriedFacts DEF IInv
<1>10. VerifiedInv'
  BY <1>2, <1>5, <1>6 DEF VerifiedInv
<1>11. CitationsStand'
  BY <1>4, <1>6, <1>9 DEF CitationsStand, Found
<1>12. PassedMeansSupported'
  <2>1. Blocking(verified'.issues) = {} => found.issues = {}
    BY <1>4, <1>6 DEF Blocking, Found
  <2> QED BY <1>4, <1>9, <2>1 DEF PassedMeansSupported, Found
<1>13. answer'.outcome = "none"
  BY <1>1, <1>2 DEF IInv
<1> QED BY <1>8, <1>9, <1>10, <1>11, <1>12, <1>13 DEF IInv, ModelAnswersAreGrounded

\* What holds of the verification holds of it while the answer is written.
LEMMA Carried ==
  ASSUME IInv, phase = "answer", phase' \in {"answer", "done"}, UNCHANGED <<evidence, reports, verified, repairs>>,
         attempts' \in 0 .. MAX_ANSWER_ATTEMPTS,
         answer'.outcome \in {"none", "model", "rewritten", "deterministic"},
         phase' # "done" => answer'.outcome = "none",
         ModelAnswersAreGrounded'
  PROVE  IInv'
<1>1. /\ laws' = laws /\ cases' = cases /\ insufficient' = insufficient /\ rounds' = rounds
      /\ statute' = statute /\ reasoning' = reasoning /\ verified' = verified /\ repairs' = repairs
  BY DEF evidence, reports
<1>2. Held' = Held /\ AllAudited' = AllAudited /\ EvidenceInv' /\ ReportInv(statute') /\ ReportInv(reasoning')
  BY <1>1, CarriedFacts DEF IInv
<1>3. CountersInv'
  BY <1>1 DEF IInv, CountersInv
<1>4. VerifiedInv'
  BY <1>1 DEF IInv, VerifiedInv
<1>5. CitationsStand'
  BY <1>1, <1>2 DEF IInv, CitationsStand
<1>6. PassedMeansSupported'
  BY <1>1, <1>2 DEF IInv, PassedMeansSupported
<1> QED BY <1>2, <1>3, <1>4, <1>5, <1>6 DEF IInv

\* What the answer's text cites is cited by the text it is made of.
LEMMA FinishCitesNothingNew ==
  ASSUME NEW text \in Text, NEW outcome, Finish(text, outcome)
  PROVE  CitationsOf(answer'.text) \subseteq CitationsOf(text)
<1> DEFINE sourced == WithSources(text, verified.laws, verified.cases)
<1>1. answer'.text = IF Uncertain THEN RiskNotice \o sourced ELSE sourced
  BY DEF Finish
<1>2. sourced \in Text /\ CitationsOf(sourced) \subseteq CitationsOf(text)
  BY WithSourcesCitesNothingNew
<1> HIDE DEF sourced
<1>3. CitationsOf(RiskNotice \o sourced) \subseteq CitationsOf(sourced)
  BY <1>2, NoticeCitesNothing
<1> QED BY <1>1, <1>2, <1>3

LEMMA DraftKeeps == IInv /\ Draft => IInv'
<1>1. SUFFICES ASSUME IInv, Draft PROVE IInv'
  OBVIOUS
<1>2. /\ phase = "answer" /\ attempts < MAX_ANSWER_ATTEMPTS /\ attempts' = attempts + 1
      /\ UNCHANGED <<evidence, reports, verified, repairs>>
  BY <1>1 DEF Draft
<1>3. attempts' \in 0 .. MAX_ANSWER_ATTEMPTS
  <2>1. MAX_ANSWER_ATTEMPTS \in Nat
    BY RoundsAssumption
  <2> QED BY <1>1, <1>2, <2>1 DEF IInv, CountersInv
<1>4. PICK draft \in Texts \ {<<>>} :
        IF Grounded(draft, verified.laws, verified.cases)
        THEN Finish(draft, IF attempts = 0 THEN "model" ELSE "rewritten")
        ELSE UNCHANGED <<phase, answer>>
  BY <1>1 DEF Draft
<1>5. CASE ~Grounded(draft, verified.laws, verified.cases)
  <2>1. phase' = phase /\ answer' = answer
    BY <1>4, <1>5
  <2>2. answer'.outcome = "none"
    BY <1>1, <1>2, <2>1 DEF IInv
  <2>3. ModelAnswersAreGrounded'
    BY <2>2 DEF ModelAnswersAreGrounded
  <2> QED BY <1>1, <1>2, <1>3, <2>1, <2>2, <2>3, Carried
<1>6. CASE Grounded(draft, verified.laws, verified.cases)
  <2> DEFINE outcome == IF attempts = 0 THEN "model" ELSE "rewritten"
  <2>1. Finish(draft, outcome) /\ outcome \in {"model", "rewritten"}
    BY <1>4, <1>6
  <2> HIDE DEF outcome
  <2>2. answer'.outcome = outcome /\ phase' = "done"
    BY <2>1 DEF Finish
  <2>3. draft \in Text
    BY TextsAreTexts
  <2>4. CitationsOf(answer'.text) \subseteq CitationsOf(draft)
    BY <2>1, <2>3, FinishCitesNothingNew
  <2>5. EvidenceInv /\ verified.laws \in Seq(ToSet(laws)) /\ verified.cases = cases
    BY <1>1, <1>2 DEF IInv, VerifiedInv
  <2>6. \A c \in CitationsOf(draft) : Backed(c)
    BY <1>6, <2>5, GroundedIsBacked
  <2>7. \A c : Backed(c)' = Backed(c)
    BY <1>2, CarriedFacts DEF evidence, reports
  <2>8. ModelAnswersAreGrounded'
    BY <2>4, <2>6, <2>7 DEF ModelAnswersAreGrounded
  <2> QED BY <1>1, <1>2, <1>3, <2>1, <2>2, <2>8, Carried
<1> QED BY <1>5, <1>6

LEMMA RebuildAnswerKeeps == IInv /\ RebuildAnswer => IInv'
<1>1. SUFFICES ASSUME IInv, RebuildAnswer PROVE IInv'
  OBVIOUS
<1>2. /\ phase = "answer" /\ phase' = "done" /\ answer'.outcome = "deterministic" /\ attempts' = attempts
      /\ UNCHANGED <<evidence, reports, verified, repairs>>
  BY <1>1 DEF RebuildAnswer, Finish
<1>3. attempts' \in 0 .. MAX_ANSWER_ATTEMPTS
  BY <1>1, <1>2 DEF IInv, CountersInv
<1>4. ModelAnswersAreGrounded'
  BY <1>2 DEF ModelAnswersAreGrounded
<1> QED BY <1>1, <1>2, <1>3, <1>4, Carried

LEMMA StutterKeeps == IInv /\ UNCHANGED vars => IInv'
<1>1. SUFFICES ASSUME IInv, UNCHANGED vars PROVE IInv'
  OBVIOUS
<1>2. /\ laws' = laws /\ cases' = cases /\ insufficient' = insufficient /\ rounds' = rounds
      /\ statute' = statute /\ reasoning' = reasoning /\ verified' = verified /\ repairs' = repairs
      /\ phase' = phase /\ attempts' = attempts /\ answer' = answer
  BY <1>1 DEF vars, evidence, reports
<1>3. /\ Held' = Held /\ AllAudited' = AllAudited /\ EvidenceInv' /\ ReportInv(statute') /\ ReportInv(reasoning')
      /\ \A c : Backed(c)' = Backed(c)
  BY <1>1, <1>2, CarriedFacts DEF IInv
<1>4. CountersInv' /\ VerifiedInv'
  BY <1>1, <1>2 DEF IInv, CountersInv, VerifiedInv
<1>5. CitationsStand' /\ PassedMeansSupported'
  BY <1>1, <1>2, <1>3 DEF IInv, CitationsStand, PassedMeansSupported
<1>6. ModelAnswersAreGrounded'
  BY <1>1, <1>2, <1>3 DEF IInv, ModelAnswersAreGrounded
<1>7. phase' # "done" => answer'.outcome = "none"
  BY <1>1, <1>2 DEF IInv
<1> QED BY <1>3, <1>4, <1>5, <1>6, <1>7 DEF IInv

LEMMA InvHolds == Spec => []IInv
<1>1. IInv /\ [Next]_vars => IInv'
  <2>1. SUFFICES ASSUME IInv, [Next]_vars PROVE IInv'
    OBVIOUS
  <2>2. CASE NormalizeEvidence
    BY <2>1, <2>2, NormalizeEvidenceKeeps
  <2>3. CASE WriteStatuteReport
    BY <2>1, <2>3, WriteStatuteReportKeeps
  <2>4. CASE WriteReasoningReport
    BY <2>1, <2>4, WriteReasoningReportKeeps
  <2>5. CASE Verify
    BY <2>1, <2>5, VerifyKeeps
  <2>6. CASE Draft
    BY <2>1, <2>6, DraftKeeps
  <2>7. CASE RebuildAnswer
    BY <2>1, <2>7, RebuildAnswerKeeps
  <2>8. CASE UNCHANGED vars
    BY <2>1, <2>8, StutterKeeps
  <2> QED BY <2>1, <2>2, <2>3, <2>4, <2>5, <2>6, <2>7, <2>8 DEF Next, Done
<1> QED BY <1>1, InitInv, PTL DEF Spec

-----------------------------------------------------------------------------
(* The theorems.                                                            *)

\* A list of distinct keys has as many keys as places.
LEMMA DistinctKeysCount ==
  ASSUME NEW S, NEW s \in Seq(S), DistinctKeys(s)
  PROVE  Cardinality({EvidenceKey(s[i]) : i \in DOMAIN s}) = Len(s)
<1> DEFINE K == {EvidenceKey(s[i]) : i \in DOMAIN s}
           f == [i \in 1 .. Len(s) |-> EvidenceKey(s[i])]
<1>1. Len(s) \in Nat /\ DOMAIN s = 1 .. Len(s)
  OBVIOUS
<1>2. f \in Bijection(1 .. Len(s), K)
  <2>1. f \in [1 .. Len(s) -> K]
    BY <1>1
  <2>2. \A i, j \in 1 .. Len(s) : f[i] = f[j] => i = j
    BY <1>1 DEF DistinctKeys
  <2>3. \A k \in K : \E i \in 1 .. Len(s) : f[i] = k
    BY <1>1
  <2> HIDE DEF f, K
  <2> QED BY <2>1, <2>2, <2>3 DEF Bijection, Injection, Surjection, IsInjective
<1> HIDE DEF f, K
<1>3. ExistsBijection(1 .. Len(s), K)
  BY <1>2 DEF ExistsBijection
<1>4. Cardinality(K) = Len(s)
  BY <1>1, <1>3, FS_CountingElements
<1> QED BY <1>4 DEF K

\* Every variable keeps its kind of value, and the evidence the bounds of the
\* context, each item once, over every sequence of retrievals: normalize_evidence
\* and the reducer merge_top_retrieved.
THEOREM TypeCorrect == Spec => []TypeOK
<1>1. IInv => TypeOK
  <2>1. SUFFICES ASSUME IInv PROVE TypeOK
    OBVIOUS
  <2>2. Pool(laws, InForce("law"), RETAINED_LAWS) /\ Pool(cases, InForce("case"), RETAINED_CASES)
    BY <2>1 DEF IInv, EvidenceInv
  <2>3. Cardinality({EvidenceKey(laws[i]) : i \in DOMAIN laws}) = Len(laws)
    BY <2>2, DistinctKeysCount DEF Pool
  <2>4. Cardinality({EvidenceKey(cases[i]) : i \in DOMAIN cases}) = Len(cases)
    BY <2>2, DistinctKeysCount DEF Pool
  <2>5. Len(laws) <= RETAINED_LAWS /\ Len(cases) <= RETAINED_CASES
    BY <2>2 DEF Pool
  <2> QED BY <2>1, <2>3, <2>4, <2>5 DEF IInv, CountersInv, TypeOK
<1> QED BY <1>1, InvHolds, PTL

\* Every citation the answer lists is evidence of the turn in force, once, and
\* a check that passed names evidence its citation does not contradict:
\* verify_citations over reports of any age, the evidence renumbered since.
THEOREM CitationsStandHolds == Spec => []CitationsStand
<1>1. IInv => CitationsStand
  BY DEF IInv
<1> QED BY <1>1, InvHolds, PTL

\* A verification without objection means that every source and every citation
\* of every report has evidence in force that does not contradict it, although
\* _CitationAuditor.audit looks only the first citation of a label up.
THEOREM PassedMeansSupportedHolds == Spec => []PassedMeansSupported
<1>1. IInv => PassedMeansSupported
  BY DEF IInv
<1> QED BY <1>1, InvHolds, PTL

\* What a model's answer cites is evidence of the turn in force, after
\* _add_inline_sources and the risk notice: audit_answer_citations looked at
\* the draft, the user gets another text.
THEOREM ModelAnswersAreGroundedHolds == Spec => []ModelAnswersAreGrounded
<1>1. IInv => ModelAnswersAreGrounded
  BY DEF IInv
<1> QED BY <1>1, InvHolds, PTL
=============================================================================
