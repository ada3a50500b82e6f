------------------------- MODULE LegalSearchProofs -------------------------
(***************************************************************************)
(* Proofs about LegalSearch: its type invariant, the vector collection that *)
(* is never left with part of the corpus, and the search that answers when  *)
(* one of its sources had a current law.                                    *)
(*                                                                          *)
(* The module sorts and filters lists by recursive functions.  That such a  *)
(* function exists, and what it keeps, follows from induction over the      *)
(* length of the list.                                                      *)
(***************************************************************************)
EXTENDS LegalSearch, FiniteSetTheorems, SequenceTheorems, WellFoundedInduction, TLAPS

-----------------------------------------------------------------------------
(* Induction up to a natural number, and the functions it defines step by   *)
(* step, from the fact that every non-empty set of natural numbers has a    *)
(* least element.                                                           *)

\* A non-empty set of natural numbers has a least element.
LEMMA LeastNat ==
  ASSUME NEW T, T \subseteq Nat, T # {}
  PROVE  \E x \in T : \A y \in T : x <= y
<1> DEFINE R == OpToRel(<, Nat)
<1>1. IsWellFoundedOn(R, Nat)
  BY NatLessThanWellFounded
<1>2. \A x, y \in Nat : x < y => <<x, y>> \in R
  BY DEF OpToRel
<1> HIDE DEF R
<1>3. PICK x \in T : \A y \in T : ~(<<y, x>> \in R)
  BY <1>1, WFMin
<1>4. ASSUME NEW y \in T PROVE x <= y
  <2>1. x \in Nat /\ y \in Nat
    OBVIOUS
  <2>2. ~(y < x)
    BY <1>2, <1>3, <2>1
  <2> QED BY <2>1, <2>2
<1> QED BY <1>4

\* Induction up to N.
LEMMA Upto ==
  ASSUME NEW N \in Nat, NEW P, 0 \in P,
         \A n \in Nat : n < N /\ n \in P => n + 1 \in P
  PROVE  \A n \in 0..N : n \in P
<1> DEFINE T == {n \in 0..N : n \notin P}
<1>1. SUFFICES ASSUME T # {} PROVE FALSE
  OBVIOUS
<1>2. T \subseteq Nat
  OBVIOUS
<1> HIDE DEF T
<1>3. PICK x \in T : \A y \in T : x <= y
  BY <1>1, <1>2, LeastNat
<1>4. x \in 0..N /\ x \notin P /\ x # 0
  BY <1>3 DEF T
<1>5. x - 1 \in Nat /\ x - 1 < N /\ x - 1 \in 0..N /\ (x - 1) + 1 = x /\ ~(x <= x - 1)
  BY <1>4
<1>6. x - 1 \in P
  BY <1>3, <1>5 DEF T
<1> QED BY <1>4, <1>5, <1>6

\* A value for 0 and a step from every n - 1 to n define a function.
StepsOf(A, N) == [1..N -> [A -> A]]
RunsOf(A, N, a, step) ==
    {f \in [0..N -> A] : f[0] = a /\ \A n \in 1..N : f[n] = step[n][f[n - 1]]}

LEMMA Stepwise ==
  ASSUME NEW A, NEW N \in Nat, NEW a \in A, NEW step \in StepsOf(A, N)
  PROVE  RunsOf(A, N, a, step) # {}
<1> DEFINE Runs(f, n) == f[0] = a /\ \A k \in 1..n : f[k] = step[k][f[k - 1]]
           P == {n \in 0..N : \E f \in [0..n -> A] : Runs(f, n)}
<1>1. 0 \in P
  <2>1. [k \in 0..0 |-> a] \in [0..0 -> A] /\ Runs([k \in 0..0 |-> a], 0)
    OBVIOUS
  <2>2. \E f \in [0..0 -> A] : Runs(f, 0)
    BY <2>1
  <2> HIDE DEF Runs
  <2> QED BY <2>2
<1>2. ASSUME NEW n \in Nat, n < N, n \in P PROVE n + 1 \in P
  <2>1. PICK f \in [0..n -> A] : Runs(f, n)
    BY <1>2
  <2> DEFINE g == [k \in 0..(n + 1) |-> IF k = n + 1 THEN step[n + 1][f[n]] ELSE f[k]]
  <2>2. n + 1 \in 1..N /\ n \in 0..n
    BY <1>2
  <2>3. g \in [0..(n + 1) -> A]
    <3>1. step[n + 1] \in [A -> A] /\ f[n] \in A
      BY <2>2 DEF StepsOf
    <3>2. ASSUME NEW k \in 0..(n + 1), k # n + 1 PROVE k \in 0..n
      BY <3>2
    <3> QED BY <3>1, <3>2
  <2>4. ASSUME NEW k \in 1..(n + 1) PROVE g[k] = step[k][g[k - 1]]
    <3>1. k - 1 \in 0..n /\ k - 1 # n + 1 /\ k \in 0..(n + 1) /\ k - 1 \in 0..(n + 1)
      OBVIOUS
    <3>2. g[k - 1] = f[k - 1]
      BY <3>1
    <3>3. CASE k = n + 1
      <4>1. k - 1 = n
        BY <3>3
      <4> QED BY <3>1, <3>2, <3>3, <4>1
    <3>4. CASE k # n + 1
      <4>1. k \in 1..n
        BY <3>4
      <4>2. f[k] = step[k][f[k - 1]]
        BY <2>1, <4>1
      <4> QED BY <3>1, <3>2, <3>4, <4>2
    <3> QED BY <3>3, <3>4
  <2>5. g[0] = a
    BY <2>1
  <2> HIDE DEF g
  <2>6. n + 1 \in 0..N /\ Runs(g, n + 1)
    BY <2>2, <2>4, <2>5
  <2> QED BY <2>3, <2>6
<1> HIDE DEF P
<1>3. N \in P
  <2>1. \A n \in 0..N : n \in P
    BY <1>1, <1>2, Upto
  <2> QED BY <2>1
<1> QED BY <1>3 DEF P, RunsOf

-----------------------------------------------------------------------------
(* The inductive invariant.                                                 *)

Texts(docs) == {ContentOf[c] : c \in docs}

SearchType ==
    [at : {"idle", "lookup", "vector", "rank", "store", "done"},
     queries : AllQueries \cup {<<>>}, asked : 0..3, hits : HitLists,
     results : HitLists, reranked : BOOLEAN, found : BOOLEAN]

BuildType ==
    [at : {"off", "count", "wipe", "create", "scan", "write", "loaded", "done"}, todo : Seq(Chunks)]

IndexType ==
    /\ collection \in [exists : BOOLEAN, points : SUBSET Chunks]
    /\ builder \in [Builders -> BuildType]
    /\ torn \in BOOLEAN

EntryType == [results : HitLists, reranked : BOOLEAN, ttl : BOOLEAN]

CallerType ==
    /\ keyword \in {<<>>, Corpus}
    /\ search \in [Searches -> SearchType]
    /\ lock \in Tools \cup {Free}
    /\ cache \in EntryType
    /\ faults \in Nat

\* A list of results names no law twice and is no longer than the limit
IsAnswer(results) == IsInjective(Docs(results)) /\ Len(results) <= FINAL_TOP_K

\* A search asks some variants and has answers for results.  When a source had
\* a current law, its results have one, and only current laws.
Sound(e) ==
    /\ e.at \in {"idle", "lookup"} => e.asked = 0
    /\ e.at \in {"vector", "rank"} => e.queries \in AllQueries
    /\ e.at = "vector" => e.asked < Len(e.queries)
    /\ IsInjective(Docs(e.hits))
    /\ IsAnswer(e.results)
    /\ e.at \in {"store", "done"} /\ e.found =>
          e.results # <<>> /\ ToSet(Docs(e.results)) \subseteq Current

\* So is the entry of the cache, and it is never empty.
SoundEntry(entry) == IsAnswer(entry.results) /\ (entry # NoEntry => entry.results # <<>>)

\* Searches run in a server, the tool's under the lock
TurnInv ==
    \A s \in Searches :
        /\ search[s].at # "idle" => keyword # <<>>
        /\ s \in Tools => (lock = s) = (search[s].at # "idle")

\* What a builder has left to write
TodoInv ==
    /\ ~collection.exists => collection.points = {}
    /\ \A b \in Builders :
          builder[b].todo # <<>> => At(b, "write") /\ IsInjective(builder[b].todo)

\* An index that lacks a text is being built by somebody who will write it,
\* was left by a builder that died, or is empty and will stay so
Completes(b) ==
    \/ At(b, "create") \/ At(b, "scan")
    \/ At(b, "write") /\ Texts(collection.points) \cup Texts(ToSet(builder[b].todo)) = Texts(Chunks)

IndexInv ==
    \/ torn \/ Whole
    \/ \E b \in Builders : Completes(b)
    \/ collection.points = {} /\ \A b \in Builders : builder[b].todo = <<>>

\* The two halves: what the builders keep, and what the searches keep
IndexPart  == IndexType /\ TodoInv /\ IndexInv
CallerPart == CallerType /\ (\A s \in Searches : Sound(search[s])) /\ SoundEntry(cache) /\ TurnInv
SearchInv  == IndexPart /\ CallerPart

-----------------------------------------------------------------------------
(* Filtering and sorting.                                                   *)

\* The recursive function in Only exists.
Filtering(f, S, seq, keep) ==
    /\ f \in [0..Len(seq) -> Seq(S)]
    /\ f[0] = <<>>
    /\ \A n \in 1..Len(seq) :
          f[n] = IF seq[n] \in keep THEN Append(f[n - 1], seq[n]) ELSE f[n - 1]
    /\ Only(seq, keep) = f[Len(seq)]

LEMMA OnlyUnfolds ==
  ASSUME NEW S, NEW seq \in Seq(S), NEW keep
  PROVE  \E f : Filtering(f, S, seq, keep)
<1> DEFINE N == Len(seq)
           step == [n \in 1..N |-> [r \in Seq(S) |->
                       IF seq[n] \in keep THEN Append(r, seq[n]) ELSE r]]
           Unfolded(g) == [n \in 0..N |->
                  IF n = 0 THEN <<>>
                  ELSE IF seq[n] \in keep THEN Append(g[n - 1], seq[n]) ELSE g[n - 1]]
           kept == CHOOSE g : g = Unfolded(g)
<1>1. N \in Nat /\ <<>> \in Seq(S) /\ \A n \in 1..N : seq[n] \in S
  BY EmptySeq, LenProperties, ElementOfSeq
<1>2. step \in [1..N -> [Seq(S) -> Seq(S)]]
  BY <1>1, AppendProperties
<1> HIDE DEF N, Unfolded
<1>3. PICK f \in [0..N -> Seq(S)] : f[0] = <<>> /\ \A n \in 1..N : f[n] = step[n][f[n - 1]]
  <2>1. <<>> \in Seq(S) /\ step \in StepsOf(Seq(S), N)
    BY <1>1, <1>2 DEF StepsOf
  <2> HIDE DEF step, kept
  <2>2. RunsOf(Seq(S), N, <<>>, step) # {}
    BY <1>1, <2>1, Stepwise
  <2> QED BY <2>2 DEF RunsOf
<1>4. \A n \in 1..N : f[n] = IF seq[n] \in keep THEN Append(f[n - 1], seq[n]) ELSE f[n - 1]
  <2> TAKE n \in 1..N
  <2>1. n - 1 \in 0..N
    BY <1>1
  <2>2. f[n - 1] \in Seq(S)
    BY <2>1
  <2> QED BY <1>3, <2>2
<1>5. f = Unfolded(f)
  <2>1. \A n \in 0..N : n # 0 => n \in 1..N
    BY <1>1
  <2> QED BY <1>3, <1>4, <2>1 DEF Unfolded
<1>6. kept = Unfolded(kept)
  BY <1>5
<1> HIDE DEF kept
<1>7. \A n \in 0..N : kept[n] = f[n]
  <2> DEFINE P == {n \in 0..N : kept[n] = f[n]}
  <2>1. 0 \in 0..N
    BY <1>1
  <2>2. 0 \in P
    BY <1>3, <1>6, <2>1 DEF Unfolded
  <2>3. ASSUME NEW n \in Nat, n < N, n \in P PROVE n + 1 \in P
    <3>1. n + 1 \in 0..N /\ n + 1 # 0 /\ n + 1 \in 1..N /\ (n + 1) - 1 = n
      BY <1>1, <2>3
    <3>2. kept[n + 1] = IF seq[n + 1] \in keep THEN Append(kept[n], seq[n + 1]) ELSE kept[n]
      BY <1>6, <3>1 DEF Unfolded
    <3>3. f[n + 1] = IF seq[n + 1] \in keep THEN Append(f[n], seq[n + 1]) ELSE f[n]
      BY <1>4, <3>1
    <3> QED BY <2>3, <3>1, <3>2, <3>3
  <2> HIDE DEF P
  <2>4. \A n \in 0..N : n \in P
    BY <1>1, <2>2, <2>3, Upto
  <2> QED BY <2>4 DEF P
<1>8. Only(seq, keep) = kept[N]
  BY DEF Only, kept, Unfolded, N
<1>9. Only(seq, keep) = f[N]
  BY <1>1, <1>7, <1>8
<1> QED BY <1>3, <1>4, <1>9 DEF N, Filtering

\* r has those of the first n members of seq that are in keep, in their order
FiltersFirst(r, seq, n, keep) ==
    /\ Len(r) <= n
    /\ \A i \in 1..Len(r) : \E k \in 1..n : r[i] = seq[k] /\ seq[k] \in keep
    /\ \A k \in 1..n : seq[k] \in keep => \E i \in 1..Len(r) : r[i] = seq[k]
    /\ \A i, j \in 1..Len(r) : i < j =>
          \E k, l \in 1..n : k < l /\ r[i] = seq[k] /\ r[j] = seq[l]

LEMMA FilterNext ==
  ASSUME NEW S, NEW seq \in Seq(S), NEW keep, NEW n \in Nat, n < Len(seq),
         NEW r \in Seq(S), FiltersFirst(r, seq, n, keep)
  PROVE  /\ seq[n + 1] \in keep => FiltersFirst(Append(r, seq[n + 1]), seq, n + 1, keep)
         /\ seq[n + 1] \notin keep => FiltersFirst(r, seq, n + 1, keep)
<1> DEFINE x == seq[n + 1]
<1>1. n + 1 \in 1..Len(seq) /\ Len(r) \in Nat /\ Len(seq) \in Nat
  BY LenProperties
<1>2. x \in S
  BY <1>1, ElementOfSeq
<1> HIDE DEF x
<1>3. \A k \in 1..n : k \in 1..(n + 1)
  OBVIOUS
<1>4. \A k \in 1..(n + 1) : k \in 1..n \/ k = n + 1
  OBVIOUS
<1>5. CASE x \notin keep
  <2>1. Len(r) <= n + 1
    BY <1>1 DEF FiltersFirst
  <2>2. ASSUME NEW i \in 1..Len(r)
        PROVE  \E k \in 1..(n + 1) : r[i] = seq[k] /\ seq[k] \in keep
    BY <1>3 DEF FiltersFirst
  <2>3. ASSUME NEW k \in 1..(n + 1), seq[k] \in keep PROVE \E i \in 1..Len(r) : r[i] = seq[k]
    BY <1>4, <1>5, <2>3 DEF FiltersFirst, x
  <2>4. ASSUME NEW i \in 1..Len(r), NEW j \in 1..Len(r), i < j
        PROVE  \E k, l \in 1..(n + 1) : k < l /\ r[i] = seq[k] /\ r[j] = seq[l]
    BY <1>3, <2>4 DEF FiltersFirst
  <2>5. FiltersFirst(r, seq, n + 1, keep)
    BY <2>1, <2>2, <2>3, <2>4 DEF FiltersFirst
  <2> QED BY <1>5, <2>5 DEF x
<1>6. CASE x \in keep
  <2> DEFINE next == Append(r, x)
  <2>1. next \in Seq(S) /\ Len(next) = Len(r) + 1 /\ next[Len(r) + 1] = x
        /\ \A i \in 1..Len(r) : next[i] = r[i]
    BY <1>2, AppendProperties
  <2> HIDE DEF next
  <2>2. \A i \in 1..Len(next) : i \in 1..Len(r) \/ i = Len(r) + 1
    BY <1>1, <2>1
  <2>3. \A i \in 1..Len(r) : i \in 1..Len(next)
    BY <1>1, <2>1
  <2>4. Len(next) <= n + 1 /\ Len(r) + 1 \in 1..Len(next) /\ n + 1 \in 1..(n + 1)
    BY <1>1, <2>1 DEF FiltersFirst
  <2>5. ASSUME NEW i \in 1..Len(next)
        PROVE  \E k \in 1..(n + 1) : next[i] = seq[k] /\ seq[k] \in keep
    <3>1. CASE i \in 1..Len(r)
      BY <1>3, <2>1, <3>1 DEF FiltersFirst
    <3>2. CASE i = Len(r) + 1
      BY <1>6, <2>1, <2>4, <3>2 DEF x
    <3> QED BY <2>2, <3>1, <3>2
  <2>6. ASSUME NEW k \in 1..(n + 1), seq[k] \in keep
        PROVE  \E i \in 1..Len(next) : next[i] = seq[k]
    <3>1. CASE k \in 1..n
      BY <2>1, <2>3, <2>6, <3>1 DEF FiltersFirst
    <3>2. CASE k = n + 1
      BY <2>1, <2>4, <3>2 DEF x
    <3> QED BY <1>4, <3>1, <3>2
  <2>7. ASSUME NEW i \in 1..Len(next), NEW j \in 1..Len(next), i < j
        PROVE  \E k, l \in 1..(n + 1) : k < l /\ next[i] = seq[k] /\ next[j] = seq[l]
    <3>1. i \in 1..Len(r)
      BY <1>1, <2>1, <2>7
    <3>2. CASE j \in 1..Len(r)
      <4>1. PICK k \in 1..n, l \in 1..n : k < l /\ r[i] = seq[k] /\ r[j] = seq[l]
        BY <2>7, <3>1, <3>2 DEF FiltersFirst
      <4> QED BY <1>3, <2>1, <3>1, <3>2, <4>1
    <3>3. CASE j = Len(r) + 1
      <4>1. PICK k \in 1..n : r[i] = seq[k]
        BY <3>1 DEF FiltersFirst
      <4>2. k < n + 1 /\ k \in 1..(n + 1)
        OBVIOUS
      <4> QED BY <2>1, <2>4, <3>1, <3>3, <4>1, <4>2 DEF x
    <3> QED BY <2>2, <3>2, <3>3
  <2>8. FiltersFirst(next, seq, n + 1, keep)
    BY <2>4, <2>5, <2>6, <2>7 DEF FiltersFirst
  <2> QED BY <1>6, <2>8 DEF next, x
<1> QED BY <1>5, <1>6

\* Only keeps the members that are in keep, in their order.
LEMMA OnlyFilters ==
  ASSUME NEW S, NEW seq \in Seq(S), NEW keep
  PROVE  Only(seq, keep) \in Seq(S) /\ FiltersFirst(Only(seq, keep), seq, Len(seq), keep)
<1> DEFINE N == Len(seq)
<1>1. N \in Nat
  BY LenProperties
<1> HIDE DEF N
<1>2. PICK f \in [0..N -> Seq(S)] :
         /\ f[0] = <<>>
         /\ \A n \in 1..N : f[n] = IF seq[n] \in keep THEN Append(f[n - 1], seq[n]) ELSE f[n - 1]
         /\ Only(seq, keep) = f[N]
  <2>1. PICK f : Filtering(f, S, seq, keep)
    BY OnlyUnfolds
  <2> QED BY <2>1 DEF N, Filtering
<1> DEFINE P == {n \in 0..N : FiltersFirst(f[n], seq, n, keep)}
<1>3. 0 \in P
  <2>1. FiltersFirst(<<>>, seq, 0, keep)
    BY EmptySeq DEF FiltersFirst
  <2>2. 0 \in 0..N
    BY <1>1
  <2> QED BY <1>2, <2>1, <2>2
<1>4. ASSUME NEW n \in Nat, n < N, n \in P PROVE n + 1 \in P
  <2>1. n + 1 \in 1..N /\ n + 1 \in 0..N /\ n \in 0..N /\ (n + 1) - 1 = n
    BY <1>1, <1>4
  <2>2. f[n + 1] = IF seq[n + 1] \in keep THEN Append(f[n], seq[n + 1]) ELSE f[n]
    BY <1>2, <2>1
  <2>3. f[n] \in Seq(S) /\ FiltersFirst(f[n], seq, n, keep) /\ n < Len(seq)
    BY <1>4, <2>1 DEF N
  <2>4. /\ seq[n + 1] \in keep => FiltersFirst(Append(f[n], seq[n + 1]), seq, n + 1, keep)
        /\ seq[n + 1] \notin keep => FiltersFirst(f[n], seq, n + 1, keep)
    BY <2>3, FilterNext
  <2> QED BY <2>1, <2>2, <2>4
<1> HIDE DEF P
<1>5. N \in P
  <2>1. \A n \in 0..N : n \in P
    BY <1>1, <1>3, <1>4, Upto
  <2> QED BY <1>1, <2>1
<1>6. FiltersFirst(f[N], seq, N, keep) /\ f[N] \in Seq(S)
  BY <1>1, <1>5 DEF P
<1> QED BY <1>2, <1>6 DEF N

LEMMA OnlyKeeps ==
  ASSUME NEW S, NEW seq \in Seq(S), NEW keep
  PROVE  /\ Only(seq, keep) \in Seq(S)
         /\ Len(Only(seq, keep)) <= Len(seq)
         /\ ToSet(Only(seq, keep)) = ToSet(seq) \cap keep
<1> DEFINE r == Only(seq, keep)
<1>1. r \in Seq(S) /\ FiltersFirst(r, seq, Len(seq), keep)
  BY OnlyFilters
<1> HIDE DEF r
<1>2. DOMAIN r = 1..Len(r) /\ DOMAIN seq = 1..Len(seq)
  BY <1>1, LenProperties
<1>3. Len(r) <= Len(seq)
  BY <1>1 DEF FiltersFirst
<1>4. ASSUME NEW x \in ToSet(r) PROVE x \in ToSet(seq) \cap keep
  <2>1. PICK i \in 1..Len(r) : x = r[i]
    BY <1>2, <1>4 DEF ToSet
  <2>2. PICK k \in 1..Len(seq) : r[i] = seq[k] /\ seq[k] \in keep
    BY <1>1, <2>1 DEF FiltersFirst
  <2> QED BY <1>2, <2>1, <2>2 DEF ToSet
<1>5. ASSUME NEW x \in ToSet(seq), x \in keep PROVE x \in ToSet(r)
  <2>1. PICK k \in 1..Len(seq) : x = seq[k]
    BY <1>2 DEF ToSet
  <2>2. PICK i \in 1..Len(r) : r[i] = seq[k]
    BY <1>1, <1>5, <2>1 DEF FiltersFirst
  <2> QED BY <1>2, <2>1, <2>2 DEF ToSet
<1>6. ToSet(r) = ToSet(seq) \cap keep
  BY <1>4, <1>5
<1> QED BY <1>1, <1>3, <1>6 DEF r

\* A list without repetition has none after it is filtered; so have its laws.
LEMMA OnlyRepeatsNothing ==
  ASSUME NEW S, NEW seq \in Seq(S), NEW keep
  PROVE  IsInjective(seq) => IsInjective(Only(seq, keep))
<1> DEFINE r == Only(seq, keep)
<1>1. r \in Seq(S) /\ FiltersFirst(r, seq, Len(seq), keep)
  BY OnlyFilters
<1> HIDE DEF r
<1>2. DOMAIN r = 1..Len(r) /\ DOMAIN seq = 1..Len(seq) /\ Len(r) \in Nat
  BY <1>1, LenProperties
<1>3. SUFFICES ASSUME IsInjective(seq), NEW i \in 1..Len(r), NEW j \in 1..Len(r), i < j
               PROVE  r[i] # r[j]
  <2>1. ASSUME IsInjective(seq), \A i, j \in 1..Len(r) : i < j => r[i] # r[j]
        PROVE  IsInjective(r)
    <3>1. \A i, j \in 1..Len(r) : i < j \/ j < i \/ i = j
      BY <1>2
    <3> QED BY <1>2, <2>1, <3>1 DEF IsInjective
  <2> QED BY <2>1 DEF r
<1>4. PICK k \in 1..Len(seq), l \in 1..Len(seq) : k < l /\ r[i] = seq[k] /\ r[j] = seq[l]
  BY <1>1, <1>3 DEF FiltersFirst
<1> QED BY <1>2, <1>3, <1>4 DEF IsInjective

LEMMA OnlyOncePerLaw ==
  ASSUME NEW hits \in HitLists, NEW keep
  PROVE  IsInjective(Docs(hits)) => IsInjective(Docs(Only(hits, keep)))
<1> DEFINE r == Only(hits, keep)
           T == HitsOn(Chunks)
<1>0. hits \in Seq(T)
  BY DEF HitLists
<1> HIDE DEF T
<1>1. r \in Seq(T) /\ FiltersFirst(r, hits, Len(hits), keep)
  BY <1>0, OnlyFilters
<1> HIDE DEF r
<1>2. DOMAIN r = 1..Len(r) /\ DOMAIN hits = 1..Len(hits) /\ Len(r) \in Nat
  BY <1>0, <1>1, LenProperties
<1>3. SUFFICES ASSUME IsInjective(Docs(hits)), NEW i \in 1..Len(r), NEW j \in 1..Len(r), i < j
               PROVE  r[i].doc # r[j].doc
  <2>1. ASSUME IsInjective(Docs(hits)), \A i, j \in 1..Len(r) : i < j => r[i].doc # r[j].doc
        PROVE  IsInjective(Docs(r))
    <3>1. \A i, j \in 1..Len(r) : i < j \/ j < i \/ i = j
      BY <1>2
    <3> QED BY <1>2, <2>1, <3>1 DEF IsInjective, Docs
  <2> QED BY <2>1 DEF r
<1>4. PICK k \in 1..Len(hits), l \in 1..Len(hits) : k < l /\ r[i] = hits[k] /\ r[j] = hits[l]
  BY <1>1, <1>3 DEF FiltersFirst
<1> QED BY <1>2, <1>3, <1>4 DEF IsInjective, Docs

\* The first n of a list
LEMMA FirstOf ==
  ASSUME NEW S, NEW seq \in Seq(S), NEW n \in Nat
  PROVE  /\ First(n, seq) \in Seq(S)
         /\ Len(First(n, seq)) = IF Len(seq) < n THEN Len(seq) ELSE n
         /\ \A i \in 1..Len(First(n, seq)) : i \in 1..Len(seq) /\ First(n, seq)[i] = seq[i]
<1> DEFINE m == IF Len(seq) < n THEN Len(seq) ELSE n
<1>1. Len(seq) \in Nat /\ m \in Nat /\ m <= Len(seq)
  BY LenProperties
<1>2. \A i \in 1..m : seq[i] \in S
  BY <1>1, ElementOfSeq
<1>3. First(n, seq) = SubSeq(seq, 1, m)
  BY DEF First
<1> HIDE DEF m
<1>4. /\ SubSeq(seq, 1, m) \in Seq(S)
      /\ Len(SubSeq(seq, 1, m)) = IF 1 <= m THEN m - 1 + 1 ELSE 0
      /\ \A i \in 1..(m - 1 + 1) : SubSeq(seq, 1, m)[i] = seq[1 + i - 1]
  BY <1>1, <1>2, SubSeqProperties
<1>5. m - 1 + 1 = m /\ (~(1 <= m) => m = 0) /\ \A i \in 1..m : 1 + i - 1 = i /\ i \in 1..Len(seq)
  BY <1>1
<1>6. Len(SubSeq(seq, 1, m)) = m
  BY <1>4, <1>5
<1> QED BY <1>3, <1>4, <1>5, <1>6 DEF m

LEMMA FirstOfHits ==
  ASSUME NEW hits \in HitLists, NEW n \in Nat
  PROVE  /\ First(n, hits) \in HitLists /\ Len(First(n, hits)) <= n
         /\ IsInjective(Docs(hits)) => IsInjective(Docs(First(n, hits)))
         /\ ToSet(Docs(First(n, hits))) \subseteq ToSet(Docs(hits))
         /\ hits # <<>> /\ n # 0 => First(n, hits) # <<>>
<1> DEFINE r == First(n, hits)
           T == HitsOn(Chunks)
<1>0. hits \in Seq(T)
  BY DEF HitLists
<1> HIDE DEF T
<1>1. /\ r \in Seq(T)
      /\ Len(r) = IF Len(hits) < n THEN Len(hits) ELSE n
      /\ \A i \in 1..Len(r) : i \in 1..Len(hits) /\ r[i] = hits[i]
  BY <1>0, FirstOf
<1> HIDE DEF r
<1>2. DOMAIN r = 1..Len(r) /\ DOMAIN hits = 1..Len(hits) /\ Len(r) \in Nat /\ Len(hits) \in Nat
  BY <1>0, <1>1, LenProperties
<1>3. r \in HitLists /\ Len(r) <= n
  BY <1>1, <1>2 DEF HitLists, T
<1>4. IsInjective(Docs(hits)) => IsInjective(Docs(r))
  BY <1>1, <1>2 DEF IsInjective, Docs
<1>5. ToSet(Docs(r)) \subseteq ToSet(Docs(hits))
  BY <1>1, <1>2 DEF ToSet, Docs
<1>6. ASSUME hits # <<>>, n # 0 PROVE r # <<>>
  <2>1. Len(hits) # 0
    BY <1>0, <1>6, EmptySeq
  <2>2. Len(r) # 0
    BY <1>1, <1>2, <1>6, <2>1
  <2> QED BY <2>2, EmptySeq
<1> QED BY <1>3, <1>4, <1>5, <1>6 DEF r

\* h is put at one place of the list, behind the first of its hits.
IsInserted(r, hits, h, ahead) ==
    /\ r \in HitLists /\ Len(r) = Len(hits) + 1
    /\ \A i \in 1..ahead : r[i] = hits[i]
    /\ r[ahead + 1] = h
    /\ \A i \in (ahead + 2)..(Len(hits) + 1) : r[i] = hits[i - 1]

LEMMA InsertPuts ==
  ASSUME NEW hits \in HitLists, NEW h \in HitsOn(Chunks)
  PROVE  \E ahead \in 0..Len(hits) : IsInserted(Insert[<<hits, h>>], hits, h, ahead)
<1> DEFINE T == HitsOn(Chunks)
           A == {i \in DOMAIN hits : hits[i].score >= h.score}
           a == Cardinality(A)
           front == SubSeq(hits, 1, a)
           back == SubSeq(hits, a + 1, Len(hits))
<1>1. hits \in Seq(T) /\ h \in T
  BY DEF HitLists
<1>2. Insert[<<hits, h>>] = front \o <<h>> \o back
  BY DEF Insert
<1> HIDE DEF T
<1>3. DOMAIN hits = 1..Len(hits) /\ Len(hits) \in Nat
  BY <1>1, LenProperties
<1>4. a \in 0..Len(hits)
  <2>1. IsFiniteSet(1..Len(hits)) /\ Cardinality(1..Len(hits)) = Len(hits)
    <3>1. IsFiniteSet(1..Len(hits))
      BY <1>3, FS_Interval
    <3>2. Cardinality(1..Len(hits)) = IF 1 > Len(hits) THEN 0 ELSE Len(hits) - 1 + 1
      BY <1>3, FS_Interval
    <3> QED BY <1>3, <3>1, <3>2
  <2>2. A \subseteq 1..Len(hits)
    BY <1>3
  <2> HIDE DEF A
  <2>3. IsFiniteSet(A) /\ Cardinality(A) <= Cardinality(1..Len(hits))
    BY <2>1, <2>2, FS_Subset
  <2>4. Cardinality(A) \in Nat
    BY <2>3, FS_CardinalityType
  <2> QED BY <1>3, <2>1, <2>3, <2>4
<1> HIDE DEF a
<1>5. a \in Nat /\ a <= Len(hits)
  BY <1>3, <1>4
<1>6. \A i \in 1..Len(hits) : hits[i] \in T
  BY <1>1, ElementOfSeq
<1>7. front \in Seq(T) /\ Len(front) = a /\ \A i \in 1..a : front[i] = hits[i]
  <2>1. \A i \in 1..a : hits[i] \in T
    BY <1>3, <1>5, <1>6
  <2>2. /\ front \in Seq(T)
        /\ Len(front) = IF 1 <= a THEN a - 1 + 1 ELSE 0
        /\ \A i \in 1..(a - 1 + 1) : front[i] = hits[1 + i - 1]
    BY <1>5, <2>1, SubSeqProperties
  <2>3. a - 1 + 1 = a /\ (~(1 <= a) => a = 0) /\ \A i \in 1..a : 1 + i - 1 = i
    BY <1>5
  <2> HIDE DEF front
  <2> QED BY <2>2, <2>3
<1>8. /\ back \in Seq(T) /\ Len(back) = Len(hits) - a
      /\ \A i \in 1..(Len(hits) - a) : back[i] = hits[a + i]
  <2>1. \A i \in (a + 1)..Len(hits) : hits[i] \in T
    BY <1>3, <1>5, <1>6
  <2> DEFINE N == Len(hits)
  <2>2. N \in Int /\ a + 1 \in Int /\ N \in Nat /\ a <= N
    BY <1>3, <1>5
  <2>3. \A i \in (a + 1)..N : hits[i] \in T
    BY <2>1
  <2>4. back = SubSeq(hits, a + 1, N)
    OBVIOUS
  <2> HIDE DEF N, back
  <2>5. /\ SubSeq(hits, a + 1, N) \in Seq(T)
        /\ Len(SubSeq(hits, a + 1, N)) = IF a + 1 <= N THEN N - (a + 1) + 1 ELSE 0
        /\ \A i \in 1..(N - (a + 1) + 1) : SubSeq(hits, a + 1, N)[i] = hits[(a + 1) + i - 1]
    BY <2>2, <2>3, SubSeqProperties
  <2>6. N - (a + 1) + 1 = N - a /\ (~(a + 1 <= N) => N - a = 0)
    BY <1>5, <2>2
  <2>7. Len(back) = N - a
    BY <2>4, <2>5, <2>6
  <2>8. ASSUME NEW i \in 1..(N - a) PROVE back[i] = hits[a + i]
    <3>1. (a + 1) + i - 1 = a + i
      BY <1>5
    <3> QED BY <2>4, <2>5, <2>6, <3>1
  <2> QED BY <2>4, <2>5, <2>7, <2>8 DEF N
<1> HIDE DEF front, back
<1> DEFINE head == front \o <<h>>
           r == head \o back
<1>9. /\ head \in Seq(T) /\ Len(head) = a + 1
      /\ \A i \in 1..(a + 1) : head[i] = IF i <= a THEN front[i] ELSE h
  <2>1. <<h>> \in Seq(T) /\ Len(<<h>>) = 1 /\ <<h>>[1] = h
    BY <1>1
  <2>2. /\ head \in Seq(T) /\ Len(head) = Len(front) + Len(<<h>>)
        /\ \A i \in 1..(Len(front) + Len(<<h>>)) :
              head[i] = IF i <= Len(front) THEN front[i] ELSE <<h>>[i - Len(front)]
    BY <1>7, <2>1, ConcatProperties
  <2> HIDE DEF head
  <2>3. ASSUME NEW i \in 1..(a + 1), ~(i <= a) PROVE i - a = 1
    BY <1>5, <2>3
  <2> QED BY <1>5, <1>7, <2>1, <2>2, <2>3
<1> HIDE DEF head
<1>10. /\ r \in Seq(T) /\ Len(r) = Len(head) + Len(back)
       /\ \A i \in 1..(Len(head) + Len(back)) :
              r[i] = IF i <= Len(head) THEN head[i] ELSE back[i - Len(head)]
  BY <1>8, <1>9, ConcatProperties
<1> HIDE DEF r
<1>11. Len(r) = Len(hits) + 1 /\ Len(head) + Len(back) = Len(hits) + 1
  BY <1>3, <1>5, <1>8, <1>9, <1>10
<1>12. \A i \in 1..a : r[i] = hits[i]
  <2> TAKE i \in 1..a
  <2>1. i \in 1..(a + 1) /\ i \in 1..(Len(hits) + 1) /\ i <= a /\ i <= a + 1
    BY <1>3, <1>5
  <2> QED BY <1>7, <1>9, <1>10, <1>11, <2>1
<1>13. r[a + 1] = h
  <2>1. a + 1 \in 1..(a + 1) /\ a + 1 \in 1..(Len(hits) + 1) /\ ~(a + 1 <= a) /\ a + 1 <= a + 1
    BY <1>3, <1>5
  <2> QED BY <1>9, <1>10, <1>11, <2>1
<1>14. \A i \in (a + 2)..(Len(hits) + 1) : r[i] = hits[i - 1]
  <2> TAKE i \in (a + 2)..(Len(hits) + 1)
  <2>1. /\ i \in 1..(Len(hits) + 1) /\ ~(i <= a + 1)
        /\ i - (a + 1) \in 1..(Len(hits) - a) /\ a + (i - (a + 1)) = i - 1
    BY <1>3, <1>5
  <2> QED BY <1>8, <1>9, <1>10, <1>11, <2>1
<1>15. r \in HitLists
  BY <1>10 DEF HitLists, T
<1>16. IsInserted(r, hits, h, a)
  BY <1>11, <1>12, <1>13, <1>14, <1>15 DEF IsInserted
<1> QED BY <1>2, <1>4, <1>16 DEF r, head

\* The recursive function in ByScore exists.
Sorting(f, hits) ==
    /\ f \in [0..Len(hits) -> HitLists]
    /\ f[0] = <<>>
    /\ \A n \in 1..Len(hits) : f[n] = Insert[<<f[n - 1], hits[n]>>]
    /\ ByScore[hits] = f[Len(hits)]

LEMMA ByScoreUnfolds ==
  ASSUME NEW hits \in HitLists
  PROVE  \E f : Sorting(f, hits)
<1> DEFINE N == Len(hits)
           step == [n \in 1..N |-> [r \in HitLists |-> Insert[<<r, hits[n]>>]]]
           Unfolded(g) == [n \in 0..N |-> IF n = 0 THEN <<>> ELSE Insert[<<g[n - 1], hits[n]>>]]
           sorted == CHOOSE g : g = Unfolded(g)
<1>1. N \in Nat /\ <<>> \in HitLists /\ \A n \in 1..N : hits[n] \in HitsOn(Chunks)
  BY EmptySeq, LenProperties, ElementOfSeq DEF HitLists
<1>2. step \in StepsOf(HitLists, N)
  <2>1. ASSUME NEW n \in 1..N, NEW r \in HitLists PROVE Insert[<<r, hits[n]>>] \in HitLists
    <3>1. PICK ahead \in 0..Len(r) : IsInserted(Insert[<<r, hits[n]>>], r, hits[n], ahead)
      BY <1>1, InsertPuts
    <3> QED BY <3>1 DEF IsInserted
  <2> QED BY <2>1 DEF StepsOf
<1> HIDE DEF N, Unfolded
<1>3. PICK f \in [0..N -> HitLists] : f[0] = <<>> /\ \A n \in 1..N : f[n] = step[n][f[n - 1]]
  <2> HIDE DEF step, sorted
  <2>1. RunsOf(HitLists, N, <<>>, step) # {}
    BY <1>1, <1>2, Stepwise
  <2> QED BY <2>1 DEF RunsOf
<1>4. \A n \in 1..N : f[n] = Insert[<<f[n - 1], hits[n]>>]
  <2> TAKE n \in 1..N
  <2>1. n - 1 \in 0..N
    BY <1>1
  <2>2. f[n - 1] \in HitLists
    BY <2>1
  <2> QED BY <1>3, <2>2
<1> HIDE DEF step
<1>5. f = Unfolded(f)
  <2>1. \A n \in 0..N : n # 0 => n \in 1..N
    BY <1>1
  <2> QED BY <1>3, <1>4, <2>1 DEF Unfolded
<1>6. sorted = Unfolded(sorted)
  BY <1>5
<1> HIDE DEF sorted
<1>7. \A n \in 0..N : sorted[n] = f[n]
  <2> DEFINE P == {n \in 0..N : sorted[n] = f[n]}
  <2>1. 0 \in 0..N
    BY <1>1
  <2>2. 0 \in P
    BY <1>3, <1>6, <2>1 DEF Unfolded
  <2>3. ASSUME NEW n \in Nat, n < N, n \in P PROVE n + 1 \in P
    <3>1. n + 1 \in 0..N /\ n + 1 # 0 /\ n + 1 \in 1..N /\ (n + 1) - 1 = n
      BY <1>1, <2>3
    <3>2. sorted[n + 1] = Insert[<<sorted[n], hits[n + 1]>>]
      BY <1>6, <3>1 DEF Unfolded
    <3>3. f[n + 1] = Insert[<<f[n], hits[n + 1]>>]
      BY <1>4, <3>1
    <3> QED BY <2>3, <3>1, <3>2, <3>3
  <2> HIDE DEF P
  <2>4. \A n \in 0..N : n \in P
    BY <1>1, <2>2, <2>3, Upto
  <2> QED BY <2>4 DEF P
<1>8. ByScore[hits] = sorted[N]
  BY DEF ByScore, sorted, Unfolded, N
<1>9. ByScore[hits] = f[N]
  BY <1>1, <1>7, <1>8
<1> QED BY <1>3, <1>4, <1>9 DEF N, Sorting

\* r has the first n of the hits, each in a place of its own
OrdersFirst(r, hits, n) ==
    /\ Len(r) = n
    /\ \A i \in 1..n : \E k \in 1..n : r[i] = hits[k]
    /\ \A k \in 1..n : \E i \in 1..n : r[i] = hits[k]
    /\ \A i, j \in 1..n : i < j => \E k, l \in 1..n : k # l /\ r[i] = hits[k] /\ r[j] = hits[l]

LEMMA OrderNext ==
  ASSUME NEW hits \in HitLists, NEW n \in Nat, n < Len(hits),
         NEW r \in HitLists, OrdersFirst(r, hits, n)
  PROVE  OrdersFirst(Insert[<<r, hits[n + 1]>>], hits, n + 1)
<1> DEFINE h == hits[n + 1]
           next == Insert[<<r, h>>]
<1>1. Len(hits) \in Nat /\ n + 1 \in 1..Len(hits)
  BY LenProperties DEF HitLists
<1>2. h \in HitsOn(Chunks)
  BY <1>1, ElementOfSeq DEF HitLists
<1> HIDE DEF h
<1>3. PICK a \in 0..Len(r) : IsInserted(next, r, h, a)
  BY <1>2, InsertPuts
<1> HIDE DEF next
<1>4. /\ Len(next) = n + 1 /\ a \in 0..n /\ a + 1 \in 1..(n + 1)
      /\ \A i \in 1..a : next[i] = r[i]
      /\ next[a + 1] = h
      /\ \A i \in (a + 2)..(n + 1) : next[i] = r[i - 1]
  BY <1>3 DEF IsInserted, OrdersFirst
<1> DEFINE Place(i) == IF i <= a THEN i ELSE i + 1
<1>5. ASSUME NEW i \in 1..(n + 1), i # a + 1
      PROVE  \E m \in 1..n : i = Place(m) /\ next[i] = r[m]
  <2>1. CASE i <= a
    <3>1. i \in 1..n /\ i \in 1..a
      BY <1>4, <2>1
    <3> QED BY <1>4, <2>1, <3>1
  <2>2. CASE ~(i <= a)
    <3>1. i - 1 \in 1..n /\ ~(i - 1 <= a) /\ (i - 1) + 1 = i /\ i \in (a + 2)..(n + 1)
      BY <1>4, <1>5, <2>2
    <3> QED BY <1>4, <3>1
  <2> QED BY <2>1, <2>2
<1>6. ASSUME NEW m \in 1..n PROVE Place(m) \in 1..(n + 1) /\ next[Place(m)] = r[m]
  <2>1. CASE m <= a
    BY <1>4, <2>1
  <2>2. CASE ~(m <= a)
    <3>1. m + 1 \in (a + 2)..(n + 1) /\ (m + 1) - 1 = m /\ m + 1 \in 1..(n + 1)
      BY <1>4, <2>2
    <3> QED BY <1>4, <2>2, <3>1
  <2> QED BY <2>1, <2>2
<1>7. \A m, o \in 1..n : Place(m) < Place(o) => m < o
  BY <1>4
<1> HIDE DEF Place
<1>8. \A k \in 1..n : k \in 1..(n + 1) /\ k # n + 1
  OBVIOUS
<1>9. \A k \in 1..(n + 1) : k \in 1..n \/ k = n + 1
  OBVIOUS
<1>10. n + 1 \in 1..(n + 1)
  OBVIOUS
<1>11. ASSUME NEW i \in 1..(n + 1) PROVE \E k \in 1..(n + 1) : next[i] = hits[k]
  <2>1. CASE i = a + 1
    BY <1>4, <1>10, <2>1 DEF h
  <2>2. CASE i # a + 1
    <3>1. PICK m \in 1..n : next[i] = r[m]
      BY <1>5, <2>2
    <3> QED BY <1>8, <3>1 DEF OrdersFirst
  <2> QED BY <2>1, <2>2
<1>12. ASSUME NEW k \in 1..(n + 1) PROVE \E i \in 1..(n + 1) : next[i] = hits[k]
  <2>1. CASE k = n + 1
    BY <1>4, <2>1 DEF h
  <2>2. CASE k \in 1..n
    <3>1. PICK m \in 1..n : r[m] = hits[k]
      BY <2>2 DEF OrdersFirst
    <3> QED BY <1>6, <3>1
  <2> QED BY <1>9, <2>1, <2>2
<1>13. ASSUME NEW i \in 1..(n + 1), NEW j \in 1..(n + 1), i < j
       PROVE  \E k, l \in 1..(n + 1) : k # l /\ next[i] = hits[k] /\ next[j] = hits[l]
  <2>1. CASE i = a + 1
    <3>1. j # a + 1
      BY <1>13, <2>1
    <3>2. PICK m \in 1..n : next[j] = r[m]
      BY <1>5, <3>1
    <3>3. PICK l \in 1..n : r[m] = hits[l]
      BY <3>2 DEF OrdersFirst
    <3> QED BY <1>4, <1>8, <1>10, <2>1, <3>2, <3>3 DEF h
  <2>2. CASE j = a + 1
    <3>1. i # a + 1
      BY <1>13, <2>2
    <3>2. PICK m \in 1..n : next[i] = r[m]
      BY <1>5, <3>1
    <3>3. PICK k \in 1..n : r[m] = hits[k]
      BY <3>2 DEF OrdersFirst
    <3> QED BY <1>4, <1>8, <1>10, <2>2, <3>2, <3>3 DEF h
  <2>3. CASE i # a + 1 /\ j # a + 1
    <3>1. PICK m \in 1..n : i = Place(m) /\ next[i] = r[m]
      BY <1>5, <2>3
    <3>2. PICK o \in 1..n : j = Place(o) /\ next[j] = r[o]
      BY <1>5, <2>3
    <3>3. m < o
      BY <1>7, <1>13, <3>1, <3>2
    <3>4. PICK k \in 1..n, l \in 1..n : k # l /\ r[m] = hits[k] /\ r[o] = hits[l]
      BY <3>3 DEF OrdersFirst
    <3> QED BY <1>8, <3>1, <3>2, <3>4
  <2> QED BY <2>1, <2>2, <2>3
<1>14. OrdersFirst(next, hits, n + 1)
  BY <1>4, <1>11, <1>12, <1>13 DEF OrdersFirst
<1> QED BY <1>14 DEF next, h

\* ByScore only puts the hits in another order.
LEMMA ByScoreOrders ==
  ASSUME NEW hits \in HitLists
  PROVE  ByScore[hits] \in HitLists /\ OrdersFirst(ByScore[hits], hits, Len(hits))
<1> DEFINE N == Len(hits)
<1>1. N \in Nat
  BY LenProperties DEF HitLists
<1> HIDE DEF N
<1>2. PICK f \in [0..N -> HitLists] :
         /\ f[0] = <<>>
         /\ \A n \in 1..N : f[n] = Insert[<<f[n - 1], hits[n]>>]
         /\ ByScore[hits] = f[N]
  <2>1. PICK f : Sorting(f, hits)
    BY ByScoreUnfolds
  <2> QED BY <2>1 DEF N, Sorting
<1> DEFINE P == {n \in 0..N : OrdersFirst(f[n], hits, n)}
<1>3. 0 \in P
  <2>1. OrdersFirst(<<>>, hits, 0)
    BY EmptySeq DEF OrdersFirst
  <2>2. 0 \in 0..N
    BY <1>1
  <2> QED BY <1>2, <2>1, <2>2
<1>4. ASSUME NEW n \in Nat, n < N, n \in P PROVE n + 1 \in P
  <2>1. n + 1 \in 1..N /\ n + 1 \in 0..N /\ n \in 0..N /\ (n + 1) - 1 = n
    BY <1>1, <1>4
  <2>2. f[n + 1] = Insert[<<f[n], hits[n + 1]>>]
    BY <1>2, <2>1
  <2>3. f[n] \in HitLists /\ OrdersFirst(f[n], hits, n) /\ n < Len(hits)
    BY <1>4, <2>1 DEF N
  <2>4. OrdersFirst(Insert[<<f[n], hits[n + 1]>>], hits, n + 1)
    BY <2>3, OrderNext
  <2> QED BY <2>1, <2>2, <2>4
<1> HIDE DEF P
<1>5. N \in P
  <2>1. \A n \in 0..N : n \in P
    BY <1>1, <1>3, <1>4, Upto
  <2> QED BY <1>1, <2>1
<1>6. OrdersFirst(f[N], hits, N) /\ f[N] \in HitLists
  BY <1>1, <1>5 DEF P
<1> QED BY <1>2, <1>6 DEF N

LEMMA ByScoreKeeps ==
  ASSUME NEW hits \in HitLists
  PROVE  /\ ByScore[hits] \in HitLists
         /\ ToSet(ByScore[hits]) = ToSet(hits)
         /\ IsInjective(Docs(hits)) => IsInjective(Docs(ByScore[hits]))
         /\ hits # <<>> => ByScore[hits] # <<>>
<1> DEFINE r == ByScore[hits]
           N == Len(hits)
<1>1. r \in HitLists /\ OrdersFirst(r, hits, N)
  BY ByScoreOrders
<1> HIDE DEF r
<1>2. DOMAIN r = 1..N /\ DOMAIN hits = 1..N /\ Len(r) = N /\ N \in Nat
  BY <1>1, LenProperties DEF HitLists, OrdersFirst
<1>3. hits # <<>> => r # <<>>
  BY <1>1, <1>2, EmptySeq DEF HitLists
<1> HIDE DEF N
<1>4. ToSet(r) = ToSet(hits)
  <2>1. ToSet(r) = {r[i] : i \in 1..N} /\ ToSet(hits) = {hits[k] : k \in 1..N}
    BY <1>2 DEF ToSet
  <2>2. \A i \in 1..N : r[i] \in ToSet(hits)
    BY <1>1, <2>1 DEF OrdersFirst
  <2>3. ASSUME NEW k \in 1..N PROVE hits[k] \in ToSet(r)
    <3>1. PICK i \in 1..N : r[i] = hits[k]
      BY <1>1 DEF OrdersFirst
    <3> QED BY <2>1, <3>1
  <2> QED BY <2>1, <2>2, <2>3
<1>5. ASSUME IsInjective(Docs(hits)) PROVE IsInjective(Docs(r))
  <2>1. ASSUME NEW i \in 1..N, NEW j \in 1..N, i < j PROVE r[i].doc # r[j].doc
    <3>1. PICK k \in 1..N, l \in 1..N : k # l /\ r[i] = hits[k] /\ r[j] = hits[l]
      BY <1>1, <2>1 DEF OrdersFirst
    <3> QED BY <1>2, <1>5, <3>1 DEF IsInjective, Docs
  <2>2. \A i, j \in 1..N : i < j \/ j < i \/ i = j
    BY <1>2
  <2> QED BY <1>2, <2>1, <2>2 DEF IsInjective, Docs
<1> QED BY <1>1, <1>3, <1>4, <1>5 DEF r

-----------------------------------------------------------------------------
(* The lists of a search.                                                   *)

\* The chunks a list of hits is about are those of its hits.
LEMMA DocsOf ==
  ASSUME NEW hits \in HitLists
  PROVE  /\ ToSet(Docs(hits)) = {h.doc : h \in ToSet(hits)}
         /\ ToSet(Docs(hits)) \subseteq Chunks
         /\ \A i \in DOMAIN hits : hits[i].doc \in ToSet(Docs(hits))
         /\ hits # <<>> <=> ToSet(Docs(hits)) # {}
<1>1. DOMAIN hits = 1..Len(hits) /\ Len(hits) \in Nat /\ \A i \in 1..Len(hits) : hits[i] \in HitsOn(Chunks)
  BY LenProperties, ElementOfSeq DEF HitLists
<1>2. \A i \in DOMAIN hits : hits[i].doc \in Chunks
  BY <1>1 DEF HitsOn
<1>3. ToSet(Docs(hits)) = {hits[i].doc : i \in DOMAIN hits}
  BY DEF ToSet, Docs
<1>4. ToSet(Docs(hits)) = {h.doc : h \in ToSet(hits)}
  BY <1>3 DEF ToSet
<1>5. ASSUME hits # <<>> PROVE ToSet(Docs(hits)) # {}
  <2>1. Len(hits) # 0
    BY <1>5, EmptySeq DEF HitLists
  <2>2. 1 \in DOMAIN hits
    BY <1>1, <2>1
  <2> QED BY <1>3, <2>2
<1>6. ASSUME hits = <<>> PROVE ToSet(Docs(hits)) = {}
  BY <1>3, <1>6
<1> QED BY <1>2, <1>3, <1>4, <1>5, <1>6

LEMMA NoHits == <<>> \in HitLists /\ IsInjective(Docs(<<>>)) /\ Len(<<>>) = 0 /\ ToSet(Docs(<<>>)) = {}
BY EmptySeq DEF HitLists, IsInjective, Docs, ToSet

\* Filtering a list of hits by their chunks
LEMMA OnlyHits ==
  ASSUME NEW hits \in HitLists, NEW keep
  PROVE  /\ Only(hits, keep) \in HitLists
         /\ ToSet(Only(hits, keep)) = ToSet(hits) \cap keep
         /\ Len(Only(hits, keep)) <= Len(hits)
         /\ IsInjective(Docs(hits)) => IsInjective(Docs(Only(hits, keep)))
<1>1. hits \in Seq(HitsOn(Chunks))
  BY DEF HitLists
<1>2. /\ Only(hits, keep) \in Seq(HitsOn(Chunks))
      /\ Len(Only(hits, keep)) <= Len(hits)
      /\ ToSet(Only(hits, keep)) = ToSet(hits) \cap keep
  BY <1>1, OnlyKeeps
<1> QED BY <1>2, OnlyOncePerLaw DEF HitLists

LEMMA OnlyHitsOn ==
  ASSUME NEW hits \in HitLists, NEW docs, docs \subseteq Chunks
  PROVE  ToSet(Docs(Only(hits, HitsOn(docs)))) = ToSet(Docs(hits)) \cap docs
<1> DEFINE r == Only(hits, HitsOn(docs))
<1>1. r \in HitLists /\ ToSet(r) = ToSet(hits) \cap HitsOn(docs)
  BY OnlyHits
<1> HIDE DEF r
<1>2. ToSet(hits) \subseteq HitsOn(Chunks)
  BY LenProperties, ElementOfSeq DEF HitLists, ToSet
<1>3. ToSet(Docs(r)) = {h.doc : h \in ToSet(r)} /\ ToSet(Docs(hits)) = {h.doc : h \in ToSet(hits)}
  BY <1>1, DocsOf
<1>4. \A h \in ToSet(hits) : h \in HitsOn(docs) <=> h.doc \in docs
  BY <1>2 DEF HitsOn
<1>5. ToSet(Docs(r)) = ToSet(Docs(hits)) \cap docs
  BY <1>1, <1>3, <1>4
<1> QED BY <1>5 DEF r

\* The n best of some chunks name each once, and some when there is one.
LEMMA BestOf ==
  ASSUME NEW n \in Nat, NEW docs \in SUBSET Chunks, NEW score \in [Chunks -> Int]
  PROVE  /\ Best(n, docs, score) \in HitLists
         /\ IsInjective(Docs(Best(n, docs, score)))
         /\ Len(Best(n, docs, score)) <= n
         /\ ToSet(Docs(Best(n, docs, score))) \subseteq docs
         /\ n # 0 /\ docs # {} => Best(n, docs, score) # <<>>
<1> DEFINE all == Scored(score)
           some == Only(all, HitsOn(docs))
           sorted == ByScore[some]
<1>1. Corpus \in Seq(Chunks) /\ IsInjective(Corpus)
  BY SearchAssumption
<1>2. DOMAIN Corpus = 1..Len(Corpus) /\ Len(Corpus) \in Nat /\ \A k \in DOMAIN Corpus : Corpus[k] \in Chunks
  BY <1>1, LenProperties, ElementOfSeq
<1>3. all \in HitLists /\ DOMAIN all = DOMAIN Corpus /\ \A k \in DOMAIN all : all[k].doc = Corpus[k]
  <2>0. all = [k \in DOMAIN Corpus |-> Hit(Corpus[k], score[Corpus[k]])]
    BY DEF Scored
  <2> HIDE DEF all
  <2>1. \A k \in DOMAIN Corpus : all[k] = Hit(Corpus[k], score[Corpus[k]])
    BY <2>0
  <2>2. \A k \in DOMAIN Corpus : all[k] \in HitsOn(Chunks) /\ all[k].doc = Corpus[k]
    <3> TAKE k \in DOMAIN Corpus
    <3>1. Corpus[k] \in Chunks /\ score[Corpus[k]] \in Int
      BY <1>2
    <3>2. all[k] = [doc |-> Corpus[k], score |-> score[Corpus[k]]]
      BY <2>1 DEF Hit
    <3> QED BY <3>1, <3>2 DEF HitsOn
  <2>3. all \in [1..Len(Corpus) -> HitsOn(Chunks)] /\ DOMAIN all = DOMAIN Corpus
    <3>1. DOMAIN all = DOMAIN Corpus
      BY <2>0
    <3>2. all = [k \in 1..Len(Corpus) |-> all[k]]
      BY <1>2, <2>0, <2>1
    <3> QED BY <1>2, <2>2, <3>1, <3>2
  <2>4. all \in Seq(HitsOn(Chunks))
    BY <1>2, <2>3
  <2> QED BY <2>2, <2>3, <2>4 DEF HitLists
<1> HIDE DEF all
<1>4. IsInjective(Docs(all))
  BY <1>1, <1>3 DEF IsInjective, Docs
<1>5. ToSet(Docs(all)) = Chunks
  BY <1>3 DEF Chunks, ToSet, Docs
<1>6. some \in HitLists /\ IsInjective(Docs(some))
  BY <1>3, <1>4, OnlyHits
<1>7. ToSet(Docs(some)) = docs
  <2>1. docs \subseteq Chunks
    OBVIOUS
  <2>2. ToSet(Docs(some)) = ToSet(Docs(all)) \cap docs
    BY <1>3, <2>1, OnlyHitsOn
  <2> QED BY <1>5, <2>1, <2>2
<1> HIDE DEF some
<1>8. /\ sorted \in HitLists /\ IsInjective(Docs(sorted))
      /\ ToSet(sorted) = ToSet(some)
  BY <1>6, ByScoreKeeps
<1>9. ToSet(Docs(sorted)) = docs /\ (docs # {} => sorted # <<>>)
  BY <1>6, <1>7, <1>8, DocsOf
<1>10. Best(n, docs, score) = First(n, sorted)
  BY DEF Best, sorted, some, all
<1> HIDE DEF sorted
<1> QED BY <1>8, <1>9, <1>10, FirstOfHits

\* A list of hits that names no law twice
IsList(hits) == hits \in HitLists /\ IsInjective(Docs(hits))
DocsIn(hits) == ToSet(Docs(hits))

LEMMA Limits ==
  /\ VECTOR_TOP_K \in Nat \ {0} /\ BM25_TOP_K \in Nat \ {0} /\ FINAL_TOP_K \in Nat \ {0}
  /\ MIN_RESULTS \in Nat \ {0} /\ BATCH_SIZE \in Nat \ {0} /\ RRF_K \in Nat /\ MaxFaults \in Nat
BY SearchAssumption

LEMMA VectorHitsAreLists ==
  ASSUME NEW variant \in Variants, NEW points \in SUBSET Chunks
  PROVE  IsList(VectorHits[<<variant, points>>])
<1>1. VectorHits[<<variant, points>>] = Best(VECTOR_TOP_K, points, VectorScore[variant])
  BY DEF VectorHits
<1>2. VectorScore[variant] \in [Chunks -> Int]
  BY SearchAssumption
<1> QED BY <1>1, <1>2, Limits, BestOf DEF IsList

LEMMA KeywordHitsAreLists ==
  ASSUME NEW variant \in Variants
  PROVE  IsList(KeywordHits[variant])
<1> DEFINE best == Best(BM25_TOP_K, Chunks, KeywordScore[variant])
           scored == [doc : Chunks, score : Nat \ {0}]
<1>1. KeywordHits[variant] = Only(best, scored)
  BY DEF KeywordHits
<1>2. KeywordScore[variant] \in [Chunks -> Int] /\ Chunks \in SUBSET Chunks
  BY SearchAssumption
<1>3. best \in HitLists /\ IsInjective(Docs(best))
  BY <1>2, Limits, BestOf
<1> HIDE DEF best, scored
<1> QED BY <1>1, <1>3, OnlyHits DEF IsList

\* Merging keeps the first list and adds the laws it lacks.
LEMMA MergedIs ==
  ASSUME NEW hits, NEW more, IsList(hits), IsList(more)
  PROVE  /\ IsList(Merged[<<hits, more>>])
         /\ DocsIn(Merged[<<hits, more>>]) = DocsIn(hits) \cup DocsIn(more)
<1> DEFINE lacking == Chunks \ DocsIn(hits)
           added == Only(more, HitsOn(lacking))
           r == hits \o added
<1>1. hits \in HitLists /\ more \in HitLists /\ IsInjective(Docs(hits)) /\ IsInjective(Docs(more))
  BY DEF IsList
<1>2. Merged[<<hits, more>>] = r
  BY <1>1 DEF Merged, DocsIn
<1>3. added \in HitLists /\ IsInjective(Docs(added))
  BY <1>1, OnlyHits
<1>4. DocsIn(added) = DocsIn(more) \cap lacking
  <2>1. lacking \subseteq Chunks
    OBVIOUS
  <2> HIDE DEF lacking
  <2> QED BY <1>1, <2>1, OnlyHitsOn DEF DocsIn
<1>5. DocsIn(more) \subseteq Chunks
  BY <1>1, DocsOf DEF DocsIn
<1> HIDE DEF added
<1> DEFINE m == Len(hits)
           n == Len(added)
<1>6. m \in Nat /\ n \in Nat /\ DOMAIN hits = 1..m /\ DOMAIN added = 1..n
  BY <1>1, <1>3, LenProperties DEF HitLists
<1>7. /\ r \in HitLists /\ Len(r) = m + n
      /\ \A i \in 1..(m + n) : r[i] = IF i <= m THEN hits[i] ELSE added[i - m]
  BY <1>1, <1>3, ConcatProperties DEF HitLists
<1> HIDE DEF r, m, n
<1>8. DOMAIN r = 1..(m + n)
  BY <1>7, LenProperties DEF HitLists
<1>9. \A i \in 1..m : i \in 1..(m + n) /\ r[i] = hits[i]
  BY <1>6, <1>7
<1>10. \A i \in 1..n : m + i \in 1..(m + n) /\ r[m + i] = added[i]
  <2> TAKE i \in 1..n
  <2>1. PICK j \in 1..(m + n) : j = m + i /\ ~(j <= m) /\ j - m = i
    BY <1>6
  <2> QED BY <1>7, <2>1
<1>11. \A i \in 1..(m + n) : i \in 1..m \/ \E k \in 1..n : i = m + k
  <2> TAKE i \in 1..(m + n)
  <2>1. ~(i <= m) => i - m \in 1..n /\ i = m + (i - m)
    BY <1>6
  <2>2. i <= m => i \in 1..m
    BY <1>6
  <2> QED BY <1>6, <2>1, <2>2
<1>12. \A i \in 1..m : hits[i].doc \in DocsIn(hits)
  BY <1>6 DEF DocsIn, ToSet, Docs
<1>13. \A k \in 1..n : added[k].doc \in DocsIn(added) /\ added[k].doc \notin DocsIn(hits)
  <2>1. \A k \in 1..n : added[k].doc \in DocsIn(added)
    BY <1>6 DEF DocsIn, ToSet, Docs
  <2> QED BY <1>4, <2>1
<1>14. IsInjective(Docs(r))
  <2>1. SUFFICES ASSUME NEW i \in 1..(m + n), NEW j \in 1..(m + n), r[i].doc = r[j].doc PROVE i = j
    BY <1>8 DEF IsInjective, Docs
  <2>2. CASE i \in 1..m /\ j \in 1..m
    BY <1>1, <1>6, <1>9, <2>1, <2>2 DEF IsInjective, Docs
  <2>3. CASE i \in 1..m /\ \E k \in 1..n : j = m + k
    BY <1>9, <1>10, <1>12, <1>13, <2>1, <2>3
  <2>4. CASE j \in 1..m /\ \E k \in 1..n : i = m + k
    BY <1>9, <1>10, <1>12, <1>13, <2>1, <2>4
  <2>5. CASE (\E k \in 1..n : i = m + k) /\ \E k \in 1..n : j = m + k
    <3>1. PICK k \in 1..n, l \in 1..n : i = m + k /\ j = m + l
      BY <2>5
    <3>2. added[k].doc = added[l].doc
      BY <1>10, <2>1, <3>1
    <3>3. k = l
      BY <1>3, <1>6, <3>2 DEF IsInjective, Docs
    <3> QED BY <3>1, <3>3
  <2> QED BY <1>11, <2>2, <2>3, <2>4, <2>5
<1>15. DocsIn(r) = DocsIn(hits) \cup DocsIn(added)
  <2>1. DocsIn(r) = {r[i].doc : i \in 1..(m + n)}
    BY <1>8 DEF DocsIn, ToSet, Docs
  <2>2. DocsIn(hits) = {hits[i].doc : i \in 1..m} /\ DocsIn(added) = {added[i].doc : i \in 1..n}
    BY <1>6 DEF DocsIn, ToSet, Docs
  <2>3. ASSUME NEW i \in 1..(m + n) PROVE r[i].doc \in DocsIn(hits) \cup DocsIn(added)
    BY <1>9, <1>10, <1>11, <1>12, <1>13
  <2>4. \A i \in 1..m : hits[i].doc \in DocsIn(r)
    BY <1>9, <2>1
  <2>5. \A i \in 1..n : added[i].doc \in DocsIn(r)
    BY <1>10, <2>1
  <2> QED BY <2>1, <2>2, <2>3, <2>4, <2>5
<1>16. DocsIn(r) = DocsIn(hits) \cup DocsIn(more)
  BY <1>4, <1>5, <1>15
<1> QED BY <1>2, <1>7, <1>14, <1>16 DEF IsList

\* The variants a search asks: at least one, at most three.
LEMMA QueriesAre ==
  ASSUME NEW queries \in AllQueries
  PROVE  queries \in Seq(Variants) /\ Len(queries) \in 1..3
<1>1. PICK e \in Enhancements : queries = SemanticQueries(e[1], e[2])
  BY DEF AllQueries
<1>2. Enhancements \subseteq BOOLEAN \X BOOLEAN
  BY SearchAssumption
<1>3. e[1] \in BOOLEAN /\ e[2] \in BOOLEAN
  BY <1>2
<1> DEFINE first == IF e[2] THEN <<"hyde", "query">> ELSE <<"query">>
           second == IF e[1] THEN <<"rewritten">> ELSE <<>>
<1>4. first \in Seq(Variants) /\ Len(first) \in 1..2
  <2>1. <<"hyde", "query">> \in Seq(Variants) /\ Len(<<"hyde", "query">>) = 2
    BY DEF Variants
  <2>2. <<"query">> \in Seq(Variants) /\ Len(<<"query">>) = 1
    BY DEF Variants
  <2>3. CASE e[2] = TRUE
    BY <2>1, <2>3
  <2>4. CASE e[2] = FALSE
    BY <2>2, <2>4
  <2> QED BY <1>3, <2>3, <2>4
<1>5. second \in Seq(Variants) /\ Len(second) \in 0..1
  <2>1. <<"rewritten">> \in Seq(Variants) /\ Len(<<"rewritten">>) = 1
    BY DEF Variants
  <2>2. <<>> \in Seq(Variants) /\ Len(<<>>) = 0
    BY EmptySeq
  <2>3. CASE e[1] = TRUE
    BY <2>1, <2>3
  <2>4. CASE e[1] = FALSE
    BY <2>2, <2>4
  <2> QED BY <1>3, <2>3, <2>4
<1>6. queries = first \o second
  BY <1>1 DEF SemanticQueries
<1> HIDE DEF first, second
<1>7. first \o second \in Seq(Variants) /\ Len(first \o second) = Len(first) + Len(second)
  BY <1>4, <1>5, ConcatProperties
<1>8. \A m \in 1..2, n \in 0..1 : m + n \in 1..3
  OBVIOUS
<1>9. Len(queries) \in 1..3
  BY <1>4, <1>5, <1>6, <1>7, <1>8
<1> QED BY <1>6, <1>7, <1>9

LEMMA KeywordRecallIsList ==
  ASSUME NEW queries \in AllQueries, NEW n \in 0..3
  PROVE  IsList(KeywordRecall[<<queries, n>>])
<1> DEFINE order == KeywordQueries(queries)
           asked == First(n, order)
           Answered(k) == IF k \in DOMAIN asked THEN KeywordHits[asked[k]] ELSE <<>>
           two == Merged[<<Answered(1), Answered(2)>>]
           three == Merged[<<two, Answered(3)>>]
<1>1. KeywordRecall[<<queries, n>>] = First(BM25_TOP_K, three)
  BY DEF KeywordRecall
<1>2. order \in Seq(Variants)
  <2>1. <<"query", "rewritten", "hyde">> \in Seq(Variants)
    BY DEF Variants
  <2> QED BY <2>1, OnlyKeeps DEF KeywordQueries
<1> HIDE DEF order
<1>3. asked \in Seq(Variants)
  <2>1. n \in Nat
    OBVIOUS
  <2> QED BY <1>2, <2>1, FirstOf
<1> HIDE DEF asked
<1>4. \A k \in Nat : IsList(Answered(k))
  <2> TAKE k \in Nat
  <2>1. CASE k \in DOMAIN asked
    <3>1. asked[k] \in Variants
      BY <1>3, <2>1, LenProperties, ElementOfSeq
    <3> QED BY <2>1, <3>1, KeywordHitsAreLists
  <2>2. CASE k \notin DOMAIN asked
    BY <2>2, NoHits DEF IsList
  <2> QED BY <2>1, <2>2
<1>5. IsList(Answered(1)) /\ IsList(Answered(2)) /\ IsList(Answered(3))
  BY <1>4
<1> HIDE DEF Answered
<1>6. IsList(two)
  BY <1>5, MergedIs
<1> HIDE DEF two
<1>7. IsList(three)
  BY <1>5, <1>6, MergedIs
<1> HIDE DEF three
<1> QED BY <1>1, <1>7, Limits, FirstOfHits DEF IsList

LEMMA CurrentOfIs ==
  ASSUME NEW hits, IsList(hits)
  PROVE  /\ IsList(CurrentOf[hits])
         /\ DocsIn(CurrentOf[hits]) \subseteq Current
<1>1. hits \in HitLists /\ IsInjective(Docs(hits))
  BY DEF IsList
<1>2. CurrentOf[hits] = Only(hits, HitsOn(Current))
  BY <1>1 DEF CurrentOf
<1>3. Current \subseteq Chunks
  BY DEF Current
<1>4. DocsIn(Only(hits, HitsOn(Current))) = DocsIn(hits) \cap Current
  BY <1>1, <1>3, OnlyHitsOn DEF DocsIn
<1> QED BY <1>1, <1>2, <1>4, OnlyHits DEF IsList

LEMMA ReciprocalIsInt ==
  ASSUME NEW hits \in HitLists, NEW doc
  PROVE  Reciprocal(hits, doc) \in Int
<1>1. CASE doc \in ToSet(Docs(hits))
  <2> DEFINE place == CHOOSE i \in DOMAIN hits : hits[i].doc = doc
  <2>1. \E i \in DOMAIN hits : hits[i].doc = doc
    BY <1>1 DEF ToSet, Docs
  <2>2. place \in DOMAIN hits
    BY <2>1
  <2>3. DOMAIN hits = 1..Len(hits) /\ Len(hits) \in Nat
    BY LenProperties DEF HitLists
  <2>4. Reciprocal(hits, doc) = Unit \div (RRF_K + place)
    BY <1>1 DEF Reciprocal
  <2> HIDE DEF place
  <2>5. RRF_K + place \in Nat \ {0}
    BY <2>2, <2>3, Limits
  <2> QED BY <2>4, <2>5 DEF Unit
<1>2. CASE doc \notin ToSet(Docs(hits))
  BY <1>2 DEF Reciprocal
<1> QED BY <1>1, <1>2

\* The fused list has the laws of both, each once.
LEMMA FusedIs ==
  ASSUME NEW vector, NEW bm25, IsList(vector), IsList(bm25)
  PROVE  /\ IsList(Fused[<<vector, bm25>>])
         /\ DocsIn(Fused[<<vector, bm25>>]) = DocsIn(vector) \cup DocsIn(bm25)
<1> DEFINE merged == Merged[<<vector, bm25>>]
           scored == Rescored(merged, vector, bm25)
           r == ByScore[scored]
<1>1. vector \in HitLists /\ bm25 \in HitLists
  BY DEF IsList
<1>2. Fused[<<vector, bm25>>] = r
  BY <1>1 DEF Fused
<1>3. IsList(merged) /\ DocsIn(merged) = DocsIn(vector) \cup DocsIn(bm25)
  BY MergedIs
<1> HIDE DEF merged
<1>4. merged \in HitLists /\ IsInjective(Docs(merged))
  BY <1>3 DEF IsList
<1>5. DOMAIN merged = 1..Len(merged) /\ Len(merged) \in Nat /\ \A k \in DOMAIN merged : merged[k] \in HitsOn(Chunks)
  BY <1>4, LenProperties, ElementOfSeq DEF HitLists
<1>6. scored = [k \in DOMAIN merged |->
                   Hit(merged[k].doc, Reciprocal(vector, merged[k].doc) + Reciprocal(bm25, merged[k].doc))]
  BY DEF Rescored
<1> HIDE DEF scored
<1>7. \A k \in DOMAIN merged : scored[k] \in HitsOn(Chunks) /\ scored[k].doc = merged[k].doc
  <2> TAKE k \in DOMAIN merged
  <2> DEFINE s == Reciprocal(vector, merged[k].doc) + Reciprocal(bm25, merged[k].doc)
  <2>1. s \in Int
    BY <1>1, ReciprocalIsInt
  <2>2. scored[k] = Hit(merged[k].doc, s)
    BY <1>6
  <2> HIDE DEF s
  <2>3. merged[k].doc \in Chunks
    BY <1>5 DEF HitsOn
  <2> QED BY <2>1, <2>2, <2>3 DEF Hit, HitsOn
<1>8. scored \in HitLists /\ DOMAIN scored = DOMAIN merged
  <2>1. DOMAIN scored = DOMAIN merged
    BY <1>6
  <2>2. scored = [k \in 1..Len(merged) |-> scored[k]]
    BY <1>5, <1>6
  <2>3. scored \in [1..Len(merged) -> HitsOn(Chunks)]
    BY <1>5, <1>7, <2>2
  <2>4. scored \in Seq(HitsOn(Chunks))
    BY <1>5, <2>3
  <2> QED BY <2>1, <2>4 DEF HitLists
<1>9. Docs(scored) = Docs(merged)
  BY <1>7, <1>8 DEF Docs
<1>10. /\ r \in HitLists
       /\ ToSet(r) = ToSet(scored)
       /\ IsInjective(Docs(scored)) => IsInjective(Docs(r))
  BY <1>8, ByScoreKeeps
<1>11. DocsIn(r) = DocsIn(merged)
  BY <1>8, <1>9, <1>10, DocsOf DEF DocsIn
<1> HIDE DEF r
<1> QED BY <1>2, <1>3, <1>4, <1>9, <1>10, <1>11 DEF IsList

\* The candidates have laws of the sources only, and some when a source has.
LEMMA CandidatesAre ==
  ASSUME NEW vector, NEW bm25, IsList(vector), IsList(bm25)
  PROVE  /\ IsList(Candidates(vector, bm25))
         /\ DocsIn(Candidates(vector, bm25)) \subseteq DocsIn(vector) \cup DocsIn(bm25)
         /\ vector # <<>> \/ bm25 # <<>> => Candidates(vector, bm25) # <<>>
<1>1. CASE vector # <<>> /\ bm25 # <<>>
  <2>1. Candidates(vector, bm25) = Fused[<<vector, bm25>>]
    BY <1>1 DEF Candidates
  <2>2. IsList(Fused[<<vector, bm25>>]) /\ DocsIn(Fused[<<vector, bm25>>]) = DocsIn(vector) \cup DocsIn(bm25)
    BY FusedIs
  <2>3. DocsIn(vector) # {}
    BY <1>1, DocsOf DEF IsList, DocsIn
  <2>4. Fused[<<vector, bm25>>] # <<>>
    BY <2>2, <2>3, DocsOf DEF IsList, DocsIn
  <2> QED BY <2>1, <2>2, <2>4
<1>2. CASE vector # <<>> /\ bm25 = <<>>
  <2>1. Candidates(vector, bm25) = vector
    BY <1>2 DEF Candidates
  <2> QED BY <1>2, <2>1
<1>3. CASE vector = <<>>
  <2>1. Candidates(vector, bm25) = bm25
    BY <1>3 DEF Candidates
  <2> QED BY <1>3, <2>1
<1> QED BY <1>1, <1>2, <1>3

LEMMA OutcomeIs ==
  ASSUME NEW candidates, IsList(candidates), NEW reranker \in BOOLEAN
  PROVE  /\ Outcome(candidates, reranker) \in HitLists /\ IsAnswer(Outcome(candidates, reranker))
         /\ DocsIn(Outcome(candidates, reranker)) \subseteq DocsIn(candidates)
         /\ candidates # <<>> => Outcome(candidates, reranker) # <<>>
<1>1. candidates \in HitLists /\ IsInjective(Docs(candidates))
  BY DEF IsList
<1>2. CASE reranker = FALSE
  <2>1. Outcome(candidates, reranker) = First(FINAL_TOP_K, candidates)
    BY <1>2 DEF Outcome
  <2> QED BY <1>1, <2>1, Limits, FirstOfHits DEF IsAnswer, DocsIn
<1>3. CASE reranker = TRUE
  <2> DEFINE n == VECTOR_TOP_K + BM25_TOP_K
             head == First(n, candidates)
             docs == ToSet(Docs(head))
  <2>1. n \in Nat /\ n # 0
    BY Limits
  <2> HIDE DEF n
  <2>2. /\ head \in HitLists
        /\ docs \subseteq DocsIn(candidates)
        /\ candidates # <<>> => head # <<>>
    BY <1>1, <2>1, FirstOfHits DEF DocsIn
  <2>3. docs \in SUBSET Chunks /\ (candidates # <<>> => docs # {})
    BY <2>2, DocsOf
  <2>4. Outcome(candidates, reranker) = ByReranker[docs]
    BY <1>3 DEF Outcome, Reranked, n
  <2> HIDE DEF docs
  <2>5. ByReranker[docs] = Best(FINAL_TOP_K, docs, RerankScore)
    BY <2>3 DEF ByReranker
  <2>6. RerankScore \in [Chunks -> Int] /\ FINAL_TOP_K \in Nat /\ FINAL_TOP_K # 0
    BY SearchAssumption
  <2>7. /\ Best(FINAL_TOP_K, docs, RerankScore) \in HitLists
        /\ IsInjective(Docs(Best(FINAL_TOP_K, docs, RerankScore)))
        /\ Len(Best(FINAL_TOP_K, docs, RerankScore)) <= FINAL_TOP_K
        /\ ToSet(Docs(Best(FINAL_TOP_K, docs, RerankScore))) \subseteq docs
        /\ docs # {} => Best(FINAL_TOP_K, docs, RerankScore) # <<>>
    BY <2>3, <2>6, BestOf
  <2> QED BY <2>2, <2>3, <2>4, <2>5, <2>6, <2>7 DEF IsAnswer, DocsIn
<1> QED BY <1>2, <1>3

\* What a service hands on of some results
LEMMA KeptIs ==
  ASSUME NEW results \in HitLists, NEW reranked \in BOOLEAN, results # <<>>
  PROVE  Kept(results, reranked) # <<>> /\ DocsIn(Kept(results, reranked)) \subseteq DocsIn(results)
<1> DEFINE good == {h \in ToSet(results) : h.score >= SCORE_THRESHOLD}
           kept == Only(results, good)
<1>1. CASE reranked = FALSE
  BY <1>1 DEF Kept
<1>2. CASE reranked = TRUE /\ Len(kept) >= MIN_RESULTS
  <2>1. Kept(results, reranked) = kept
    BY <1>2 DEF Kept
  <2>2. kept \in HitLists /\ ToSet(kept) \subseteq ToSet(results)
    <3> HIDE DEF good
    <3> QED BY OnlyHits
  <2> HIDE DEF kept
  <2>3. kept # <<>>
    BY <1>2, <2>2, Limits, EmptySeq
  <2>4. DocsIn(kept) \subseteq DocsIn(results)
    BY <2>2, DocsOf DEF DocsIn
  <2> QED BY <2>1, <2>3, <2>4
<1>3. CASE reranked = TRUE /\ ~(Len(kept) >= MIN_RESULTS)
  <2>1. Kept(results, reranked) = First(MIN_RESULTS, results)
    BY <1>3 DEF Kept
  <2> QED BY <2>1, Limits, FirstOfHits DEF DocsIn
<1> QED BY <1>1, <1>2, <1>3

-----------------------------------------------------------------------------
(* The builders.                                                            *)

LEMMA CorpusIs ==
  /\ Corpus \in Seq(Chunks) /\ IsInjective(Corpus) /\ ToSet(Corpus) = Chunks
  /\ DOMAIN Corpus = 1..Len(Corpus) /\ Len(Corpus) \in Nat
<1>1. Corpus \in Seq(Chunks) /\ IsInjective(Corpus)
  BY SearchAssumption
<1> QED BY <1>1, LenProperties DEF Chunks

\* Every text of the corpus is the text of a chunk of OncePerText.
LEMMA OncePerTextIs ==
  /\ OncePerText \in Seq(Chunks) /\ IsInjective(OncePerText)
  /\ Texts(ToSet(OncePerText)) = Texts(Chunks)
<1> DEFINE Again(i) == \E j \in 1..(i - 1) : ContentOf[Corpus[j]] = ContentOf[Corpus[i]]
           firsts == {Corpus[i] : i \in {i \in DOMAIN Corpus : ~Again(i)}}
<1>1. OncePerText = Only(Corpus, firsts)
  BY DEF OncePerText
<1>2. /\ Only(Corpus, firsts) \in Seq(Chunks)
      /\ ToSet(Only(Corpus, firsts)) = ToSet(Corpus) \cap firsts
      /\ IsInjective(Only(Corpus, firsts))
  <2> HIDE DEF firsts
  <2> QED BY CorpusIs, OnlyKeeps, OnlyRepeatsNothing
<1>3. ASSUME NEW c \in Chunks
      PROVE  \E d \in ToSet(OncePerText) : ContentOf[d] = ContentOf[c]
  <2> DEFINE T == {i \in DOMAIN Corpus : ContentOf[Corpus[i]] = ContentOf[c]}
  <2>1. PICK k \in DOMAIN Corpus : Corpus[k] = c
    BY DEF Chunks, ToSet
  <2>2. T \subseteq Nat /\ T # {}
    BY <2>1, CorpusIs
  <2>3. \A i \in T : i \in DOMAIN Corpus /\ ContentOf[Corpus[i]] = ContentOf[c]
    OBVIOUS
  <2>4. \A i \in DOMAIN Corpus : ContentOf[Corpus[i]] = ContentOf[c] => i \in T
    OBVIOUS
  <2> HIDE DEF T
  <2>5. PICK x \in T : \A y \in T : x <= y
    BY <2>2, LeastNat
  <2>6. ~Again(x)
    <3>1. SUFFICES ASSUME NEW j \in 1..(x - 1), ContentOf[Corpus[j]] = ContentOf[Corpus[x]]
                   PROVE  FALSE
      OBVIOUS
    <3>2. x \in 1..Len(Corpus) /\ Len(Corpus) \in Nat
      BY <2>3, CorpusIs
    <3>3. j \in 1..Len(Corpus) /\ ~(x <= j)
      BY <3>2
    <3>4. j \in T
      BY <2>3, <2>4, <3>1, <3>3, CorpusIs
    <3> QED BY <2>5, <3>3, <3>4
  <2>7. Corpus[x] \in firsts /\ Corpus[x] \in ToSet(Corpus)
    BY <2>3, <2>6 DEF ToSet
  <2> QED BY <1>1, <1>2, <2>3, <2>7
<1>4. ToSet(OncePerText) \subseteq Chunks
  BY <1>1, <1>2, CorpusIs
<1> HIDE DEF firsts
<1>5. Texts(ToSet(OncePerText)) = Texts(Chunks)
  BY <1>3, <1>4 DEF Texts
<1> QED BY <1>1, <1>2, <1>5

\* What a scan leaves to write completes what it saw.
LEMMA MissingIs ==
  ASSUME NEW points, points \subseteq Chunks
  PROVE  /\ Missing(Texts(points)) \in Seq(Chunks)
         /\ IsInjective(Missing(Texts(points)))
         /\ Texts(points) \cup Texts(ToSet(Missing(Texts(points)))) = Texts(Chunks)
<1> DEFINE wanted == {c \in Chunks : ContentOf[c] \notin Texts(points)}
           m == Missing(Texts(points))
<1>1. m = Only(OncePerText, wanted)
  BY DEF Missing
<1>2. /\ m \in Seq(Chunks) /\ IsInjective(m)
      /\ ToSet(m) = ToSet(OncePerText) \cap wanted
  <2> HIDE DEF wanted, m
  <2> QED BY <1>1, OncePerTextIs, OnlyKeeps, OnlyRepeatsNothing
<1> HIDE DEF m
<1>3. ToSet(OncePerText) \subseteq Chunks
  BY OncePerTextIs, LenProperties, ElementOfSeq DEF ToSet
<1>4. ASSUME NEW x \in Texts(Chunks), x \notin Texts(points) PROVE x \in Texts(ToSet(m))
  <2>1. PICK d \in ToSet(OncePerText) : ContentOf[d] = x
    BY OncePerTextIs DEF Texts
  <2>2. d \in ToSet(m)
    BY <1>2, <1>3, <1>4, <2>1
  <2> QED BY <2>1, <2>2 DEF Texts
<1>5. Texts(points) \subseteq Texts(Chunks) /\ Texts(ToSet(m)) \subseteq Texts(Chunks)
  BY <1>2 DEF Texts
<1>6. Texts(points) \cup Texts(ToSet(m)) = Texts(Chunks)
  BY <1>4, <1>5
<1> QED BY <1>2, <1>6 DEF m

\* A batch and the rest are what there was to write.
LEMMA BatchIs ==
  ASSUME NEW todo \in Seq(Chunks)
  PROVE  LET batch == First(BATCH_SIZE, todo)
             rest == SubSeq(todo, Len(batch) + 1, Len(todo))
         IN  /\ batch \in Seq(Chunks) /\ ToSet(batch) \subseteq Chunks
             /\ rest \in Seq(Chunks)
             /\ IsInjective(todo) => IsInjective(rest)
             /\ ToSet(todo) = ToSet(batch) \cup ToSet(rest)
             /\ todo = <<>> => rest = <<>>
<1> DEFINE batch == First(BATCH_SIZE, todo)
           n == Len(batch)
           N == Len(todo)
           rest == SubSeq(todo, n + 1, N)
<1>1. /\ batch \in Seq(Chunks)
      /\ Len(batch) = IF Len(todo) < BATCH_SIZE THEN Len(todo) ELSE BATCH_SIZE
      /\ \A i \in 1..Len(batch) : i \in 1..Len(todo) /\ batch[i] = todo[i]
  BY Limits, FirstOf
<1> HIDE DEF batch
<1>2. N \in Nat /\ DOMAIN todo = 1..N /\ n \in Nat /\ DOMAIN batch = 1..n
  BY <1>1, LenProperties
<1>3. \A i \in 1..N : todo[i] \in Chunks
  BY ElementOfSeq
<1>4. n <= N
  BY <1>1, <1>2, Limits
<1> HIDE DEF n, N
<1>5. /\ rest \in Seq(Chunks)
      /\ Len(rest) = IF n + 1 <= N THEN N - (n + 1) + 1 ELSE 0
      /\ \A i \in 1..(N - (n + 1) + 1) : rest[i] = todo[(n + 1) + i - 1]
  <2>1. n + 1 \in Int /\ N \in Int
    BY <1>2
  <2>2. \A i \in (n + 1)..N : todo[i] \in Chunks
    BY <1>2, <1>3
  <2> QED BY <2>1, <2>2, SubSeqProperties
<1> HIDE DEF rest
<1>6. N - (n + 1) + 1 = N - n /\ (~(n + 1 <= N) => N - n = 0)
  BY <1>2, <1>4
<1>7. Len(rest) = N - n
  BY <1>5, <1>6
<1>8. DOMAIN rest = 1..(N - n)
  BY <1>5, <1>7, LenProperties
<1>9. ASSUME NEW i \in 1..(N - n) PROVE rest[i] = todo[n + i] /\ n + i \in 1..N
  <2>1. (n + 1) + i - 1 = n + i /\ n + i \in 1..N
    BY <1>2, <1>4
  <2> QED BY <1>5, <1>6, <2>1
<1>10. ASSUME NEW k \in 1..N PROVE k \in 1..n \/ \E i \in 1..(N - n) : k = n + i
  <2>1. CASE k <= n
    BY <1>2, <2>1
  <2>2. CASE ~(k <= n)
    <3>1. k - n \in 1..(N - n) /\ k = n + (k - n)
      BY <1>2, <1>4, <2>2
    <3> QED BY <3>1
  <2> QED BY <2>1, <2>2
<1>11. IsInjective(todo) => IsInjective(rest)
  <2>1. SUFFICES ASSUME IsInjective(todo), NEW i \in 1..(N - n), NEW j \in 1..(N - n), rest[i] = rest[j]
                 PROVE  i = j
    BY <1>8 DEF IsInjective
  <2>2. n + i = n + j
    BY <1>2, <1>9, <2>1 DEF IsInjective
  <2> QED BY <1>2, <2>2
<1>12. ToSet(todo) = ToSet(batch) \cup ToSet(rest)
  <2>1. /\ ToSet(todo) = {todo[i] : i \in 1..N} /\ ToSet(batch) = {batch[i] : i \in 1..n}
        /\ ToSet(rest) = {rest[i] : i \in 1..(N - n)}
    BY <1>2, <1>8 DEF ToSet
  <2>2. \A i \in 1..n : i \in 1..N /\ batch[i] = todo[i]
    BY <1>1 DEF n, N
  <2>3. ASSUME NEW k \in 1..N PROVE todo[k] \in ToSet(batch) \cup ToSet(rest)
    <3>1. CASE k \in 1..n
      BY <2>1, <2>2, <3>1
    <3>2. CASE \E i \in 1..(N - n) : k = n + i
      BY <1>9, <2>1, <3>2
    <3> QED BY <1>10, <3>1, <3>2
  <2>4. \A i \in 1..n : batch[i] \in ToSet(todo)
    BY <2>1, <2>2
  <2>5. \A i \in 1..(N - n) : rest[i] \in ToSet(todo)
    BY <1>9, <2>1
  <2> QED BY <2>1, <2>3, <2>4, <2>5
<1>13. ToSet(batch) \subseteq Chunks
  BY <1>1, <1>2, ElementOfSeq DEF ToSet, n
<1>14. ASSUME todo = <<>> PROVE rest = <<>>
  <2>1. N = 0
    BY <1>14 DEF N
  <2>2. Len(rest) = 0
    BY <1>2, <1>4, <1>7, <2>1
  <2> QED BY <1>5, <2>2, EmptySeq
<1> QED BY <1>1, <1>5, <1>11, <1>12, <1>13, <1>14 DEF rest, batch, n, N

LEMMA WholeIs == Whole <=> Texts(collection.points) = Texts(Chunks)
BY DEF Whole, Texts

\* A step that moves one builder, with its list
LEMMA MoveIs ==
  ASSUME IndexType, NEW b \in Builders, NEW phase, MoveTo(b, phase)
  PROVE  builder' = [builder EXCEPT ![b] = [at |-> phase, todo |-> builder[b].todo]]
<1>1. builder[b] \in BuildType
  BY DEF IndexType
<1>2. [builder[b] EXCEPT !.at = phase] = [at |-> phase, todo |-> builder[b].todo]
  BY <1>1 DEF BuildType
<1> QED BY <1>2 DEF MoveTo

LEMMA BuilderIs ==
  ASSUME IndexType, NEW b \in Builders, NEW entry \in BuildType,
         builder' = [builder EXCEPT ![b] = entry]
  PROVE  /\ builder' \in [Builders -> BuildType]
         /\ builder'[b] = entry
         /\ \A x \in Builders : x # b => builder'[x] = builder[x]
BY DEF IndexType

\* A builder that is not writing has nothing to write, and moves on without
\* completing the index or leaving it to nobody.
LEMMA IdleBuilderMoves ==
  ASSUME IndexPart, NEW b \in Builders,
         NEW phase \in {"off", "count", "wipe", "create", "loaded", "done"},
         builder[b].at \notin {"create", "scan", "write"},
         builder' = [builder EXCEPT ![b] = [at |-> phase, todo |-> <<>>]],
         collection' = [exists |-> collection'.exists, points |-> collection.points],
         collection'.exists \in BOOLEAN, collection.exists => collection'.exists,
         torn' = torn
  PROVE  IndexPart'
<1> DEFINE entry == [at |-> phase, todo |-> <<>>]
<1>1. entry \in BuildType
  BY EmptySeq DEF BuildType
<1>2. /\ builder' \in [Builders -> BuildType] /\ builder'[b] = entry
      /\ \A x \in Builders : x # b => builder'[x] = builder[x]
  BY <1>1, BuilderIs DEF IndexPart
<1>3. builder'[b].at = phase /\ builder'[b].todo = <<>>
  BY <1>2
<1> HIDE DEF entry
<1>4. collection'.points = collection.points
  OBVIOUS
<1>5. IndexType'
  <2>1. collection.points \in SUBSET Chunks /\ torn \in BOOLEAN
    BY DEF IndexPart, IndexType
  <2> QED BY <1>2, <2>1 DEF IndexType
<1>6. TodoInv'
  <2>1. ~collection'.exists => collection'.points = {}
    BY <1>4 DEF IndexPart, TodoInv
  <2>2. ASSUME NEW x \in Builders, builder'[x].todo # <<>>
        PROVE  builder'[x].at = "write" /\ IsInjective(builder'[x].todo)
    <3>1. x # b
      BY <1>3, <2>2
    <3> QED BY <1>2, <2>2, <3>1 DEF IndexPart, TodoInv, At
  <2> QED BY <2>1, <2>2 DEF TodoInv, At
<1>7. IndexInv'
  <2>1. CASE torn
    BY <2>1 DEF IndexInv
  <2>2. CASE Whole
    BY <1>4, <2>2 DEF IndexInv, Whole
  <2>3. CASE \E x \in Builders : Completes(x)
    <3>1. PICK x \in Builders : Completes(x)
      BY <2>3
    <3>2. x # b
      BY <3>1 DEF Completes, At
    <3>3. Completes(x)'
      BY <1>2, <1>4, <3>1, <3>2 DEF Completes, At
    <3> QED BY <3>3 DEF IndexInv
  <2>4. CASE collection.points = {} /\ \A x \in Builders : builder[x].todo = <<>>
    <3>1. \A x \in Builders : builder'[x].todo = <<>>
      BY <1>2, <1>3, <2>4
    <3> QED BY <1>4, <2>4, <3>1 DEF IndexInv
  <2> QED BY <2>1, <2>2, <2>3, <2>4 DEF IndexPart, IndexInv
<1> QED BY <1>5, <1>6, <1>7 DEF IndexPart

LEMMA IdleHasNothingToDo ==
  ASSUME IndexPart, NEW b \in Builders, ~At(b, "write")
  PROVE  builder[b].todo = <<>>
BY DEF IndexPart, TodoInv

LEMMA IndexStays ==
  ASSUME IndexPart, UNCHANGED <<collection, builder, torn>>
  PROVE  IndexPart'
BY DEF IndexPart, IndexType, TodoInv, IndexInv, Whole, Completes, At

LEMMA CollectionIs ==
  ASSUME IndexType
  PROVE  /\ collection.exists \in BOOLEAN /\ collection.points \subseteq Chunks
         /\ collection = [exists |-> collection.exists, points |-> collection.points]
         /\ [collection EXCEPT !.exists = TRUE] = [exists |-> TRUE, points |-> collection.points]
<1>1. collection \in [exists : BOOLEAN, points : SUBSET Chunks]
  BY DEF IndexType
<1>2. collection.exists \in BOOLEAN /\ collection.points \subseteq Chunks
  BY <1>1
<1>3. collection = [exists |-> collection.exists, points |-> collection.points]
  BY <1>1
<1>4. [collection EXCEPT !.exists = TRUE] = [exists |-> TRUE, points |-> collection.points]
  <2> DEFINE yes == TRUE
  <2> HIDE DEF yes
  <2>1. [collection EXCEPT !.exists = yes] = [exists |-> yes, points |-> collection.points]
    BY <1>1
  <2> QED BY <2>1 DEF yes
<1> QED BY <1>2, <1>3, <1>4

LEMMA StartServerKeeps ==
  ASSUME IndexPart, StartServer PROVE IndexPart'
<1>1. Server \in Builders /\ IndexType
  BY DEF Builders, IndexPart
<1>2. At(Server, "off") /\ MoveTo(Server, "count") /\ torn' = torn
      /\ collection' = [exists |-> TRUE, points |-> collection.points]
  BY <1>1, CollectionIs DEF StartServer
<1>3. builder[Server].todo = <<>> /\ builder[Server].at = "off"
  BY <1>1, <1>2, IdleHasNothingToDo DEF At
<1>4. builder' = [builder EXCEPT ![Server] = [at |-> "count", todo |-> <<>>]]
  BY <1>1, <1>2, <1>3, MoveIs
<1>5. collection' = [exists |-> collection'.exists, points |-> collection.points] /\ collection'.exists = TRUE
  BY <1>2
<1> QED BY <1>1, <1>2, <1>3, <1>4, <1>5, IdleBuilderMoves

LEMMA StartRebuildKeeps ==
  ASSUME IndexPart, NEW b \in Builders, StartRebuild(b) PROVE IndexPart'
<1>1. IndexType
  BY DEF IndexPart
<1>2. At(b, "off") /\ MoveTo(b, "wipe") /\ torn' = torn /\ collection' = collection
  BY DEF StartRebuild
<1>3. builder[b].todo = <<>> /\ builder[b].at = "off"
  BY <1>2, IdleHasNothingToDo DEF At
<1>4. builder' = [builder EXCEPT ![b] = [at |-> "wipe", todo |-> <<>>]]
  BY <1>1, <1>2, <1>3, MoveIs
<1>5. collection' = [exists |-> collection'.exists, points |-> collection.points] /\ collection'.exists \in BOOLEAN
  BY <1>1, <1>2, CollectionIs
<1> QED BY <1>2, <1>3, <1>4, <1>5, IdleBuilderMoves

LEMMA CountPointsKeeps ==
  ASSUME IndexPart, CountPoints PROVE IndexPart'
<1> DEFINE phase == IF collection.points # {} THEN "loaded" ELSE "create"
<1>1. Server \in Builders /\ IndexType
  BY DEF Builders, IndexPart
<1>2. At(Server, "count") /\ MoveTo(Server, phase) /\ torn' = torn /\ collection' = collection
  BY DEF CountPoints
<1>3. phase \in {"loaded", "create"}
  OBVIOUS
<1> HIDE DEF phase
<1>4. builder[Server].todo = <<>> /\ builder[Server].at = "count"
  BY <1>1, <1>2, IdleHasNothingToDo DEF At
<1>5. builder' = [builder EXCEPT ![Server] = [at |-> phase, todo |-> <<>>]]
  BY <1>1, <1>2, <1>4, MoveIs
<1>6. collection' = [exists |-> collection'.exists, points |-> collection.points] /\ collection'.exists \in BOOLEAN
  BY <1>1, <1>2, CollectionIs
<1> QED BY <1>1, <1>2, <1>3, <1>4, <1>5, <1>6, IdleBuilderMoves

LEMMA InitRetrieverKeeps ==
  ASSUME IndexPart, InitRetriever PROVE IndexPart'
<1>1. Server \in Builders /\ IndexType
  BY DEF Builders, IndexPart
<1>2. /\ At(Server, "loaded") /\ torn' = torn /\ collection' = collection
      /\ builder' = [builder EXCEPT ![Server] = [at |-> "off", todo |-> <<>>]]
  BY DEF InitRetriever, NoBuild
<1>3. builder[Server].at = "loaded"
  BY <1>2 DEF At
<1>4. collection' = [exists |-> collection'.exists, points |-> collection.points] /\ collection'.exists \in BOOLEAN
  BY <1>1, <1>2, CollectionIs
<1> QED BY <1>1, <1>2, <1>3, <1>4, IdleBuilderMoves

\* A builder that has just made the collection, or scanned it, completes it.
LEMMA BuilderCompletes ==
  ASSUME IndexPart, NEW b \in Builders, NEW entry \in BuildType,
         builder' = [builder EXCEPT ![b] = entry],
         collection' \in [exists : BOOLEAN, points : SUBSET Chunks], torn' \in BOOLEAN,
         ~collection'.exists => collection'.points = {},
         entry.todo # <<>> => entry.at = "write" /\ IsInjective(entry.todo),
         \/ entry.at \in {"create", "scan"}
         \/ entry.at = "write" /\ Texts(collection'.points) \cup Texts(ToSet(entry.todo)) = Texts(Chunks)
  PROVE  IndexPart'
<1>1. /\ builder' \in [Builders -> BuildType] /\ builder'[b] = entry
      /\ \A x \in Builders : x # b => builder'[x] = builder[x]
  BY BuilderIs DEF IndexPart
<1>2. IndexType'
  BY <1>1 DEF IndexType
<1>3. TodoInv'
  <2>1. ASSUME NEW x \in Builders, builder'[x].todo # <<>>
        PROVE  builder'[x].at = "write" /\ IsInjective(builder'[x].todo)
    BY <1>1, <2>1 DEF IndexPart, TodoInv, At
  <2> QED BY <2>1 DEF TodoInv, At
<1>4. Completes(b)'
  BY <1>1 DEF Completes, At
<1>5. IndexInv'
  BY <1>4 DEF IndexInv
<1> QED BY <1>2, <1>3, <1>5 DEF IndexPart

LEMMA WipeKeeps ==
  ASSUME IndexPart, NEW b \in Builders, Wipe(b) PROVE IndexPart'
<1> DEFINE entry == [at |-> "create", todo |-> <<>>]
<1>1. IndexType
  BY DEF IndexPart
<1>2. At(b, "wipe") /\ MoveTo(b, "create") /\ torn' = FALSE
      /\ collection' = [exists |-> FALSE, points |-> {}]
  BY DEF Wipe
<1>3. builder[b].todo = <<>>
  BY <1>2, IdleHasNothingToDo DEF At
<1>4. builder' = [builder EXCEPT ![b] = entry]
  BY <1>1, <1>2, <1>3, MoveIs
<1>5. entry \in BuildType /\ entry.at = "create" /\ entry.todo = <<>>
  BY EmptySeq DEF BuildType
<1> HIDE DEF entry
<1>6. collection' \in [exists : BOOLEAN, points : SUBSET Chunks] /\ collection'.points = {}
  BY <1>2
<1>7. torn' \in BOOLEAN
  BY <1>2
<1> QED BY <1>4, <1>5, <1>6, <1>7, BuilderCompletes

LEMMA CreateKeeps ==
  ASSUME IndexPart, NEW b \in Builders, Create(b) PROVE IndexPart'
<1> DEFINE entry == [at |-> "scan", todo |-> <<>>]
<1>1. IndexType
  BY DEF IndexPart
<1>2. At(b, "create") /\ MoveTo(b, "scan") /\ torn' = torn
      /\ collection' = [exists |-> TRUE, points |-> collection.points]
  BY <1>1, CollectionIs DEF Create
<1>3. builder[b].todo = <<>>
  BY <1>2, IdleHasNothingToDo DEF At
<1>4. builder' = [builder EXCEPT ![b] = entry]
  BY <1>1, <1>2, <1>3, MoveIs
<1>5. entry \in BuildType /\ entry.at = "scan" /\ entry.todo = <<>>
  BY EmptySeq DEF BuildType
<1> HIDE DEF entry
<1>6. collection.points \subseteq Chunks
  BY <1>1, CollectionIs
<1>7. collection' \in [exists : BOOLEAN, points : SUBSET Chunks] /\ collection'.exists = TRUE
  BY <1>2, <1>6
<1>8. torn' \in BOOLEAN
  BY <1>1, <1>2 DEF IndexType
<1> QED BY <1>4, <1>5, <1>7, <1>8, BuilderCompletes

LEMMA ScanKeeps ==
  ASSUME IndexPart, NEW b \in Builders, Scan(b) PROVE IndexPart'
<1> DEFINE todo == Missing(Texts(collection.points))
           entry == [at |-> "write", todo |-> todo]
<1>1. IndexType
  BY DEF IndexPart
<1>2. torn' = torn /\ collection' = collection /\ builder' = [builder EXCEPT ![b] = entry]
  BY DEF Scan, Texts
<1>3. collection \in [exists : BOOLEAN, points : SUBSET Chunks] /\ torn \in BOOLEAN
  BY <1>1 DEF IndexType
<1>4. collection.points \subseteq Chunks
  BY <1>1, CollectionIs
<1>5. /\ todo \in Seq(Chunks) /\ IsInjective(todo)
      /\ Texts(collection.points) \cup Texts(ToSet(todo)) = Texts(Chunks)
  BY <1>4, MissingIs
<1> HIDE DEF todo
<1>6. entry \in BuildType /\ entry.at = "write" /\ entry.todo = todo
  BY <1>5 DEF BuildType
<1> HIDE DEF entry
<1>7. ~collection'.exists => collection'.points = {}
  BY <1>2 DEF IndexPart, TodoInv
<1> QED BY <1>2, <1>3, <1>5, <1>6, <1>7, BuilderCompletes

\* A builder that writes keeps the texts it completes the index with, and what
\* it adds takes nothing from another.
LEMMA WriteBatchKeeps ==
  ASSUME IndexPart, NEW b \in Builders, WriteBatch(b) PROVE IndexPart'
<1> DEFINE todo == builder[b].todo
           batch == First(BATCH_SIZE, todo)
           rest == SubSeq(todo, Len(batch) + 1, Len(todo))
           entry == [at |-> "write", todo |-> rest]
           points == collection.points \cup ToSet(batch)
<1>1. IndexType /\ TodoInv /\ IndexInv
  BY DEF IndexPart
<1>2. builder[b] \in BuildType /\ builder[b].at = "write" /\ todo # <<>> /\ collection.exists /\ torn' = torn
  BY <1>1 DEF IndexType, WriteBatch, At
<1>3. todo \in Seq(Chunks) /\ IsInjective(todo)
  BY <1>1, <1>2 DEF BuildType, TodoInv
<1>4. builder' = [builder EXCEPT ![b] = entry]
  <2>1. builder' = [builder EXCEPT ![b].todo = SubSeq(@, Len(First(BATCH_SIZE, @)) + 1, Len(@))]
    BY DEF WriteBatch
  <2>2. builder' = [builder EXCEPT ![b] = [builder[b] EXCEPT !.todo = rest]]
    BY <2>1
  <2> HIDE DEF rest
  <2>3. [builder[b] EXCEPT !.todo = rest] = [at |-> "write", todo |-> rest]
    BY <1>2 DEF BuildType
  <2> QED BY <2>2, <2>3
<1>5. /\ batch \in Seq(Chunks) /\ ToSet(batch) \subseteq Chunks
      /\ rest \in Seq(Chunks) /\ IsInjective(rest)
      /\ ToSet(todo) = ToSet(batch) \cup ToSet(rest)
  <2> HIDE DEF todo
  <2> QED BY <1>3, BatchIs
<1>6. collection' = [exists |-> collection.exists, points |-> points]
  <2>1. collection' = [collection EXCEPT !.points = points]
    BY DEF WriteBatch
  <2> HIDE DEF points
  <2>2. collection \in [exists : BOOLEAN, points : SUBSET Chunks]
    BY <1>1 DEF IndexType
  <2> QED BY <2>1, <2>2
<1> HIDE DEF rest, batch
<1>7. entry \in BuildType /\ entry.at = "write" /\ entry.todo = rest
  BY <1>5 DEF BuildType
<1>8. points \subseteq Chunks /\ collection.points \subseteq points /\ collection.exists \in BOOLEAN
  BY <1>1, <1>5, CollectionIs
<1>9. Texts(points) = Texts(collection.points) \cup Texts(ToSet(batch))
  BY DEF Texts
<1>10. Texts(ToSet(todo)) = Texts(ToSet(batch)) \cup Texts(ToSet(rest))
  BY <1>5 DEF Texts
<1>11. Texts(points) \subseteq Texts(Chunks)
  BY <1>8 DEF Texts
<1>12. \A x \in Builders : Texts(ToSet(builder[x].todo)) \subseteq Texts(Chunks)
  <2> TAKE x \in Builders
  <2>1. builder[x].todo \in Seq(Chunks)
    BY <1>1 DEF IndexType, BuildType
  <2>2. ToSet(builder[x].todo) \subseteq Chunks
    BY <2>1, LenProperties, ElementOfSeq DEF ToSet
  <2> QED BY <2>2 DEF Texts
<1> HIDE DEF entry, points
<1>13. /\ builder' \in [Builders -> BuildType] /\ builder'[b] = entry
       /\ \A x \in Builders : x # b => builder'[x] = builder[x]
  BY <1>1, <1>4, <1>7, BuilderIs
<1>14. collection'.points = points /\ collection'.exists = collection.exists
  BY <1>6
<1>15. IndexType'
  <2>1. collection' \in [exists : BOOLEAN, points : SUBSET Chunks]
    BY <1>6, <1>8
  <2> QED BY <1>1, <1>2, <1>13, <2>1 DEF IndexType
<1>16. TodoInv'
  <2>1. ASSUME NEW x \in Builders, builder'[x].todo # <<>>
        PROVE  builder'[x].at = "write" /\ IsInjective(builder'[x].todo)
    BY <1>1, <1>5, <1>7, <1>13, <2>1 DEF TodoInv, At
  <2>2. ~collection'.exists => collection'.points = {}
    BY <1>2, <1>14
  <2> QED BY <2>1, <2>2 DEF TodoInv, At
<1>17. IndexInv'
  <2>1. CASE torn
    BY <1>2, <2>1 DEF IndexInv
  <2>2. CASE Whole
    <3>1. Texts(points) = Texts(Chunks)
      BY <1>9, <1>11, <2>2, WholeIs
    <3>2. Whole'
      BY <1>14, <3>1 DEF Whole, Texts
    <3> QED BY <3>2 DEF IndexInv
  <2>3. CASE \E x \in Builders : Completes(x)
    <3>1. PICK x \in Builders : Completes(x)
      BY <2>3
    <3>2. CASE x = b
      <4>1. Texts(collection.points) \cup Texts(ToSet(todo)) = Texts(Chunks)
        BY <1>2, <3>1, <3>2 DEF Completes, At
      <4>2. Texts(points) \cup Texts(ToSet(rest)) = Texts(Chunks)
        BY <1>9, <1>10, <4>1
      <4>3. Completes(b)'
        BY <1>7, <1>13, <1>14, <4>2 DEF Completes, At
      <4> QED BY <4>3 DEF IndexInv
    <3>3. CASE x # b
      <4>1. builder'[x] = builder[x]
        BY <1>13, <3>3
      <4>2. CASE builder[x].at \in {"create", "scan"}
        <5>1. Completes(x)'
          BY <4>1, <4>2 DEF Completes, At
        <5> QED BY <5>1 DEF IndexInv
      <4>3. CASE builder[x].at \notin {"create", "scan"}
        <5>1. builder[x].at = "write"
              /\ Texts(collection.points) \cup Texts(ToSet(builder[x].todo)) = Texts(Chunks)
          BY <3>1, <4>3 DEF Completes, At
        <5>2. Texts(points) \cup Texts(ToSet(builder[x].todo)) = Texts(Chunks)
          BY <1>9, <1>11, <1>12, <5>1
        <5>3. Completes(x)'
          BY <1>14, <4>1, <5>1, <5>2 DEF Completes, At
        <5> QED BY <5>3 DEF IndexInv
      <4> QED BY <4>2, <4>3
    <3> QED BY <3>2, <3>3
  <2>4. CASE collection.points = {} /\ \A x \in Builders : builder[x].todo = <<>>
    BY <1>2, <2>4
  <2> QED BY <1>1, <2>1, <2>2, <2>3, <2>4 DEF IndexInv
<1> QED BY <1>15, <1>16, <1>17 DEF IndexPart

\* The last batch is written: what the builder completed is whole.
LEMMA EndBuildKeeps ==
  ASSUME IndexPart, NEW b \in Builders, EndBuild(b) PROVE IndexPart'
<1> DEFINE phase == IF b = Server THEN "loaded" ELSE "done"
           entry == [at |-> phase, todo |-> <<>>]
<1>1. IndexType /\ TodoInv /\ IndexInv
  BY DEF IndexPart
<1>2. /\ At(b, "write") /\ builder[b].todo = <<>> /\ MoveTo(b, phase)
      /\ collection' = collection /\ torn' = torn
  BY DEF EndBuild
<1>3. phase \in {"loaded", "done"}
  OBVIOUS
<1> HIDE DEF phase
<1>4. builder' = [builder EXCEPT ![b] = entry]
  BY <1>1, <1>2, MoveIs
<1>5. entry \in BuildType /\ entry.at = phase /\ entry.todo = <<>>
  BY <1>3, EmptySeq DEF BuildType
<1> HIDE DEF entry
<1>6. /\ builder' \in [Builders -> BuildType] /\ builder'[b] = entry
      /\ \A x \in Builders : x # b => builder'[x] = builder[x]
  BY <1>1, <1>4, <1>5, BuilderIs
<1>7. IndexType'
  BY <1>1, <1>2, <1>6 DEF IndexType
<1>8. TodoInv'
  <2>1. ASSUME NEW x \in Builders, builder'[x].todo # <<>>
        PROVE  builder'[x].at = "write" /\ IsInjective(builder'[x].todo)
    BY <1>1, <1>5, <1>6, <2>1 DEF TodoInv, At
  <2> QED BY <1>1, <1>2, <2>1 DEF TodoInv, At
<1>9. IndexInv'
  <2>1. CASE torn
    BY <1>2, <2>1 DEF IndexInv
  <2>2. CASE Whole
    BY <1>2, <2>2 DEF IndexInv, Whole
  <2>3. CASE \E x \in Builders : Completes(x)
    <3>1. PICK x \in Builders : Completes(x)
      BY <2>3
    <3>2. CASE x = b
      <4>1. Texts(collection.points) \cup Texts(ToSet(<<>>)) = Texts(Chunks)
        BY <1>2, <3>1, <3>2 DEF Completes, At
      <4>2. Texts(ToSet(<<>>)) = {}
        BY DEF Texts, ToSet
      <4>3. Whole
        BY <4>1, <4>2, WholeIs
      <4> QED BY <1>2, <4>3 DEF IndexInv, Whole
    <3>3. CASE x # b
      <4>1. builder'[x] = builder[x]
        BY <1>6, <3>3
      <4>2. Completes(x)'
        BY <1>2, <3>1, <4>1 DEF Completes, At
      <4> QED BY <4>2 DEF IndexInv
    <3> QED BY <3>2, <3>3
  <2>4. CASE collection.points = {} /\ \A x \in Builders : builder[x].todo = <<>>
    <3>1. \A x \in Builders : builder'[x].todo = <<>>
      BY <1>5, <1>6, <2>4
    <3> QED BY <1>2, <2>4, <3>1 DEF IndexInv
  <2> QED BY <1>1, <2>1, <2>2, <2>3, <2>4 DEF IndexInv
<1> QED BY <1>7, <1>8, <1>9 DEF IndexPart

\* A builder that stops while it had the index to complete leaves it torn.
LEMMA StopBuildKeeps ==
  ASSUME IndexPart, NEW b \in Builders, StopBuild(b) PROVE IndexPart'
<1> DEFINE phase == IF b = Server THEN "off" ELSE "done"
           entry == [at |-> phase, todo |-> <<>>]
<1>1. IndexType /\ TodoInv
  BY DEF IndexPart
<1>2. collection' = collection /\ torn' = (torn \/ builder[b].at \in {"create", "scan", "write"})
  BY DEF StopBuild
<1>3. builder' = [builder EXCEPT ![b] = entry]
  <2>1. builder' = [builder EXCEPT ![b] = IF b = Server THEN NoBuild ELSE [NoBuild EXCEPT !.at = "done"]]
    BY DEF StopBuild
  <2>2. [NoBuild EXCEPT !.at = "done"] = [at |-> "done", todo |-> <<>>] /\ NoBuild = [at |-> "off", todo |-> <<>>]
    BY DEF NoBuild
  <2> QED BY <2>1, <2>2
<1>4. phase \in {"off", "done"}
  OBVIOUS
<1> HIDE DEF phase
<1>5. CASE builder[b].at \in {"create", "scan", "write"}
  <2>1. torn' = TRUE
    BY <1>2, <1>5
  <2>2. entry \in BuildType /\ entry.todo = <<>>
    BY <1>4, EmptySeq DEF BuildType
  <2> HIDE DEF entry
  <2>3. /\ builder' \in [Builders -> BuildType] /\ builder'[b] = entry
        /\ \A x \in Builders : x # b => builder'[x] = builder[x]
    BY <1>1, <1>3, <2>2, BuilderIs
  <2>4. IndexType'
    BY <1>1, <1>2, <2>1, <2>3 DEF IndexType
  <2>5. TodoInv'
    <3>1. ASSUME NEW x \in Builders, builder'[x].todo # <<>>
          PROVE  builder'[x].at = "write" /\ IsInjective(builder'[x].todo)
      BY <1>1, <2>2, <2>3, <3>1 DEF TodoInv, At
    <3> QED BY <1>1, <1>2, <3>1 DEF TodoInv, At
  <2>6. IndexInv'
    BY <2>1 DEF IndexInv
  <2> QED BY <2>4, <2>5, <2>6 DEF IndexPart
<1>6. CASE builder[b].at \notin {"create", "scan", "write"}
  <2>1. torn' = torn
    <3>1. torn \in BOOLEAN
      BY <1>1 DEF IndexType
    <3> QED BY <1>2, <1>6, <3>1
  <2>2. collection' = [exists |-> collection'.exists, points |-> collection.points] /\ collection'.exists \in BOOLEAN
        /\ collection'.exists = collection.exists
    BY <1>1, <1>2, CollectionIs
  <2> QED BY <1>3, <1>4, <1>6, <2>1, <2>2, IdleBuilderMoves
<1> QED BY <1>5, <1>6

-----------------------------------------------------------------------------
(* The searches.                                                            *)

LEMMA CallerStays ==
  ASSUME CallerPart, UNCHANGED <<keyword, search, lock, cache>>, faults' \in Nat
  PROVE  CallerPart'
BY DEF CallerPart, CallerType, TurnInv

LEMMA FaultsAreNat ==
  ASSUME CallerPart
  PROVE  faults \in Nat /\ (faults > 0 => faults - 1 \in Nat)
BY DEF CallerPart, CallerType

LEMMA IdleIsSound == IdleSearch \in SearchType /\ Sound(IdleSearch) /\ IdleSearch.at = "idle"
<1>1. IdleSearch \in SearchType
  BY NoHits DEF IdleSearch, SearchType
<1>2. IsAnswer(<<>>)
  BY NoHits, Limits DEF IsAnswer
<1> QED BY <1>1, <1>2, NoHits DEF IdleSearch, Sound

LEMMA NoEntryIsSound == NoEntry \in EntryType /\ SoundEntry(NoEntry)
<1>1. NoEntry \in EntryType
  BY NoHits DEF NoEntry, EntryType
<1>2. IsAnswer(<<>>)
  BY NoHits, Limits DEF IsAnswer
<1> QED BY <1>1, <1>2 DEF NoEntry, SoundEntry

\* One search goes from one of its places to another.
LEMMA SearchMoves ==
  ASSUME CallerPart, NEW s \in Searches, NEW e \in SearchType, Sound(e),
         search[s].at # "idle", e.at # "idle", search' = [search EXCEPT ![s] = e],
         keyword' = keyword, lock' = lock,
         cache' \in EntryType, SoundEntry(cache'), faults' \in Nat
  PROVE  CallerPart'
<1>1. CallerType /\ TurnInv
  BY DEF CallerPart
<1>2. search' \in [Searches -> SearchType] /\ search'[s] = e
      /\ \A x \in Searches : x # s => search'[x] = search[x]
  BY <1>1 DEF CallerType
<1>3. CallerType'
  BY <1>1, <1>2 DEF CallerType
<1>4. \A x \in Searches : Sound(search'[x])
  BY <1>2 DEF CallerPart
<1>5. TurnInv'
  <2> SUFFICES ASSUME NEW x \in Searches
               PROVE  /\ search'[x].at # "idle" => keyword # <<>>
                      /\ x \in Tools => (lock = x) = (search'[x].at # "idle")
    BY DEF TurnInv
  <2>1. CASE x = s
    <3>1. search'[x].at # "idle" /\ search[x].at # "idle"
      BY <1>2, <2>1
    <3> QED BY <1>1, <3>1 DEF TurnInv
  <2>2. CASE x # s
    BY <1>1, <1>2, <2>2 DEF TurnInv
  <2> QED BY <2>1, <2>2
<1> QED BY <1>3, <1>4, <1>5 DEF CallerPart

\* A search begins; one of the tool takes the lock.
LEMMA BeginKeeps ==
  ASSUME CallerPart, NEW s \in Searches, keyword # <<>>, search[s].at = "idle", Begin(s),
         UNCHANGED <<keyword, cache, faults>>,
         \/ s \in Tools /\ lock = Free /\ lock' = s
         \/ s \notin Tools /\ lock' = lock
  PROVE  CallerPart'
<1> DEFINE e == [search[s] EXCEPT !.at = "lookup"]
<1>1. CallerType /\ TurnInv
  BY DEF CallerPart
<1>2. search[s] \in SearchType /\ Sound(search[s])
  BY <1>1 DEF CallerType, CallerPart
<1>3. search' = [search EXCEPT ![s] = e]
  BY DEF Begin
<1>4. /\ e \in SearchType /\ e.at = "lookup" /\ e.hits = search[s].hits
      /\ e.results = search[s].results /\ e.asked = search[s].asked
  BY <1>2 DEF SearchType
<1> HIDE DEF e
<1>5. Sound(e)
  BY <1>2, <1>4 DEF Sound
<1>6. search' \in [Searches -> SearchType] /\ search'[s] = e
      /\ \A x \in Searches : x # s => search'[x] = search[x]
  BY <1>1, <1>3, <1>4 DEF CallerType
<1>7. lock' \in Tools \cup {Free}
  BY <1>1 DEF CallerType
<1>8. CallerType'
  BY <1>1, <1>6, <1>7 DEF CallerType
<1>9. \A x \in Searches : Sound(search'[x])
  BY <1>5, <1>6 DEF CallerPart
<1>10. TurnInv'
  <2> SUFFICES ASSUME NEW x \in Searches
               PROVE  /\ search'[x].at # "idle" => keyword # <<>>
                      /\ x \in Tools => (lock' = x) = (search'[x].at # "idle")
    BY DEF TurnInv
  <2>1. CASE x = s
    <3>1. search'[x].at # "idle"
      BY <1>4, <1>6, <2>1
    <3> QED BY <2>1, <3>1
  <2>2. CASE x # s
    <3>1. x \in Tools => x # Free
      BY SearchAssumption
    <3>2. x \in Tools => (lock' = x) = (lock = x)
      BY <2>2, <3>1
    <3> QED BY <1>1, <1>6, <2>2, <3>2 DEF TurnInv
  <2> QED BY <2>1, <2>2
<1>11. SoundEntry(cache')
  BY DEF CallerPart
<1> QED BY <1>8, <1>9, <1>10, <1>11 DEF CallerPart

LEMMA BeginToolSearchKeeps ==
  ASSUME CallerPart, NEW s \in Searches, BeginToolSearch(s) PROVE CallerPart'
<1>1. /\ s \in Tools /\ keyword # <<>> /\ search[s].at = "idle" /\ lock = Free /\ lock' = s
      /\ Begin(s) /\ UNCHANGED <<keyword, cache, faults>>
  BY DEF BeginToolSearch
<1> QED BY <1>1, BeginKeeps

LEMMA BeginServiceSearchKeeps ==
  ASSUME CallerPart, NEW s \in Searches, BeginServiceSearch(s) PROVE CallerPart'
<1>1. /\ s \notin Tools /\ keyword # <<>> /\ search[s].at = "idle" /\ lock' = lock
      /\ Begin(s) /\ UNCHANGED <<keyword, cache, faults>>
  BY SearchAssumption DEF BeginServiceSearch
<1> QED BY <1>1, BeginKeeps

LEMMA CacheHitKeeps ==
  ASSUME CallerPart, NEW s \in Searches, CacheHit(s) PROVE CallerPart'
<1> DEFINE e == [IdleSearch EXCEPT !.at = "done", !.results = cache.results, !.reranked = cache.reranked]
<1>1. /\ search[s].at = "lookup" /\ search' = [search EXCEPT ![s] = e]
      /\ UNCHANGED <<keyword, lock, cache, faults>>
  BY DEF CacheHit
<1>2. cache \in EntryType /\ SoundEntry(cache) /\ faults \in Nat
  BY DEF CallerPart, CallerType
<1>3. cache.results \in HitLists /\ cache.reranked \in BOOLEAN /\ IsAnswer(cache.results)
  BY <1>2 DEF EntryType, SoundEntry
<1>4. /\ e \in SearchType /\ e.at = "done" /\ e.found = FALSE /\ e.hits = <<>>
      /\ e.results = cache.results
  <2>1. IdleSearch \in SearchType /\ IdleSearch.hits = <<>> /\ IdleSearch.found = FALSE
    BY IdleIsSound DEF IdleSearch
  <2>2. e \in SearchType /\ e.at = "done" /\ e.results = cache.results
    BY <1>3, <2>1 DEF SearchType
  <2>3. e.hits = IdleSearch.hits /\ e.found = IdleSearch.found
    BY <2>1 DEF SearchType
  <2> QED BY <2>1, <2>2, <2>3
<1> HIDE DEF e
<1>5. Sound(e)
  BY <1>3, <1>4, NoHits DEF Sound
<1>6. search[s].at # "idle" /\ e.at # "idle"
  BY <1>1, <1>4
<1> QED BY <1>1, <1>2, <1>4, <1>5, <1>6, SearchMoves

LEMMA CacheMissKeeps ==
  ASSUME CallerPart, NEW s \in Searches, CacheMiss(s) PROVE CallerPart'
<1>1. PICK queries \in AllQueries :
         search' = [search EXCEPT ![s].at = "vector", ![s].queries = queries]
  BY DEF CacheMiss
<1> DEFINE e == [search[s] EXCEPT !.at = "vector", !.queries = queries]
<1>2. /\ search[s].at = "lookup" /\ UNCHANGED <<keyword, lock, cache>>
      /\ faults' = faults \/ (faults > 0 /\ faults' = faults - 1)
  BY DEF CacheMiss
<1>3. cache' \in EntryType /\ SoundEntry(cache') /\ faults' \in Nat
  BY <1>2, FaultsAreNat DEF CallerPart, CallerType
<1>4. search[s] \in SearchType /\ Sound(search[s]) /\ search \in [Searches -> SearchType]
  BY DEF CallerPart, CallerType
<1>5. search' = [search EXCEPT ![s] = e]
  BY <1>1
<1>6. /\ e \in SearchType /\ e.at = "vector" /\ e.queries = queries /\ e.asked = search[s].asked
      /\ e.hits = search[s].hits /\ e.results = search[s].results
  BY <1>4 DEF SearchType
<1> HIDE DEF e
<1>7. e.asked < Len(e.queries)
  <2>1. Len(queries) \in 1..3 /\ e.asked = 0
    BY <1>2, <1>4, <1>6, QueriesAre DEF Sound
  <2>2. \A n \in 1..3 : 0 < n
    OBVIOUS
  <2>3. 0 < Len(queries)
    BY <2>1, <2>2
  <2> QED BY <1>6, <2>1, <2>3
<1>8. Sound(e)
  BY <1>4, <1>6, <1>7 DEF Sound
<1>9. search[s].at # "idle" /\ e.at # "idle"
  BY <1>2, <1>6
<1> QED BY <1>2, <1>3, <1>5, <1>6, <1>8, <1>9, SearchMoves

LEMMA AskCollectionKeeps ==
  ASSUME IndexPart, CallerPart, NEW s \in Searches, AskCollection(s) PROVE CallerPart'
<1> DEFINE variant == search[s].queries[search[s].asked + 1]
           hits    == Merged[<<search[s].hits, VectorHits[<<variant, collection.points>>]>>]
           asked   == search[s].asked + 1
           place   == IF asked = Len(search[s].queries) THEN "rank" ELSE "vector"
           e       == [search[s] EXCEPT !.hits = hits, !.asked = asked, !.at = place]
<1>1. search[s].at = "vector" /\ UNCHANGED <<keyword, lock, cache, faults>>
  BY DEF AskCollection
<1>2. cache' \in EntryType /\ SoundEntry(cache') /\ faults' \in Nat
  BY <1>1 DEF CallerPart, CallerType
<1>3. search[s] \in SearchType /\ Sound(search[s]) /\ search \in [Searches -> SearchType]
  BY DEF CallerPart, CallerType
<1>4. search' = [search EXCEPT ![s] = e]
  BY <1>3 DEF AskCollection
<1>5. /\ search[s].queries \in AllQueries /\ search[s].asked < Len(search[s].queries)
      /\ search[s].asked \in 0..3 /\ search[s].hits \in HitLists
      /\ IsInjective(Docs(search[s].hits)) /\ IsAnswer(search[s].results)
  BY <1>1, <1>3 DEF Sound, SearchType
<1>6. Len(search[s].queries) \in 1..3 /\ search[s].queries \in Seq(Variants)
  BY <1>5, QueriesAre
<1>7. asked \in 1..Len(search[s].queries) /\ asked \in 0..3
  <2>1. \A n \in 1..3, m \in 0..3 : m < n => m + 1 \in 1..n /\ m + 1 \in 0..3
    OBVIOUS
  <2> QED BY <1>5, <1>6, <2>1
<1>8. variant \in Variants
  BY <1>6, <1>7, ElementOfSeq
<1>9. collection.points \in SUBSET Chunks
  BY CollectionIs DEF IndexPart
<1>10. IsList(search[s].hits) /\ IsList(VectorHits[<<variant, collection.points>>])
  BY <1>5, <1>8, <1>9, VectorHitsAreLists DEF IsList
<1>11. hits \in HitLists /\ IsInjective(Docs(hits))
  BY <1>10, MergedIs DEF IsList
<1>12. place \in {"rank", "vector"} /\ (place = "vector" => asked < Len(search[s].queries))
  BY <1>6, <1>7
<1> HIDE DEF hits, asked, place, variant
<1>13. /\ e \in SearchType /\ e.at = place /\ e.queries = search[s].queries /\ e.asked = asked
       /\ e.hits = hits /\ e.results = search[s].results
  BY <1>3, <1>7, <1>11, <1>12 DEF SearchType
<1> HIDE DEF e
<1>14. Sound(e)
  BY <1>5, <1>11, <1>12, <1>13 DEF Sound
<1>15. search[s].at # "idle" /\ e.at # "idle"
  BY <1>1, <1>12, <1>13
<1> QED BY <1>1, <1>2, <1>4, <1>13, <1>14, <1>15, SearchMoves

LEMMA CollectionFailsKeeps ==
  ASSUME CallerPart, NEW s \in Searches, CollectionFails(s) PROVE CallerPart'
<1> DEFINE e == [search[s] EXCEPT !.at = "rank"]
<1>1. /\ search[s].at = "vector" /\ UNCHANGED <<keyword, lock, cache>>
      /\ faults > 0 /\ faults' = faults - 1 /\ search' = [search EXCEPT ![s] = e]
  BY DEF CollectionFails
<1>2. cache' \in EntryType /\ SoundEntry(cache') /\ faults' \in Nat
  BY <1>1, FaultsAreNat DEF CallerPart, CallerType
<1>3. search[s] \in SearchType /\ Sound(search[s])
  BY DEF CallerPart, CallerType
<1>4. /\ e \in SearchType /\ e.at = "rank" /\ e.queries = search[s].queries
      /\ e.hits = search[s].hits /\ e.results = search[s].results
  BY <1>3 DEF SearchType
<1> HIDE DEF e
<1>5. Sound(e)
  BY <1>1, <1>3, <1>4 DEF Sound
<1>6. search[s].at # "idle" /\ e.at # "idle"
  BY <1>1, <1>4
<1> QED BY <1>1, <1>2, <1>4, <1>5, <1>6, SearchMoves

\* A search ends with what the sources found
RankedTo(s, vector, bm25, reranked) ==
   \E candidates \in {Candidates(vector, bm25)} :
      search' = [search EXCEPT ![s] = [IdleSearch EXCEPT !.at = "store", !.reranked = reranked,
                     !.results = Outcome(candidates, reranked),
                     !.found = vector # <<>> \/ bm25 # <<>>]]

LEMMA RankIs ==
  ASSUME NEW s \in Searches, Rank(s)
  PROVE  \E bm25Fails, rerankerFails \in BOOLEAN :
            /\ faults' = faults - Cardinality({f \in {1, 2} : <<bm25Fails, rerankerFails>>[f]})
            /\ faults' >= 0
            /\ \E vector \in {CurrentOf[First(VECTOR_TOP_K, search[s].hits)]},
                  n \in IF bm25Fails THEN 0..(Len(search[s].queries) - 1) ELSE {Len(search[s].queries)} :
               \E bm25 \in {CurrentOf[KeywordRecall[<<search[s].queries, n>>]]} :
                  RankedTo(s, vector, bm25, ~rerankerFails)
BY Zenon DEF Rank, RankedTo

LEMMA RankEnds ==
  ASSUME NEW s \in Searches, Rank(s), Len(search[s].queries) \in 1..3
  PROVE \E n \in 0..3, reranked \in BOOLEAN :
          RankedTo(s, CurrentOf[First(VECTOR_TOP_K, search[s].hits)], CurrentOf[KeywordRecall[<<search[s].queries, n>>]], reranked)
<1>1. PICK bm25Fails, rerankerFails \in BOOLEAN :
            /\ faults' = faults - Cardinality({f \in {1, 2} : <<bm25Fails, rerankerFails>>[f]})
            /\ faults' >= 0
            /\ \E vector \in {CurrentOf[First(VECTOR_TOP_K, search[s].hits)]},
                  n \in IF bm25Fails THEN 0..(Len(search[s].queries) - 1) ELSE {Len(search[s].queries)} :
               \E bm25 \in {CurrentOf[KeywordRecall[<<search[s].queries, n>>]]} :
                  RankedTo(s, vector, bm25, ~rerankerFails)
  BY Zenon, RankIs
<1>2. PICK n \in IF bm25Fails THEN 0..(Len(search[s].queries) - 1) ELSE {Len(search[s].queries)} :
         RankedTo(s, CurrentOf[First(VECTOR_TOP_K, search[s].hits)], CurrentOf[KeywordRecall[<<search[s].queries, n>>]], ~rerankerFails)
  BY Zenon, <1>1
<1>3. \A length \in 1..3 : 0..(length - 1) \subseteq 0..3 /\ length \in 0..3
  OBVIOUS
<1>4. 0..(Len(search[s].queries) - 1) \subseteq 0..3 /\ Len(search[s].queries) \in 0..3
  BY <1>3
<1>5. n \in 0..3 
  <2> DEFINE fewer == 0..(Len(search[s].queries) - 1)
             all == Len(search[s].queries)
             bound == 0..3
  <2>1. n \in IF bm25Fails THEN fewer ELSE {all}
    OBVIOUS
  <2>2. fewer \subseteq bound /\ all \in bound
    BY <1>4
  <2> HIDE DEF fewer, all, bound
  <2>3. n \in bound
    BY <2>1, <2>2
  <2> QED BY <2>3 DEF bound
<1>6. (~rerankerFails) \in BOOLEAN
  OBVIOUS
<1> QED BY Zenon, <1>2, <1>5, <1>6

LEMMA PairIsFinite == IsFiniteSet({1, 2})
<1>1. IsFiniteSet({1})
  BY FS_Singleton
<1>2. IsFiniteSet({1} \cup {2})
  BY <1>1, FS_AddElement
<1>3. {1, 2} = {1} \cup {2}
  OBVIOUS
<1> QED BY <1>2, <1>3

\* What was found before it was truncated is found after it.
LEMMA RankKeeps ==
  ASSUME CallerPart, NEW s \in Searches, Rank(s) PROVE CallerPart'
<1>1. search[s].at = "rank" /\ UNCHANGED <<keyword, lock, cache>> /\ faults' \in Nat
  <2>1. PICK bm25Fails, rerankerFails \in BOOLEAN :
           faults' = faults - Cardinality({f \in {1, 2} : <<bm25Fails, rerankerFails>>[f]}) /\ faults' >= 0
    BY DEF Rank
  <2> DEFINE failing == {f \in {1, 2} : <<bm25Fails, rerankerFails>>[f]}
  <2>2. IsFiniteSet({1, 2})
    BY Zenon, PairIsFinite
  <2>3. Cardinality(failing) \in Nat
    <3>1. failing \subseteq {1, 2}
      OBVIOUS
    <3> HIDE DEF failing
    <3> QED BY <2>2, <3>1, FS_Subset, FS_CardinalityType
  <2> HIDE DEF failing
  <2>4. faults' = faults - Cardinality(failing) /\ faults' >= 0
    BY <2>1 DEF failing
  <2>5. faults' \in Nat
    BY <2>3, <2>4, FaultsAreNat
  <2> QED BY <2>5 DEF Rank
<1>2. PICK n \in 0..3, reranked \in BOOLEAN :
         RankedTo(s, CurrentOf[First(VECTOR_TOP_K, search[s].hits)],
                     CurrentOf[KeywordRecall[<<search[s].queries, n>>]], reranked)
  <2>1. search[s].queries \in AllQueries
    BY <1>1 DEF CallerPart, Sound
  <2> QED BY <2>1, QueriesAre, RankEnds
<1> DEFINE vector  == CurrentOf[First(VECTOR_TOP_K, search[s].hits)]
           bm25    == CurrentOf[KeywordRecall[<<search[s].queries, n>>]]
           results == Outcome(Candidates(vector, bm25), reranked)
           found   == vector # <<>> \/ bm25 # <<>>
           e       == [IdleSearch EXCEPT !.at = "store", !.reranked = reranked, !.results = results, !.found = found]
<1>3. search[s] \in SearchType /\ Sound(search[s]) /\ search[s].queries \in AllQueries
  BY <1>1 DEF CallerPart, CallerType, Sound
<1>4. IsList(vector) /\ DocsIn(vector) \subseteq Current
  <2> DEFINE hits == First(VECTOR_TOP_K, search[s].hits)
  <2>1. search[s].hits \in HitLists /\ IsInjective(Docs(search[s].hits)) /\ VECTOR_TOP_K \in Nat
    BY <1>3, Limits DEF SearchType, Sound
  <2>2. IsList(hits)
    BY <2>1, FirstOfHits DEF IsList
  <2>3. vector = CurrentOf[hits]
    OBVIOUS
  <2> HIDE DEF hits
  <2> QED BY <2>2, <2>3, CurrentOfIs
<1>5. IsList(bm25) /\ DocsIn(bm25) \subseteq Current
  <2> DEFINE hits == KeywordRecall[<<search[s].queries, n>>]
  <2>1. IsList(hits)
    BY <1>3, KeywordRecallIsList
  <2>2. bm25 = CurrentOf[hits]
    OBVIOUS
  <2> HIDE DEF hits
  <2> QED BY <2>1, <2>2, CurrentOfIs
<1>6. /\ results \in HitLists /\ IsAnswer(results)
      /\ found => results # <<>> /\ ToSet(Docs(results)) \subseteq Current
  <2> DEFINE candidates == Candidates(vector, bm25)
  <2>1. /\ IsList(candidates) /\ DocsIn(candidates) \subseteq Current
        /\ found => candidates # <<>>
    BY <1>4, <1>5, CandidatesAre
  <2>2. results = Outcome(candidates, reranked)
    OBVIOUS
  <2> HIDE DEF candidates, results, found, vector, bm25
  <2>4. /\ results \in HitLists /\ IsAnswer(results) /\ DocsIn(results) \subseteq DocsIn(candidates)
        /\ candidates # <<>> => results # <<>>
    BY <2>1, <2>2, OutcomeIs
  <2> QED BY <2>1, <2>4 DEF DocsIn
<1>7. search' = [search EXCEPT ![s] = e]
  BY <1>2 DEF RankedTo
<1>8. found \in BOOLEAN
  OBVIOUS
<1> HIDE DEF results, found, vector, bm25
<1>9. /\ e \in SearchType /\ e.at = "store" /\ e.results = results /\ e.found = found /\ e.hits = <<>>
  <2>1. IdleSearch \in SearchType /\ IdleSearch.hits = <<>>
    BY IdleIsSound DEF IdleSearch
  <2> HIDE DEF IdleSearch
  <2>2. e \in SearchType /\ e.at = "store" /\ e.results = results /\ e.found = found /\ e.hits = IdleSearch.hits
    BY <1>6, <1>8, <2>1 DEF SearchType
  <2> QED BY <2>1, <2>2
<1> HIDE DEF e
<1>10. Sound(e)
  BY <1>6, <1>9, NoHits DEF Sound
<1>11. cache' \in EntryType /\ SoundEntry(cache')
  BY <1>1 DEF CallerPart, CallerType
<1>12. search[s].at # "idle" /\ e.at # "idle"
  BY <1>1, <1>9
<1> QED BY <1>1, <1>7, <1>9, <1>10, <1>11, <1>12, SearchMoves

LEMMA StoreKeeps ==
  ASSUME CallerPart, NEW s \in Searches, Store(s) PROVE CallerPart'
<1> DEFINE e == [search[s] EXCEPT !.at = "done"]
<1>1. /\ search[s].at = "store" /\ search' = [search EXCEPT ![s] = e] /\ UNCHANGED <<keyword, lock>>
      /\ \/ cache' = (IF search[s].results = <<>> THEN cache ELSE Entry(s)) /\ UNCHANGED faults
         \/ faults > 0 /\ faults' = faults - 1 /\ UNCHANGED cache
  BY DEF Store
<1>2. search[s] \in SearchType /\ Sound(search[s])
  BY DEF CallerPart, CallerType
<1>3. faults' \in Nat
  BY <1>1, FaultsAreNat
<1>4. cache' \in EntryType /\ SoundEntry(cache')
  <2>1. cache \in EntryType /\ SoundEntry(cache)
    BY DEF CallerPart, CallerType
  <2>2. CASE cache' = cache
    BY <2>1, <2>2
  <2>3. CASE search[s].results # <<>> /\ cache' = Entry(s)
    <3>1. Entry(s) \in EntryType /\ Entry(s).results = search[s].results
      BY <1>2 DEF Entry, EntryType, SearchType
    <3>2. IsAnswer(search[s].results)
      BY <1>2 DEF Sound
    <3> QED BY <2>3, <3>1, <3>2 DEF SoundEntry
  <2> QED BY <1>1, <2>2, <2>3
<1>5. /\ e \in SearchType /\ e.at = "done" /\ e.hits = search[s].hits
      /\ e.results = search[s].results /\ e.found = search[s].found
  BY <1>2 DEF SearchType
<1> HIDE DEF e
<1>6. Sound(e)
  BY <1>1, <1>2, <1>5 DEF Sound
<1>7. search[s].at # "idle" /\ e.at # "idle"
  BY <1>1, <1>5
<1> QED BY <1>1, <1>3, <1>4, <1>5, <1>6, <1>7, SearchMoves

LEMMA ReturnKeeps ==
  ASSUME CallerPart, NEW s \in Searches, Return(s) PROVE CallerPart'
<1>1. CallerType /\ TurnInv /\ SoundEntry(cache)
  BY DEF CallerPart
<1>2. /\ search[s].at = "done" /\ search' = [search EXCEPT ![s] = IdleSearch]
      /\ lock' = (IF lock = s THEN Free ELSE lock) /\ UNCHANGED <<keyword, cache, faults>>
  BY DEF Return
<1>3. search' \in [Searches -> SearchType] /\ search'[s] = IdleSearch
      /\ \A x \in Searches : x # s => search'[x] = search[x]
  BY <1>1, <1>2, IdleIsSound DEF CallerType
<1>4. CallerType'
  BY <1>1, <1>2, <1>3 DEF CallerType
<1>5. \A x \in Searches : Sound(search'[x])
  BY <1>3, IdleIsSound DEF CallerPart
<1>6. TurnInv'
  <2> SUFFICES ASSUME NEW x \in Searches
               PROVE  /\ search'[x].at # "idle" => keyword # <<>>
                      /\ x \in Tools => (lock' = x) = (search'[x].at # "idle")
    BY <1>2 DEF TurnInv
  <2>1. x \in Tools => x # Free
    BY SearchAssumption
  <2>2. CASE x = s
    <3>1. search'[x].at = "idle"
      BY <1>3, <2>2, IdleIsSound
    <3>2. x \in Tools => lock' # x
      BY <1>2, <2>1, <2>2
    <3> QED BY <3>1, <3>2
  <2>3. CASE x # s
    <3>1. x \in Tools => (lock' = x) = (lock = x)
      BY <1>2, <2>1, <2>3
    <3> QED BY <1>1, <1>3, <2>3, <3>1 DEF TurnInv
  <2> QED BY <2>2, <2>3
<1> QED BY <1>1, <1>2, <1>4, <1>5, <1>6 DEF CallerPart

\* A server that comes up finds no search under way; one that ends leaves none.
LEMMA ServerKeepsCallers ==
  /\ CallerPart /\ InitRetriever => CallerPart'
  /\ CallerPart /\ StopServer => CallerPart'
<1>1. ASSUME CallerPart, InitRetriever PROVE CallerPart'
  <2>1. keyword' = Corpus /\ UNCHANGED <<search, lock, cache, faults>>
    BY <1>1 DEF InitRetriever, BuildKeywordIndex
  <2>2. CallerType /\ TurnInv
    BY <1>1 DEF CallerPart
  <2>3. keyword # <<>> => keyword = Corpus
    BY <2>2 DEF CallerType
  <2> QED BY <1>1, <2>1, <2>2, <2>3 DEF CallerPart, CallerType, TurnInv
<1>2. ASSUME CallerPart, StopServer PROVE CallerPart'
  <2>1. /\ keyword' = <<>> /\ search' = [s \in Searches |-> IdleSearch] /\ lock' = Free
        /\ UNCHANGED cache /\ faults' \in Nat
    BY <1>2, FaultsAreNat DEF StopServer
  <2>2. CallerType'
    BY <1>2, <2>1, IdleIsSound DEF CallerPart, CallerType
  <2>3. \A x \in Searches : search'[x] = IdleSearch
    BY <2>1
  <2>4. TurnInv'
    BY <2>1, <2>3, IdleIsSound, SearchAssumption DEF TurnInv
  <2> QED BY <1>2, <2>1, <2>2, <2>3, <2>4, IdleIsSound DEF CallerPart
<1> QED BY <1>1, <1>2

LEMMA ExpireEntryKeeps ==
  ASSUME CallerPart, ExpireEntry PROVE CallerPart'
<1>1. cache' = NoEntry /\ UNCHANGED <<keyword, search, lock, faults>>
  BY DEF ExpireEntry
<1> QED BY <1>1, NoEntryIsSound DEF CallerPart, CallerType, TurnInv

\* Builders leave the searches alone.
LEMMA BuildersKeepCallers ==
  ASSUME CallerPart, NEW b \in Builders,
         \/ StartServer \/ CountPoints \/ StartRebuild(b) \/ BuildStep(b) \/ StopBuild(b)
  PROVE  CallerPart'
<1>1. UNCHANGED <<keyword, search, lock, cache>>
  BY DEF StartServer, CountPoints, StartRebuild, BuildStep, Wipe, Create, Scan, WriteBatch, EndBuild, StopBuild
<1>2. faults' = faults \/ (faults > 0 /\ faults' = faults - 1)
  BY DEF StartServer, CountPoints, StartRebuild, BuildStep, Wipe, Create, Scan, WriteBatch, EndBuild, StopBuild
<1>3. faults' \in Nat
  BY <1>2, FaultsAreNat
<1> QED BY <1>1, <1>3, CallerStays

\* Searches leave the collection alone.
LEMMA SearchesKeepIndex ==
  ASSUME IndexPart, NEW s \in Searches,
         \/ StopServer \/ ExpireEntry
         \/ BeginToolSearch(s) \/ BeginServiceSearch(s) \/ SearchStep(s) \/ CollectionFails(s)
  PROVE  IndexPart'
<1>1. UNCHANGED <<collection, builder, torn>>
  BY DEF StopServer, ExpireEntry, BeginToolSearch, BeginServiceSearch, SearchStep, CacheHit, CacheMiss,
         AskCollection, Rank, Store, Return, CollectionFails
<1> QED BY <1>1, IndexStays

-----------------------------------------------------------------------------
(* The invariant.                                                           *)

LEMMA InitInv == Init => SearchInv
<1> SUFFICES ASSUME Init PROVE SearchInv
  OBVIOUS
<1>1. IndexPart
  <2>1. collection = [exists |-> FALSE, points |-> {}] /\ builder = [b \in Builders |-> NoBuild] /\ torn = FALSE
    BY DEF Init
  <2>2. NoBuild \in BuildType /\ NoBuild.todo = <<>>
    BY EmptySeq DEF NoBuild, BuildType
  <2>3. \A b \in Builders : builder[b] = NoBuild
    BY <2>1
  <2>4. IndexType
    BY <2>1, <2>2 DEF IndexType
  <2>5. TodoInv
    BY <2>1, <2>2, <2>3 DEF TodoInv
  <2>6. IndexInv
    BY <2>1, <2>2, <2>3 DEF IndexInv
  <2> QED BY <2>4, <2>5, <2>6 DEF IndexPart
<1>2. CallerPart
  <2>1. /\ keyword = <<>> /\ search = [s \in Searches |-> IdleSearch] /\ lock = Free
        /\ cache = NoEntry /\ faults \in Nat
    BY SearchAssumption DEF Init
  <2>2. CallerType
    BY <2>1, IdleIsSound, NoEntryIsSound DEF CallerType
  <2>3. \A s \in Searches : search[s] = IdleSearch
    BY <2>1
  <2>4. TurnInv
    BY <2>1, <2>3, IdleIsSound, SearchAssumption DEF TurnInv
  <2> QED BY <2>1, <2>2, <2>3, <2>4, IdleIsSound, NoEntryIsSound DEF CallerPart
<1> QED BY <1>1, <1>2 DEF SearchInv

LEMMA BuildKeeps ==
  ASSUME IndexPart, NEW b \in Builders, BuildStep(b) PROVE IndexPart'
BY WipeKeeps, CreateKeeps, ScanKeeps, WriteBatchKeeps, EndBuildKeeps DEF BuildStep

LEMMA SearchKeeps ==
  ASSUME IndexPart, CallerPart, NEW s \in Searches, SearchStep(s) PROVE CallerPart'
BY CacheHitKeeps, CacheMissKeeps, AskCollectionKeeps, RankKeeps, StoreKeeps, ReturnKeeps DEF SearchStep

LEMMA NextInv == SearchInv /\ [Next]_vars => SearchInv'
<1> SUFFICES ASSUME SearchInv, [Next]_vars PROVE SearchInv'
  OBVIOUS
<1>1. IndexPart /\ CallerPart
  BY DEF SearchInv
<1>2. Server \in Builders
  BY DEF Builders
<1>3. CASE StartServer \/ CountPoints
  BY <1>1, <1>2, <1>3, StartServerKeeps, CountPointsKeeps, BuildersKeepCallers DEF SearchInv
<1>4. CASE InitRetriever
  BY <1>1, <1>4, InitRetrieverKeeps, ServerKeepsCallers DEF SearchInv
<1>5. CASE StopServer
  <2>1. IndexPart'
    <3>1. UNCHANGED <<collection, builder, torn>>
      BY <1>5 DEF StopServer
    <3> QED BY <1>1, <3>1, IndexStays
  <2> QED BY <1>1, <1>5, <2>1, ServerKeepsCallers DEF SearchInv
<1>6. CASE ExpireEntry
  <2>1. IndexPart'
    <3>1. UNCHANGED <<collection, builder, torn>>
      BY <1>6 DEF ExpireEntry
    <3> QED BY <1>1, <3>1, IndexStays
  <2> QED BY <1>1, <1>6, <2>1, ExpireEntryKeeps DEF SearchInv
<1>7. ASSUME NEW b \in Builders, StartRebuild(b) \/ BuildStep(b) \/ StopBuild(b) PROVE SearchInv'
  <2>1. IndexPart'
    BY <1>1, <1>7, StartRebuildKeeps, BuildKeeps, StopBuildKeeps
  <2>2. CallerPart'
    BY <1>1, <1>7, BuildersKeepCallers
  <2> QED BY <2>1, <2>2 DEF SearchInv
<1>8. ASSUME NEW s \in Searches,
             BeginToolSearch(s) \/ BeginServiceSearch(s) \/ SearchStep(s) \/ CollectionFails(s)
      PROVE  SearchInv'
  <2>1. IndexPart'
    BY <1>1, <1>8, SearchesKeepIndex
  <2>2. CallerPart'
    BY <1>1, <1>8, BeginToolSearchKeeps, BeginServiceSearchKeeps, SearchKeeps, CollectionFailsKeeps
  <2> QED BY <2>1, <2>2 DEF SearchInv
<1>9. CASE UNCHANGED vars
  <2>1. UNCHANGED <<collection, builder, torn>> /\ UNCHANGED <<keyword, search, lock, cache>> /\ faults' \in Nat
    BY <1>1, <1>9, FaultsAreNat DEF vars
  <2> QED BY <1>1, <2>1, IndexStays, CallerStays DEF SearchInv
<1> QED BY <1>3, <1>4, <1>5, <1>6, <1>7, <1>8, <1>9 DEF Next

LEMMA Invariance == Spec => []SearchInv
BY InitInv, NextInv, PTL DEF Spec

-----------------------------------------------------------------------------
(* What the system promises.                                                *)

LEMMA InvTypes == SearchInv => TypeOK
<1> SUFFICES ASSUME SearchInv PROVE TypeOK
  OBVIOUS
<1>1. IndexType /\ TodoInv /\ CallerType /\ TurnInv /\ SoundEntry(cache)
  BY DEF SearchInv, IndexPart, CallerPart
<1>2. collection.exists \in BOOLEAN /\ collection.points \subseteq Chunks
  BY <1>1, CollectionIs
<1>3. ASSUME NEW b \in Builders
      PROVE  /\ builder[b].at \in {"off", "count", "wipe", "create", "scan", "write", "loaded", "done"}
             /\ builder[b].todo # <<>> => builder[b].at = "write" /\ IsInjective(builder[b].todo)
  BY <1>1 DEF IndexType, BuildType, TodoInv, At
<1>4. ASSUME NEW s \in Searches
      PROVE  /\ search[s].at \in {"idle", "lookup", "vector", "rank", "store", "done"}
             /\ IsInjective(Docs(search[s].results)) /\ Len(search[s].results) <= FINAL_TOP_K
  <2>1. search[s] \in SearchType /\ Sound(search[s])
    BY <1>1 DEF CallerType, SearchInv, CallerPart
  <2> QED BY <2>1 DEF SearchType, Sound, IsAnswer
<1> QED BY <1>1, <1>2, <1>3, <1>4 DEF TypeOK, TodoInv, CallerType, TurnInv, SoundEntry

\* Whatever searches, builders, the cache and faults do: only a writing
\* builder has chunks to write and none of them twice, the tool's searches
\* hold its lock and no other does, no result names a law twice or exceeds the
\* limit, and the cache never keeps an empty result.
THEOREM TypeCorrect == Spec => []TypeOK
BY Invariance, InvTypes, PTL

LEMMA InvIndex == SearchInv => IndexIsWhole
<1> SUFFICES ASSUME SearchInv, \A b \in Builders : At(b, "off") \/ At(b, "done"), ~torn
             PROVE  Whole \/ collection.points = {}
  BY DEF IndexIsWhole
<1>1. IndexInv
  BY DEF SearchInv, IndexPart
<1>2. \A b \in Builders : ~Completes(b)
  BY DEF Completes, At
<1> QED BY <1>1, <1>2 DEF IndexInv

\* A server's build and any number of rebuilds, each with batches of any size,
\* leave the collection with every text of the corpus or with none, unless one
\* of them died while it wrote.
THEOREM IndexIsWholeHolds == Spec => []IndexIsWhole
BY Invariance, InvIndex, PTL

LEMMA InvServed == SearchInv => HitsAreServed
<1> SUFFICES ASSUME SearchInv, NEW s \in Searches, search[s].at = "done", search[s].found
             PROVE  /\ Answer(s) # <<>> /\ ToSet(Docs(Answer(s))) \cap Superseded = {}
                    /\ s \in Tools => Status(Answer(s)) # "no_relevant_result"
  BY DEF HitsAreServed
<1>1. search[s] \in SearchType /\ Sound(search[s])
  BY DEF SearchInv, CallerPart, CallerType
<1>2. search[s].results # <<>> /\ DocsIn(search[s].results) \subseteq Current
  BY <1>1 DEF Sound, DocsIn
<1>3. search[s].results \in HitLists /\ search[s].reranked \in BOOLEAN
  BY <1>1 DEF SearchType
<1>4. Answer(s) # <<>> /\ DocsIn(Answer(s)) \subseteq DocsIn(search[s].results)
  BY <1>2, <1>3, KeptIs DEF Answer
<1>5. DocsIn(Answer(s)) \cap Superseded = {}
  BY <1>2, <1>4 DEF Current
<1>6. Status(Answer(s)) # "no_relevant_result"
  BY <1>4 DEF Status
<1> QED BY <1>4, <1>5, <1>6 DEF DocsIn

\* However many variants are asked, whichever source or reranker fails and
\* wherever the threshold lies: a search in which some source had a current
\* law answers with one, and never with a superseded one.
THEOREM HitsAreServedHolds == Spec => []HitsAreServed
BY Invariance, InvServed, PTL

=============================================================================
