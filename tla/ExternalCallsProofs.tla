-------------------------- MODULE ExternalCallsProofs --------------------------
(***************************************************************************)
(* Proofs about what turns spend outside the process, for any number of     *)
(* turns, providers, calls, attempts and days and any limits.               *)
(***************************************************************************)
EXTENDS ExternalCalls, FiniteSetTheorems, TLAPS

Last == Len(get_llm)

TurnType ==
    [at      : {"idle", "node", "model", "platform"},
     left    : 0 .. MaxCalls,
     client  : 0 .. Last,
     attempt : Nat,
     first   : 0 .. Last,
     asked   : SUBSET Clients,
     raised  : Clients \cup {NoOne, Store, Config},
     law     : {"none", "found", "no_relevant_result", "error_retryable", "error"}]

TypeInv ==
    /\ today \in 1..LastDay
    /\ quota \in [1..LastDay -> [requests : Nat, tokens : Nat]]
    /\ turn \in [Turns -> TurnType]
    /\ begun \in Nat
    /\ keys \subseteq Providers

\* A call has asked the candidates in front of the one it is at, and remembers
\* the primary's error from the second candidate on.
CallInv(c) ==
    /\ c.at = "idle" => c.left = 0
    /\ c.at # "node" => c.raised = NoOne
    /\ c.at = "model" =>
          /\ c.left < MaxCalls
          /\ c.client \in Clients
          /\ 1 .. c.client - 1 \subseteq c.asked
          /\ c.first = IF c.client = 1 THEN NoOne ELSE 1
    /\ c.at = "node" /\ c.raised \in Clients => c.raised = 1 /\ c.asked = Clients

\* What a turn may still spend: the calls it has left and the one it is in.
Open(c)    == c.left + (IF c.at = "model" THEN 1 ELSE 0)
OpenCalls  == [t \in Turns |-> Open(turn[t])]
Requests   == [d \in 1..LastDay |-> quota[d].requests]
Tokens     == [d \in 1..LastDay |-> quota[d].tokens]
MostOpen   == Cardinality(Turns) * MaxCalls

\* What was spent, with what may still be spent, keeps to the bounds: today's
\* tokens while turns are under way, and all tokens for all admitted turns.
SpendInv ==
    /\ \A d \in 1..LastDay : quota[d].requests <= RequestLimit
    /\ \A d \in 1..LastDay : d < today => quota[d].tokens < TokenLimit + MostOpen * Usage
    /\ quota[today].tokens + Total(OpenCalls) * Usage < TokenLimit + MostOpen * Usage
    /\ \A d \in 1..LastDay : d > today => quota[d].tokens = 0
    /\ Total(Tokens) + Total(OpenCalls) * Usage <= Total(Requests) * MaxCalls * Usage

AllCallInv == \A t \in Turns : CallInv(turn[t])

-----------------------------------------------------------------------------
(* Sums, counted unit by unit.                                              *)

\* The units of a function on a finite set are finitely many.
LEMMA UnitsAreFinite ==
    ASSUME NEW S, IsFiniteSet(S), NEW f \in [S -> Nat]
    PROVE  IsFiniteSet(Units(f)) /\ Total(f) \in Nat
<1> DEFINE part(x) == {x} \X (1 .. f[x])
           image   == {part(x) : x \in S}
           g       == [x \in S |-> part(x)]
<1>1. IsFiniteSet(image)
  <2>1. g \in Surjection(S, image)
    BY DEF Surjection
  <2> HIDE DEF g, image
  <2> QED  BY <2>1, FS_Surjection
<1>2. \A x \in S : IsFiniteSet(part(x))
  <2>1. ASSUME NEW x \in S PROVE IsFiniteSet({x} \X (1 .. f[x]))
    <3> DEFINE one == {x}
               all == 1 .. f[x]
    <3>1. 1 \in Int /\ f[x] \in Int
      OBVIOUS
    <3>2. IsFiniteSet(one) /\ IsFiniteSet(all)
      BY <3>1, FS_Singleton, FS_Interval
    <3> HIDE DEF one, all
    <3>3. IsFiniteSet(one \X all)
      BY <3>2, FS_Product
    <3> QED  BY <3>3 DEF one, all
  <2> QED  BY <2>1
<1>3. \A T \in image : IsFiniteSet(T)
  BY <1>2
<1>4. Units(f) = UNION image
  BY DEF Units
<1> HIDE DEF image
<1>5. IsFiniteSet(Units(f))
  BY <1>1, <1>3, <1>4, FS_UNION
<1> QED  BY <1>5, FS_CardinalityType DEF Total

\* Adding n units at one place adds n to the sum.
LEMMA TotalUpdate ==
    ASSUME NEW S, IsFiniteSet(S), NEW f \in [S -> Nat], NEW x \in S, NEW n \in Nat,
           NEW g \in [S -> Nat], g[x] = f[x] + n, \A y \in S \ {x} : g[y] = f[y]
    PROVE  Total(g) = Total(f) + n
<1> DEFINE more == (f[x] + 1) .. (f[x] + n)
           new  == {x} \X more
<1>1. IsFiniteSet(more) /\ Cardinality(more) = n
  <2>1. f[x] + 1 \in Int /\ f[x] + n \in Int
    OBVIOUS
  <2>2. /\ IsFiniteSet(more)
        /\ Cardinality(more) = IF f[x] + 1 > f[x] + n THEN 0 ELSE (f[x] + n) - (f[x] + 1) + 1
    BY <2>1, FS_Interval
  <2>3. f[x] \in Nat
    OBVIOUS
  <2> HIDE DEF more
  <2> QED  BY <2>2, <2>3
<1>2. IsFiniteSet(new) /\ Cardinality(new) = n
  <2>1. IsFiniteSet({x}) /\ Cardinality({x}) = 1
    BY FS_Singleton
  <2> HIDE DEF more
  <2>2. IsFiniteSet({x} \X more) /\ Cardinality({x} \X more) = Cardinality({x}) * Cardinality(more)
    BY <1>1, <2>1, FS_Product
  <2> QED  BY <1>1, <2>1, <2>2
<1>3. Units(g) = Units(f) \cup new
  <2>1. 1 .. g[x] = (1 .. f[x]) \cup more
    BY SMT
  <2>2. \A p : p \in Units(g) <=> \E y \in S : p \in {y} \X (1 .. g[y])
    BY DEF Units
  <2>3. \A p : p \in Units(f) <=> \E y \in S : p \in {y} \X (1 .. f[y])
    BY DEF Units
  <2> HIDE DEF more
  <2>4. ASSUME NEW p PROVE p \in Units(g) <=> p \in Units(f) \cup new
    <3>1. p \in {x} \X (1 .. g[x]) <=> p \in {x} \X (1 .. f[x]) \/ p \in new
      BY <2>1
    <3>2. \A y \in S \ {x} : p \in {y} \X (1 .. g[y]) <=> p \in {y} \X (1 .. f[y])
      OBVIOUS
    <3> HIDE DEF new
    <3> QED  BY <2>2, <2>3, <3>1, <3>2
  <2> QED  BY <2>4
<1>4. Units(f) \cap new = {}
  <2>1. \A k : ~(k \in 1 .. f[x] /\ k \in more)
    OBVIOUS
  <2> HIDE DEF more
  <2> QED  BY <2>1 DEF Units
<1>5. IsFiniteSet(Units(f)) /\ Cardinality(Units(f)) \in Nat
  BY UnitsAreFinite DEF Total
<1> HIDE DEF new
<1>6. Cardinality(Units(f) \cup new) = Cardinality(Units(f)) + Cardinality(new) - Cardinality(Units(f) \cap new)
  BY <1>2, <1>5, FS_Union
<1>7. Cardinality(Units(f) \cap new) = 0
  BY <1>4, FS_EmptySet
<1> QED  BY <1>2, <1>3, <1>5, <1>6, <1>7 DEF Total

\* A sum grows with its terms.
LEMMA TotalMonotone ==
    ASSUME NEW S, IsFiniteSet(S), NEW f \in [S -> Nat], NEW g \in [S -> Nat],
           \A x \in S : f[x] <= g[x]
    PROVE  Total(f) <= Total(g)
<1>1. \A x \in S : 1 .. f[x] \subseteq 1 .. g[x]
  OBVIOUS
<1>2. Units(f) \subseteq Units(g)
  BY <1>1 DEF Units
<1>3. IsFiniteSet(Units(g))
  BY UnitsAreFinite
<1> QED  BY <1>2, <1>3, FS_Subset DEF Total

\* A sum of n terms of at most m is at most n * m.
LEMMA TotalBound ==
    ASSUME NEW S, IsFiniteSet(S), NEW m \in Nat, NEW f \in [S -> 0 .. m]
    PROVE  Total(f) <= Cardinality(S) * m
<1>1. \A x \in S : 1 .. f[x] \subseteq 1 .. m
  OBVIOUS
<1>2. Units(f) \subseteq S \X (1 .. m)
  BY <1>1 DEF Units
<1>3. IsFiniteSet(1 .. m) /\ Cardinality(1 .. m) = m
  <2>1. 1 \in Int /\ m \in Int
    OBVIOUS
  <2>2. IsFiniteSet(1 .. m) /\ Cardinality(1 .. m) = IF 1 > m THEN 0 ELSE m - 1 + 1
    BY <2>1, FS_Interval
  <2> QED  BY <2>2
<1>4. IsFiniteSet(S \X (1 .. m)) /\ Cardinality(S \X (1 .. m)) = Cardinality(S) * Cardinality(1 .. m)
  BY <1>3, FS_Product
<1>5. Cardinality(Units(f)) <= Cardinality(S \X (1 .. m))
  BY <1>2, <1>4, FS_Subset
<1> QED  BY <1>3, <1>4, <1>5 DEF Total

\* A sum of nothing is zero.
LEMMA TotalZero ==
    ASSUME NEW S, NEW f \in [S -> {0}]
    PROVE  Total(f) = 0
<1>1. Units(f) = {}
  <2>1. 1 .. 0 = {}
    OBVIOUS
  <2>2. \A x \in S : f[x] = 0
    OBVIOUS
  <2> QED  BY <2>1, <2>2 DEF Units
<1> QED  BY <1>1, FS_EmptySet DEF Total

-----------------------------------------------------------------------------
(* The candidates of a call and the moves of a turn.                        *)

LEMMA Constants ==
    /\ MaxAttempts \in Nat /\ RequestLimit \in Nat \ {0} /\ TokenLimit \in Nat \ {0}
    /\ Usage \in Nat \ {0} /\ LastDay \in Nat \ {0} /\ MaxCalls \in Nat /\ MaxTurns \in Nat
    /\ IsFiniteSet(Turns) /\ Cardinality(Turns) \in Nat /\ MostOpen \in Nat
<1>1. /\ MaxAttempts \in Nat /\ RequestLimit \in Nat \ {0} /\ TokenLimit \in Nat \ {0}
      /\ Usage \in Nat \ {0} /\ LastDay \in Nat \ {0} /\ MaxCalls \in Nat /\ MaxTurns \in Nat
      /\ IsFiniteSet(Turns)
  BY CallsAssumption
<1>2. Cardinality(Turns) \in Nat
  BY <1>1, FS_CardinalityType
<1> QED  BY <1>1, <1>2 DEF MostOpen

\* A call has a first candidate, whatever the list of fallbacks holds.
LEMMA ClientsAre == Last \in Nat \ {0} /\ Clients = 1 .. Last /\ 1 \in Clients
<1> DEFINE names == FallbackList
           kept == {i \in DOMAIN names : /\ names[i] \in Providers \ {Primary}
                                         /\ \A j \in 1 .. i - 1 : names[j] # names[i]}
           nth(k) == CHOOSE i \in kept : Cardinality({j \in kept : j <= i}) = k
           n == Cardinality(kept)
           rest == [k \in 1 .. n |-> names[nth(k)]]
           all == {names[nth(k)] : k \in 1 .. n}
<1>1. n \in Nat
  <2>1. FallbackList \in Seq(STRING)
    BY CallsAssumption
  <2>2. DOMAIN names = 1 .. Len(names) /\ Len(names) \in Nat
    BY <2>1
  <2>3. IsFiniteSet(DOMAIN names)
    BY <2>2, FS_Interval
  <2>4. IsFiniteSet(kept)
    BY <2>3, FS_Subset
  <2> QED  BY <2>4, FS_CardinalityType
<1>2. rest = _fallback_provider_names(FallbackList)
  BY DEF _fallback_provider_names
<1> HIDE DEF n
<1>3. rest \in [1 .. n -> all]
  OBVIOUS
<1> HIDE DEF rest, all
<1>4. rest \in Seq(all \cup {Primary}) /\ Len(rest) = n
  BY <1>1, <1>3
<1>5. <<Primary>> \in Seq(all \cup {Primary}) /\ Len(<<Primary>>) = 1
  OBVIOUS
<1>6. /\ <<Primary>> \o rest \in Seq(all \cup {Primary})
      /\ Len(<<Primary>> \o rest) = 1 + n
  BY <1>4, <1>5
<1>7. get_llm = <<Primary>> \o rest
  BY <1>2 DEF get_llm
<1> HIDE DEF get_llm
<1>8. DOMAIN get_llm = 1 .. Len(get_llm) /\ Len(get_llm) = 1 + n
  BY <1>6, <1>7
<1> QED  BY <1>1, <1>8 DEF Last, Clients

\* Client numbers, and none.
LEMMA ErrorsAre ==
    /\ NoOne = 0 /\ 0 .. Last = Clients \cup {0} /\ NoOne \notin Clients
    /\ Store \notin Clients /\ Config \notin Clients
    /\ \A i \in Clients : i \in Nat /\ 1 <= i /\ i <= Last
BY ClientsAre DEF NoOne, Store, Config

LEMMA IdleType ==
    /\ Idle \in TurnType /\ CallInv(Idle) /\ Open(Idle) = 0 /\ Idle.left = 0
    /\ Idle.at = "idle" /\ Idle.raised = NoOne
BY ClientsAre, ErrorsAre, Constants DEF Idle, TurnType, CallInv, Open, NoOne

\* The end of a call: its error, or none, and which candidates were asked.
LEMMA ReturnsType ==
    ASSUME NEW c \in TurnType, NEW raised \in Clients \cup {NoOne, Store, Config},
           raised \in Clients => raised = 1 /\ c.asked = Clients
    PROVE  /\ Returns(c, raised) \in TurnType
           /\ CallInv(Returns(c, raised))
           /\ Open(Returns(c, raised)) = c.left
<1> DEFINE r == Returns(c, raised)
<1>1. /\ r \in TurnType
      /\ r.at = "node" /\ r.raised = raised /\ r.left = c.left
      /\ r.asked = IF raised \in Clients THEN c.asked ELSE {}
  BY ClientsAre, ErrorsAre DEF Returns, TurnType
<1>2. r.left \in Nat
  BY <1>1, Constants DEF TurnType
<1> HIDE DEF r
<1>3. CallInv(r)
  BY <1>1 DEF CallInv
<1>4. Open(r) = c.left
  BY <1>1, <1>2 DEF Open
<1> QED  BY <1>1, <1>3, <1>4 DEF r

\* An attempt that fails is repeated, goes to the next candidate or ends the
\* call with the primary's error, once every candidate was asked.
LEMMA FailedType ==
    ASSUME NEW c \in TurnType, CallInv(c), c.at = "model", c.client \in c.asked,
           NEW answer, NEW record
    PROVE  /\ Failed(c, answer, record) \in TurnType
           /\ CallInv(Failed(c, answer, record))
           /\ Open(Failed(c, answer, record)) <= Open(c)
<1>0. /\ c.client \in Clients /\ 1 .. c.client - 1 \subseteq c.asked
      /\ c.first = IF c.client = 1 THEN NoOne ELSE 1
      /\ c.raised = NoOne /\ c.left \in Nat /\ c.attempt \in Nat /\ c.left < MaxCalls
      /\ c.asked \subseteq Clients
  BY Constants DEF CallInv, TurnType
<1>1. Open(c) = c.left + 1
  BY <1>0 DEF Open
<1>2. /\ Again(c) \in TurnType /\ CallInv(Again(c)) /\ Open(Again(c)) = Open(c)
  <2>1. /\ Again(c) \in TurnType /\ Again(c).at = "model" /\ Again(c).left = c.left
        /\ Again(c).client = c.client /\ Again(c).asked = c.asked
        /\ Again(c).first = c.first /\ Again(c).raised = c.raised
    BY <1>0 DEF Again, TurnType
  <2> QED  BY <1>0, <2>1 DEF CallInv, Open
<1>3. /\ Returns(c, Store) \in TurnType /\ CallInv(Returns(c, Store))
      /\ Open(Returns(c, Store)) = c.left
  BY ReturnsType, ErrorsAre
<1>4. /\ NextClient(c, answer) \in TurnType /\ CallInv(NextClient(c, answer))
      /\ Open(NextClient(c, answer)) <= Open(c)
  <2> DEFINE first == IF c.first = NoOne THEN c.client ELSE c.first
             next == [c EXCEPT !.client = @ + 1, !.attempt = 1, !.first = first]
  <2>1. first = 1
    BY <1>0, ErrorsAre
  <2>2. CASE c.client < Len(get_llm)
    <3>1. NextClient(c, answer) = next
      BY <2>2 DEF NextClient
    <3>2. c.client + 1 \in Clients
      BY <1>0, <2>2, ClientsAre DEF Last
    <3>3. /\ next \in TurnType /\ next.at = "model" /\ next.left = c.left
          /\ next.client = c.client + 1 /\ next.first = 1
          /\ next.asked = c.asked /\ next.raised = c.raised
      BY <2>1, <3>2, ClientsAre, ErrorsAre DEF TurnType
    <3>4. 1 .. next.client - 1 \subseteq next.asked
      <4>1. 1 .. next.client - 1 = 1 .. c.client
        BY <1>0, <3>3, ErrorsAre
      <4>2. 1 .. c.client \subseteq (1 .. c.client - 1) \cup {c.client}
        BY <1>0, ErrorsAre
      <4> QED  BY <1>0, <3>3, <4>1, <4>2
    <3>5. next.client # 1
      BY <1>0, <3>3, ErrorsAre
    <3> HIDE DEF next
    <3>6. CallInv(next)
      BY <1>0, <3>2, <3>3, <3>4, <3>5 DEF CallInv
    <3>7. Open(next) = Open(c)
      BY <1>1, <3>3 DEF Open
    <3> QED  BY <1>0, <1>1, <3>1, <3>3, <3>6, <3>7
  <2>3. CASE ~(c.client < Len(get_llm))
    <3>1. NextClient(c, answer) = Returns(c, 1)
      BY <2>1, <2>3 DEF NextClient
    <3>2. c.client = Last
      BY <1>0, <2>3, ClientsAre, ErrorsAre DEF Last
    <3>3. Clients \subseteq c.asked
      <4>1. Clients \subseteq (1 .. c.client - 1) \cup {c.client}
        BY <3>2, ClientsAre
      <4> QED  BY <1>0, <4>1
    <3>4. c.asked = Clients
      BY <1>0, <3>3
    <3>5. /\ Returns(c, 1) \in TurnType /\ CallInv(Returns(c, 1))
          /\ Open(Returns(c, 1)) = c.left
      BY <3>4, ClientsAre, ReturnsType
    <3> QED  BY <1>0, <1>1, <3>1, <3>5
  <2> QED  BY <2>2, <2>3
<1> QED  BY <1>0, <1>1, <1>2, <1>3, <1>4 DEF Failed

\* A search ends without a model's error.
LEMMA FoundType ==
    ASSUME NEW c \in TurnType, c.at = "platform", CallInv(c), NEW outcome
    PROVE  /\ Found(c, outcome) \in TurnType /\ CallInv(Found(c, outcome))
           /\ Open(Found(c, outcome)) = Open(c)
<1> DEFINE f == Found(c, outcome)
           law == SearchResult(IF outcome = "transient" THEN outcome
                               ELSE normalize_law_response(outcome))
<1>1. law \in {"found", "no_relevant_result", "error_retryable", "error"}
  BY DEF SearchResult
<1> HIDE DEF law
<1>2. f = [c EXCEPT !.at = "node", !.attempt = 0, !.law = law]
  BY DEF Found, law
<1>3. /\ f \in TurnType /\ f.at = "node" /\ f.left = c.left /\ f.raised = c.raised
      /\ c.left \in Nat
  <2>1. c.left \in Nat
    BY Constants DEF TurnType
  <2>2. "node" \in {"idle", "node", "model", "platform"} /\ 0 \in Nat
        /\ law \in {"none", "found", "no_relevant_result", "error_retryable", "error"}
    BY <1>1
  <2> HIDE DEF f
  <2> QED  BY <1>2, <2>1, <2>2 DEF TurnType
<1> HIDE DEF f
<1>4. c.raised = NoOne
  BY DEF CallInv
<1> QED  BY <1>3, <1>4, ErrorsAre DEF CallInv, Open, f

-----------------------------------------------------------------------------
(* One lemma per kind of step.                                              *)

CallsInv == TypeInv /\ AllCallInv /\ SpendInv

LEMMA OpenType ==
    ASSUME NEW c \in TurnType, CallInv(c)
    PROVE  Open(c) \in 0 .. MaxCalls
<1>1. c.left \in 0 .. MaxCalls
  BY DEF TurnType
<1> QED  BY <1>1, Constants DEF Open, CallInv

\* The sums the spending is bounded by.
LEMMA SumsType ==
    ASSUME TypeInv, AllCallInv
    PROVE  /\ OpenCalls \in [Turns -> 0 .. MaxCalls] /\ OpenCalls \in [Turns -> Nat]
           /\ Requests \in [1..LastDay -> Nat] /\ Tokens \in [1..LastDay -> Nat]
           /\ Total(OpenCalls) \in Nat /\ Total(Requests) \in Nat /\ Total(Tokens) \in Nat
           /\ Total(OpenCalls) <= MostOpen
<1>1. OpenCalls \in [Turns -> 0 .. MaxCalls]
  BY OpenType DEF OpenCalls, TypeInv, AllCallInv
<1>2. OpenCalls \in [Turns -> Nat]
  BY <1>1, Constants
<1>3. Requests \in [1..LastDay -> Nat] /\ Tokens \in [1..LastDay -> Nat]
  BY DEF TypeInv, Requests, Tokens
<1>4. IsFiniteSet(1..LastDay) /\ IsFiniteSet(Turns)
  BY Constants, FS_Interval
<1>5. Total(OpenCalls) \in Nat
  BY <1>2, <1>4, UnitsAreFinite
<1>6. Total(Requests) \in Nat /\ Total(Tokens) \in Nat
  <2> DEFINE D == 1..LastDay
  <2>1. IsFiniteSet(D) /\ Requests \in [D -> Nat] /\ Tokens \in [D -> Nat]
    BY <1>3, <1>4
  <2> HIDE DEF D
  <2> QED  BY <2>1, UnitsAreFinite
<1>7. Total(OpenCalls) <= MostOpen
  BY <1>1, <1>4, Constants, TotalBound DEF MostOpen
<1> QED  BY <1>1, <1>2, <1>3, <1>5, <1>6, <1>7

\* A turn that moves changes the open calls by its own.
LEMMA TurnMoves ==
    ASSUME TypeInv, AllCallInv, NEW t \in Turns, NEW c \in TurnType, CallInv(c),
           turn' = [turn EXCEPT ![t] = c]
    PROVE  /\ turn' \in [Turns -> TurnType]
           /\ AllCallInv'
           /\ Total(OpenCalls') \in Nat
           /\ Total(OpenCalls') + Open(turn[t]) = Total(OpenCalls) + Open(c)
<1>1. /\ turn' \in [Turns -> TurnType] /\ turn'[t] = c
      /\ \A u \in Turns \ {t} : turn'[u] = turn[u]
  BY DEF TypeInv
<1>2. AllCallInv'
  BY <1>1 DEF AllCallInv, CallInv
<1> DEFINE old == OpenCalls
           new == [u \in Turns |-> Open(turn'[u])]
<1>3. OpenCalls' = new
  BY DEF OpenCalls, Open
<1>4. \A u \in Turns : CallInv(turn'[u])
  BY <1>1 DEF AllCallInv
<1>5. old \in [Turns -> Nat] /\ new \in [Turns -> Nat]
  <2>1. \A u \in Turns : Open(turn'[u]) \in Nat
    BY <1>1, <1>4, OpenType, Constants
  <2> QED  BY <2>1, SumsType
<1>6. /\ old[t] = Open(turn[t]) /\ new[t] = Open(c)
      /\ \A u \in Turns \ {t} : new[u] = old[u]
  BY <1>1 DEF OpenCalls
<1> HIDE DEF old, new
<1>7. Total(old) \in Nat /\ Total(new) \in Nat
  BY <1>5, Constants, UnitsAreFinite
<1>8. CASE old[t] <= new[t]
  <2> DEFINE n == new[t] - old[t]
  <2>1. n \in Nat /\ new[t] = old[t] + n
    BY <1>5, <1>8
  <2> HIDE DEF n
  <2>2. Total(new) = Total(old) + n
    BY <1>5, <1>6, <2>1, Constants, TotalUpdate
  <2>3. old[t] \in Nat
    BY <1>5
  <2>4. Total(new) + old[t] = Total(old) + new[t]
    BY <1>7, <2>1, <2>2, <2>3
  <2> QED  BY <1>1, <1>2, <1>3, <1>6, <1>7, <2>4 DEF old
<1>9. CASE new[t] <= old[t]
  <2> DEFINE n == old[t] - new[t]
  <2>1. n \in Nat /\ old[t] = new[t] + n
    BY <1>5, <1>9
  <2> HIDE DEF n
  <2>2. Total(old) = Total(new) + n
    BY <1>5, <1>6, <2>1, Constants, TotalUpdate
  <2>3. new[t] \in Nat
    BY <1>5
  <2>4. Total(new) + old[t] = Total(old) + new[t]
    BY <1>7, <2>1, <2>2, <2>3
  <2> QED  BY <1>1, <1>2, <1>3, <1>6, <1>7, <2>4 DEF old
<1>10. old[t] <= new[t] \/ new[t] <= old[t]
  <2>1. old[t] \in Nat /\ new[t] \in Nat
    BY <1>5
  <2> QED  BY <2>1
<1> QED  BY <1>8, <1>9, <1>10

\* Products with the price of a call.
LEMMA Times ==
    ASSUME NEW a \in Nat, NEW b \in Nat, NEW u \in Nat
    PROVE  /\ a * u \in Nat
           /\ a <= b => a * u <= b * u
           /\ (a + b) * u = a * u + b * u
BY SMT

\* Where nothing is spent and no call begins, the bounds stay.
LEMMA NothingSpent ==
    ASSUME CallsInv, UNCHANGED <<today, quota>>, Total(OpenCalls') \in Nat,
           Total(OpenCalls') <= Total(OpenCalls)
    PROVE  SpendInv'
<1> DEFINE o == Total(OpenCalls)
           n == Total(OpenCalls')
<1>1. /\ o \in Nat /\ Total(Tokens) \in Nat /\ Total(Requests) \in Nat
      /\ quota[today].tokens \in Nat
  BY SumsType DEF CallsInv, TypeInv
<1>2. Requests' = Requests /\ Tokens' = Tokens
  BY DEF Requests, Tokens
<1>3. n \in Nat /\ n <= o
  OBVIOUS
<1> HIDE DEF o, n
<1>4. n * Usage <= o * Usage /\ n * Usage \in Nat /\ o * Usage \in Nat
  BY <1>1, <1>3, Constants, Times
<1>5. MostOpen * Usage \in Nat
  BY Constants, Times
<1>6. quota[today].tokens + n * Usage < TokenLimit + MostOpen * Usage
  <2>1. quota[today].tokens + o * Usage < TokenLimit + MostOpen * Usage
    BY DEF CallsInv, SpendInv, o
  <2> QED  BY <1>1, <1>4, <1>5, <2>1, Constants
<1>7. Total(Requests) * MaxCalls * Usage \in Nat
  BY <1>1, Constants, Times
<1>8. Total(Tokens) + n * Usage <= Total(Requests) * MaxCalls * Usage
  <2>1. Total(Tokens) + o * Usage <= Total(Requests) * MaxCalls * Usage
    BY DEF CallsInv, SpendInv, o
  <2> QED  BY <1>1, <1>4, <1>7, <2>1
<1>9. MostOpen' = MostOpen
  BY DEF MostOpen
<1> QED  BY <1>2, <1>6, <1>8, <1>9 DEF SpendInv, CallsInv, n

\* A turn that moves without spending keeps the invariant.
LEMMA FreeMove ==
    ASSUME CallsInv, NEW t \in Turns, NEW c \in TurnType, CallInv(c),
           turn' = [turn EXCEPT ![t] = c], Open(c) <= Open(turn[t]),
           UNCHANGED <<today, quota, begun, keys>>
    PROVE  CallsInv'
<1>1. TypeInv /\ AllCallInv
  BY DEF CallsInv
<1>2. /\ turn' \in [Turns -> TurnType] /\ AllCallInv'
      /\ Total(OpenCalls') \in Nat
      /\ Total(OpenCalls') + Open(turn[t]) = Total(OpenCalls) + Open(c)
  BY <1>1, TurnMoves
<1>3. Total(OpenCalls) \in Nat /\ Open(c) \in Nat /\ Open(turn[t]) \in Nat
  BY <1>1, SumsType, OpenType, Constants DEF TypeInv, AllCallInv
<1>4. Total(OpenCalls') <= Total(OpenCalls)
  BY <1>2, <1>3
<1>5. SpendInv'
  BY <1>2, <1>4, NothingSpent
<1>6. TypeInv'
  BY <1>1, <1>2 DEF TypeInv
<1> QED  BY <1>2, <1>5, <1>6 DEF CallsInv

\* A request is counted while the day has room, and brings MaxCalls open calls.
LEMMA ConsumeStep ==
    ASSUME CallsInv, NEW t \in Turns, consume_request(t) PROVE CallsInv'
<1>1. TypeInv /\ AllCallInv /\ SpendInv
  BY DEF CallsInv
<1>2. /\ turn[t].at = "idle" /\ begun' = begun + 1
      /\ UNCHANGED <<today, keys>>
  BY DEF consume_request
<1>3. today \in 1..LastDay /\ quota[today] \in [requests : Nat, tokens : Nat] /\ begun' \in Nat
  BY <1>1, <1>2 DEF TypeInv
<1>4. /\ Open(turn[t]) = 0 /\ turn[t] \in TurnType /\ CallInv(turn[t])
  BY <1>1, <1>2 DEF TypeInv, AllCallInv, CallInv, Open
<1>5. CASE UNCHANGED <<quota, turn>>
  <2>1. OpenCalls' = OpenCalls /\ AllCallInv'
    BY <1>1, <1>5 DEF OpenCalls, Open, AllCallInv, CallInv
  <2>2. SpendInv'
    BY <1>1, <1>2, <1>5, <2>1, SumsType, NothingSpent
  <2>3. TypeInv'
    BY <1>1, <1>2, <1>3, <1>5 DEF TypeInv
  <2> QED  BY <2>1, <2>2, <2>3 DEF CallsInv
<1>6. CASE /\ Consumes(quota[today])
           /\ quota' = [quota EXCEPT ![today].requests = @ + 1]
  <2> DEFINE c == [Idle EXCEPT !.at = "node", !.left = MaxCalls]
  <2>1. /\ c \in TurnType /\ c.at = "node" /\ c.left = MaxCalls /\ c.raised = NoOne
    <3>1. MaxCalls \in 0 .. MaxCalls
      BY Constants
    <3> QED  BY <3>1, IdleType DEF TurnType
  <2> HIDE DEF c
  <2>2. CallInv(c) /\ Open(c) = MaxCalls
    BY <2>1, ErrorsAre, Constants DEF CallInv, Open
  <2>3. turn' = [turn EXCEPT ![t] = c] \/ turn' = turn
    BY <1>6, <1>3 DEF consume_request, c
  <2>4. /\ turn' \in [Turns -> TurnType] /\ AllCallInv'
        /\ Total(OpenCalls') \in Nat
        /\ Total(OpenCalls') <= Total(OpenCalls) + MaxCalls
    <3>1. CASE turn' = [turn EXCEPT ![t] = c]
      <4>1. /\ turn' \in [Turns -> TurnType] /\ AllCallInv'
            /\ Total(OpenCalls') \in Nat
            /\ Total(OpenCalls') + Open(turn[t]) = Total(OpenCalls) + Open(c)
        BY <1>1, <2>1, <2>2, <3>1, TurnMoves
      <4>2. Total(OpenCalls) \in Nat
        BY <1>1, SumsType
      <4> QED  BY <1>4, <2>2, <4>1, <4>2, Constants
    <3>2. CASE turn' = turn
      <4>1. OpenCalls' = OpenCalls /\ AllCallInv'
        BY <1>1, <3>2 DEF OpenCalls, Open, AllCallInv, CallInv
      <4> QED  BY <1>1, <3>2, <4>1, SumsType, Constants DEF TypeInv
    <3> QED  BY <2>3, <3>1, <3>2
  <2>5. /\ quota' \in [1..LastDay -> [requests : Nat, tokens : Nat]]
        /\ \A d \in 1..LastDay : quota'[d].tokens = quota[d].tokens
        /\ quota'[today].requests = quota[today].requests + 1
        /\ \A d \in (1..LastDay) \ {today} : quota'[d].requests = quota[d].requests
    BY <1>1, <1>3, <1>6 DEF TypeInv
  <2>6. TypeInv'
    BY <1>1, <1>2, <1>3, <2>4, <2>5 DEF TypeInv
  <2>7. Tokens' = Tokens
    BY <2>5 DEF Tokens
  <2>8. Total(Requests') = Total(Requests) + 1
    <3> DEFINE D == 1..LastDay
               f == Requests
               g == [d \in D |-> quota'[d].requests]
    <3>1. f \in [D -> Nat] /\ g \in [D -> Nat] /\ IsFiniteSet(D) /\ today \in D /\ 1 \in Nat
      <4>1. IsFiniteSet(1..LastDay)
        BY Constants, FS_Interval
      <4>2. \A d \in 1..LastDay : quota'[d].requests \in Nat
        BY <2>5
      <4> QED  BY <1>1, <1>3, <4>1, <4>2, SumsType
    <3>2. g[today] = f[today] + 1 /\ \A d \in D \ {today} : g[d] = f[d]
      BY <1>3, <2>5 DEF Requests
    <3> HIDE DEF D, f, g
    <3>3. Total(g) = Total(f) + 1
      BY <3>1, <3>2, TotalUpdate
    <3>4. Requests' = g
      BY DEF Requests, g, D
    <3> QED  BY <3>3, <3>4 DEF f
  <2>9. /\ quota[today].requests < RequestLimit /\ quota[today].tokens < TokenLimit
    BY <1>6 DEF Consumes
  <2>10. Total(OpenCalls') <= MostOpen
    <3>1. \A u \in Turns : Open(turn'[u]) \in 0 .. MaxCalls
      BY <2>4, OpenType DEF AllCallInv, CallInv
    <3> DEFINE new == [u \in Turns |-> Open(turn'[u])]
    <3>2. new \in [Turns -> 0 .. MaxCalls]
      BY <3>1
    <3> HIDE DEF new
    <3>3. Total(new) <= MostOpen
      BY <3>2, Constants, TotalBound DEF MostOpen
    <3>4. OpenCalls' = new
      BY DEF OpenCalls, Open, new
    <3> QED  BY <3>3, <3>4
  <2> DEFINE n == Total(OpenCalls')
             o == Total(OpenCalls)
             r == Total(Requests)
             k == Total(Tokens)
  <2>11. /\ n \in Nat /\ o \in Nat /\ r \in Nat /\ k \in Nat
         /\ n <= o + MaxCalls /\ n <= MostOpen
         /\ k + o * Usage <= r * MaxCalls * Usage
    BY <1>1, <2>4, <2>10, SumsType DEF SpendInv
  <2> HIDE DEF n, o, r, k
  <2>12. quota[today].tokens + n * Usage < TokenLimit + MostOpen * Usage
    <3>1. n * Usage <= MostOpen * Usage /\ n * Usage \in Nat /\ MostOpen * Usage \in Nat
      BY <2>11, Constants, Times
    <3> QED  BY <1>3, <2>9, <3>1, Constants
  <2>13. k + n * Usage <= (r + 1) * MaxCalls * Usage
    <3>1. /\ n * Usage <= (o + MaxCalls) * Usage
          /\ (o + MaxCalls) * Usage = o * Usage + MaxCalls * Usage
          /\ n * Usage \in Nat /\ o * Usage \in Nat /\ MaxCalls * Usage \in Nat
      <4>1. o + MaxCalls \in Nat
        BY <2>11, Constants
      <4> QED  BY <2>11, <4>1, Constants, Times
    <3>2. (r + 1) * MaxCalls * Usage = r * MaxCalls * Usage + MaxCalls * Usage
      <4>1. (r + 1) * MaxCalls = r * MaxCalls + MaxCalls /\ r * MaxCalls \in Nat
        BY <2>11, Constants, SMT
      <4> QED  BY <4>1, Constants, Times
    <3>3. r * MaxCalls * Usage \in Nat
      BY <2>11, Constants, Times
    <3> QED  BY <2>11, <3>1, <3>2, <3>3
  <2>14. \A d \in 1..LastDay : quota'[d].requests <= RequestLimit
    <3>1. quota'[today].requests <= RequestLimit
      <4>1. quota[today].requests \in Nat
        BY <1>3
      <4> QED  BY <2>5, <2>9, <4>1, Constants
    <3> QED  BY <1>1, <2>5, <3>1 DEF SpendInv
  <2>15. SpendInv'
    <3>1. MostOpen' = MostOpen
      BY DEF MostOpen
    <3>2. today' = today
      BY <1>2
    <3> QED
      BY <1>1, <1>3, <2>5, <2>7, <2>8, <2>12, <2>13, <2>14, <3>1, <3>2 DEF SpendInv, n, o, r, k
  <2> QED  BY <2>4, <2>6, <2>15 DEF CallsInv
<1> QED  BY <1>5, <1>6 DEF consume_request

\* A call begins within the turn's allowance, or fails for want of a key.
LEMMA StartCallStep ==
    ASSUME CallsInv, NEW t \in Turns, StartCall(t) PROVE CallsInv'
<1>1. /\ turn[t].at = "node" /\ turn[t].left > 0 /\ turn[t].left \in 0 .. MaxCalls
      /\ UNCHANGED <<today, quota, begun, keys>>
  BY DEF StartCall, CallsInv, TypeInv, TurnType
<1> DEFINE begins == [Idle EXCEPT !.at = "model", !.left = turn[t].left - 1,
                                  !.client = 1, !.attempt = 1]
<1>2. /\ begins \in TurnType /\ begins.at = "model" /\ begins.left = turn[t].left - 1
      /\ begins.client = 1 /\ begins.raised = NoOne /\ begins.first = NoOne
  <2>1. /\ turn[t].left - 1 \in 0 .. MaxCalls /\ 1 \in 0 .. Last /\ 1 \in Nat
    BY <1>1, ClientsAre, Constants
  <2>2. Idle \in TurnType /\ Idle.raised = NoOne /\ Idle.first = NoOne
    BY IdleType DEF Idle
  <2> QED  BY <2>1, <2>2 DEF TurnType
<1>3. turn' = [turn EXCEPT ![t] = begins] \/ turn' = [turn EXCEPT ![t] = Returns(begins, Config)]
  BY DEF StartCall
<1> HIDE DEF begins
<1>4. CallInv(begins) /\ Open(begins) = turn[t].left
  <2>1. 1 .. begins.client - 1 = {}
    BY <1>2
  <2> QED  BY <1>1, <1>2, <2>1, ClientsAre, Constants DEF CallInv, Open
<1>5. /\ Returns(begins, Config) \in TurnType /\ CallInv(Returns(begins, Config))
      /\ Open(Returns(begins, Config)) = turn[t].left - 1
  BY <1>2, ReturnsType, ErrorsAre
<1>6. Open(turn[t]) = turn[t].left
  BY <1>1 DEF Open
<1> QED  BY <1>1, <1>2, <1>3, <1>4, <1>5, <1>6, FreeMove

\* A search begins, on the platform or in the cache.
LEMMA StartSearchStep ==
    ASSUME CallsInv, NEW t \in Turns, StartSearch(t) PROVE CallsInv'
<1>1. /\ turn[t].at = "node" /\ turn[t].left > 0 /\ turn[t].left \in 0 .. MaxCalls
      /\ UNCHANGED <<today, quota, begun, keys>>
  BY DEF StartSearch, CallsInv, TypeInv, TurnType
<1> DEFINE next == [Idle EXCEPT !.at = "platform", !.left = turn[t].left - 1, !.attempt = 1]
<1>2. /\ next \in TurnType /\ next.at = "platform" /\ next.left = turn[t].left - 1
      /\ next.raised = NoOne
  <2>1. turn[t].left - 1 \in 0 .. MaxCalls /\ 1 \in Nat
    BY <1>1, Constants
  <2>2. Idle \in TurnType /\ Idle.raised = NoOne
    BY IdleType
  <2> QED  BY <2>1, <2>2 DEF TurnType
<1>3. \/ turn' = [turn EXCEPT ![t] = next]
      \/ \E outcome : turn' = [turn EXCEPT ![t] = Found(next, outcome)]
  BY DEF StartSearch
<1> HIDE DEF next
<1>4. CallInv(next) /\ Open(next) = turn[t].left - 1
  BY <1>1, <1>2 DEF CallInv, Open
<1>5. Open(turn[t]) = turn[t].left
  BY <1>1 DEF Open
<1>6. ASSUME NEW outcome
      PROVE  /\ Found(next, outcome) \in TurnType /\ CallInv(Found(next, outcome))
             /\ Open(Found(next, outcome)) = turn[t].left - 1
  BY <1>2, <1>4, FoundType
<1>7. turn[t].left - 1 <= turn[t].left
  BY <1>1
<1> QED  BY <1>1, <1>2, <1>3, <1>4, <1>5, <1>6, <1>7, FreeMove

\* The platform answers, or is asked again.
LEMMA PostStep ==
    ASSUME CallsInv, NEW t \in Turns, _post(t) PROVE CallsInv'
<1>1. /\ turn[t] \in TurnType /\ CallInv(turn[t]) /\ turn[t].at = "platform"
      /\ UNCHANGED <<today, quota, begun, keys>>
  BY DEF _post, CallsInv, TypeInv, AllCallInv
<1>2. \/ turn' = [turn EXCEPT ![t] = Again(turn[t])]
      \/ \E outcome : turn' = [turn EXCEPT ![t] = Found(turn[t], outcome)]
  BY DEF _post, CallsInv, TypeInv
<1>3. /\ Again(turn[t]) \in TurnType /\ Again(turn[t]).at = "platform"
      /\ Again(turn[t]).left = turn[t].left /\ Again(turn[t]).raised = turn[t].raised
  BY <1>1 DEF Again, TurnType
<1>4. CallInv(Again(turn[t])) /\ Open(Again(turn[t])) = Open(turn[t])
  BY <1>1, <1>3 DEF CallInv, Open
<1>5. Open(turn[t]) \in Nat
  BY <1>1, OpenType, Constants
<1> QED  BY <1>1, <1>2, <1>3, <1>4, <1>5, FoundType, FreeMove

\* A turn ends by itself or with its client.
LEMMA EndStep ==
    ASSUME CallsInv, NEW t \in Turns, EndTurn(t) \/ Disconnect(t) PROVE CallsInv'
<1>1. /\ turn' = [turn EXCEPT ![t] = Idle]
      /\ UNCHANGED <<today, quota, begun, keys>>
  BY DEF EndTurn, Disconnect
<1>2. Open(turn[t]) \in Nat
  BY OpenType, Constants DEF CallsInv, TypeInv, AllCallInv
<1>3. Idle \in TurnType /\ CallInv(Idle) /\ Open(Idle) <= Open(turn[t])
  BY <1>2, IdleType
<1> QED  BY <1>1, <1>3, FreeMove

\* An answer is charged to the day it came on, and closes the call it pays for.
LEMMA ChargeStep ==
    ASSUME CallsInv, NEW t \in Turns, NEW c \in TurnType, CallInv(c),
           turn' = [turn EXCEPT ![t] = c], Open(turn[t]) = Open(c) + 1,
           quota' = add_token_usage, UNCHANGED <<today, begun, keys>>
    PROVE  CallsInv'
<1>1. TypeInv /\ AllCallInv /\ SpendInv
  BY DEF CallsInv
<1>2. today \in 1..LastDay /\ quota[today] \in [requests : Nat, tokens : Nat]
  BY <1>1 DEF TypeInv
<1>3. /\ turn' \in [Turns -> TurnType] /\ AllCallInv'
      /\ Total(OpenCalls') \in Nat
      /\ Total(OpenCalls') + Open(turn[t]) = Total(OpenCalls) + Open(c)
  BY <1>1, TurnMoves
<1>4. Open(c) \in Nat /\ Total(OpenCalls) \in Nat
  BY <1>1, OpenType, SumsType, Constants
<1>5. Total(OpenCalls) = Total(OpenCalls') + 1
  BY <1>3, <1>4
<1>6. /\ quota' \in [1..LastDay -> [requests : Nat, tokens : Nat]]
      /\ \A d \in 1..LastDay : quota'[d].requests = quota[d].requests
      /\ quota'[today].tokens = quota[today].tokens + Usage
      /\ \A d \in (1..LastDay) \ {today} : quota'[d].tokens = quota[d].tokens
  <2>1. quota' = [quota EXCEPT ![today].tokens = @ + Usage] /\ Usage \in Nat
    BY Constants DEF add_token_usage
  <2> QED  BY <1>1, <1>2, <2>1 DEF TypeInv
<1>7. TypeInv'
  BY <1>1, <1>3, <1>6 DEF TypeInv
<1>8. Requests' = Requests
  BY <1>6 DEF Requests
<1>9. Total(Tokens') = Total(Tokens) + Usage
  <2> DEFINE D == 1..LastDay
             f == Tokens
             g == [d \in D |-> quota'[d].tokens]
  <2>1. f \in [D -> Nat] /\ g \in [D -> Nat] /\ IsFiniteSet(D) /\ today \in D /\ Usage \in Nat
    <3>1. IsFiniteSet(1..LastDay)
      BY Constants, FS_Interval
    <3>2. \A d \in 1..LastDay : quota'[d].tokens \in Nat
      BY <1>6
    <3> QED  BY <1>1, <1>2, <3>1, <3>2, SumsType, Constants
  <2>2. g[today] = f[today] + Usage /\ \A d \in D \ {today} : g[d] = f[d]
    BY <1>2, <1>6 DEF Tokens
  <2> HIDE DEF D, f, g
  <2>3. Total(g) = Total(f) + Usage
    BY <2>1, <2>2, TotalUpdate
  <2>4. Tokens' = g
    BY DEF Tokens, g, D
  <2> QED  BY <2>3, <2>4 DEF f
<1> DEFINE n == Total(OpenCalls')
           o == Total(OpenCalls)
           k == Total(Tokens)
<1>10. /\ n \in Nat /\ o = n + 1 /\ k \in Nat
       /\ quota[today].tokens + o * Usage < TokenLimit + MostOpen * Usage
       /\ k + o * Usage <= Total(Requests) * MaxCalls * Usage
  BY <1>1, <1>3, <1>5, SumsType DEF SpendInv
<1> HIDE DEF n, o, k
<1>11. o * Usage = n * Usage + Usage /\ n * Usage \in Nat
  <2>1. o * Usage = n * Usage + 1 * Usage
    BY <1>10, Constants, Times
  <2> QED  BY <1>10, <2>1, Constants, Times
<1>12. quota'[today].tokens + n * Usage < TokenLimit + MostOpen * Usage
  BY <1>2, <1>6, <1>10, <1>11, Constants
<1>13. k + Usage + n * Usage <= Total(Requests) * MaxCalls * Usage
  BY <1>10, <1>11, Constants
<1>14. MostOpen' = MostOpen
  BY DEF MostOpen
<1>15. SpendInv'
  BY <1>1, <1>2, <1>6, <1>8, <1>9, <1>12, <1>13, <1>14 DEF SpendInv, n, k
<1> QED  BY <1>3, <1>7, <1>15 DEF CallsInv

\* An attempt at a provider.
LEMMA AinvokeStep ==
    ASSUME CallsInv, NEW t \in Turns, ainvoke(t) PROVE CallsInv'
<1>1. /\ turn[t] \in TurnType /\ CallInv(turn[t]) /\ turn[t].at = "model"
      /\ UNCHANGED <<today, begun, keys>>
  BY DEF ainvoke, CallsInv, TypeInv, AllCallInv
<1> DEFINE c == [turn[t] EXCEPT !.asked = @ \cup {turn[t].client}]
<1>2. /\ c \in TurnType /\ c.at = "model" /\ c.left = turn[t].left
      /\ c.client = turn[t].client /\ c.first = turn[t].first /\ c.raised = turn[t].raised
      /\ c.asked = turn[t].asked \cup {turn[t].client}
  <2>1. turn[t].client \in Clients
    BY <1>1 DEF CallInv
  <2> QED  BY <1>1, <2>1 DEF TurnType
<1>3. PICK answer \in ProviderOutcomes, record \in RecordOutcomes :
        \/ /\ answer = "answer" /\ record = "ok"
           /\ \E counted \in BOOLEAN, announced \in {c.client = 1, TRUE} :
                /\ turn' = [turn EXCEPT ![t] = Answered(c, announced)]
                /\ quota' = Charged(answer, record, counted)
        \/ /\ ~(answer = "answer" /\ record = "ok")
           /\ turn' = [turn EXCEPT ![t] = Failed(c, answer, record)]
           /\ quota' = Charged(answer, record, TRUE)
  BY DEF ainvoke
<1> HIDE DEF c
<1>4. /\ CallInv(c) /\ c.client \in c.asked /\ c.left \in Nat
      /\ Open(c) = c.left + 1 /\ Open(turn[t]) = c.left + 1
  BY <1>1, <1>2, Constants DEF CallInv, Open, TurnType
<1>5. CASE answer = "answer" /\ record = "ok"
  <2>1. PICK counted \in BOOLEAN, announced \in {c.client = 1, TRUE} :
          /\ turn' = [turn EXCEPT ![t] = Answered(c, announced)]
          /\ quota' = Charged(answer, record, counted)
    BY <1>3, <1>5
  <2>2. /\ Answered(c, announced) \in TurnType /\ CallInv(Answered(c, announced))
        /\ Open(Answered(c, announced)) = c.left
    BY <1>2, ReturnsType, ErrorsAre DEF Answered
  <2>3. CASE counted
    <3>1. quota' = add_token_usage
      BY <1>5, <2>1, <2>3 DEF Charged
    <3> QED  BY <1>1, <1>4, <2>1, <2>2, <3>1, ChargeStep
  <2>4. CASE ~counted
    <3>1. quota' = quota
      BY <2>1, <2>4 DEF Charged
    <3>2. Open(Answered(c, announced)) <= Open(turn[t])
      BY <1>4, <2>2
    <3> QED  BY <1>1, <2>1, <2>2, <3>1, <3>2, FreeMove
  <2> QED  BY <2>3, <2>4
<1>6. CASE ~(answer = "answer" /\ record = "ok")
  <2>1. turn' = [turn EXCEPT ![t] = Failed(c, answer, record)] /\ quota' = quota
    BY <1>3, <1>6 DEF Charged
  <2>2. /\ Failed(c, answer, record) \in TurnType /\ CallInv(Failed(c, answer, record))
        /\ Open(Failed(c, answer, record)) <= Open(turn[t])
    BY <1>2, <1>4, FailedType
  <2> QED  BY <1>1, <2>1, <2>2, FreeMove
<1> QED  BY <1>5, <1>6

\* At midnight the day's tokens are settled but for answers under way, which go
\* to the new day.
LEMMA MidnightStep == ASSUME CallsInv, Midnight PROVE CallsInv'
<1>1. TypeInv /\ AllCallInv /\ SpendInv
  BY DEF CallsInv
<1>2. /\ today < LastDay /\ today' = today + 1 /\ today \in 1..LastDay
      /\ UNCHANGED <<quota, turn, begun, keys>>
  BY <1>1 DEF Midnight, TypeInv
<1>3. today' \in 1..LastDay /\ today' > today
  BY <1>2, Constants
<1>4. TypeInv' /\ AllCallInv'
  BY <1>1, <1>2, <1>3 DEF TypeInv, AllCallInv, CallInv
<1>5. /\ OpenCalls' = OpenCalls /\ Requests' = Requests /\ Tokens' = Tokens
      /\ MostOpen' = MostOpen
  BY <1>2 DEF OpenCalls, Open, Requests, Tokens, MostOpen
<1>6. quota[today'].tokens = 0
  BY <1>1, <1>3 DEF SpendInv
<1> DEFINE o == Total(OpenCalls)
           p == MostOpen * Usage
<1>7. /\ o * Usage \in Nat /\ p \in Nat /\ o * Usage <= p
  BY <1>1, SumsType, Constants, Times
<1>8. quota[today'].tokens + o * Usage < TokenLimit + p
  <2> HIDE DEF p
  <2> QED  BY <1>6, <1>7, Constants
<1>9. \A d \in 1..LastDay : d < today' => quota[d].tokens < TokenLimit + p
  <2>1. quota[today].tokens < TokenLimit + p
    <3>1. quota[today].tokens + o * Usage < TokenLimit + p /\ quota[today].tokens \in Nat
      BY <1>1, <1>2 DEF SpendInv, TypeInv
    <3> HIDE DEF p
    <3> QED  BY <1>7, <3>1, Constants
  <2>2. ASSUME NEW d \in 1..LastDay, d < today' PROVE d < today \/ d = today
    BY <1>2, <2>2
  <2> QED  BY <1>1, <2>1, <2>2 DEF SpendInv
<1>10. \A d \in 1..LastDay : d > today' => quota[d].tokens = 0
  <2>1. \A d \in 1..LastDay : d > today' => d > today
    BY <1>2
  <2> QED  BY <1>1, <2>1 DEF SpendInv
<1>11. SpendInv'
  BY <1>1, <1>2, <1>5, <1>8, <1>9, <1>10 DEF SpendInv
<1> QED  BY <1>4, <1>11 DEF CallsInv

\* Every step keeps the invariant.
LEMMA CallsNext == CallsInv /\ [Next]_vars => CallsInv'
<1> SUFFICES ASSUME CallsInv, [Next]_vars PROVE CallsInv'
  OBVIOUS
<1>1. CASE \E t \in Turns : consume_request(t) \/ Proceeds(t) \/ EndTurn(t) \/ Disconnect(t)
  BY <1>1, ConsumeStep, StartCallStep, AinvokeStep, StartSearchStep, PostStep, EndStep
     DEF Proceeds
<1>2. CASE Midnight
  BY <1>2, MidnightStep
<1>3. CASE Expire \/ UNCHANGED vars
  <2>1. UNCHANGED <<today, quota, turn, begun, keys>>
    BY <1>3 DEF Expire, vars
  <2>2. OpenCalls' = OpenCalls /\ AllCallInv' /\ TypeInv'
    BY <2>1 DEF OpenCalls, Open, CallsInv, AllCallInv, CallInv, TypeInv
  <2>3. SpendInv'
    BY <2>1, <2>2, SumsType, NothingSpent DEF CallsInv
  <2> QED  BY <2>2, <2>3 DEF CallsInv
<1> QED  BY <1>1, <1>2, <1>3 DEF Next

\* Nothing is spent and every turn is idle.
LEMMA CallsInit == Init => CallsInv
<1> SUFFICES ASSUME Init PROVE CallsInv
  OBVIOUS
<1>1. turn = [t \in Turns |-> Idle] /\ quota = [d \in 1..LastDay |-> [requests |-> 0, tokens |-> 0]]
  BY DEF Init
<1>2. turn \in [Turns -> TurnType] /\ \A t \in Turns : turn[t] = Idle
  BY <1>1, IdleType
<1>3. /\ quota \in [1..LastDay -> [requests : Nat, tokens : Nat]]
      /\ \A d \in 1..LastDay : quota[d].requests = 0 /\ quota[d].tokens = 0
  BY <1>1
<1>4. today \in 1..LastDay /\ begun = 0 /\ keys \subseteq Providers
  BY Constants, CallsAssumption DEF Init
<1>5. TypeInv /\ AllCallInv
  BY <1>2, <1>3, <1>4, IdleType DEF TypeInv, AllCallInv
<1>6. Total(OpenCalls) = 0 /\ Total(Tokens) = 0 /\ Total(Requests) = 0
  <2>1. OpenCalls \in [Turns -> {0}]
    BY <1>2, IdleType DEF OpenCalls
  <2>2. Tokens \in [1..LastDay -> {0}] /\ Requests \in [1..LastDay -> {0}]
    BY <1>3 DEF Tokens, Requests
  <2> QED  BY <2>1, <2>2, TotalZero
<1>7. MostOpen * Usage \in Nat /\ 0 * Usage = 0 /\ 0 * MaxCalls = 0
  BY Constants, Times, SMT
<1>8. SpendInv
  BY <1>3, <1>4, <1>6, <1>7, Constants DEF SpendInv
<1> QED  BY <1>5, <1>8 DEF CallsInv

LEMMA CallsInvariant == Spec => []CallsInv
BY CallsInit, CallsNext, PTL DEF Spec

-----------------------------------------------------------------------------
(* The properties.                                                          *)

\* The requests of a day keep to the limit, its tokens exceed theirs by at most
\* what the turns under way together may spend, and no call is charged twice
\* (services/quota.py, services/gateway.py).
THEOREM SpendingIsBoundedHolds == Spec => []SpendingIsBounded
<1>1. CallsInv => SpendingIsBounded
  <2> SUFFICES ASSUME CallsInv PROVE SpendingIsBounded
    OBVIOUS
  <2>1. TypeInv /\ AllCallInv /\ SpendInv
    BY DEF CallsInv
  <2> DEFINE p == MostOpen * Usage
             o == Total(OpenCalls)
  <2>2. p \in Nat /\ o \in Nat /\ o * Usage \in Nat
    BY <2>1, SumsType, Constants, Times
  <2>3. DayIsBounded
    <3>1. ASSUME NEW d \in 1..LastDay PROVE quota[d].tokens < TokenLimit + p
      <4>0. quota[d].tokens \in Nat /\ today \in 1..LastDay
        BY <2>1 DEF TypeInv
      <4>1. CASE d < today
        BY <2>1, <4>1 DEF SpendInv
      <4>2. CASE d = today
        <5>1. quota[d].tokens + o * Usage < TokenLimit + p
          BY <2>1, <4>2 DEF SpendInv
        <5> HIDE DEF p, o
        <5> QED  BY <2>2, <4>0, <5>1, Constants
      <4>3. CASE d > today
        <5>1. quota[d].tokens = 0
          BY <2>1, <4>3 DEF SpendInv
        <5> HIDE DEF p
        <5> QED  BY <2>2, <5>1, Constants
      <4> QED  BY <4>0, <4>1, <4>2, <4>3
    <3> QED  BY <2>1, <3>1 DEF DayIsBounded, SpendInv, MostOpen
  <2>4. CallsAreChargedOnce
    <3> DEFINE left == [t \in Turns |-> turn[t].left]
               l == Total(left)
               r == Total(Requests)
               k == Total(Tokens)
    <3>1. l \in Nat /\ l <= o
      <4>1. left \in [Turns -> Nat] /\ \A t \in Turns : left[t] <= OpenCalls[t]
        BY <2>1, Constants DEF TypeInv, TurnType, OpenCalls, Open
      <4> HIDE DEF left
      <4> QED  BY <2>1, <4>1, SumsType, Constants, UnitsAreFinite, TotalMonotone
    <3>2. r \in Nat /\ k \in Nat /\ k + o * Usage <= r * MaxCalls * Usage
      BY <2>1, SumsType DEF SpendInv
    <3> HIDE DEF l, o, r, k
    <3>3. l * Usage <= o * Usage /\ l * Usage \in Nat /\ r * MaxCalls \in Nat
      BY <2>2, <3>1, <3>2, Constants, Times
    <3>4. Usage * (r * MaxCalls - l) = r * MaxCalls * Usage - l * Usage
      <4> DEFINE a == r * MaxCalls
      <4>1. a \in Nat
        BY <3>3
      <4> HIDE DEF a
      <4>2. Usage * (a - l) = a * Usage - l * Usage
        BY <3>1, <4>1, Constants, SMT
      <4> QED  BY <4>2 DEF a
    <3>5. r * MaxCalls * Usage \in Nat
      BY <3>3, Constants, Times
    <3>6. k <= Usage * (r * MaxCalls - l)
      BY <2>2, <3>2, <3>3, <3>4, <3>5
    <3> QED  BY <3>6 DEF CallsAreChargedOnce, l, r, k, Requests, Tokens
  <2> QED  BY <2>3, <2>4 DEF SpendingIsBounded
<1> QED  BY <1>1, CallsInvariant, PTL

\* A provider's error reaches a node only when every candidate was asked, and
\* it is the primary's (GatewayChatModel.ainvoke, services/gateway.py).
THEOREM FailureMeansAllAskedHolds == Spec => []FailureMeansAllAsked
<1>1. CallsInv => FailureMeansAllAsked
  BY DEF CallsInv, AllCallInv, CallInv, FailureMeansAllAsked
<1> QED  BY <1>1, CallsInvariant, PTL
================================================================================
