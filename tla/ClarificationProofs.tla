------------------------ MODULE ClarificationProofs ------------------------
(***************************************************************************)
(* Proofs about Clarification, for any messages, categories, facts and      *)
(* threads and any number of rounds: a reply resumes the whole question,    *)
(* and no conclusion on an own case is rushed.                              *)
(***************************************************************************)
EXTENDS Clarification, FiniteSetTheorems, SequenceTheorems, WellFoundedInduction, TLAPS

-----------------------------------------------------------------------------
(* Induction up to a natural number, and the functions it defines step by   *)
(* step, from the fact that every non-empty set of natural numbers has a    *)
(* least element.                                                           *)

\* A non-empty set of natural numbers has a least element.
LEMMA LeastNat ==
  ASSUME NEW T, T \subseteq Nat, T # {}
  PROVE  \E x \in T : \A y \in T : x <= y
<1> DEFINE R == OpToRel(<, Nat)
<1>1. IsWellFoundedOn(R, Nat)
  BY NatLessThanWellFounded
<1>2. \A x, y \in Nat : x < y => <<x, y>> \in R
  BY DEF OpToRel
<1> HIDE DEF R
<1>3. PICK x \in T : \A y \in T : ~(<<y, x>> \in R)
  BY <1>1, WFMin
<1>4. ASSUME NEW y \in T PROVE x <= y
  <2>1. x \in Nat /\ y \in Nat
    OBVIOUS
  <2>2. ~(y < x)
    BY <1>2, <1>3, <2>1
  <2> QED BY <2>1, <2>2
<1> QED BY <1>4

\* Induction up to N.
LEMMA Upto ==
  ASSUME NEW N \in Nat, NEW P, 0 \in P,
         \A n \in Nat : n < N /\ n \in P => n + 1 \in P
  PROVE  \A n \in 0..N : n \in P
<1> DEFINE T == {n \in 0..N : n \notin P}
<1>1. SUFFICES ASSUME T # {} PROVE FALSE
  OBVIOUS
<1>2. T \subseteq Nat
  OBVIOUS
<1> HIDE DEF T
<1>3. PICK x \in T : \A y \in T : x <= y
  BY <1>1, <1>2, LeastNat
<1>4. x \in 0..N /\ x \notin P /\ x # 0
  BY <1>3 DEF T
<1>5. x - 1 \in Nat /\ x - 1 < N /\ x - 1 \in 0..N /\ (x - 1) + 1 = x /\ ~(x <= x - 1)
  BY <1>4
<1>6. x - 1 \in P
  BY <1>3, <1>5 DEF T
<1> QED BY <1>4, <1>5, <1>6

\* A value for 0 and a step from every n - 1 to n define a function.
StepsOf(A, N) == [1..N -> [A -> A]]
RunsOf(A, N, a, step) ==
    {f \in [0..N -> A] : f[0] = a /\ \A n \in 1..N : f[n] = step[n][f[n - 1]]}

LEMMA Stepwise ==
  ASSUME NEW A, NEW N \in Nat, NEW a \in A, NEW step \in StepsOf(A, N)
  PROVE  RunsOf(A, N, a, step) # {}
<1> DEFINE Runs(f, n) == f[0] = a /\ \A k \in 1..n : f[k] = step[k][f[k - 1]]
           P == {n \in 0..N : \E f \in [0..n -> A] : Runs(f, n)}
<1>1. 0 \in P
  <2>1. [k \in 0..0 |-> a] \in [0..0 -> A] /\ Runs([k \in 0..0 |-> a], 0)
    OBVIOUS
  <2>2. \E f \in [0..0 -> A] : Runs(f, 0)
    BY <2>1
  <2> HIDE DEF Runs
  <2> QED BY <2>2
<1>2. ASSUME NEW n \in Nat, n < N, n \in P PROVE n + 1 \in P
  <2>1. PICK f \in [0..n -> A] : Runs(f, n)
    BY <1>2
  <2> DEFINE g == [k \in 0..(n + 1) |-> IF k = n + 1 THEN step[n + 1][f[n]] ELSE f[k]]
  <2>2. n + 1 \in 1..N /\ n \in 0..n
    BY <1>2
  <2>3. g \in [0..(n + 1) -> A]
    <3>1. step[n + 1] \in [A -> A] /\ f[n] \in A
      BY <2>2 DEF StepsOf
    <3>2. ASSUME NEW k \in 0..(n + 1), k # n + 1 PROVE k \in 0..n
      BY <3>2
    <3> QED BY <3>1, <3>2
  <2>4. ASSUME NEW k \in 1..(n + 1) PROVE g[k] = step[k][g[k - 1]]
    <3>1. k - 1 \in 0..n /\ k - 1 # n + 1 /\ k \in 0..(n + 1) /\ k - 1 \in 0..(n + 1)
      OBVIOUS
    <3>2. g[k - 1] = f[k - 1]
      BY <3>1
    <3>3. CASE k = n + 1
      <4>1. k - 1 = n
        BY <3>3
      <4> QED BY <3>1, <3>2, <3>3, <4>1
    <3>4. CASE k # n + 1
      <4>1. k \in 1..n
        BY <3>4
      <4>2. f[k] = step[k][f[k - 1]]
        BY <2>1, <4>1
      <4> QED BY <3>1, <3>2, <3>4, <4>2
    <3> QED BY <3>3, <3>4
  <2>5. g[0] = a
    BY <2>1
  <2> HIDE DEF g
  <2>6. n + 1 \in 0..N /\ Runs(g, n + 1)
    BY <2>2, <2>4, <2>5
  <2> QED BY <2>3, <2>6
<1> HIDE DEF P
<1>3. N \in P
  <2>1. \A n \in 0..N : n \in P
    BY <1>1, <1>2, Upto
  <2> QED BY <2>1
<1> QED BY <1>3 DEF P, RunsOf

-----------------------------------------------------------------------------
(* The inductive invariant.                                                 *)

Text   == Seq(Messages)
Rounds == 0..MAX_CLARIFICATION_ROUNDS
Places == {"idle", "merge", "intent", "facts", "clarification", "complexity"}
Facts  == [original : Text, supplements : [Rounds -> Text]]
Asking == [needs : BOOLEAN, blocking : BOOLEAN]
Turns  == [at : Places, question : Text, message : Text, resumed : BOOLEAN, route : Routes \cup {""},
           rating : {"", "low", "high"}, sufficient : BOOLEAN, many : BOOLEAN,
           outcome : {"none", "cached", "asked", "interrupted", "chat", "simple", "silent", "planned"}]

TypeInv ==
    /\ facts \in [Threads -> Facts]
    /\ asked \in [Threads -> Rounds]
    /\ pending \in [Threads -> Asking]
    /\ turn \in [Threads -> Turns]
    /\ opening \in [Threads -> Text]
    /\ strayed \in [Threads -> BOOLEAN]

\* No supplement of round n or later is there.
Blank(f, n) == \A k \in Rounds : k >= n => f.supplements[k] = <<>>

\* A question waits for its reply.
Waits(p) == p.needs /\ p.blocking

\* Where a turn is: it has a message, then a question; a question is pending
\* only until the reply is merged; and it is asked while rounds are left.
PlaceInv(e, p, n) ==
    /\ e.at = "merge" => e.message # <<>> /\ ~e.resumed
    /\ e.at \in Places \ {"idle", "merge"} => e.question # <<>>
    /\ e.at # "idle" => e.outcome = "none"
    /\ Waits(p) => e.at \in {"idle", "merge", "clarification"}
    /\ e.at = "clarification" => n < MAX_CLARIFICATION_ROUNDS

\* What a thread that has not strayed knows of its question
QuestionInv(e, p, n, f, told) ==
    /\ f.original = <<>> => Blank(f, 0)
    /\ Waits(p) /\ e.at # "clarification" => f.original # <<>> /\ told = FactsText(f) /\ Blank(f, n)
    /\ e.resumed /\ e.at \in Places \ {"idle", "merge"} =>
          f.original # <<>> /\ told = FactsText(f) /\ e.question = told /\ Blank(f, n + 1)

\* decide_clarification as a function of what it reads
DecisionOn(question, message, f, n) ==
    LET combined == question \o FactsText(f)
    IN  IF ~IsLegal(IF question = Nothing THEN combined ELSE question) \/ Has("document", message)
        THEN Decision(TRUE, FALSE, FALSE)
        ELSE IF n >= MAX_CLARIFICATION_ROUNDS THEN Decision(FALSE, FALSE, FALSE)
        ELSE IF IsSufficient(combined) \/ (Has("information", question) /\ ~Has("own", question))
        THEN Decision(TRUE, FALSE, FALSE)
        ELSE Decision(FALSE, TRUE, /\ Demands(question)
                                   /\ Missing(combined) >= BLOCKING_MISSING
                                   /\ Length(combined) < DETAILED)

Chats(e) == e.route = "final" /\ ~e.resumed

Unrushed(q, f) ==
    Demands(q) /\ IsLegal(q) /\ ToSet(FactsText(f)) \subseteq ToSet(q)
        => Missing(q) < BLOCKING_MISSING \/ Length(q \o FactsText(f)) >= DETAILED

\* Behind the fact analysis the turn holds its decision, and does not ask.
RushInv(e, p, n, f) ==
    /\ e.at = "complexity" /\ ~Chats(e) =>
          LET d == DecisionOn(e.question, e.message, f, n)
          IN  e.sufficient = d.sufficient /\ p.needs = d.needs /\ ~(d.needs /\ d.blocking)
    /\ e.outcome = "simple" => Unrushed(e.question, f)

ThreadInv(t) ==
    /\ PlaceInv(turn[t], pending[t], asked[t])
    /\ ~strayed[t] => QuestionInv(turn[t], pending[t], asked[t], facts[t], opening[t])
    /\ RushInv(turn[t], pending[t], asked[t], facts[t])

AskInv == TypeInv /\ \A t \in Threads : ThreadInv(t)

-----------------------------------------------------------------------------
(* Texts.                                                                   *)

LEMMA RoundsAreNat ==
  /\ MAX_CLARIFICATION_ROUNDS \in Nat /\ 0 \in Rounds
  /\ \A n \in Rounds : n \in Nat /\ (n # 0 => n - 1 \in Rounds /\ n \in 1..MAX_CLARIFICATION_ROUNDS)
  /\ \A n \in Rounds : n < MAX_CLARIFICATION_ROUNDS => n + 1 \in Rounds
BY ClarificationAssumption DEF Rounds

\* The recursive function in SupplementsOf exists.
Supplying(u, f) ==
    /\ u \in [Rounds -> Text]
    /\ u[0] = f.supplements[0]
    /\ \A k \in 1..MAX_CLARIFICATION_ROUNDS : u[k] = u[k - 1] \o f.supplements[k]
    /\ SupplementsOf(f) = u[MAX_CLARIFICATION_ROUNDS]

LEMMA SupplementsUnfold ==
  ASSUME NEW f \in Facts
  PROVE  \E u : Supplying(u, f)
<1> DEFINE N == MAX_CLARIFICATION_ROUNDS
           a == f.supplements[0]
           step == [n \in 1..N |-> [r \in Text |-> r \o f.supplements[n]]]
           Unfolded(g) == [k \in 0..N |-> IF k = 0 THEN f.supplements[0] ELSE g[k - 1] \o f.supplements[k]]
           upTo == CHOOSE g : g = Unfolded(g)
<1>1. N \in Nat /\ \A n \in 0..N : f.supplements[n] \in Text
  BY RoundsAreNat DEF Facts, Rounds
<1>2. a \in Text /\ \A n \in 1..N : f.supplements[n] \in Text
  BY <1>1
<1>3. step \in [1..N -> [Text -> Text]]
  <2>1. \A n \in 1..N, r \in Text : r \o f.supplements[n] \in Text
    BY <1>2, ConcatProperties DEF Text
  <2> QED BY <2>1
<1>4. SupplementsOf(f) = upTo[N]
  BY DEF SupplementsOf
<1> HIDE DEF N, Unfolded
<1>5. PICK g \in [0..N -> Text] : g[0] = a /\ \A n \in 1..N : g[n] = step[n][g[n - 1]]
  <2>1. step \in StepsOf(Text, N)
    BY <1>3 DEF StepsOf
  <2> HIDE DEF step, upTo, a
  <2>2. RunsOf(Text, N, a, step) # {}
    BY <1>1, <1>2, <2>1, Stepwise
  <2> QED BY <2>2 DEF RunsOf
<1>6. \A n \in 1..N : g[n] = g[n - 1] \o f.supplements[n]
  <2> TAKE n \in 1..N
  <2>1. n - 1 \in 0..N
    BY <1>1
  <2>2. g[n - 1] \in Text
    BY <2>1
  <2> QED BY <1>5, <2>2
<1>7. g = Unfolded(g)
  <2>1. \A n \in 0..N : n # 0 => n \in 1..N
    BY <1>1
  <2> QED BY <1>5, <1>6, <2>1 DEF Unfolded
<1>8. upTo = Unfolded(upTo)
  BY <1>7
<1> HIDE DEF upTo
<1>9. upTo[0] = a /\ \A n \in 1..N : upTo[n] = upTo[n - 1] \o f.supplements[n]
  <2>1. 0 \in 0..N /\ \A n \in 1..N : n \in 0..N /\ n # 0
    BY <1>1
  <2> QED BY <1>8, <2>1 DEF Unfolded
<1>10. \A n \in 0..N : upTo[n] \in Text
  <2> DEFINE P == {n \in 0..N : upTo[n] \in Text}
  <2>1. 0 \in P
    BY <1>1, <1>2, <1>9
  <2>2. ASSUME NEW n \in Nat, n < N, n \in P PROVE n + 1 \in P
    <3>1. n + 1 \in 0..N /\ n + 1 \in 1..N /\ (n + 1) - 1 = n
      BY <1>1, <2>2
    <3>2. upTo[n + 1] = upTo[n] \o f.supplements[n + 1]
      BY <1>9, <3>1
    <3>3. upTo[n + 1] \in Text
      BY <1>2, <2>2, <3>1, <3>2, ConcatProperties DEF Text
    <3> QED BY <3>1, <3>3
  <2> HIDE DEF P
  <2>3. \A n \in 0..N : n \in P
    BY <1>1, <2>1, <2>2, Upto
  <2> QED BY <2>3 DEF P
<1>11. upTo \in [0..N -> Text]
  BY <1>8, <1>10 DEF Unfolded
<1> QED BY <1>4, <1>9, <1>11 DEF N, Supplying, Rounds

\* Blank supplements say nothing.
LEMMA BlankSaysNothing ==
  ASSUME NEW f \in Facts, Blank(f, 0)
  PROVE  SupplementsOf(f) = <<>> /\ FactsText(f) = f.original
<1> DEFINE N == MAX_CLARIFICATION_ROUNDS
<1>1. PICK u : Supplying(u, f)
  BY SupplementsUnfold
<1> DEFINE P == {n \in 0..N : u[n] = <<>>}
<1>2. N \in Nat /\ \A n \in 0..N : f.supplements[n] = <<>>
  BY RoundsAreNat DEF Blank, Rounds
<1>3. 0 \in P
  BY <1>1, <1>2 DEF Supplying
<1>4. ASSUME NEW n \in Nat, n < N, n \in P PROVE n + 1 \in P
  <2>1. n + 1 \in 0..N /\ n + 1 \in 1..N /\ (n + 1) - 1 = n
    BY <1>2, <1>4
  <2>2. u[n + 1] = <<>> \o <<>>
    BY <1>1, <1>2, <1>4, <2>1 DEF Supplying
  <2>3. <<>> \o <<>> = <<>>
    BY EmptySeq, ConcatEmptySeq
  <2> QED BY <2>1, <2>2, <2>3
<1> HIDE DEF P
<1>5. \A n \in 0..N : n \in P
  BY <1>2, <1>3, <1>4, Upto
<1>6. SupplementsOf(f) = <<>>
  BY <1>1, <1>2, <1>5 DEF P, Supplying
<1>7. f.original \in Text
  BY DEF Facts
<1> QED BY <1>6, <1>7, ConcatEmptySeq DEF FactsText, Text

\* A supplement of a round that nothing follows comes behind all others.
LEMMA NextSupplement ==
  ASSUME NEW f \in Facts, NEW h \in Facts, NEW n \in Rounds, NEW message \in Text,
         h.original = f.original, Blank(f, n), h.supplements[n] = message,
         \A k \in Rounds : k # n => h.supplements[k] = f.supplements[k]
  PROVE  FactsText(h) = FactsText(f) \o message
<1> DEFINE N == MAX_CLARIFICATION_ROUNDS
<1>1. PICK u : Supplying(u, f)
  BY SupplementsUnfold
<1>2. PICK v : Supplying(v, h)
  BY SupplementsUnfold
<1> DEFINE P == {k \in 0..N : IF k < n THEN v[k] = u[k] ELSE v[k] = u[k] \o message}
<1>3. N \in Nat /\ n \in 0..N /\ 0 \in 0..N
  BY RoundsAreNat DEF Rounds
<1>4. \A k \in 0..N : u[k] \in Text /\ v[k] \in Text
  BY <1>1, <1>2 DEF Supplying, Rounds
<1>5. \A k \in 0..N : k >= n => f.supplements[k] = <<>>
  BY DEF Blank, Rounds
<1>6. \A k \in 0..N : k # n => h.supplements[k] = f.supplements[k]
  BY DEF Rounds
<1>7. \A x \in Text : x \o <<>> = x /\ <<>> \o x = x
  BY ConcatEmptySeq DEF Text
<1>8. 0 \in P
  <2>1. u[0] = f.supplements[0] /\ v[0] = h.supplements[0]
    BY <1>1, <1>2 DEF Supplying
  <2>2. CASE n = 0
    <3>1. u[0] = <<>> /\ v[0] = message
      BY <1>3, <1>5, <2>1, <2>2
    <3>2. v[0] = u[0] \o message
      BY <1>7, <3>1
    <3> QED BY <1>3, <2>2, <3>2
  <2>3. CASE n # 0
    <3>1. v[0] = u[0] /\ 0 < n
      BY <1>3, <1>6, <2>1, <2>3
    <3> QED BY <1>3, <3>1
  <2> QED BY <2>2, <2>3
<1>9. ASSUME NEW k \in Nat, k < N, k \in P PROVE k + 1 \in P
  <2>1. k \in 0..N /\ k + 1 \in 0..N /\ k + 1 \in 1..N /\ (k + 1) - 1 = k
    BY <1>3, <1>9
  <2>2. u[k + 1] = u[k] \o f.supplements[k + 1] /\ v[k + 1] = v[k] \o h.supplements[k + 1]
    BY <1>1, <1>2, <2>1 DEF Supplying
  <2>3. CASE k + 1 < n
    <3>1. k < n /\ k + 1 # n
      BY <1>3, <1>9, <2>3
    <3>2. v[k] = u[k]
      BY <1>9, <3>1
    <3>3. v[k + 1] = u[k + 1]
      BY <1>6, <2>1, <2>2, <3>1, <3>2
    <3> QED BY <2>1, <2>3, <3>3
  <2>4. CASE k + 1 = n
    <3>1. k < n
      BY <1>3, <1>9, <2>4
    <3>2. v[k] = u[k] /\ h.supplements[k + 1] = message /\ f.supplements[k + 1] = <<>>
      BY <1>3, <1>5, <1>9, <2>4, <3>1
    <3>3. u[k + 1] = u[k] /\ v[k + 1] = u[k] \o message
      BY <1>4, <1>7, <2>1, <2>2, <3>2
    <3>4. ~(k + 1 < n)
      BY <1>3, <2>4
    <3> QED BY <2>1, <3>3, <3>4
  <2>5. CASE n < k + 1
    <3>1. ~(k < n) /\ ~(k + 1 < n) /\ k + 1 # n /\ k + 1 >= n
      BY <1>3, <1>9, <2>5
    <3>2. v[k] = u[k] \o message /\ h.supplements[k + 1] = <<>> /\ f.supplements[k + 1] = <<>>
      BY <1>5, <1>6, <1>9, <2>1, <3>1
    <3>3. v[k + 1] = v[k] /\ u[k + 1] = u[k]
      BY <1>4, <1>7, <2>1, <2>2, <3>2
    <3> QED BY <2>1, <3>1, <3>2, <3>3
  <2>6. k + 1 < n \/ k + 1 = n \/ n < k + 1
    BY <1>3, <1>9
  <2> QED BY <2>3, <2>4, <2>5, <2>6
<1> HIDE DEF P
<1>10. \A k \in 0..N : k \in P
  BY <1>3, <1>8, <1>9, Upto
<1>11. v[N] = u[N] \o message
  <2>1. N \in 0..N /\ ~(N < n)
    BY <1>3
  <2> QED BY <1>10, <2>1 DEF P
<1>12. SupplementsOf(f) = u[N] /\ SupplementsOf(h) = v[N] /\ u[N] \in Text
  <2>1. N \in 0..N
    BY <1>3
  <2>2. SupplementsOf(f) = u[N] /\ SupplementsOf(h) = v[N]
    BY <1>1, <1>2 DEF Supplying
  <2> QED BY <1>4, <2>1, <2>2
<1>13. f.original \in Text
  BY DEF Facts
<1>14. (f.original \o u[N]) \o message = f.original \o (u[N] \o message)
  <2>1. \A a, b, c \in Text : (a \o b) \o c = a \o (b \o c)
    BY ConcatAssociative DEF Text
  <2> QED BY <1>12, <1>13, <2>1
<1> QED BY <1>11, <1>12, <1>14 DEF FactsText

LEMMA FactsTextIsText ==
  ASSUME NEW f \in Facts
  PROVE  FactsText(f) \in Text
<1>1. PICK u : Supplying(u, f)
  BY SupplementsUnfold
<1>2. SupplementsOf(f) \in Text /\ f.original \in Text
  BY <1>1, RoundsAreNat DEF Supplying, Facts, Rounds
<1> QED BY <1>2, ConcatProperties DEF FactsText, Text

\* Lengths add up to a natural number.
LEMMA LengthIsNat ==
  ASSUME NEW text \in Text
  PROVE  Length(text) \in Nat
<1> DEFINE N == Len(text)
           step == [n \in 1..N |-> [r \in Nat |-> r + Size[text[n]]]]
           Unfolded(g) == [i \in 0..N |-> IF i = 0 THEN 0 ELSE g[i - 1] + Size[text[i]]]
           upTo == CHOOSE g : g = Unfolded(g)
<1>1. N \in Nat /\ \A n \in 1..N : Size[text[n]] \in Nat
  BY LenProperties, ElementOfSeq, ClarificationAssumption DEF Text
<1>2. step \in [1..N -> [Nat -> Nat]]
  <2>1. \A n \in 1..N, r \in Nat : r + Size[text[n]] \in Nat
    BY <1>1
  <2> QED BY <2>1
<1>3. Length(text) = upTo[N]
  BY DEF Length
<1> HIDE DEF N, Unfolded
<1>4. PICK g \in [0..N -> Nat] : g[0] = 0 /\ \A n \in 1..N : g[n] = step[n][g[n - 1]]
  <2>1. step \in StepsOf(Nat, N) /\ 0 \in Nat
    BY <1>2 DEF StepsOf
  <2> HIDE DEF step, upTo
  <2>2. RunsOf(Nat, N, 0, step) # {}
    BY <1>1, <2>1, Stepwise
  <2> QED BY <2>2 DEF RunsOf
<1>5. \A n \in 1..N : g[n] = g[n - 1] + Size[text[n]]
  <2> TAKE n \in 1..N
  <2>1. n - 1 \in 0..N
    BY <1>1
  <2>2. g[n - 1] \in Nat
    BY <2>1
  <2> QED BY <1>4, <2>2
<1>6. g = Unfolded(g)
  <2>1. \A n \in 0..N : n # 0 => n \in 1..N
    BY <1>1
  <2> QED BY <1>4, <1>5, <2>1 DEF Unfolded
<1>7. upTo = Unfolded(upTo)
  BY <1>6
<1> HIDE DEF upTo
<1> DEFINE P == {n \in 0..N : upTo[n] \in Nat}
<1>8. 0 \in P
  BY <1>1, <1>7 DEF Unfolded
<1>9. ASSUME NEW n \in Nat, n < N, n \in P PROVE n + 1 \in P
  <2>1. n + 1 \in 0..N /\ n + 1 \in 1..N /\ (n + 1) - 1 = n /\ n + 1 # 0
    BY <1>1, <1>9
  <2>2. upTo[n + 1] = upTo[n] + Size[text[n + 1]]
    BY <1>7, <2>1 DEF Unfolded
  <2> QED BY <1>1, <1>9, <2>1, <2>2
<1> HIDE DEF P
<1>10. \A n \in 0..N : n \in P
  BY <1>1, <1>8, <1>9, Upto
<1>11. upTo[N] \in Nat
  <2>1. N \in 0..N
    BY <1>1
  <2> QED BY <1>10, <2>1 DEF P
<1> QED BY <1>3, <1>11

LEMMA MembersOf ==
  ASSUME NEW text \in Text
  PROVE  ToSet(text) \in SUBSET Messages
BY ElementOfSeq, LenProperties DEF ToSet, Text

\* The rules look at what the messages of a text hold, in any order.
LEMMA SameMembers ==
  ASSUME NEW a, NEW b, ToSet(a) = ToSet(b)
  PROVE  /\ IsLegal(a) <=> IsLegal(b)
         /\ Missing(a) = Missing(b)
<1>1. Has("generic", a) <=> Has("generic", b)
  <2>1. Has("generic", a) <=> \E m \in ToSet(a) : "generic" \in Marks[m]
    BY DEF Has, ToSet
  <2>2. Has("generic", b) <=> \E m \in ToSet(b) : "generic" \in Marks[m]
    BY DEF Has, ToSet
  <2> QED BY <2>1, <2>2
<1> QED BY <1>1 DEF IsLegal, Missing

LEMMA MembersOfBoth ==
  ASSUME NEW a \in Text, NEW b \in Text, ToSet(b) \subseteq ToSet(a)
  PROVE  a \o b \in Text /\ ToSet(a \o b) = ToSet(a)
<1>1. /\ a \o b \in Text /\ Len(a \o b) = Len(a) + Len(b) /\ Len(a) \in Nat /\ Len(b) \in Nat
      /\ \A i \in 1..(Len(a) + Len(b)) : (a \o b)[i] = IF i <= Len(a) THEN a[i] ELSE b[i - Len(a)]
  BY ConcatProperties, LenProperties DEF Text
<1>2. DOMAIN a = 1..Len(a) /\ DOMAIN b = 1..Len(b) /\ DOMAIN (a \o b) = 1..(Len(a) + Len(b))
  BY <1>1, LenProperties DEF Text
<1>3. ASSUME NEW i \in DOMAIN (a \o b) PROVE (a \o b)[i] \in ToSet(a)
  <2>1. CASE i <= Len(a)
    <3>1. (a \o b)[i] = a[i] /\ i \in DOMAIN a
      BY <1>1, <1>2, <2>1
    <3> QED BY <3>1 DEF ToSet
  <2>2. CASE ~(i <= Len(a))
    <3>1. (a \o b)[i] = b[i - Len(a)] /\ i - Len(a) \in DOMAIN b
      BY <1>1, <1>2, <2>2
    <3>2. (a \o b)[i] \in ToSet(b)
      BY <3>1 DEF ToSet
    <3> QED BY <3>2
  <2> QED BY <2>1, <2>2
<1>4. ASSUME NEW i \in DOMAIN a PROVE a[i] \in ToSet(a \o b)
  <2>1. i \in DOMAIN (a \o b) /\ (a \o b)[i] = a[i]
    BY <1>1, <1>2
  <2> QED BY <2>1 DEF ToSet
<1> QED BY <1>1, <1>3, <1>4 DEF ToSet

LEMMA MissingIsNat ==
  ASSUME NEW text \in Text
  PROVE  Missing(text) \in Nat
<1> DEFINE M == ToSet(text)
           c == IF Category[M] = General THEN "contract" ELSE Category[M]
<1>1. M \in SUBSET Messages
  BY MembersOf
<1>2. MissingIn[M] = {d \in Dimensions[c] : <<c, d>> \notin Of(Tells, M)}
  BY <1>1 DEF MissingIn
<1>3. c \in ToSet(Categories)
  BY <1>1, ClarificationAssumption, AnalysisIsTotal
<1> HIDE DEF M, c
<1>4. IsFiniteSet(Dimensions[c])
  BY <1>3, ClarificationAssumption
<1>5. IsFiniteSet(MissingIn[M])
  BY <1>2, <1>4, FS_Subset
<1> QED BY <1>5, FS_CardinalityType DEF Missing, M

-----------------------------------------------------------------------------
(* Steps of one thread.                                                     *)

LEMMA ThreadMoves ==
  ASSUME AskInv, NEW t \in Threads, NEW e \in Turns, NEW p \in Asking, NEW n \in Rounds,
         NEW f \in Facts, NEW told \in Text, NEW s \in BOOLEAN,
         turn' = [turn EXCEPT ![t] = e], pending' = [pending EXCEPT ![t] = p],
         asked' = [asked EXCEPT ![t] = n], facts' = [facts EXCEPT ![t] = f],
         opening' = [opening EXCEPT ![t] = told], strayed' = [strayed EXCEPT ![t] = s],
         PlaceInv(e, p, n), ~s => QuestionInv(e, p, n, f, told), RushInv(e, p, n, f)
  PROVE  AskInv'
<1>1. TypeInv
  BY DEF AskInv
<1>2. TypeInv'
  BY <1>1 DEF TypeInv
<1>3. /\ turn'[t] = e /\ pending'[t] = p /\ asked'[t] = n
      /\ facts'[t] = f /\ opening'[t] = told /\ strayed'[t] = s
  BY <1>1 DEF TypeInv
<1>4. \A x \in Threads \ {t} :
        /\ turn'[x] = turn[x] /\ pending'[x] = pending[x] /\ asked'[x] = asked[x]
        /\ facts'[x] = facts[x] /\ opening'[x] = opening[x] /\ strayed'[x] = strayed[x]
  BY <1>1 DEF TypeInv
<1>5. ThreadInv(t)'
  BY <1>3 DEF ThreadInv
<1>6. ASSUME NEW x \in Threads \ {t} PROVE ThreadInv(x)'
  <2>1. ThreadInv(x)
    BY DEF AskInv
  <2> QED BY <1>4, <2>1 DEF ThreadInv
<1> QED BY <1>2, <1>5, <1>6 DEF AskInv

LEMMA ThreadIs ==
  ASSUME AskInv, NEW t \in Threads
  PROVE  /\ turn[t] \in Turns /\ pending[t] \in Asking /\ asked[t] \in Rounds
         /\ facts[t] \in Facts /\ opening[t] \in Text /\ strayed[t] \in BOOLEAN
         /\ PlaceInv(turn[t], pending[t], asked[t])
         /\ ~strayed[t] => QuestionInv(turn[t], pending[t], asked[t], facts[t], opening[t])
         /\ RushInv(turn[t], pending[t], asked[t], facts[t])
         /\ asked = [asked EXCEPT ![t] = asked[t]] /\ facts = [facts EXCEPT ![t] = facts[t]]
         /\ pending = [pending EXCEPT ![t] = pending[t]] /\ turn = [turn EXCEPT ![t] = turn[t]]
         /\ opening = [opening EXCEPT ![t] = opening[t]] /\ strayed = [strayed EXCEPT ![t] = strayed[t]]
BY DEF AskInv, TypeInv, ThreadInv

\* Only the turn moves.
LEMMA TurnMoves ==
  ASSUME AskInv, NEW t \in Threads, NEW e \in Turns, turn' = [turn EXCEPT ![t] = e],
         UNCHANGED <<facts, asked, pending, opening, strayed>>,
         PlaceInv(e, pending[t], asked[t]), RushInv(e, pending[t], asked[t], facts[t]),
         ~strayed[t] => QuestionInv(e, pending[t], asked[t], facts[t], opening[t])
  PROVE  AskInv'
<1>1. TypeInv
  BY DEF AskInv
<1>2. TypeInv'
  BY <1>1 DEF TypeInv
<1>3. turn'[t] = e /\ \A x \in Threads \ {t} : turn'[x] = turn[x]
  BY <1>1 DEF TypeInv
<1>4. ThreadInv(t)'
  BY <1>3 DEF ThreadInv
<1>5. ASSUME NEW x \in Threads \ {t} PROVE ThreadInv(x)'
  <2>1. ThreadInv(x)
    BY DEF AskInv
  <2> QED BY <1>3, <2>1 DEF ThreadInv
<1> QED BY <1>2, <1>4, <1>5 DEF AskInv

LEMMA IdleTurns ==
  /\ NoTurn \in Turns /\ Quiet \in Asking /\ ~Waits(Quiet) /\ NoFacts \in Facts
  /\ NoTurn.at = "idle" /\ NoTurn.outcome = "none" /\ ~NoTurn.resumed
  /\ NoFacts.original = <<>> /\ Blank(NoFacts, 0) /\ Nothing = <<>> /\ <<>> \in Text
<1>1. <<>> \in Text
  BY EmptySeq DEF Text
<1>2. NoTurn \in Turns
  BY <1>1 DEF NoTurn, Turns, Places, Nothing, Routes
<1>3. NoFacts \in Facts /\ Blank(NoFacts, 0)
  BY <1>1 DEF NoFacts, Facts, Nothing, Rounds, Blank
<1> QED BY <1>1, <1>2, <1>3 DEF NoTurn, Quiet, Asking, Waits, NoFacts, Nothing

\* A thread rests: a question it asked may be waiting.
LEMMA AtRest ==
  ASSUME NEW e \in Turns, NEW p \in Asking, NEW n \in Rounds, NEW f \in Facts, NEW told \in Text,
         e.at = "idle", e.outcome # "simple"
  PROVE  /\ PlaceInv(e, p, n)
         /\ RushInv(e, p, n, f)
         /\ (/\ f.original = <<>> => Blank(f, 0)
             /\ Waits(p) => f.original # <<>> /\ told = FactsText(f) /\ Blank(f, n))
            => QuestionInv(e, p, n, f, told)
BY DEF PlaceInv, RushInv, QuestionInv, Places

LEMMA CacheAnswerKeeps ==
  ASSUME AskInv, NEW t \in Threads, NEW m \in Messages, AnswerFromCache(t, m)
  PROVE  AskInv'
<1> DEFINE again == cache[m] = "resumed"
           e == [NoTurn EXCEPT !.resumed = again, !.outcome = "cached"]
<1>1. /\ turn[t].at = "idle" /\ turn' = [turn EXCEPT ![t] = e]
      /\ UNCHANGED <<facts, asked, pending, opening, strayed>>
  BY DEF AnswerFromCache, At
<1>2. again \in BOOLEAN
  OBVIOUS
<1> HIDE DEF again
<1>3. e \in Turns /\ e.at = "idle" /\ e.outcome = "cached"
  <2>1. NoTurn \in Turns /\ NoTurn.at = "idle"
    BY IdleTurns
  <2> QED BY <1>2, <2>1 DEF Turns
<1> HIDE DEF e
<1>4. ~strayed[t] => /\ facts[t].original = <<>> => Blank(facts[t], 0)
                     /\ Waits(pending[t]) => /\ facts[t].original # <<>> /\ opening[t] = FactsText(facts[t])
                                             /\ Blank(facts[t], asked[t])
  BY <1>1, ThreadIs DEF QuestionInv
<1>5. PlaceInv(e, pending[t], asked[t]) /\ RushInv(e, pending[t], asked[t], facts[t])
      /\ (~strayed[t] => QuestionInv(e, pending[t], asked[t], facts[t], opening[t]))
  BY <1>3, <1>4, ThreadIs, AtRest
<1> QED BY <1>1, <1>3, <1>5, TurnMoves

LEMMA StartTurnKeeps ==
  ASSUME AskInv, NEW t \in Threads, NEW m \in Messages, StartTurn(t, m)
  PROVE  AskInv'
<1> DEFINE e == [NoTurn EXCEPT !.at = "merge", !.message = <<m>>]
<1>1. /\ turn[t].at = "idle" /\ turn' = [turn EXCEPT ![t] = e]
      /\ UNCHANGED <<facts, asked, pending, opening, strayed>>
  BY DEF StartTurn, At
<1>2. e \in Turns /\ e.at = "merge" /\ e.outcome = "none" /\ e.message # <<>> /\ e.resumed = FALSE
  <2>1. NoTurn \in Turns /\ NoTurn.outcome = "none" /\ ~NoTurn.resumed
    BY IdleTurns
  <2>2. <<m>> \in Text /\ <<m>> # <<>>
    BY DEF Text
  <2> DEFINE said == <<m>>
  <2> HIDE DEF said
  <2>3. said \in Text => [NoTurn EXCEPT !.at = "merge", !.message = said] \in Turns
    BY <2>1 DEF Turns, Places
  <2> QED BY <2>1, <2>2, <2>3 DEF said, NoTurn
<1> HIDE DEF e
<1>3. ~strayed[t] => /\ facts[t].original = <<>> => Blank(facts[t], 0)
                     /\ Waits(pending[t]) => /\ facts[t].original # <<>> /\ opening[t] = FactsText(facts[t])
                                             /\ Blank(facts[t], asked[t])
  BY <1>1, ThreadIs DEF QuestionInv
<1>4. PlaceInv(e, pending[t], asked[t]) /\ RushInv(e, pending[t], asked[t], facts[t])
  BY <1>2 DEF PlaceInv, RushInv, Places
<1>5. ~strayed[t] => QuestionInv(e, pending[t], asked[t], facts[t], opening[t])
  BY <1>2, <1>3 DEF QuestionInv, Places
<1> QED BY <1>1, <1>2, <1>4, <1>5, TurnMoves

LEMMA RouteIntentKeeps ==
  ASSUME AskInv, NEW t \in Threads, RouteIntent(t)
  PROVE  AskInv'
<1>1. PICK way \in Routes, rating \in {"low", "high"} :
         turn' = [turn EXCEPT ![t].at = "facts", ![t].route = way, ![t].rating = rating]
  BY DEF RouteIntent
<1> DEFINE e == [turn[t] EXCEPT !.at = "facts", !.route = way, !.rating = rating]
<1>2. turn[t].at = "intent" /\ UNCHANGED <<facts, asked, pending, opening, strayed>>
  BY DEF RouteIntent, At
<1>3. turn[t] \in Turns /\ turn' = [turn EXCEPT ![t] = e]
  BY <1>1, ThreadIs
<1>4. /\ e \in Turns /\ e.at = "facts" /\ e.outcome = turn[t].outcome /\ e.question = turn[t].question
      /\ e.resumed = turn[t].resumed
  BY <1>3 DEF Turns, Places
<1> HIDE DEF e
<1>5. PlaceInv(turn[t], pending[t], asked[t])
      /\ (~strayed[t] => QuestionInv(turn[t], pending[t], asked[t], facts[t], opening[t]))
  BY ThreadIs
<1>6. PlaceInv(e, pending[t], asked[t])
  BY <1>2, <1>4, <1>5 DEF PlaceInv, Places
<1>7. RushInv(e, pending[t], asked[t], facts[t])
  BY <1>4, <1>6 DEF RushInv, PlaceInv
<1>8. ~strayed[t] => QuestionInv(e, pending[t], asked[t], facts[t], opening[t])
  BY <1>2, <1>4, <1>5 DEF QuestionInv, Places
<1> QED BY <1>2, <1>3, <1>4, <1>6, <1>7, <1>8, TurnMoves

\* What is decided is decided from the question and the facts.
LEMMA DecideIs ==
  ASSUME NEW t \in Threads
  PROVE  Decide(t) = DecisionOn(turn[t].question, turn[t].message, facts[t], asked[t])
BY DEF Decide, DecisionOn, Exhausted

LEMMA DecisionIs ==
  ASSUME NEW question, NEW message, NEW f, NEW n
  PROVE  /\ DecisionOn(question, message, f, n).needs \in BOOLEAN
         /\ DecisionOn(question, message, f, n).blocking \in BOOLEAN
         /\ DecisionOn(question, message, f, n).sufficient \in BOOLEAN
         /\ DecisionOn(question, message, f, n).needs => ~(n >= MAX_CLARIFICATION_ROUNDS)
BY DEF DecisionOn, Decision

LEMMA AnalyseFactsKeeps ==
  ASSUME AskInv, NEW t \in Threads, AnalyseFacts(t)
  PROVE  AskInv'
<1> DEFINE old == turn[t]
<1>1. /\ old.at = "facts" /\ UNCHANGED <<facts, asked, opening, strayed>>
      /\ old \in Turns /\ pending[t] \in Asking
      /\ PlaceInv(old, pending[t], asked[t])
      /\ ~strayed[t] => QuestionInv(old, pending[t], asked[t], facts[t], opening[t])
  BY ThreadIs DEF AnalyseFacts, At
<1>2. old.outcome = "none" /\ old.question # <<>> /\ ~Waits(pending[t])
  BY <1>1 DEF PlaceInv, Places
<1>3. CASE IsChat(t)
  <2> DEFINE e == [turn[t] EXCEPT !.at = "complexity"]
  <2>1. turn' = [turn EXCEPT ![t] = e] /\ UNCHANGED pending
    BY <1>3 DEF AnalyseFacts, Goto
  <2>2. /\ e \in Turns /\ e.at = "complexity" /\ e.outcome = old.outcome /\ e.question = old.question
        /\ e.resumed = old.resumed /\ e.route = old.route
    BY <1>1 DEF Turns, Places
  <2> HIDE DEF e
  <2>3. Chats(e)
    BY <1>3, <2>2 DEF Chats, IsChat
  <2>4. PlaceInv(e, pending[t], asked[t]) /\ RushInv(e, pending[t], asked[t], facts[t])
    BY <1>2, <2>2, <2>3 DEF PlaceInv, RushInv, Places
  <2>5. ~strayed[t] => QuestionInv(e, pending[t], asked[t], facts[t], opening[t])
    BY <1>1, <1>2, <2>2 DEF QuestionInv, Places
  <2> QED BY <1>1, <2>1, <2>2, <2>4, <2>5, TurnMoves
<1>4. CASE ~IsChat(t)
  <2> DEFINE d == DecisionOn(old.question, old.message, facts[t], asked[t])
             p == [needs |-> d.needs, blocking |-> d.blocking]
             place == IF d.needs /\ d.blocking THEN "clarification" ELSE "complexity"
  <2>1. d = Decide(t)
    BY DecideIs
  <2>2. PICK many \in BOOLEAN :
          /\ pending' = [pending EXCEPT ![t] = p]
          /\ turn' = [turn EXCEPT ![t].sufficient = d.sufficient, ![t].many = many, ![t].at = place]
    BY <1>4, <2>1 DEF AnalyseFacts
  <2> DEFINE e == [turn[t] EXCEPT !.sufficient = d.sufficient, !.many = many, !.at = place]
  <2>3. turn' = [turn EXCEPT ![t] = e]
    BY <1>1, <2>2
  <2>4. d.needs \in BOOLEAN /\ d.blocking \in BOOLEAN /\ d.sufficient \in BOOLEAN
        /\ (d.needs => ~(asked[t] >= MAX_CLARIFICATION_ROUNDS))
    BY DecisionIs
  <2>5. place \in {"clarification", "complexity"} /\ (place = "clarification" <=> d.needs /\ d.blocking)
    OBVIOUS
  <2> HIDE DEF d, place
  <2>6. /\ e \in Turns /\ e.at = place /\ e.outcome = old.outcome /\ e.question = old.question
        /\ e.resumed = old.resumed /\ e.route = old.route /\ e.message = old.message
        /\ e.sufficient = d.sufficient
    BY <1>1, <2>4, <2>5 DEF Turns, Places
  <2>7. p \in Asking /\ p.needs = d.needs /\ p.blocking = d.blocking
    BY <2>4 DEF Asking
  <2> HIDE DEF e, p
  <2>8. asked[t] \in Rounds /\ asked[t] \in Nat /\ MAX_CLARIFICATION_ROUNDS \in Nat
    BY ThreadIs, RoundsAreNat
  <2>9. PlaceInv(e, p, asked[t])
    <3>1. place = "clarification" => asked[t] < MAX_CLARIFICATION_ROUNDS
      BY <2>4, <2>5, <2>8
    <3>2. Waits(p) => place = "clarification"
      BY <2>5, <2>7 DEF Waits
    <3> QED BY <1>2, <2>5, <2>6, <3>1, <3>2 DEF PlaceInv
  <2>10. RushInv(e, p, asked[t], facts[t])
    <3>1. d = DecisionOn(e.question, e.message, facts[t], asked[t])
      BY <2>6 DEF d
    <3> QED BY <1>2, <2>5, <2>6, <2>7, <3>1 DEF RushInv
  <2>11. ~strayed[t] => QuestionInv(e, p, asked[t], facts[t], opening[t])
    <3>1. Waits(p) => e.at = "clarification"
      BY <2>5, <2>6, <2>7 DEF Waits
    <3> QED BY <1>1, <2>5, <2>6, <3>1 DEF QuestionInv, Places
  <2>12. /\ asked' = [asked EXCEPT ![t] = asked[t]] /\ facts' = [facts EXCEPT ![t] = facts[t]]
         /\ opening' = [opening EXCEPT ![t] = opening[t]] /\ strayed' = [strayed EXCEPT ![t] = strayed[t]]
         /\ facts[t] \in Facts /\ opening[t] \in Text /\ strayed[t] \in BOOLEAN
    BY <1>1, ThreadIs
  <2> QED BY <2>2, <2>3, <2>6, <2>7, <2>8, <2>9, <2>10, <2>11, <2>12, ThreadMoves
<1> QED BY <1>3, <1>4

\* A reply is put behind the question and the replies before it.
LEMMA ReplyKeeps ==
  ASSUME AskInv, NEW t \in Threads, MergeFacts(t), IsReply(t)
  PROVE  AskInv'
<1> DEFINE n == asked[t]
           known == facts[t]
           said == turn[t].message
           supplements == [known.supplements EXCEPT ![n] = said]
           f == [known EXCEPT !.supplements = supplements]
           question == FactsText(known) \o said
           yes == TRUE
           e == [turn[t] EXCEPT !.at = "intent", !.resumed = yes, !.question = question]
           told == IF strayed[t] THEN Nothing ELSE opening[t] \o said
<1>1. /\ turn[t] \in Turns /\ n \in Rounds /\ known \in Facts /\ opening[t] \in Text /\ strayed[t] \in BOOLEAN
      /\ PlaceInv(turn[t], pending[t], n)
      /\ ~strayed[t] => QuestionInv(turn[t], pending[t], n, known, opening[t])
  BY ThreadIs
<1>2. turn[t].at = "merge" /\ Waits(pending[t])
  BY DEF MergeFacts, At, IsReply, Waits
<1>3. said \in Text /\ said # <<>> /\ turn[t].outcome = "none"
  BY <1>1, <1>2 DEF Turns, PlaceInv
<1>4. Confirmed(known.supplements[n], said) = said
  BY <1>3 DEF Confirmed, Nothing
<1>5. /\ turn' = [turn EXCEPT ![t].at = "intent", ![t].resumed = TRUE, ![t].question = question]
      /\ facts' = [facts EXCEPT ![t].supplements[n] = Confirmed(@, said)]
      /\ pending' = [pending EXCEPT ![t] = Quiet] /\ UNCHANGED <<asked, strayed>>
      /\ opening' = [opening EXCEPT ![t] = IF strayed[t] THEN Nothing ELSE @ \o said]
  BY DEF MergeFacts
<1>6. turn' = [turn EXCEPT ![t] = e]
  BY <1>1, <1>5
<1>7. facts' = [facts EXCEPT ![t] = f]
  BY <1>1, <1>4, <1>5 DEF Facts
<1>8. opening' = [opening EXCEPT ![t] = told]
  BY <1>1, <1>5
<1>9. supplements \in [Rounds -> Text] /\ supplements[n] = said
      /\ \A k \in Rounds : k # n => supplements[k] = known.supplements[k]
  BY <1>1, <1>3 DEF Facts
<1>10. question \in Text /\ told \in Text
  BY <1>1, <1>3, FactsTextIsText, ConcatProperties, IdleTurns DEF Text
<1>11. question # <<>>
  BY <1>1, <1>3, FactsTextIsText, ConcatEqualIffEmpty DEF Text
<1>12. yes \in BOOLEAN
  OBVIOUS
<1> HIDE DEF supplements, yes
<1>13. f \in Facts /\ f.original = known.original /\ f.supplements = supplements
  BY <1>1, <1>9 DEF Facts
<1> HIDE DEF f
<1>14. ~strayed[t] => /\ known.original # <<>> /\ opening[t] = FactsText(known) /\ Blank(known, n)
  BY <1>1, <1>2 DEF QuestionInv
<1>15. ~strayed[t] => told = FactsText(f) /\ question = told
  <2>1. ASSUME ~strayed[t] PROVE FactsText(f) = question
    BY <1>1, <1>3, <1>9, <1>13, <1>14, <2>1, NextSupplement
  <2> QED BY <1>14, <2>1
<1>16. ~strayed[t] => Blank(f, n + 1)
  <2>1. \A k \in Rounds : k >= n + 1 => k >= n /\ k # n
    <3>1. n \in Nat /\ \A k \in Rounds : k \in Nat
      BY <1>1, RoundsAreNat
    <3> QED BY <3>1
  <2> QED BY <1>9, <1>13, <1>14, <2>1 DEF Blank
<1> HIDE DEF question, told
<1>17. /\ e \in Turns /\ e.at = "intent" /\ e.question = question /\ e.outcome = "none"
  BY <1>1, <1>3, <1>10, <1>12 DEF Turns, Places
<1> HIDE DEF e
<1>18. Quiet \in Asking /\ ~Waits(Quiet)
  BY IdleTurns
<1>19. PlaceInv(e, Quiet, n) /\ RushInv(e, Quiet, n, f)
  BY <1>11, <1>17, <1>18 DEF PlaceInv, RushInv, Places
<1>20. ~strayed[t] => QuestionInv(e, Quiet, n, f, told)
  BY <1>13, <1>14, <1>15, <1>16, <1>17, <1>18 DEF QuestionInv, Places
<1>21. asked' = [asked EXCEPT ![t] = n] /\ strayed' = [strayed EXCEPT ![t] = strayed[t]]
       /\ pending' = [pending EXCEPT ![t] = Quiet] /\ n \in Rounds /\ strayed[t] \in BOOLEAN
  BY <1>5, ThreadIs
<1> HIDE DEF n
<1> QED BY <1>6, <1>7, <1>8, <1>10, <1>13, <1>17, <1>18, <1>19, <1>20, <1>21, ThreadMoves

LEMMA MergeFactsKeeps ==
  ASSUME AskInv, NEW t \in Threads, MergeFacts(t)
  PROVE  AskInv'
<1>1. CASE IsReply(t)
  BY <1>1, ReplyKeeps
<1>2. CASE ~IsReply(t)
  <2> DEFINE e == [turn[t] EXCEPT !.at = "intent", !.question = turn[t].message]
  <2>1. /\ turn' = [turn EXCEPT ![t].at = "intent", ![t].question = turn[t].message]
        /\ turn[t].at = "merge" /\ UNCHANGED <<facts, asked, pending, opening, strayed>>
    BY <1>2 DEF MergeFacts, At
  <2>2. /\ turn[t] \in Turns /\ PlaceInv(turn[t], pending[t], asked[t])
        /\ ~strayed[t] => QuestionInv(turn[t], pending[t], asked[t], facts[t], opening[t])
    BY ThreadIs
  <2>3. turn' = [turn EXCEPT ![t] = e]
    BY <2>1, <2>2
  <2>4. turn[t].message # <<>> /\ ~turn[t].resumed /\ turn[t].outcome = "none"
    BY <2>1, <2>2 DEF PlaceInv
  <2>5. /\ e \in Turns /\ e.at = "intent" /\ e.question = turn[t].message
        /\ e.outcome = turn[t].outcome /\ e.resumed = turn[t].resumed
    BY <2>2 DEF Turns, Places
  <2> HIDE DEF e
  <2>6. ~Waits(pending[t])
    BY <1>2 DEF Waits, IsReply
  <2>7. PlaceInv(e, pending[t], asked[t]) /\ RushInv(e, pending[t], asked[t], facts[t])
    BY <2>4, <2>5, <2>6 DEF PlaceInv, RushInv, Places
  <2>8. ~strayed[t] => QuestionInv(e, pending[t], asked[t], facts[t], opening[t])
    BY <2>2, <2>4, <2>5, <2>6 DEF QuestionInv, Places
  <2> QED BY <2>1, <2>3, <2>5, <2>7, <2>8, TurnMoves
<1> QED BY <1>1, <1>2

LEMMA AskUserKeeps ==
  ASSUME AskInv, NEW t \in Threads, AskUser(t)
  PROVE  AskInv'
<1> DEFINE n == asked[t] + 1
           known == facts[t]
           question == turn[t].question
           original == Confirmed(known.original, OriginalQuestion(t))
           f == [known EXCEPT !.original = original]
           s == strayed[t] \/ (~turn[t].resumed /\ known.original # Nothing)
           told == IF s THEN Nothing ELSE IF turn[t].resumed THEN opening[t] ELSE question
           e == [NoTurn EXCEPT !.outcome = "asked", !.question = question]
<1>1. /\ turn[t] \in Turns /\ asked[t] \in Rounds /\ known \in Facts /\ opening[t] \in Text
      /\ strayed[t] \in BOOLEAN /\ pending[t] \in Asking
      /\ PlaceInv(turn[t], pending[t], asked[t])
      /\ ~strayed[t] => QuestionInv(turn[t], pending[t], asked[t], known, opening[t])
  BY ThreadIs
<1>2. turn[t].at = "clarification"
  BY DEF AskUser, At
<1>3. question \in Text /\ question # <<>> /\ asked[t] < MAX_CLARIFICATION_ROUNDS /\ known.original \in Text
  BY <1>1, <1>2 DEF Turns, PlaceInv, Places, Facts
<1>4. n \in Rounds
  BY <1>1, <1>3, RoundsAreNat
<1>5. original = (IF known.original = <<>> THEN question ELSE known.original)
  BY <1>3 DEF Confirmed, OriginalQuestion, Nothing
<1>6. s \in BOOLEAN /\ told \in Text /\ original \in Text /\ original # <<>>
  BY <1>1, <1>3, <1>5, IdleTurns
<1>7. /\ asked' = [asked EXCEPT ![t] = n]
      /\ facts' = [facts EXCEPT ![t].original = Confirmed(@, OriginalQuestion(t))]
      /\ strayed' = [strayed EXCEPT ![t] = @ \/ (~turn[t].resumed /\ facts[t].original # Nothing)]
      /\ opening' = [opening EXCEPT ![t] = IF strayed'[t] THEN Nothing
                                          ELSE IF turn[t].resumed THEN @ ELSE turn[t].question]
      /\ turn' = [turn EXCEPT ![t] = e] /\ UNCHANGED pending
  BY DEF AskUser, RoundsAfter, EndAs
<1>8. strayed' = [strayed EXCEPT ![t] = s] /\ strayed'[t] = s
  BY <1>7 DEF AskInv, TypeInv
<1>9. opening' = [opening EXCEPT ![t] = told]
  BY <1>7, <1>8
<1>10. facts' = [facts EXCEPT ![t] = f]
  BY <1>1, <1>7 DEF Facts
<1> HIDE DEF original
<1>11. f \in Facts /\ f.original = original /\ f.supplements = known.supplements
  BY <1>1, <1>6 DEF Facts
<1> HIDE DEF f
<1>12. e \in Turns /\ e.at = "idle" /\ e.outcome = "asked"
  <2>1. NoTurn \in Turns /\ NoTurn.at = "idle"
    BY IdleTurns
  <2> QED BY <1>3, <2>1 DEF Turns
<1> HIDE DEF e
<1>13. ~s => told = FactsText(f) /\ Blank(f, n)
  <2>1. CASE ~s /\ turn[t].resumed
    <3>1. known.original # <<>> /\ opening[t] = FactsText(known) /\ Blank(known, n)
      BY <1>1, <1>2, <2>1 DEF QuestionInv, Places
    <3>2. f.original = known.original
      BY <1>5, <1>11, <3>1
    <3>3. FactsText(f) = FactsText(known) /\ Blank(f, n)
      BY <1>11, <3>1, <3>2 DEF FactsText, SupplementsOf, Blank
    <3> QED BY <2>1, <3>1, <3>3
  <2>2. CASE ~s /\ ~turn[t].resumed
    <3>1. known.original = <<>>
      BY <2>2 DEF Nothing
    <3>2. Blank(known, 0)
      BY <1>1, <2>2, <3>1 DEF QuestionInv
    <3>3. Blank(f, 0) /\ Blank(f, n)
      BY <1>4, <1>11, <3>2, RoundsAreNat DEF Blank
    <3>4. FactsText(f) = question
      BY <1>5, <1>11, <3>1, <3>3, BlankSaysNothing
    <3> QED BY <2>2, <3>3, <3>4
  <2> QED BY <2>1, <2>2
<1> HIDE DEF s, told
<1>14. PlaceInv(e, pending[t], n) /\ RushInv(e, pending[t], n, f)
       /\ (~s => QuestionInv(e, pending[t], n, f, told))
  BY <1>1, <1>4, <1>6, <1>11, <1>12, <1>13, AtRest
<1>15. pending' = [pending EXCEPT ![t] = pending[t]]
  BY <1>7, ThreadIs
<1>16. asked' = [asked EXCEPT ![t] = n] /\ turn' = [turn EXCEPT ![t] = e]
  BY <1>7
<1> HIDE DEF n
<1> QED BY <1>1, <1>4, <1>6, <1>8, <1>9, <1>10, <1>11, <1>12, <1>14, <1>15, <1>16, ThreadMoves

\* A simple plan is chosen when no fact stands in the way.
LEMMA SimpleIsUnrushed ==
  ASSUME NEW question \in Text, NEW message, NEW f \in Facts, NEW n, question # <<>>, ~Has("document", message),
         \/ DecisionOn(question, message, f, n).sufficient
         \/ DecisionOn(question, message, f, n).needs /\ ~DecisionOn(question, message, f, n).blocking
  PROVE  Unrushed(question, f)
<1> DEFINE combined == question \o FactsText(f)
           asks == Demands(question) /\ Missing(combined) >= BLOCKING_MISSING /\ Length(combined) < DETAILED
<1>1. SUFFICES ASSUME Demands(question), IsLegal(question), ToSet(FactsText(f)) \subseteq ToSet(question)
               PROVE  Missing(question) < BLOCKING_MISSING \/ Length(combined) >= DETAILED
  BY DEF Unrushed
<1>2. FactsText(f) \in Text
  BY FactsTextIsText
<1>3. combined \in Text /\ ToSet(combined) = ToSet(question)
  BY <1>1, <1>2, MembersOfBoth
<1> HIDE DEF combined
<1>4. IsLegal(combined) /\ Missing(combined) = Missing(question)
  BY <1>1, <1>3, SameMembers
<1>5. Missing(combined) \in Nat /\ Length(combined) \in Nat
  BY <1>3, MissingIsNat, LengthIsNat
<1>6. BLOCKING_MISSING \in Nat /\ BLOCKING_MISSING > 1 /\ DETAILED \in Nat
  BY ClarificationAssumption
<1>7. Has("own", question)
  BY <1>1 DEF Demands
<1>8. CASE IsSufficient(combined)
  <2>1. Missing(combined) <= 1
    BY <1>4, <1>8 DEF IsSufficient
  <2> QED BY <1>4, <1>5, <1>6, <2>1
<1>9. CASE ~IsSufficient(combined)
  <2> DEFINE d == DecisionOn(question, message, f, n)
  <2>1. CASE n >= MAX_CLARIFICATION_ROUNDS
    <3>1. d = Decision(FALSE, FALSE, FALSE)
      BY <1>1, <2>1 DEF DecisionOn, Nothing
    <3>2. ~d.sufficient /\ ~d.needs
      BY <3>1 DEF Decision
    <3> QED BY <3>2
  <2>2. CASE ~(n >= MAX_CLARIFICATION_ROUNDS)
    <3>1. d = Decision(FALSE, TRUE, asks)
      BY <1>1, <1>7, <1>9, <2>2 DEF DecisionOn, Nothing, combined
    <3>2. ~d.sufficient /\ d.blocking = asks
      <4> DEFINE no == FALSE
                 yes == TRUE
      <4> HIDE DEF d, asks, no, yes
      <4>1. d = Decision(no, yes, asks)
        BY <3>1 DEF no, yes
      <4>2. d.sufficient = no /\ d.blocking = asks
        BY <4>1 DEF Decision
      <4> QED BY <4>2 DEF no
    <3>3. ~asks
      BY <3>2
    <3> QED BY <1>1, <1>4, <1>5, <1>6, <3>3
  <2> QED BY <2>1, <2>2
<1> QED BY <1>8, <1>9

LEMMA FinishKeeps ==
  ASSUME AskInv, NEW t \in Threads, Finish(t)
  PROVE  AskInv'
<1> DEFINE question == turn[t].question
           outcome == CASE IsChat(t)                  -> "chat"
                        [] ~IsChat(t) /\ IsSimple(t) -> "simple"
                        [] OTHER -> IF turn[t].route = "final" THEN "silent" ELSE "planned"
           e == [NoTurn EXCEPT !.outcome = outcome, !.question = question]
<1>1. /\ turn[t] \in Turns /\ facts[t] \in Facts /\ asked[t] \in Rounds /\ pending[t] \in Asking
      /\ opening[t] \in Text
      /\ PlaceInv(turn[t], pending[t], asked[t]) /\ RushInv(turn[t], pending[t], asked[t], facts[t])
      /\ ~strayed[t] => QuestionInv(turn[t], pending[t], asked[t], facts[t], opening[t])
  BY ThreadIs
<1>2. /\ turn[t].at = "complexity" /\ turn' = [turn EXCEPT ![t] = e]
      /\ UNCHANGED <<facts, asked, pending, opening, strayed>>
  BY DEF Finish, EndAs, At
<1>3. question \in Text /\ question # <<>> /\ ~Waits(pending[t])
  BY <1>1, <1>2 DEF Turns, PlaceInv, Places
<1>4. outcome \in {"chat", "simple", "silent", "planned"}
      /\ (outcome = "simple" => ~IsChat(t) /\ IsSimple(t))
  OBVIOUS
<1> HIDE DEF outcome
<1>5. e \in Turns /\ e.at = "idle" /\ e.outcome = outcome /\ e.question = question
  <2>1. NoTurn \in Turns /\ NoTurn.at = "idle"
    BY IdleTurns
  <2> QED BY <1>3, <1>4, <2>1 DEF Turns
<1> HIDE DEF e
<1>6. outcome = "simple" => Unrushed(question, facts[t])
  <2> SUFFICES ASSUME outcome = "simple" PROVE Unrushed(question, facts[t])
    OBVIOUS
  <2>1. /\ ~Chats(turn[t]) /\ ~Has("document", turn[t].message)
        /\ turn[t].sufficient \/ pending[t].needs
    BY <1>4 DEF IsChat, Chats, IsSimple
  <2> DEFINE d == DecisionOn(question, turn[t].message, facts[t], asked[t])
  <2>2. turn[t].sufficient = d.sufficient /\ pending[t].needs = d.needs /\ ~(d.needs /\ d.blocking)
    BY <1>1, <1>2, <2>1 DEF RushInv
  <2> QED BY <1>1, <1>3, <2>1, <2>2, SimpleIsUnrushed
<1>7. PlaceInv(e, pending[t], asked[t])
  BY <1>3, <1>5 DEF PlaceInv, Places
<1>8. RushInv(e, pending[t], asked[t], facts[t])
  BY <1>5, <1>6 DEF RushInv
<1>9. ~strayed[t] => QuestionInv(e, pending[t], asked[t], facts[t], opening[t])
  BY <1>1, <1>3, <1>5 DEF QuestionInv, Places
<1> QED BY <1>2, <1>5, <1>7, <1>8, <1>9, TurnMoves

LEMMA InterruptKeeps ==
  ASSUME AskInv, NEW t \in Threads, Interrupt(t)
  PROVE  AskInv'
<1> DEFINE question == turn[t].question
           e == [NoTurn EXCEPT !.outcome = "interrupted", !.question = question]
           s == strayed[t] \/ turn[t].at = "clarification"
           told == IF s THEN Nothing ELSE opening[t]
<1>1. /\ turn[t] \in Turns /\ facts[t] \in Facts /\ asked[t] \in Rounds /\ pending[t] \in Asking
      /\ opening[t] \in Text /\ strayed[t] \in BOOLEAN
      /\ ~strayed[t] => QuestionInv(turn[t], pending[t], asked[t], facts[t], opening[t])
  BY ThreadIs
<1>2. /\ turn' = [turn EXCEPT ![t] = e]
      /\ strayed' = [strayed EXCEPT ![t] = @ \/ turn[t].at = "clarification"]
      /\ opening' = [opening EXCEPT ![t] = IF strayed'[t] THEN Nothing ELSE @]
      /\ UNCHANGED <<facts, asked, pending>>
  BY DEF Interrupt, EndAs, At
<1>3. strayed' = [strayed EXCEPT ![t] = s] /\ strayed'[t] = s
  BY <1>2 DEF AskInv, TypeInv
<1>4. opening' = [opening EXCEPT ![t] = told]
  BY <1>2, <1>3
<1>5. s \in BOOLEAN /\ told \in Text /\ question \in Text
  BY <1>1, IdleTurns DEF Turns
<1>6. e \in Turns /\ e.at = "idle" /\ e.outcome = "interrupted"
  <2>1. NoTurn \in Turns /\ NoTurn.at = "idle"
    BY IdleTurns
  <2> QED BY <1>5, <2>1 DEF Turns
<1> HIDE DEF e
<1>7. ~s => /\ facts[t].original = <<>> => Blank(facts[t], 0)
            /\ Waits(pending[t]) => /\ facts[t].original # <<>> /\ told = FactsText(facts[t])
                                    /\ Blank(facts[t], asked[t])
  BY <1>1 DEF QuestionInv
<1> HIDE DEF s, told
<1>8. PlaceInv(e, pending[t], asked[t]) /\ RushInv(e, pending[t], asked[t], facts[t])
      /\ (~s => QuestionInv(e, pending[t], asked[t], facts[t], told))
  BY <1>1, <1>5, <1>6, <1>7, AtRest
<1>9. /\ pending' = [pending EXCEPT ![t] = pending[t]] /\ asked' = [asked EXCEPT ![t] = asked[t]]
      /\ facts' = [facts EXCEPT ![t] = facts[t]] /\ turn' = [turn EXCEPT ![t] = e]
  BY <1>2, ThreadIs
<1>10. strayed' = [strayed EXCEPT ![t] = s]
  BY <1>3
<1> QED BY <1>1, <1>4, <1>5, <1>6, <1>8, <1>9, <1>10, ThreadMoves

LEMMA LoseCheckpointKeeps ==
  ASSUME AskInv, NEW t \in Threads, LoseCheckpoint(t)
  PROVE  AskInv'
<1> DEFINE no == FALSE
<1>1. /\ facts' = [facts EXCEPT ![t] = NoFacts] /\ asked' = [asked EXCEPT ![t] = 0]
      /\ pending' = [pending EXCEPT ![t] = Quiet] /\ turn' = [turn EXCEPT ![t] = NoTurn]
      /\ opening' = [opening EXCEPT ![t] = <<>>] /\ strayed' = [strayed EXCEPT ![t] = no]
  BY DEF LoseCheckpoint, Nothing
<1>2. no \in BOOLEAN
  OBVIOUS
<1> HIDE DEF no
<1>3. /\ NoTurn \in Turns /\ Quiet \in Asking /\ NoFacts \in Facts /\ 0 \in Rounds /\ <<>> \in Text
      /\ NoTurn.at = "idle" /\ NoTurn.outcome # "simple" /\ ~Waits(Quiet) /\ Blank(NoFacts, 0)
  BY IdleTurns, RoundsAreNat
<1>4. PlaceInv(NoTurn, Quiet, 0) /\ RushInv(NoTurn, Quiet, 0, NoFacts)
      /\ QuestionInv(NoTurn, Quiet, 0, NoFacts, <<>>)
  BY <1>3, AtRest
<1> QED BY <1>1, <1>2, <1>3, <1>4, ThreadMoves

LEMMA ThreadsStay ==
  ASSUME AskInv, UNCHANGED <<facts, asked, pending, turn, opening, strayed>>
  PROVE  AskInv'
BY DEF AskInv, TypeInv, ThreadInv

-----------------------------------------------------------------------------
(* The invariant, and what it says.                                         *)

LEMMA InitInv == Init => AskInv
<1> SUFFICES ASSUME Init PROVE AskInv
  OBVIOUS
<1>1. TypeInv
  BY IdleTurns, RoundsAreNat DEF Init, TypeInv
<1>2. ASSUME NEW t \in Threads PROVE ThreadInv(t)
  <2>1. /\ turn[t] = NoTurn /\ pending[t] = Quiet /\ asked[t] = 0 /\ facts[t] = NoFacts /\ opening[t] = <<>>
    BY DEF Init, Nothing
  <2>2. /\ NoTurn \in Turns /\ Quiet \in Asking /\ NoFacts \in Facts /\ 0 \in Rounds /\ <<>> \in Text
        /\ NoTurn.at = "idle" /\ NoTurn.outcome # "simple" /\ ~Waits(Quiet) /\ Blank(NoFacts, 0)
    BY IdleTurns, RoundsAreNat
  <2>3. PlaceInv(NoTurn, Quiet, 0) /\ RushInv(NoTurn, Quiet, 0, NoFacts)
        /\ QuestionInv(NoTurn, Quiet, 0, NoFacts, <<>>)
    BY <2>2, AtRest
  <2> QED BY <2>1, <2>3 DEF ThreadInv
<1> QED BY <1>1, <1>2 DEF AskInv

LEMMA NextInv == AskInv /\ [Next]_vars => AskInv'
<1> SUFFICES ASSUME AskInv, [Next]_vars PROVE AskInv'
  OBVIOUS
<1>1. ASSUME NEW t \in Threads, Node(t) PROVE AskInv'
  BY <1>1, MergeFactsKeeps, RouteIntentKeeps, AnalyseFactsKeeps, AskUserKeeps, FinishKeeps DEF Node
<1>2. ASSUME NEW t \in Threads, Interrupt(t) \/ LoseCheckpoint(t) PROVE AskInv'
  BY <1>2, InterruptKeeps, LoseCheckpointKeeps
<1>3. ASSUME NEW t \in Threads, NEW m \in Messages, AnswerFromCache(t, m) \/ StartTurn(t, m) PROVE AskInv'
  BY <1>3, CacheAnswerKeeps, StartTurnKeeps
<1>4. ASSUME NEW m \in Messages, ExpireAnswer(m) PROVE AskInv'
  <2>1. UNCHANGED <<facts, asked, pending, turn, opening, strayed>>
    BY <1>4 DEF ExpireAnswer
  <2> QED BY <2>1, ThreadsStay
<1>5. CASE UNCHANGED vars
  <2>1. UNCHANGED <<facts, asked, pending, turn, opening, strayed>>
    BY <1>5 DEF vars
  <2> QED BY <2>1, ThreadsStay
<1> QED BY <1>1, <1>2, <1>3, <1>4, <1>5 DEF Next

LEMMA Invariance == Spec => []AskInv
BY InitInv, NextInv, PTL DEF Spec

LEMMA InvQuestion == AskInv => ResumedQuestionIsWhole
<1> SUFFICES ASSUME AskInv, NEW t \in Threads, turn[t].resumed, ~strayed[t], turn[t].at \in {"intent", "facts"}
             PROVE  turn[t].question = opening[t]
  BY DEF ResumedQuestionIsWhole
<1>1. QuestionInv(turn[t], pending[t], asked[t], facts[t], opening[t])
  BY ThreadIs
<1> QED BY <1>1 DEF QuestionInv, Places

\* However many rounds are allowed, and whatever is interrupted, lost or
\* answered from the cache between them: the question a reply resumes is the
\* one that was asked about, with every reply since in its order.
THEOREM ResumedQuestionIsWholeHolds == Spec => []ResumedQuestionIsWhole
BY Invariance, InvQuestion, PTL

LEMMA InvUnrushed == AskInv => ConclusionsAreNotRushed
<1> SUFFICES ASSUME AskInv, NEW t \in Threads,
                    turn[t].outcome = "simple", Demands(turn[t].question), IsLegal(turn[t].question), OnlyThisQuestion(t)
             PROVE  \/ Missing(turn[t].question) < BLOCKING_MISSING
                    \/ Length(turn[t].question \o FactsText(facts[t])) >= DETAILED
  BY DEF ConclusionsAreNotRushed
<1>1. RushInv(turn[t], pending[t], asked[t], facts[t])
  BY ThreadIs
<1> QED BY <1>1 DEF RushInv, Unrushed, OnlyThisQuestion

\* Whatever the keyword lists, the fact dimensions and the limits are: a
\* conclusion on an own case that lacks facts and detail never comes from the
\* simple plan.
THEOREM ConclusionsAreNotRushedHolds == Spec => []ConclusionsAreNotRushed
BY Invariance, InvUnrushed, PTL

=============================================================================
