-------------------------- MODULE RedisServicesProofs --------------------------
(***************************************************************************)
(* Proofs about the idempotency mark in Redis, for any number of requests,  *)
(* any limit, TTL, pool size and cooldown, and any number of silences.      *)
(***************************************************************************)
EXTENDS RedisServices, TLAPS

MarkState == {"none", "in_progress", "completed"}
Place     == Commands \cup {"working", "limited", "duplicate", "done", "gone"}

TypeInv ==
    /\ client \in BOOLEAN
    /\ breaker \in Nat
    /\ answers \in BOOLEAN
    /\ silences \in Nat
    /\ counter \in [count : Nat, left : Nat]
    /\ mark \in [state : MarkState, owner : Coroutines, left : Nat]
    /\ sent \subseteq Coroutines
    /\ late \subseteq MarkCommands \X Requests
    /\ pc \in [Coroutines -> Place]
    /\ fresh \in Nat
    /\ disturbed \in BOOLEAN

\* A mark is in force exactly as long as it has time left, and only requests
\* set one; everybody else probes.  Whoever waits for a reply has sent a command.
MarkInv ==
    /\ mark.state # "none" => mark.left > 0 /\ mark.owner \in Requests
    /\ pc[Other] = "ping"
    /\ \A c \in sent : pc[c] \in Commands

\* The record of a completed request stays until the time it was given is over.
FreshInv ==
    fresh > 0 => disturbed \/ (mark.state = "completed" /\ fresh <= mark.left)

\* No invariant of these is inductive without the others: a request may
\* complete or release only what AdmittedHoldsMark says is its own, and that
\* keeps the records FreshInv speaks of.
RedisInv == TypeInv /\ MarkInv /\ AdmittedHoldsMark /\ FreshInv

USE DEF redis

-----------------------------------------------------------------------------
(* Commands and what follows on them.                                       *)

\* What a command does to the mark.
LEMMA MarkAfterCommand ==
    ASSUME NEW command \in Commands, NEW c
    PROVE  /\ command = "claim" =>
                MarkAfter(command, c) = IF mark = NoMark THEN Record("in_progress", c) ELSE mark
           /\ command = "complete" => MarkAfter(command, c) = Record("completed", c)
           /\ command = "release"  => MarkAfter(command, c) = NoMark
           /\ command \notin MarkCommands => MarkAfter(command, c) = mark
BY DEF MarkAfter, MarkCommands, Commands

\* Where a caller goes on.
LEMMA ThenIs ==
    ASSUME NEW c \in Coroutines, NEW result
    PROVE  /\ pc[c] = "ping"  => Then(c, result) = "ping"
           /\ pc[c] = "count" => Then(c, result) \in {"limited", "claim"}
           /\ pc[c] = "claim" => Then(c, result) = IF result = "taken" THEN "read" ELSE "working"
           /\ pc[c] = "read"  => Then(c, result) = "duplicate"
           /\ pc[c] \in {"complete", "release"} => Then(c, result) = "done"
BY DEF Then

\* The constants are positive and Other posts nothing.
LEMMA Constants ==
    /\ Other \notin Requests /\ Other \in Coroutines /\ Requests \subseteq Coroutines
    /\ \A c \in Coroutines : c # Other => c \in Requests
    /\ TTL_SECONDS \in Nat \ {0} /\ WINDOW_SECONDS \in Nat /\ BREAKER_COOLDOWN \in Nat
    /\ MaxSilences \in Nat
BY RedisAssumption DEF Coroutines

\* A command keeps the types of what it writes.
LEMMA EffectType ==
    ASSUME TypeInv, MarkInv, NEW c \in Coroutines, NEW command \in Commands,
           command \in MarkCommands => c \in Requests,
           Effect(command, c)
    PROVE  /\ counter' \in [count : Nat, left : Nat]
           /\ mark' \in [state : MarkState, owner : Coroutines, left : Nat]
           /\ mark'.state # "none" => mark'.left > 0 /\ mark'.owner \in Requests
<1>1. counter' \in [count : Nat, left : Nat]
  <2>1. Count \in [count : Nat, left : Nat]
    BY Constants DEF Count, TypeInv
  <2> QED  BY <2>1 DEF Effect, TypeInv
<1>2. \A state \in MarkState : Record(state, c) \in [state : MarkState, owner : Coroutines, left : Nat]
  BY Constants DEF Record
<1>3. NoMark \in [state : MarkState, owner : Coroutines, left : Nat] /\ NoMark.state = "none"
  BY Constants DEF NoMark, MarkState
<1>4. mark' = MarkAfter(command, c)
  BY DEF Effect
<1>5. CASE command \in MarkCommands
  <2>1. mark' \in {NoMark, mark} \cup {Record(state, c) : state \in {"in_progress", "completed"}}
    BY <1>4, <1>5, MarkAfterCommand DEF MarkCommands
  <2>2. ASSUME NEW state \in {"in_progress", "completed"}, mark' = Record(state, c)
        PROVE  /\ mark' \in [state : MarkState, owner : Coroutines, left : Nat]
               /\ mark'.left > 0 /\ mark'.owner \in Requests
    BY <1>2, <1>5, <2>2, Constants DEF Record, MarkState
  <2> QED  BY <1>1, <1>3, <2>1, <2>2 DEF TypeInv, MarkInv
<1>6. CASE command \notin MarkCommands
  BY <1>1, <1>4, <1>6, MarkAfterCommand DEF TypeInv, MarkInv
<1> QED  BY <1>5, <1>6

\* A caller that goes on stays where callers stand, and the prober probes.
LEMMA ContinueType ==
    ASSUME TypeInv, MarkInv, NEW c \in Coroutines, pc[c] \in Commands, NEW result,
           Continue(c, result)
    PROVE  /\ pc' \in [Coroutines -> Place]
           /\ pc'[c] = Then(c, result)
           /\ \A d \in Coroutines \ {c} : pc'[d] = pc[d]
           /\ pc'[Other] = "ping"
           /\ disturbed' = (disturbed \/ (result = "default" /\ pc[c] \in MarkCommands))
           /\ disturbed' \in BOOLEAN
<1>1. /\ pc' = [pc EXCEPT ![c] = Then(c, result)]
      /\ disturbed' = (disturbed \/ (result = "default" /\ pc[c] \in MarkCommands))
  BY DEF Continue
<1>2. Then(c, result) \in Place
  BY ThenIs DEF Commands, MarkCommands, Place
<1>3. pc' \in [Coroutines -> Place] /\ pc'[c] = Then(c, result)
  BY <1>1, <1>2 DEF TypeInv
<1>4. \A d \in Coroutines \ {c} : pc'[d] = pc[d]
  BY <1>1 DEF TypeInv
<1>5. pc'[Other] = "ping"
  BY <1>3, <1>4, ThenIs, Constants DEF MarkInv
<1>6. disturbed' \in BOOLEAN
  BY <1>1 DEF TypeInv
<1> QED  BY <1>1, <1>3, <1>4, <1>5, <1>6

\* Whoever has a command of the mark under way is a request.
LEMMA MarkCallers ==
    ASSUME MarkInv, NEW c \in Coroutines, pc[c] \in MarkCommands
    PROVE  c \in Requests
BY Constants DEF MarkInv, MarkCommands

-----------------------------------------------------------------------------
(* One lemma per kind of step.                                              *)

\* A caller that goes on without an answer: the record stays as it is, and if
\* the command was about it the request is none of those the properties vouch for.
LEMMA DegradedStep ==
    ASSUME RedisInv, NEW c \in Coroutines, pc[c] \in Commands, Continue(c, "default"),
           UNCHANGED <<mark, fresh>>
    PROVE  AdmittedHoldsMark' /\ FreshInv'
<1>1. /\ pc'[c] = Then(c, "default")
      /\ \A d \in Coroutines \ {c} : pc'[d] = pc[d]
      /\ disturbed' = (disturbed \/ pc[c] \in MarkCommands)
  BY ContinueType DEF RedisInv
<1>2. pc[c] \notin MarkCommands => pc'[c] \notin Working
  BY <1>1, ThenIs DEF Commands, MarkCommands, Working
<1>3. AdmittedHoldsMark'
  BY <1>1, <1>2, Constants DEF AdmittedHoldsMark, RedisInv
<1>4. FreshInv'
  BY <1>1 DEF FreshInv, RedisInv
<1> QED  BY <1>3, <1>4

LEMMA DegradeStep ==
    ASSUME RedisInv, NEW c \in Coroutines, Degrade(c) \/ PoolExhausted(c) PROVE RedisInv'
<1> USE DEF RedisInv
<1>1. /\ pc[c] \in Commands /\ c \notin sent /\ Continue(c, "default")
      /\ UNCHANGED <<client, answers, silences, counter, mark, sent, late, fresh>>
      /\ breaker' \in Nat
  BY Constants DEF Degrade, PoolExhausted, Calls, OpenBreaker, TypeInv
<1>2. /\ pc' \in [Coroutines -> Place]
      /\ \A d \in Coroutines \ {c} : pc'[d] = pc[d]
      /\ pc'[Other] = "ping" /\ disturbed' \in BOOLEAN
  BY <1>1, ContinueType
<1>3. TypeInv' /\ MarkInv'
  BY <1>1, <1>2 DEF TypeInv, MarkInv
<1>4. AdmittedHoldsMark' /\ FreshInv'
  BY <1>1, DegradedStep
<1> QED  BY <1>3, <1>4

LEMMA SendStep == ASSUME RedisInv, NEW c \in Coroutines, Send(c) PROVE RedisInv'
BY DEF RedisInv, TypeInv, MarkInv, AdmittedHoldsMark, FreshInv, Send, Calls

\* An answered command: a claim that finds no record becomes the request's own,
\* and the request that completes or releases is the one whose mark is in force.
LEMMA SucceedStep == ASSUME RedisInv, NEW c \in Coroutines, Succeed(c) PROVE RedisInv'
<1> USE DEF RedisInv
<1>1. /\ c \in sent /\ pc[c] \in Commands
      /\ Effect(pc[c], c) /\ Continue(c, Reply(pc[c]))
      /\ sent' = sent \ {c}
      /\ UNCHANGED <<client, answers, silences, late>>
      /\ breaker' = 0
      /\ fresh' = IF pc[c] = "complete" /\ ~disturbed THEN TTL_SECONDS ELSE fresh
  BY DEF Succeed, CloseBreaker, MarkInv
<1>2. Reply(pc[c]) # "default"
  BY DEF Reply
<1>3. /\ pc' \in [Coroutines -> Place]
      /\ pc'[c] = Then(c, Reply(pc[c]))
      /\ \A d \in Coroutines \ {c} : pc'[d] = pc[d]
      /\ pc'[Other] = "ping"
      /\ disturbed' = disturbed
  BY <1>1, <1>2, ContinueType DEF TypeInv
<1>4. pc[c] \in MarkCommands => c \in Requests
  BY MarkCallers
<1>5. /\ counter' \in [count : Nat, left : Nat]
      /\ mark' \in [state : MarkState, owner : Coroutines, left : Nat]
      /\ mark'.state # "none" => mark'.left > 0 /\ mark'.owner \in Requests
  BY <1>1, <1>4, EffectType
<1>6. mark' = MarkAfter(pc[c], c)
  BY <1>1 DEF Effect
<1>7. TypeInv'
  BY <1>1, <1>3, <1>5, Constants DEF TypeInv
<1>8. MarkInv'
  BY <1>1, <1>3, <1>5 DEF MarkInv, TypeInv
<1>9. CASE pc[c] \notin MarkCommands
  <2>1. mark' = mark /\ fresh' = fresh
    BY <1>1, <1>6, <1>9, MarkAfterCommand DEF MarkCommands
  <2>2. pc'[c] \notin Working
    BY <1>1, <1>3, <1>9, ThenIs DEF Commands, MarkCommands, Working
  <2>3. AdmittedHoldsMark' /\ FreshInv'
    BY <1>3, <2>1, <2>2, Constants DEF AdmittedHoldsMark, FreshInv
  <2> QED  BY <1>7, <1>8, <2>3
<1>10. CASE pc[c] = "claim" /\ mark = NoMark
  <2>1. /\ mark' = Record("in_progress", c) /\ fresh' = fresh
        /\ mark'.owner = c /\ mark'.state = "in_progress"
    BY <1>1, <1>6, <1>10, MarkAfterCommand DEF Record
  <2>2. mark.state = "none"
    BY <1>10 DEF NoMark
  <2>3. AdmittedHoldsMark'
    BY <1>3, <2>1, <2>2, Constants DEF AdmittedHoldsMark
  <2>4. FreshInv'
    BY <1>3, <2>1, <2>2 DEF FreshInv
  <2> QED  BY <1>7, <1>8, <2>3, <2>4
<1>11. CASE pc[c] = "claim" /\ mark # NoMark
  <2>1. mark' = mark /\ fresh' = fresh
    BY <1>1, <1>6, <1>11, MarkAfterCommand
  <2>2. pc'[c] = "read"
    BY <1>3, <1>11, ThenIs DEF Reply
  <2>3. AdmittedHoldsMark' /\ FreshInv'
    BY <1>3, <2>1, <2>2, Constants DEF AdmittedHoldsMark, FreshInv, Working
  <2> QED  BY <1>7, <1>8, <2>3
<1>12. CASE pc[c] \in {"complete", "release"}
  <2>1. c \in Requests /\ pc[c] \in Working
    BY <1>4, <1>12 DEF MarkCommands, Working
  <2>2. disturbed \/ (mark.owner = c /\ mark.state = "in_progress")
    BY <2>1 DEF AdmittedHoldsMark
  <2>3. pc'[c] = "done"
    BY <1>3, <1>12, ThenIs
  <2>4. AdmittedHoldsMark'
    BY <1>3, <2>2, <2>3 DEF AdmittedHoldsMark, Working, Coroutines
  <2>5. pc[c] = "complete" => mark'.state = "completed" /\ mark'.left = TTL_SECONDS
    BY <1>1, <1>6, MarkAfterCommand DEF Record
  <2>6. FreshInv'
    <3>1. CASE disturbed
      BY <1>3, <3>1 DEF FreshInv
    <3>2. CASE ~disturbed /\ pc[c] = "complete"
      BY <1>1, <2>5, <3>2, Constants DEF FreshInv
    <3>3. CASE ~disturbed /\ pc[c] = "release"
      BY <1>1, <2>2, <3>3 DEF FreshInv, TypeInv
    <3> QED  BY <1>12, <3>1, <3>2, <3>3 DEF TypeInv
  <2> QED  BY <1>7, <1>8, <2>4, <2>6
<1> QED  BY <1>1, <1>9, <1>10, <1>11, <1>12 DEF MarkCommands

\* A command without a reply disturbs the record only if it is about it.
LEMMA FailStep == ASSUME RedisInv, NEW c \in Coroutines, Fail(c) PROVE RedisInv'
<1> USE DEF RedisInv
<1>1. /\ c \in sent /\ pc[c] \in Commands
      /\ Continue(c, "default")
      /\ sent' = sent \ {c}
      /\ UNCHANGED <<client, answers, silences, fresh>>
      /\ breaker' \in Nat
  BY Constants DEF Fail, OpenBreaker, MarkInv
<1>2. /\ pc' \in [Coroutines -> Place]
      /\ pc'[c] = Then(c, "default")
      /\ \A d \in Coroutines \ {c} : pc'[d] = pc[d]
      /\ pc'[Other] = "ping"
      /\ disturbed' \in BOOLEAN
      /\ disturbed' = (disturbed \/ pc[c] \in MarkCommands)
  BY <1>1, ContinueType
<1>3. pc[c] \in MarkCommands => c \in Requests
  BY MarkCallers
<1>4. late' \subseteq MarkCommands \X Requests
  BY <1>3 DEF Fail, TypeInv
<1>5. \/ Effect(pc[c], c)
      \/ UNCHANGED <<counter, mark>>
  BY DEF Fail
<1>6. /\ counter' \in [count : Nat, left : Nat]
      /\ mark' \in [state : MarkState, owner : Coroutines, left : Nat]
      /\ mark'.state # "none" => mark'.left > 0 /\ mark'.owner \in Requests
  BY <1>1, <1>3, <1>5, EffectType DEF TypeInv, MarkInv
<1>7. TypeInv' /\ MarkInv'
  BY <1>1, <1>2, <1>4, <1>6 DEF TypeInv, MarkInv
<1>8. CASE pc[c] \in MarkCommands
  BY <1>2, <1>7, <1>8 DEF AdmittedHoldsMark, FreshInv
<1>9. CASE pc[c] \notin MarkCommands
  <2>1. mark' = mark
    BY <1>1, <1>5, <1>9, MarkAfterCommand DEF Effect
  <2>2. AdmittedHoldsMark' /\ FreshInv'
    BY <1>1, <2>1, DegradedStep
  <2> QED  BY <1>7, <2>2
<1> QED  BY <1>8, <1>9

\* What the request's own handler does between commands.
LEMMA HandlerStep ==
    ASSUME RedisInv, NEW c \in Coroutines,
           FinishWork(c) \/ (c \in Requests /\ (Disconnect(c) \/ Retry(c)))
    PROVE  RedisInv'
<1> USE DEF RedisInv
<1>1. /\ pc[c] \in {"working", "limited", "duplicate"}
      /\ UNCHANGED <<client, breaker, answers, silences, counter, mark, sent, late, fresh, disturbed>>
  BY DEF FinishWork, Disconnect, Retry
<1>2. PICK next \in {"complete", "release", "gone", "count"} :
        /\ pc' = [pc EXCEPT ![c] = next]
        /\ next \in Working => pc[c] = "working"
  BY DEF FinishWork, Disconnect, Retry, Working
<1>3. next \in Place /\ c # Other
  BY <1>1, <1>2 DEF Place, Commands, MarkCommands, MarkInv
<1>4. /\ pc' \in [Coroutines -> Place] /\ pc'[c] = next
      /\ \A d \in Coroutines \ {c} : pc'[d] = pc[d]
  BY <1>2, <1>3 DEF TypeInv
<1>5. TypeInv'
  BY <1>1, <1>4 DEF TypeInv
<1>6. c \notin sent
  BY <1>1 DEF MarkInv, Commands, MarkCommands
<1>7. MarkInv'
  BY <1>1, <1>3, <1>4, <1>6, Constants DEF MarkInv, TypeInv
<1>8. AdmittedHoldsMark' /\ FreshInv'
  BY <1>1, <1>2, <1>4, Constants DEF AdmittedHoldsMark, FreshInv, Working
<1> QED  BY <1>5, <1>7, <1>8

\* A late command disturbs whatever it finds.
LEMMA ApplyLateStep ==
    ASSUME RedisInv, NEW pending \in late, ApplyLate(pending[1], pending[2]) PROVE RedisInv'
<1> USE DEF RedisInv
<1>1. pending[1] \in MarkCommands /\ pending[2] \in Requests
  BY DEF TypeInv
<1>2. /\ Effect(pending[1], pending[2])
      /\ late' \subseteq late
      /\ disturbed' = TRUE
      /\ UNCHANGED <<client, breaker, answers, silences, sent, pc, fresh>>
  BY DEF ApplyLate
<1>3. pending[1] \in Commands /\ pending[2] \in Coroutines
  BY <1>1, Constants DEF Commands
<1>4. /\ counter' \in [count : Nat, left : Nat]
      /\ mark' \in [state : MarkState, owner : Coroutines, left : Nat]
      /\ mark'.state # "none" => mark'.left > 0 /\ mark'.owner \in Requests
  BY <1>1, <1>2, <1>3, EffectType
<1> QED  BY <1>2, <1>4 DEF TypeInv, MarkInv, AdmittedHoldsMark, FreshInv

\* A mark runs out beside the record of a completed request, or beside the
\* request at work that set it, and then the request is disturbed.
LEMMA TickStep == ASSUME RedisInv, Tick PROVE RedisInv'
<1> USE DEF RedisInv
<1>1. /\ UNCHANGED <<client, answers, silences, sent, late, pc>>
      /\ mark' = IF mark.left <= 1 THEN NoMark ELSE [mark EXCEPT !.left = @ - 1]
      /\ fresh' = Decrement(fresh) /\ breaker' = Decrement(breaker)
      /\ disturbed' = (disturbed \/ (/\ mark.state = "in_progress" /\ mark.left = 1
                                     /\ pc[mark.owner] \in Working \cup {"claim"}))
  BY DEF Tick
<1>2. /\ mark.left \in Nat /\ mark.owner \in Coroutines /\ mark.state \in MarkState
      /\ fresh \in Nat /\ breaker \in Nat
  BY DEF TypeInv
<1>3. fresh' \in Nat /\ breaker' \in Nat /\ disturbed' \in BOOLEAN
  BY <1>1, <1>2 DEF Decrement, TypeInv
<1>4. counter' \in [count : Nat, left : Nat]
  BY DEF Tick, TypeInv
<1>5. disturbed => disturbed'
  BY <1>1
<1>6. disturbed \/ fresh = 0 \/ (mark.state = "completed" /\ fresh <= mark.left)
  BY <1>2 DEF FreshInv
<1>7. CASE mark.left <= 1
  <2>1. mark' = NoMark /\ mark'.state = "none"
    BY <1>1, <1>7 DEF NoMark
  <2>2. mark' \in [state : MarkState, owner : Coroutines, left : Nat]
    BY <2>1, Constants DEF NoMark, MarkState
  <2>3. TypeInv' /\ MarkInv'
    BY <1>1, <1>3, <1>4, <2>1, <2>2 DEF TypeInv, MarkInv
  <2>4. AdmittedHoldsMark'
    <3>1. mark.state = "in_progress" => mark.left = 1
      BY <1>2, <1>7 DEF MarkInv
    <3> QED  BY <1>1, <3>1 DEF AdmittedHoldsMark
  <2>5. FreshInv'
    <3>1. disturbed \/ fresh' = 0
      BY <1>1, <1>2, <1>7, <1>6 DEF Decrement
    <3> QED  BY <1>5, <3>1 DEF FreshInv
  <2> QED  BY <2>3, <2>4, <2>5
<1>8. CASE mark.left > 1
  <2>1. mark' = [mark EXCEPT !.left = @ - 1]
    BY <1>1, <1>2, <1>8
  <2>2. /\ mark' \in [state : MarkState, owner : Coroutines, left : Nat]
        /\ mark'.state = mark.state /\ mark'.owner = mark.owner /\ mark'.left = mark.left - 1
    BY <1>2, <1>8, <2>1 DEF TypeInv
  <2>3. TypeInv' /\ MarkInv'
    BY <1>1, <1>2, <1>3, <1>4, <1>8, <2>2 DEF TypeInv, MarkInv
  <2>4. AdmittedHoldsMark'
    BY <1>1, <2>2 DEF AdmittedHoldsMark
  <2>5. FreshInv'
    <3>1. disturbed \/ fresh' = 0 \/ (mark'.state = "completed" /\ fresh' <= mark'.left)
      BY <1>1, <1>2, <1>8, <1>6, <2>2 DEF Decrement
    <3> QED  BY <1>5, <3>1 DEF FreshInv
  <2> QED  BY <2>3, <2>4, <2>5
<1> QED  BY <1>2, <1>7, <1>8

\* Every step keeps the invariant.
LEMMA RedisNext == RedisInv /\ [Next]_vars => RedisInv'
<1> SUFFICES ASSUME RedisInv, [Next]_vars PROVE RedisInv'
  OBVIOUS
<1>1. CASE \E c \in Coroutines : Handler(c)
  BY <1>1, DegradeStep, SendStep, SucceedStep, FailStep, HandlerStep DEF Handler
<1>2. CASE \E c \in Requests : Disconnect(c) \/ Retry(c)
  BY <1>2, HandlerStep, Constants
<1>3. CASE \E pending \in late : ApplyLate(pending[1], pending[2])
  BY <1>3, ApplyLateStep
<1>4. CASE FallSilent \/ AnswerAgain \/ UNCHANGED vars
  <2>1. /\ UNCHANGED <<client, breaker, counter, mark, sent, late, pc, fresh, disturbed>>
        /\ answers' \in BOOLEAN /\ silences' \in Nat
    <3>1. answers \in BOOLEAN /\ silences \in Nat
      BY DEF RedisInv, TypeInv
    <3>2. CASE FallSilent
      <4>1. silences > 0 /\ silences' = silences - 1 /\ answers' = FALSE
        BY <3>2 DEF FallSilent
      <4>2. silences' \in Nat
        BY <3>1, <4>1, SMT
      <4>3. UNCHANGED <<client, breaker, counter, mark, sent, late, pc, fresh, disturbed>>
        BY <3>2 DEF FallSilent
      <4> QED  BY <4>1, <4>2, <4>3
    <3>3. CASE AnswerAgain
      BY <3>1, <3>3 DEF AnswerAgain
    <3>4. CASE UNCHANGED vars
      BY <3>1, <3>4 DEF vars
    <3> QED  BY <1>4, <3>2, <3>3, <3>4
  <2> QED  BY <2>1 DEF RedisInv, TypeInv, MarkInv, AdmittedHoldsMark, FreshInv
<1>5. CASE Tick
  BY <1>5, TickStep
<1> QED  BY <1>1, <1>2, <1>3, <1>4, <1>5 DEF Next

\* No mark, no records and every handler at its first command.
LEMMA RedisInit == Init => RedisInv
<1> SUFFICES ASSUME Init PROVE RedisInv
  OBVIOUS
<1>1. client \in BOOLEAN
  BY RedisAssumption DEF Init, Enabled
<1>2. mark \in [state : MarkState, owner : Coroutines, left : Nat] /\ mark.state = "none"
  BY Constants DEF Init, NoMark, MarkState
<1>3. pc \in [Coroutines -> Place] /\ pc[Other] = "ping"
  BY Constants DEF Init, Place, Commands, MarkCommands
<1>4. TypeInv
  BY <1>1, <1>2, <1>3, Constants DEF Init, TypeInv
<1> QED
  BY <1>2, <1>3, <1>4 DEF RedisInv, MarkInv, AdmittedHoldsMark, FreshInv, Init, Working, Coroutines

LEMMA RedisInvariant == Spec => []RedisInv
BY RedisInit, RedisNext, PTL DEF Spec

-----------------------------------------------------------------------------
(* The properties.                                                          *)

\* A request that Redis admitted (claim of services/cache/idempotency.py) and that is
\* still at work finds its own mark in force, unless the mark ran out under it
\* or Redis was silent at the wrong moment.
THEOREM AdmittedHoldsMarkHolds == Spec => []AdmittedHoldsMark
<1>1. RedisInv => AdmittedHoldsMark
  BY DEF RedisInv
<1> QED  BY <1>1, RedisInvariant, PTL

\* While the record of a completed request has not run out, no other request of
\* the key is admitted, with the same exceptions.
THEOREM DuplicatesAreRecognisedHolds == Spec => DuplicatesAreRecognised
<1> DEFINE Recognised ==
      \A c \in Requests : pc[c] = "claim" /\ pc'[c] = "working" => fresh = 0 \/ disturbed'
<1>1. RedisInv /\ [Next]_vars => [Recognised]_vars
  <2> SUFFICES ASSUME RedisInv, Next, NEW c \in Requests, pc[c] = "claim", pc'[c] = "working"
               PROVE  fresh = 0 \/ disturbed'
    BY DEF vars
  <2> USE DEF RedisInv
  <2>1. c \in Coroutines /\ pc \in [Coroutines -> Place]
    BY Constants DEF TypeInv
  <2>2. PICK d \in Coroutines : Degrade(d) \/ PoolExhausted(d) \/ Succeed(d) \/ Fail(d)
    BY <2>1 DEF Next, Handler, Send, FinishWork, Disconnect, Retry, ApplyLate, FallSilent,
                AnswerAgain, Tick
  <2>3. d = c
    BY <2>1, <2>2 DEF Degrade, PoolExhausted, Succeed, Fail, Continue
  <2>4. CASE Degrade(d) \/ PoolExhausted(d) \/ Fail(d)
    BY <2>3, <2>4 DEF Degrade, PoolExhausted, Fail, Continue, MarkCommands
  <2>5. CASE Succeed(d)
    <3>1. pc'[c] = Then(c, Reply("claim")) /\ disturbed' = (disturbed \/ Reply("claim") = "default")
      BY <2>1, <2>3, <2>5 DEF Succeed, Continue, MarkCommands
    <3>2. mark = NoMark
      BY <2>1, <3>1, ThenIs DEF Reply
    <3>3. fresh > 0 => disturbed
      BY <3>2 DEF FreshInv, NoMark
    <3> QED  BY <3>1, <3>3 DEF TypeInv
  <2> QED  BY <2>2, <2>4, <2>5
<1> QED  BY <1>1, RedisInvariant, PTL DEF Spec, DuplicatesAreRecognised
================================================================================
