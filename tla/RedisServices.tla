---------------------------- MODULE RedisServices ----------------------------
(***************************************************************************)
(* infrastructure/redis.py and what stands on it in time: the client with   *)
(* its circuit breaker, shared by every coroutine and thread of the         *)
(* process, the burst limit's counter and the idempotency mark of one       *)
(* Idempotency-Key, whose TTLs run out beside slow requests.  Redis may     *)
(* fall silent; what was sent to it before may still be applied.            *)
(*                                                                          *)
(* Time is counted in ticks, and only as time left.                         *)
(***************************************************************************)
EXTENDS Naturals, FiniteSets

CONSTANTS
    Requests,             \* POSTs of one subject with one Idempotency-Key
    Other,                \* any other coroutine or thread: health probes, caches
    RATE_LIMIT_REQUESTS,
    WINDOW_SECONDS,       \* TTL of the counter
    TTL_SECONDS,          \* TTL of the mark
    BREAKER_COOLDOWN,
    MAX_CONNECTIONS,
    Settings,             \* the environments the process may be started in
    MaxSilences           \* times Redis falls silent (bound)

ASSUME RedisAssumption ==
    /\ Other \notin Requests
    /\ {RATE_LIMIT_REQUESTS, WINDOW_SECONDS, TTL_SECONDS, BREAKER_COOLDOWN, MAX_CONNECTIONS} \subseteq Nat \ {0}
    /\ Settings \subseteq [url : BOOLEAN, enabled : {"unset", "true", "false"}]
    /\ MaxSilences \in Nat

VARIABLES
    client,    \* the process has a client
    breaker,   \* time until _breaker_open_until, 0 when it has passed
    answers,   \* Redis answers in time
    silences,  \* how often it may still fall silent
    counter,   \* count and time left of the subject's window
    mark,      \* state, owner and time left of the idempotency record
    sent,      \* coroutines that wait for the reply to a command
    late,      \* commands given up on that Redis may still apply
    pc,        \* where each handler stands
    \* History, read by properties only:
    fresh,     \* time left to the record of a completed request
    disturbed  \* Redis could not be asked about the mark, it ran out under its
               \* request, or a late command came

redis == <<counter, mark>>
vars  == <<client, breaker, answers, silences, redis, sent, late, pc, fresh, disturbed>>

Coroutines == Requests \cup {Other}
NoMark == [state |-> "none", owner |-> Other, left |-> 0]
Decrement(n) == IF n = 0 THEN 0 ELSE n - 1

\* RedisSettings.from_env: without REDIS_ENABLED the URL decides.
Enabled(env) == IF env.enabled = "unset" THEN env.url ELSE env.enabled = "true"

Init ==
    /\ \E env \in Settings : client = Enabled(env)
    /\ breaker = 0
    /\ answers \in BOOLEAN
    /\ silences = MaxSilences
    /\ counter = [count |-> 0, left |-> 0]
    /\ mark = NoMark
    /\ sent = {}
    /\ late = {}
    /\ pc = [c \in Coroutines |-> IF c = Other THEN "ping" ELSE "count"]
    /\ fresh = 0
    /\ disturbed = FALSE

-----------------------------------------------------------------------------
(* What Redis does with a command.                                         *)

MarkCommands == {"claim", "complete", "release"}
Commands     == MarkCommands \cup {"ping", "count", "read"}

\* _INCR_WITH_TTL_SCRIPT: only the first count of a window sets its end.
\* More than the limit is as good as one more.
Count ==
    [count |-> IF counter.count > RATE_LIMIT_REQUESTS THEN counter.count ELSE counter.count + 1,
     left  |-> IF counter.count = 0 THEN WINDOW_SECONDS ELSE counter.left]

Record(state, c) == [state |-> state, owner |-> c, left |-> TTL_SECONDS]

\* Variants: SET without EX, SET without NX, a refused claim renews the mark.
MarkAfterInOldTime(command, c) ==
    IF command = "claim" /\ mark = NoMark THEN Record("in_progress", c)
    ELSE IF command = "complete" THEN [state |-> "completed", owner |-> c, left |-> mark.left]
    ELSE IF command = "release" THEN NoMark ELSE mark
MarkAfterOverwriting(command, c) ==
    IF command = "claim" THEN Record("in_progress", c)
    ELSE IF command = "complete" THEN Record("completed", c)
    ELSE IF command = "release" THEN NoMark ELSE mark
MarkAfterRenewing(command, c) ==
    IF command = "claim" THEN Record("in_progress", IF mark = NoMark THEN c ELSE mark.owner)
    ELSE IF command = "complete" THEN Record("completed", c)
    ELSE IF command = "release" THEN NoMark ELSE mark

\* SET NX EX; SET EX; DEL.
MarkAfter(command, c) ==
    CASE command = "claim" /\ mark = NoMark -> Record("in_progress", c)
      [] command = "complete"               -> Record("completed", c)
      [] command = "release"                -> NoMark
      [] OTHER                              -> mark

Reply(command) ==
    CASE command = "count" -> IF Count.count > RATE_LIMIT_REQUESTS THEN "over" ELSE "within"
      [] command = "claim" -> IF mark = NoMark THEN "acquired" ELSE "taken"
      [] OTHER             -> "done"

Effect(command, c) ==
    /\ counter' = IF command = "count" THEN Count ELSE counter
    /\ mark' = MarkAfter(command, c)

\* Redis answers every command in time, or none for a while.
FallSilent ==
    /\ answers /\ silences > 0
    /\ answers' = FALSE
    /\ silences' = silences - 1
    /\ UNCHANGED <<client, breaker, redis, sent, late, pc, fresh, disturbed>>

AnswerAgain ==
    /\ ~answers
    /\ answers' = TRUE
    /\ UNCHANGED <<client, breaker, silences, redis, sent, late, pc, fresh, disturbed>>

\* A command given up on is applied when nobody waits for it any more.
ApplyLate(command, c) ==
    /\ <<command, c>> \in late
    /\ Effect(command, c)
    /\ late' = late \ {<<command, c>>}
    /\ disturbed' = TRUE
    /\ UNCHANGED <<client, breaker, answers, silences, sent, pc, fresh>>

\* A request that is slower than its mark's TTL loses the mark to the next.
Working == {"working", "complete", "release"}
Tick ==
    /\ breaker' = Decrement(breaker)
    /\ counter' = IF counter.left <= 1 THEN [count |-> 0, left |-> 0] ELSE [counter EXCEPT !.left = @ - 1]
    /\ mark' = IF mark.left <= 1 THEN NoMark ELSE [mark EXCEPT !.left = @ - 1]
    /\ fresh' = Decrement(fresh)
    /\ disturbed' = (disturbed \/ (mark.state = "in_progress" /\ mark.left = 1 /\ pc[mark.owner] \in Working \cup {"claim"}))
    /\ UNCHANGED <<client, answers, silences, sent, late, pc>>

-----------------------------------------------------------------------------
(* The callers: what each does with a result or, degraded, without one.     *)

\* check_rate_limit, claim, mark_completed and release are fail-open; a probe
\* is repeated for ever.
Then(c, result) ==
    CASE pc[c] = "ping"  -> "ping"
      [] pc[c] = "count" -> IF result = "over" THEN "limited" ELSE "claim"
      [] pc[c] = "claim" -> IF result = "taken" THEN "read" ELSE "working"
      [] pc[c] = "read"  -> "duplicate"
      [] OTHER           -> "done"

Continue(c, result) ==
    /\ pc' = [pc EXCEPT ![c] = Then(c, result)]
    /\ disturbed' = (disturbed \/ (result = "default" /\ pc[c] \in MarkCommands))

\* The work of an admitted request ends: the stream returned, or raised.
FinishWork(c) ==
    /\ pc[c] = "working"
    /\ \E next \in {"complete", "release"} : pc' = [pc EXCEPT ![c] = next]
    /\ UNCHANGED <<client, breaker, answers, silences, redis, sent, late, fresh, disturbed>>

\* The client went away during the work: the mark is left to its TTL.
Disconnect(c) ==
    /\ pc[c] = "working"
    /\ pc' = [pc EXCEPT ![c] = "gone"]
    /\ UNCHANGED <<client, breaker, answers, silences, redis, sent, late, fresh, disturbed>>

\* A client that was refused (429 or 409) posts again.
Retry(c) ==
    /\ pc[c] \in {"limited", "duplicate"}
    /\ pc' = [pc EXCEPT ![c] = "count"]
    /\ UNCHANGED <<client, breaker, answers, silences, redis, sent, late, fresh, disturbed>>

-----------------------------------------------------------------------------
(* execute() and execute_sync().                                           *)

Available == client /\ breaker = 0
Calls(c)  == pc[c] \in Commands /\ c \notin sent

OpenBreaker  == breaker' = BREAKER_COOLDOWN
CloseBreaker == breaker' = 0

\* No client, or an open breaker: the default at once.
DegradeAndReopen(c) ==  \* variant: a degraded call counts as a failure
    /\ Calls(c)
    /\ ~Available
    /\ OpenBreaker
    /\ Continue(c, "default")
    /\ UNCHANGED <<client, answers, silences, redis, sent, late, fresh>>

Degrade(c) ==
    /\ Calls(c)
    /\ ~Available
    /\ Continue(c, "default")
    /\ UNCHANGED <<client, breaker, answers, silences, redis, sent, late, fresh>>

Send(c) ==
    /\ Calls(c)
    /\ Available
    /\ Cardinality(sent) < MAX_CONNECTIONS
    /\ sent' = sent \cup {c}
    /\ UNCHANGED <<client, breaker, answers, silences, redis, late, pc, fresh, disturbed>>

\* All connections of the pool are in use: the pool raises, and the breaker
\* opens on a Redis that is well.
PoolExhausted(c) ==
    /\ Calls(c)
    /\ Available
    /\ Cardinality(sent) >= MAX_CONNECTIONS
    /\ OpenBreaker
    /\ Continue(c, "default")
    /\ UNCHANGED <<client, answers, silences, redis, sent, late, fresh>>

\* Redis applies the command and the reply closes the breaker, also one that
\* others opened meanwhile.  A completion in force opens the time in which a
\* retry must be recognised.
Succeed(c) ==
    /\ c \in sent
    /\ answers
    /\ Effect(pc[c], c)
    /\ CloseBreaker
    /\ sent' = sent \ {c}
    /\ Continue(c, Reply(pc[c]))
    /\ fresh' = IF pc[c] = "complete" /\ ~disturbed THEN TTL_SECONDS ELSE fresh
    /\ UNCHANGED <<client, answers, silences, late>>

\* A timeout or a lost connection: the command was applied, is lost, or is
\* applied later (which matters to the mark only).
Fail(c) ==
    /\ c \in sent
    /\ ~answers
    /\ \/ Effect(pc[c], c) /\ late' = late
       \/ UNCHANGED <<redis, late>>
       \/ pc[c] \in MarkCommands /\ UNCHANGED redis /\ late' = late \cup {<<pc[c], c>>}
    /\ OpenBreaker
    /\ sent' = sent \ {c}
    /\ Continue(c, "default")
    /\ UNCHANGED <<client, answers, silences, fresh>>

Handler(c) ==
    \/ Degrade(c) \/ Send(c) \/ PoolExhausted(c) \/ Succeed(c) \/ Fail(c)
    \/ FinishWork(c)

Next ==
    \/ \E c \in Coroutines : Handler(c)
    \/ \E c \in Requests : Disconnect(c) \/ Retry(c)
    \/ \E pending \in late : ApplyLate(pending[1], pending[2])
    \/ FallSilent \/ AnswerAgain
    \/ Tick

\* Time passes and every coroutine goes on: a Redis that answers, answers what
\* it is sent, and a socket timeout ends what it does not.  No fairness for clients, silences, recoveries or late commands.
Fairness ==
    /\ WF_vars(Tick)
    /\ \A c \in Coroutines : WF_vars(Handler(c))

Spec     == Init /\ [][Next]_vars
FairSpec == Spec /\ Fairness

-----------------------------------------------------------------------------
(* Properties.                                                             *)

\* While the record of a completed request has not run out, Redis admits no
\* other request of the key -- unless a mark ran out under its slow request,
\* whose later release or completion then hits somebody else's record, or
\* Redis was silent at the wrong moment.
DuplicatesAreRecognised ==
    [][\A c \in Requests :
         pc[c] = "claim" /\ pc'[c] = "working" => fresh = 0 \/ disturbed']_vars

\* A request that Redis admitted and that is still at work finds its own mark
\* in force, with the same exceptions.
AdmittedHoldsMark ==
    \A c \in Requests :
        pc[c] \in Working => disturbed \/ (mark.owner = c /\ mark.state = "in_progress")

\* When Redis answers for good, the breaker does not stay open: no traffic on
\* an open breaker prolongs it.
BreakerRecovers == <>[]answers => []<>(breaker = 0)

\* A client that went away leaves its mark for a time, not for ever.
AbandonedMarksEnd ==
    \A c \in Requests :
        (pc[c] = "gone" /\ mark.owner = c /\ mark.state = "in_progress")
            ~> ~(mark.owner = c /\ mark.state = "in_progress")
=============================================================================
