---------------------------- MODULE ChatRequest ----------------------------
(***************************************************************************)
(* POST /api/chat (api/chat.py) around the workflow: the burst limit, the  *)
(* daily quota, the idempotency mark, the answer cache, the record of the  *)
(* run and the ways a stream can end, for several requests of one thread   *)
(* that ask the same question concurrently: retries of one another (they   *)
(* carry the same Idempotency-Key) or repeats without a key.               *)
(*                                                                         *)
(* Every access to Redis goes through execute() (infrastructure/redis.py), *)
(* which never raises: an operation that is not attempted, fails or times  *)
(* out returns the caller's default, and one that timed out may have been  *)
(* applied all the same.                                                   *)
(***************************************************************************)
EXTENDS Naturals, FiniteSets

CONSTANTS
    Requests,               \* POSTs of the client
    Tokens,                 \* Idempotency-Keys
    NoToken,                \* the header is absent
    RATE_LIMIT_REQUESTS,    \* requests per rate-limit window
    DAILY_REQUEST_LIMIT,    \* requests per day
    RedisMayFail            \* Redis may be down or too slow

ASSUME TokenAssumption == NoToken \notin Tokens
ASSUME LimitAssumption ==
    /\ RATE_LIMIT_REQUESTS \in Nat \ {0}
    /\ DAILY_REQUEST_LIMIT \in Nat \ {0}
    /\ RedisMayFail \in BOOLEAN

VARIABLES
    pc,       \* where each request's handler stands
    token,    \* its Idempotency-Key
    mark,     \* the idempotency record of each token in Redis
    window,   \* the rate-limit counter in Redis
    used,     \* quota_usage.request_count of the day
    cached,   \* the answer cache's entry for the question
    run,      \* the status of each request's agent_runs row
    outcome,  \* how each request's stream went
    \* History, read by properties only:
    granted,  \* requests that passed the idempotency check
    released, \* requests that released their mark
    lapsed    \* tokens with an expired mark or a failed Redis operation

stores  == <<mark, window, used, cached, run>>
history == <<granted, released, lapsed>>
vars    == <<pc, stores, token, outcome, history>>

MarkState == {"absent", "in_progress", "completed"}
Entry     == {"answer", "question"}
NoEntry   == "absent"

\* Where a handler is executing the chat on behalf of its request.
Streaming == {"starting", "cache", "graph", "finishing", "failing", "returned"}
Over      == {"limited", "over_quota", "duplicate", "http_500", "done"}

Init ==
    /\ pc = [r \in Requests |-> "rate_limit"]
    /\ token \in [Requests -> Tokens \cup {NoToken}]
    /\ mark = [t \in Tokens |-> "absent"]
    /\ window = 0
    /\ used = 0
    /\ cached = NoEntry
    /\ run = [r \in Requests |-> "none"]
    /\ outcome = [r \in Requests |-> "none"]
    /\ granted = {}
    /\ released = {}
    /\ lapsed = {}

Goto(r, place) == pc' = [pc EXCEPT ![r] = place]

-----------------------------------------------------------------------------
(* Redis.                                                                  *)

\* How an operation of execute() comes back.
RedisResult == {"ok"} \cup IF RedisMayFail THEN {"not_applied", "reply_lost"} ELSE {}

\* A mark, the window and the cached answer end with their TTL.
MarkExpires(t) ==
    /\ mark[t] # "absent"
    /\ mark' = [mark EXCEPT ![t] = "absent"]
    /\ lapsed' = lapsed \cup {t}
    /\ UNCHANGED <<pc, window, used, cached, run, token, outcome,
                   granted, released>>

WindowExpires ==
    /\ window > 0
    /\ window' = 0
    /\ UNCHANGED <<pc, mark, used, cached, run, token, outcome, history>>

CacheExpires ==
    /\ cached # NoEntry
    /\ cached' = NoEntry
    /\ UNCHANGED <<pc, mark, window, used, run, token, outcome, history>>

-----------------------------------------------------------------------------
(* Admission.                                                              *)

\* check_rate_limit: count the request in the window; unknown means allowed.
CheckRateLimit(r) ==
    /\ pc[r] = "rate_limit"
    /\ \E result \in RedisResult :
          /\ window' = IF result = "not_applied" THEN window ELSE window + 1
          /\ Goto(r, IF result = "ok" /\ window + 1 > RATE_LIMIT_REQUESTS
                     THEN "limited" ELSE "quota")
    /\ UNCHANGED <<mark, used, cached, run, token, outcome, history>>

\* consume_request: one atomic statement in PostgreSQL.  The token quota,
\* which the model calls of other requests use up, may be spent at any time.
QuotaLeft == used < DAILY_REQUEST_LIMIT

ConsumeQuota(r) ==
    /\ pc[r] = "quota"
    /\ \/ /\ QuotaLeft
          /\ used' = used + 1
          /\ Goto(r, "claim")
       \/ /\ used' = used
          /\ Goto(r, "over_quota")
    /\ UNCHANGED <<mark, window, cached, run, token, outcome, history>>

\* SET key in_progress NX EX takes a mark nobody holds.
MayClaimUnfinished(m) == m # "completed"  \* variant: SET without NX on a live mark
MayClaim(m) == m = "absent"

\* Variant: a refused duplicate gives the mark back on its way out.
ClaimElseRelease(r) ==
    LET t == token[r]
    IN  /\ pc[r] = "claim"
        /\ t # NoToken
        /\ mark' = [mark EXCEPT ![t] = IF MayClaim(@) THEN "in_progress" ELSE "absent"]
        /\ IF MayClaim(mark[t])
           THEN granted' = granted \cup {r} /\ Goto(r, "conversation")
           ELSE granted' = granted /\ Goto(r, "duplicate")
        /\ UNCHANGED <<window, used, cached, run, token, outcome, released, lapsed>>

\* claim: a mark that is taken refuses the request, no answer admits it.
Claim(r) ==
    LET t == token[r]
    IN  /\ pc[r] = "claim"
        /\ \/ /\ t = NoToken
              /\ granted' = granted \cup {r}
              /\ Goto(r, "conversation")
              /\ UNCHANGED <<mark, lapsed>>
           \/ /\ t # NoToken
              /\ \E result \in RedisResult :
                    /\ mark' = IF result = "not_applied" THEN mark
                               ELSE [mark EXCEPT ![t] = IF MayClaim(@) THEN "in_progress" ELSE @]
                    /\ IF result = "ok" /\ ~MayClaim(mark[t])
                       THEN granted' = granted /\ Goto(r, "duplicate")
                       ELSE granted' = granted \cup {r} /\ Goto(r, "conversation")
                    /\ lapsed' = IF result = "ok" THEN lapsed ELSE lapsed \cup {t}
        /\ UNCHANGED <<window, used, cached, run, token, outcome, released>>
\* ensure_conversation writes the conversation row; a database error is a 500.
EnsureConversation(r) ==
    /\ pc[r] = "conversation"
    /\ \/ Goto(r, "starting")
       \/ Goto(r, "http_500")
    /\ UNCHANGED <<stores, token, outcome, history>>

-----------------------------------------------------------------------------
(* _run_event_stream.                                                      *)

EndsAs(r, how) == outcome' = [outcome EXCEPT ![r] = how]

\* Everything before the try: an unknown document ends the stream at once, an
\* error of the store or the checkpointer leaves it as an exception.
StartStream(r) ==
    /\ pc[r] = "starting"
    /\ \/ /\ run' = [run EXCEPT ![r] = "running"]
          /\ Goto(r, "cache")
          /\ outcome' = outcome
       \/ /\ run' = run
          /\ \/ EndsAs(r, "no_document") /\ Goto(r, "returned")
             \/ EndsAs(r, "raised") /\ Goto(r, "raised")
    /\ UNCHANGED <<mark, window, used, cached, token, history>>

\* get_cached_answer; a hit is streamed without the workflow.
LookupAnswer(r) ==
    /\ pc[r] = "cache"
    /\ \/ /\ cached # NoEntry
          /\ EndsAs(r, "cached")
          /\ Goto(r, "finishing")
       \/ /\ cached = NoEntry \/ RedisMayFail
          /\ Goto(r, "graph")
          /\ UNCHANGED outcome
    /\ UNCHANGED <<stores, token, history>>

\* set_cached_answer keeps answers, not the questions of a clarification.
Caches(kind) == kind = "answer"

\* The workflow ends with an answer or a clarifying question.
GraphAnswers(r) ==
    /\ pc[r] = "graph"
    /\ \E kind \in {"answer", "question"} :
          /\ EndsAs(r, IF kind = "answer" THEN "answered" ELSE "clarifying")
          /\ \/ cached' = IF Caches(kind) THEN kind ELSE cached
             \/ RedisMayFail /\ cached' = cached
    /\ Goto(r, "finishing")
    /\ UNCHANGED <<mark, window, used, run, token, history>>

\* Variant: the run gets the word of the idempotency mark for its status.
FinishRunAsMark(r) ==
    /\ pc[r] = "finishing"
    /\ run' = [run EXCEPT ![r] = "completed"]
    /\ Goto(r, "returned")
    /\ UNCHANGED <<mark, window, used, cached, token, outcome, history>>

\* complete_trace and finish_agent_run with status success.
FinishRun(r) ==
    /\ pc[r] = "finishing"
    /\ run' = [run EXCEPT ![r] = "success"]
    /\ Goto(r, "returned")
    /\ UNCHANGED <<mark, window, used, cached, token, outcome, history>>

\* An Exception inside the try: of the cache lookup, a node, or the finish.
StreamFails(r) ==
    /\ pc[r] \in {"cache", "graph", "finishing"}
    /\ EndsAs(r, "failed")
    /\ Goto(r, "failing")
    /\ UNCHANGED <<stores, token, history>>

\* Variant: a failed stream closes its trace but not its run.
RecordFailureInTrace(r) ==
    /\ pc[r] = "failing"
    /\ Goto(r, "returned")
    /\ UNCHANGED <<stores, token, outcome, history>>

\* The except clause records the error and swallows the exception, unless the
\* records themselves fail; then the finally clause tries "cancelled" first.
RecordFailure(r) ==
    /\ pc[r] = "failing"
    /\ \/ /\ run' = [run EXCEPT ![r] = "error"]
          /\ Goto(r, "returned")
          /\ outcome' = outcome
       \/ /\ run' \in {run, [run EXCEPT ![r] = "cancelled"]}
          /\ EndsAs(r, "raised")
          /\ Goto(r, "raised")
    /\ UNCHANGED <<mark, window, used, cached, token, history>>

-----------------------------------------------------------------------------
(* _wrapped_stream.                                                        *)

\* Variant: the mark is completed in a finally clause.
DisconnectCompletes(r) ==
    /\ pc[r] \in Streaming \cup {"raised"}
    /\ EndsAs(r, "disconnected")
    /\ Goto(r, "done")
    /\ mark' = [t \in Tokens |-> IF t = token[r] THEN "completed" ELSE mark[t]]
    /\ UNCHANGED <<window, used, cached, run, token, history>>

\* The client goes away: the finally clause closes the run if it still can,
\* and the mark is left to its TTL.
Disconnect(r) ==
    /\ pc[r] \in Streaming \cup {"raised"}
    /\ run' \in {run, [run EXCEPT ![r] = IF @ = "running" THEN "cancelled" ELSE @],
                 [run EXCEPT ![r] = IF pc[r] = "starting" THEN "running" ELSE @]}
    /\ EndsAs(r, "disconnected")
    /\ Goto(r, "done")
    /\ UNCHANGED <<mark, window, used, cached, token, history>>

\* What a Redis write of the stream's end does to the mark of its token.
WriteMark(r, m) ==
    IF token[r] = NoToken
    THEN UNCHANGED <<mark, lapsed>>
    ELSE \E result \in RedisResult :
            /\ mark' = IF result = "not_applied" THEN mark
                       ELSE [mark EXCEPT ![token[r]] = m]
            /\ lapsed' = IF result = "ok" THEN lapsed ELSE lapsed \cup {token[r]}

\* The stream returned, whatever it had to report: SET key completed EX.
MarkCompleted(r) ==
    /\ pc[r] = "returned"
    /\ WriteMark(r, "completed")
    /\ Goto(r, "done")
    /\ UNCHANGED <<window, used, cached, run, token, outcome, granted, released>>

\* The stream raised: DEL key.
Release(r) ==
    /\ pc[r] = "raised"
    /\ WriteMark(r, "absent")
    /\ released' = released \cup {r}
    /\ Goto(r, "done")
    /\ UNCHANGED <<window, used, cached, run, token, outcome, granted>>

Handler(r) ==
    \/ CheckRateLimit(r)
    \/ ConsumeQuota(r)
    \/ Claim(r)
    \/ EnsureConversation(r)
    \/ StartStream(r)
    \/ LookupAnswer(r)
    \/ GraphAnswers(r)
    \/ FinishRun(r)
    \/ StreamFails(r)
    \/ RecordFailure(r)
    \/ MarkCompleted(r)
    \/ Release(r)

Expiry == (\E t \in Tokens : MarkExpires(t)) \/ WindowExpires \/ CacheExpires

\* All handlers are over; marks, window and cache may still run out.
AllOver ==
    /\ \A r \in Requests : pc[r] \in Over
    /\ UNCHANGED vars

Next ==
    \/ \E r \in Requests : Handler(r) \/ Disconnect(r)
    \/ Expiry
    \/ AllOver

Spec == Init /\ [][Next]_vars

-----------------------------------------------------------------------------
(* Properties.                                                             *)

\* Every state variable keeps its kind of value.
TypeOK ==
    /\ pc \in [Requests -> Over \cup Streaming \cup
                 {"rate_limit", "quota", "claim", "conversation", "raised"}]
    /\ token \in [Requests -> Tokens \cup {NoToken}]
    /\ mark \in [Tokens -> MarkState]
    /\ window \in Nat
    /\ used \in 0 .. DAILY_REQUEST_LIMIT
    /\ cached \in Entry \cup {NoEntry}
    /\ run \in [Requests -> {"none", "running", "success", "error", "cancelled"}]
    /\ outcome \in [Requests -> {"none", "no_document", "cached", "answered", "clarifying",
                                "failed", "raised", "disconnected"}]
    /\ granted \subseteq Requests /\ released \subseteq granted
    /\ lapsed \subseteq Tokens

\* The Idempotency-Key executes a chat once: a second request of the same key
\* is admitted only after the first one gave its mark back, after the mark's
\* TTL, or when Redis could not be asked.
OneExecutionPerKey ==
    \A r, q \in granted :
        (r # q /\ token[r] = token[q] /\ token[r] # NoToken) =>
            token[r] \in lapsed \/ r \in released \/ q \in released

\* While its mark is trustworthy, a request that executes holds it: no stream's
\* end, admission or refusal of another request takes it away.
ExecutionHoldsMark ==
    \A r \in granted :
        (/\ token[r] \in Tokens \ lapsed
         /\ pc[r] \in Streaming \cup {"conversation", "raised"}) => mark[token[r]] = "in_progress"

\* A finished stream leaves no run at "running", unless the client went away or
\* the database refused the last write.
RunsAreClosed ==
    \A r \in Requests :
        pc[r] = "done" /\ run[r] = "running" => outcome[r] \in {"disconnected", "raised"}

\* What a client's retry meets, as long as the mark lasts, is how its request
\* ended: refused as under way after a disconnect or a failed admission, refused
\* as completed after any other end but a release.  No retry that was admitted
\* or refused in the meantime, and no end of another request, changes that.
EndedRequestsKeepMark ==
    \A r \in granted \ released :
        (pc[r] \in {"done", "http_500"} /\ token[r] \in Tokens \ lapsed) =>
            mark[token[r]] = IF pc[r] = "http_500" \/ outcome[r] = "disconnected"
                             THEN "in_progress" ELSE "completed"

\* What idempotency.py and the comment at the release promise: a request that
\* failed gives its mark back, so that its retry can take it.  The code reports
\* the error as an event and returns, and the mark is completed.
FailureLetsRetry ==
    \A r \in granted :
        pc[r] = "done" /\ outcome[r] = "failed" /\ token[r] # NoToken => r \in released
=============================================================================
