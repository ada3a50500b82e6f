------------------------- MODULE ChatRequestProofs -------------------------
(***************************************************************************)
(* Proofs about the chat endpoint, for any number of requests and keys,    *)
(* any limits, and a Redis that may or may not fail.                       *)
(***************************************************************************)
EXTENDS ChatRequest, TLAPS

\* Where a handler stands between the check of its key and its end.
Executing == Streaming \cup {"conversation", "raised"}

\* Whoever executes was granted, and a mark is given back by the last step.
AdmissionInv ==
    /\ \A r \in Requests : pc[r] \in Executing => r \in granted
    /\ \A r \in released : pc[r] = "done"

\* Besides what is promised of marks: a mark that nobody gave back and that did
\* not run out is there, so that nobody else is granted.
MarkInv ==
    /\ OneExecutionPerKey
    /\ ExecutionHoldsMark
    /\ \A r \in granted \ released :
          token[r] \in Tokens \ lapsed => mark[token[r]] # "absent"

\* Besides what is promised of runs: where the record of a run stands before
\* its stream's end.
RunInv ==
    /\ RunsAreClosed
    /\ \A r \in Requests :
          /\ pc[r] = "starting" => run[r] = "none"
          /\ pc[r] \in {"rate_limit", "quota", "claim", "conversation"} => run[r] = "none"
          /\ pc[r] = "returned" => run[r] # "running"
          /\ pc[r] = "raised" => outcome[r] = "raised"

\* Besides what is promised of ended requests: no other was disconnected.
EndInv ==
    /\ EndedRequestsKeepMark
    /\ \A r \in Requests : pc[r] \in Executing => outcome[r] # "disconnected"
    /\ \A r \in Requests : pc[r] \in {"rate_limit", "quota", "claim"} =>
                             outcome[r] = "none"

ChatInv == TypeOK /\ AdmissionInv /\ MarkInv /\ RunInv /\ EndInv

USE DEF stores, history

\* No request has been granted and no mark is set at the start.
LEMMA ChatInit == Init => ChatInv
<1> SUFFICES ASSUME Init PROVE ChatInv
  OBVIOUS
<1>1. TypeOK
  BY LimitAssumption DEF Init, TypeOK, MarkState, Entry, NoEntry
<1>2. AdmissionInv /\ MarkInv
  BY DEF Init, AdmissionInv, MarkInv, OneExecutionPerKey, ExecutionHoldsMark,
         Executing, Streaming
<1>3. RunInv /\ EndInv
  BY DEF Init, RunInv, RunsAreClosed, EndInv, EndedRequestsKeepMark, Executing, Streaming
<1> QED  BY <1>1, <1>2, <1>3 DEF ChatInv

\* A handler that goes on without touching a mark, a grant or a release keeps
\* what is known of them, unless it starts or resumes the execution by that.
LEMMA QuietStep ==
    ASSUME ChatInv, NEW r \in Requests, NEW place, Goto(r, place),
           UNCHANGED <<mark, token, granted, released, lapsed>>,
           pc[r] # "done", place \in Executing => pc[r] \in Executing
    PROVE  AdmissionInv' /\ MarkInv'
<1>1. \A q \in Requests : pc'[q] = IF q = r THEN place ELSE pc[q]
  BY DEF ChatInv, TypeOK, Goto
<1>2. r \notin released
  BY DEF ChatInv, AdmissionInv
<1>3. granted \subseteq Requests /\ released \subseteq Requests
  BY DEF ChatInv, TypeOK
<1>4. AdmissionInv'
  BY <1>1, <1>2, <1>3 DEF ChatInv, AdmissionInv
<1>5. ExecutionHoldsMark'
  BY <1>1, <1>3 DEF ChatInv, MarkInv, ExecutionHoldsMark, Executing
<1>6. OneExecutionPerKey'
  BY DEF ChatInv, MarkInv, OneExecutionPerKey
<1> QED  BY <1>4, <1>5, <1>6 DEF ChatInv, MarkInv

\* A request that is granted while its mark is trustworthy takes a mark that
\* all former holders gave back.
LEMMA ClaimStep ==
    ASSUME ChatInv, NEW r \in Requests, Claim(r) PROVE ChatInv'
<1> DEFINE t == token[r]
<1> USE DEF ChatInv
<1>1. /\ granted \subseteq Requests /\ released \subseteq granted
      /\ \A q \in Requests : token[q] \in Tokens \cup {NoToken}
      /\ pc[r] = "claim" /\ token' = token /\ released' = released
  BY DEF TypeOK, Claim
<1>2. TypeOK'
  BY DEF TypeOK, Claim, Goto, MarkState, MayClaim, Streaming, Over
<1>3. PICK place \in {"conversation", "duplicate"} :
        /\ Goto(r, place)
        /\ granted' = IF place = "conversation" THEN granted \cup {r} ELSE granted
  BY DEF Claim
<1>4. \A q \in Requests : pc'[q] = IF q = r THEN place ELSE pc[q]
  BY <1>3 DEF TypeOK, Goto
<1>5. AdmissionInv'
  BY <1>1, <1>3, <1>4 DEF AdmissionInv, Executing, Streaming
<1>6. r \notin released
  BY <1>1 DEF AdmissionInv
<1>7. MarkInv'
  <2>1. CASE t = NoToken
    <3>1. mark' = mark /\ lapsed' = lapsed /\ t \notin Tokens
      BY <2>1, TokenAssumption DEF Claim
    <3> QED
      BY <1>1, <1>3, <1>4, <2>1, <3>1
         DEF MarkInv, OneExecutionPerKey, ExecutionHoldsMark
  <2>2. CASE t # NoToken
    <3>1. t \in Tokens
      BY <1>1, <2>2
    <3>2. \/ t \in lapsed'
          \/ t \notin lapsed' /\ mark[t] # "absent" /\ place = "duplicate"
          \/ t \notin lapsed' /\ mark[t] = "absent" /\ place = "conversation"
                              /\ mark'[t] = "in_progress"
      BY <1>3, <2>2, <3>1 DEF Claim, MayClaim, TypeOK, Goto
    <3>3. /\ \A u \in Tokens : mark'[u] = mark[u] \/ (u = t /\ mark[u] = "absent")
          /\ \A u \in Tokens : mark'[u] # mark[u] => mark'[u] = "in_progress"
          /\ lapsed \subseteq lapsed'
      BY <1>3, <2>2, <3>1 DEF Claim, MayClaim, TypeOK
    <3>4. ExecutionHoldsMark'
      BY <1>1, <1>3, <1>4, <3>2, <3>3 DEF MarkInv, ExecutionHoldsMark, Streaming
    <3>5. \A q \in (granted \ released)' :
             token[q] \in Tokens \ lapsed' => mark'[token[q]] # "absent"
      BY <1>1, <1>3, <3>2, <3>3 DEF MarkInv
    <3>6. OneExecutionPerKey'
      <4>1. SUFFICES ASSUME NEW p \in granted', NEW q \in granted', p # q,
                            token[p] = token[q], token[p] # NoToken,
                            token[p] \notin lapsed', place = "conversation",
                            p = r \/ q = r
                     PROVE  p \in released \/ q \in released
        BY <1>1, <1>3, <3>3 DEF MarkInv, OneExecutionPerKey
      <4>2. token[p] = t /\ t \notin lapsed /\ mark[t] = "absent"
        BY <3>2, <3>3, <4>1
      <4>3. \A o \in granted : token[o] = t => o \in released
        BY <3>1, <4>2 DEF MarkInv
      <4> QED  BY <1>3, <4>1, <4>2, <4>3
    <3> QED  BY <1>1, <3>4, <3>5, <3>6 DEF MarkInv
  <2> QED  BY <2>1, <2>2
<1>8. RunInv'
  BY <1>1, <1>3, <1>4 DEF Claim, RunInv, RunsAreClosed
<1>9. EndInv'
  <2>1. outcome' = outcome /\ lapsed \subseteq lapsed'
    BY DEF Claim
  <2>2. \A u \in Tokens : mark[u] # "absent" => mark'[u] = mark[u]
    BY DEF Claim, MayClaim, TypeOK
  <2>3. EndedRequestsKeepMark'
    <3>1. SUFFICES ASSUME NEW q \in granted', q \notin released,
                          pc'[q] \in {"done", "http_500"}, token[q] \in Tokens \ lapsed'
                   PROVE  mark'[token[q]] = IF pc'[q] = "http_500" \/ outcome[q] = "disconnected"
                                            THEN "in_progress" ELSE "completed"
      BY <1>1, <2>1 DEF EndedRequestsKeepMark
    <3>2. q \in granted \ released /\ pc[q] = pc'[q] /\ token[q] \in Tokens \ lapsed
      BY <1>1, <1>3, <1>4, <2>1, <3>1
    <3>3. mark[token[q]] # "absent"
      BY <3>2 DEF MarkInv
    <3> QED  BY <2>2, <3>1, <3>2, <3>3 DEF EndInv, EndedRequestsKeepMark
  <2> QED
    BY <1>1, <1>3, <1>4, <2>1, <2>3 DEF EndInv, Executing, Streaming
<1> QED  BY <1>2, <1>5, <1>7, <1>8, <1>9

\* The end of one stream takes no mark that another request holds.
LEMMA WriteMarkStep ==
    ASSUME ChatInv, NEW r \in Requests, NEW m \in {"completed", "absent"},
           pc[r] \in {"returned", "raised"}, Goto(r, "done"), WriteMark(r, m),
           UNCHANGED <<token, granted>>,
           outcome' = outcome,
           released' = IF m = "absent" THEN released \cup {r} ELSE released
    PROVE  /\ EndInv' /\ AdmissionInv' /\ MarkInv'
           /\ mark' \in [Tokens -> MarkState] /\ lapsed' \subseteq Tokens
<1> DEFINE t == token[r]
<1> USE DEF ChatInv
<1>1. /\ granted \subseteq Requests /\ released \subseteq granted /\ r \in granted
      /\ t \in Tokens \cup {NoToken} /\ NoToken \notin Tokens /\ r \notin released
  BY TokenAssumption DEF TypeOK, AdmissionInv, Executing, Streaming
<1>2. \A q \in Requests : pc'[q] = IF q = r THEN "done" ELSE pc[q]
  BY DEF TypeOK, Goto
<1>3. mark' \in [Tokens -> MarkState] /\ lapsed' \subseteq Tokens
  BY <1>1 DEF TypeOK, WriteMark, MarkState
<1>4. AdmissionInv'
  BY <1>1, <1>2 DEF AdmissionInv, Executing, Streaming
<1>5. /\ lapsed \subseteq lapsed'
      /\ \A u \in Tokens : u # t => mark'[u] = mark[u]
      /\ t \in Tokens \ lapsed' => mark'[t] = m
  BY <1>1 DEF TypeOK, WriteMark
<1>6. \A q \in granted \ released : q # r /\ token[q] = t => t \notin Tokens \ lapsed
  BY <1>1 DEF MarkInv, OneExecutionPerKey
<1>7. OneExecutionPerKey'
  BY <1>5 DEF MarkInv, OneExecutionPerKey
<1>8. ExecutionHoldsMark'
  <2>1. SUFFICES ASSUME NEW q \in granted, token[q] \in Tokens \ lapsed',
                        pc'[q] \in Executing
                 PROVE  mark'[token[q]] = "in_progress"
    BY DEF ExecutionHoldsMark, Executing
  <2>2. q # r /\ pc[q] \in Executing /\ q \notin released
    BY <1>1, <1>2, <2>1 DEF AdmissionInv, Executing, Streaming
  <2>3. token[q] # t
    BY <1>5, <1>6, <2>1, <2>2
  <2>4. mark[token[q]] = "in_progress"
    BY <1>5, <2>1, <2>2 DEF MarkInv, ExecutionHoldsMark, Executing
  <2> QED  BY <1>5, <2>1, <2>3, <2>4
<1>9. \A q \in (granted \ released)' :
         token[q] \in Tokens \ lapsed' => mark'[token[q]] # "absent"
  BY <1>1, <1>5, <1>6 DEF MarkInv
<1>10. EndInv'
  <2>1. EndedRequestsKeepMark'
    <3>1. SUFFICES ASSUME NEW q \in granted \ released', pc'[q] \in {"done", "http_500"},
                          token[q] \in Tokens \ lapsed'
                   PROVE  mark'[token[q]] = IF pc'[q] = "http_500" \/ outcome[q] = "disconnected"
                                            THEN "in_progress" ELSE "completed"
      BY <1>1 DEF EndedRequestsKeepMark
    <3>2. CASE q = r
      <4>1. m = "completed" /\ mark'[t] = m
        BY <1>1, <1>5, <3>1, <3>2
      <4>2. outcome[r] # "disconnected" /\ pc'[r] = "done"
        BY <1>1, <1>2 DEF EndInv, Executing, Streaming
      <4> QED  BY <3>2, <4>1, <4>2
    <3>3. CASE q # r
      <4>1. q \in granted \ released /\ pc[q] = pc'[q] /\ token[q] \in Tokens \ lapsed
        BY <1>1, <1>2, <1>5, <3>1, <3>3
      <4>2. token[q] # t
        BY <1>6, <3>3, <4>1
      <4> QED  BY <1>5, <3>1, <4>1, <4>2 DEF EndInv, EndedRequestsKeepMark
    <3> QED  BY <3>2, <3>3
  <2> QED
    BY <1>2, <2>1 DEF EndInv, Executing, Streaming
<1> QED  BY <1>3, <1>4, <1>7, <1>8, <1>9, <1>10 DEF MarkInv

\* A step of a handler that leaves all marks alone.
LEMMA StreamStep ==
    ASSUME ChatInv, NEW r \in Requests,
           \/ CheckRateLimit(r) \/ ConsumeQuota(r) \/ EnsureConversation(r)
           \/ StartStream(r) \/ LookupAnswer(r) \/ GraphAnswers(r) \/ FinishRun(r)
           \/ StreamFails(r) \/ RecordFailure(r) \/ Disconnect(r)
    PROVE  ChatInv'
<1> USE DEF ChatInv
<1> DEFINE Before == {"rate_limit", "quota", "claim", "conversation"}
<1>1. TypeOK'
  <2>1. pc' \in [Requests -> Over \cup Streaming \cup
                   {"rate_limit", "quota", "claim", "conversation", "raised"}]
    BY DEF TypeOK, Goto, Over, Streaming, CheckRateLimit, ConsumeQuota, EnsureConversation,
           StartStream, LookupAnswer, GraphAnswers, FinishRun, StreamFails, RecordFailure,
           Disconnect
  <2>2. window' \in Nat /\ used' \in 0 .. DAILY_REQUEST_LIMIT
    BY LimitAssumption
       DEF TypeOK, QuotaLeft, CheckRateLimit, ConsumeQuota, EnsureConversation, StartStream,
           LookupAnswer, GraphAnswers, FinishRun, StreamFails, RecordFailure, Disconnect
  <2>3. cached' \in Entry \cup {NoEntry}
    BY DEF TypeOK, Entry, CheckRateLimit, ConsumeQuota, EnsureConversation, StartStream,
           LookupAnswer, GraphAnswers, FinishRun, StreamFails, RecordFailure, Disconnect
  <2>4. run' \in [Requests -> {"none", "running", "success", "error", "cancelled"}]
    BY DEF TypeOK, CheckRateLimit, ConsumeQuota, EnsureConversation, StartStream,
           LookupAnswer, GraphAnswers, FinishRun, StreamFails, RecordFailure, Disconnect
  <2>5. outcome' \in [Requests -> {"none", "no_document", "cached", "answered", "clarifying",
                                   "failed", "raised", "disconnected"}]
    BY DEF TypeOK, EndsAs, CheckRateLimit, ConsumeQuota, EnsureConversation, StartStream,
           LookupAnswer, GraphAnswers, FinishRun, StreamFails, RecordFailure, Disconnect
  <2>6. UNCHANGED <<token, mark, granted, released, lapsed>>
    BY DEF CheckRateLimit, ConsumeQuota, EnsureConversation, StartStream,
           LookupAnswer, GraphAnswers, FinishRun, StreamFails, RecordFailure, Disconnect
  <2> QED  BY <2>1, <2>2, <2>3, <2>4, <2>5, <2>6 DEF TypeOK
<1>2. PICK place : /\ Goto(r, place)
                   /\ UNCHANGED <<mark, token, granted, released, lapsed>>
                   /\ pc[r] # "done"
                   /\ place \in Executing => pc[r] \in Executing
  BY DEF CheckRateLimit, ConsumeQuota, EnsureConversation, StartStream, LookupAnswer,
         GraphAnswers, FinishRun, StreamFails, RecordFailure, Disconnect, Executing, Streaming
<1>3. AdmissionInv' /\ MarkInv'
  BY <1>2, QuietStep
<1>4. RunInv'
  <2>1. \A q \in Requests \ {r} : pc'[q] = pc[q] /\ run'[q] = run[q] /\ outcome'[q] = outcome[q]
    BY DEF TypeOK, Goto, EndsAs, CheckRateLimit, ConsumeQuota, EnsureConversation,
           StartStream, LookupAnswer, GraphAnswers, FinishRun, StreamFails, RecordFailure,
           Disconnect
  <2>2. /\ pc'[r] \in Before \cup {"starting"} => run'[r] = "none"
        /\ pc'[r] = "returned" => run'[r] # "running"
        /\ pc'[r] = "raised" => outcome'[r] = "raised"
        /\ pc'[r] = "done" => outcome'[r] = "disconnected"
    BY DEF TypeOK, RunInv, Goto, EndsAs, CheckRateLimit, ConsumeQuota, EnsureConversation,
           StartStream, LookupAnswer, GraphAnswers, FinishRun, StreamFails, RecordFailure,
           Disconnect
  <2> QED  BY <2>1, <2>2 DEF RunInv, RunsAreClosed
<1>5. EndInv'
  <2>1. /\ \A q \in Requests : pc'[q] = IF q = r THEN place ELSE pc[q]
        /\ \A q \in Requests \ {r} : outcome'[q] = outcome[q]
        /\ granted \subseteq Requests /\ place = pc'[r]
    BY <1>2 DEF TypeOK, Goto, EndsAs, CheckRateLimit, ConsumeQuota, EnsureConversation,
           StartStream, LookupAnswer, GraphAnswers, FinishRun, StreamFails, RecordFailure,
           Disconnect
  <2>2. /\ place \in Executing => outcome'[r] # "disconnected"
        /\ place \in {"rate_limit", "quota", "claim"} => outcome'[r] = "none"
    BY <2>1 DEF TypeOK, EndInv, Goto, EndsAs, CheckRateLimit, ConsumeQuota, EnsureConversation,
           StartStream, LookupAnswer, GraphAnswers, FinishRun, StreamFails, RecordFailure,
           Disconnect, Executing, Streaming
  <2>3. place \in {"done", "http_500"} =>
            /\ pc[r] \in Executing
            /\ place = "http_500" \/ outcome'[r] = "disconnected"
    BY <2>1 DEF TypeOK, Goto, EndsAs, CheckRateLimit, ConsumeQuota, EnsureConversation,
           StartStream, LookupAnswer, GraphAnswers, FinishRun, StreamFails, RecordFailure,
           Disconnect, Executing, Streaming
  <2>4. EndedRequestsKeepMark'
    <3>1. ASSUME NEW q \in granted \ released, token[q] \in Tokens \ lapsed,
                 pc'[q] \in {"done", "http_500"}, q = r
          PROVE  /\ mark[token[q]] = "in_progress"
                 /\ pc'[q] = "http_500" \/ outcome'[q] = "disconnected"
      BY <2>1, <2>3, <3>1 DEF MarkInv, ExecutionHoldsMark, Executing
    <3>2. ASSUME NEW q \in granted \ released, token[q] \in Tokens \ lapsed,
                 pc'[q] \in {"done", "http_500"}, q # r
          PROVE  mark[token[q]] = IF pc'[q] = "http_500" \/ outcome'[q] = "disconnected"
                                  THEN "in_progress" ELSE "completed"
      BY <2>1, <3>2 DEF EndInv, EndedRequestsKeepMark
    <3> QED  BY <1>2, <3>1, <3>2 DEF EndedRequestsKeepMark
  <2> QED  BY <1>2, <2>1, <2>2, <2>4 DEF EndInv
<1> QED  BY <1>1, <1>3, <1>4, <1>5

\* The end of a stream that writes its mark.
LEMMA StreamEndStep ==
    ASSUME ChatInv, NEW r \in Requests, MarkCompleted(r) \/ Release(r)
    PROVE  ChatInv'
<1> USE DEF ChatInv
<1>1. PICK m \in {"completed", "absent"} :
        /\ pc[r] \in {"returned", "raised"} /\ Goto(r, "done") /\ WriteMark(r, m)
        /\ UNCHANGED <<window, used, cached, run, token, outcome, granted>>
        /\ released' = IF m = "absent" THEN released \cup {r} ELSE released
  BY DEF MarkCompleted, Release
<1>2. /\ EndInv' /\ AdmissionInv' /\ MarkInv'
      /\ mark' \in [Tokens -> MarkState] /\ lapsed' \subseteq Tokens
  BY <1>1, WriteMarkStep
<1>3. r \in granted
  BY <1>1 DEF AdmissionInv, Executing, Streaming
<1>4. TypeOK'
  BY <1>1, <1>2, <1>3 DEF TypeOK, Goto, Over
<1>5. RunInv'
  BY <1>1 DEF TypeOK, RunInv, RunsAreClosed, Goto
<1> QED  BY <1>2, <1>4, <1>5

\* What runs out: a mark that does is no longer trusted.
LEMMA ExpiryStep ==
    ASSUME ChatInv, Expiry PROVE ChatInv'
<1> USE DEF ChatInv
<1>1. ASSUME NEW t \in Tokens, MarkExpires(t) PROVE ChatInv'
  <2>1. TypeOK'
    BY <1>1 DEF MarkExpires, TypeOK, MarkState
  <2>2. AdmissionInv' /\ RunInv'
    BY <1>1 DEF MarkExpires, AdmissionInv, RunInv, RunsAreClosed
  <2>3. \A u \in Tokens \ lapsed' : u \notin lapsed /\ mark'[u] = mark[u]
    BY <1>1 DEF MarkExpires, TypeOK
  <2>4. MarkInv'
    BY <1>1, <2>3 DEF MarkExpires, MarkInv, OneExecutionPerKey, ExecutionHoldsMark
  <2>5. EndInv'
    BY <1>1, <2>3 DEF MarkExpires, EndInv, EndedRequestsKeepMark
  <2> QED  BY <2>1, <2>2, <2>4, <2>5
<1>2. ASSUME WindowExpires \/ CacheExpires PROVE ChatInv'
  BY <1>2 DEF WindowExpires, CacheExpires, TypeOK, Entry, AdmissionInv, MarkInv,
              OneExecutionPerKey, ExecutionHoldsMark, RunInv, RunsAreClosed, EndInv,
              EndedRequestsKeepMark
<1> QED  BY <1>1, <1>2 DEF Expiry

\* ChatInv is inductive.
LEMMA ChatNext == ChatInv /\ [Next]_vars => ChatInv'
<1> SUFFICES ASSUME ChatInv, [Next]_vars PROVE ChatInv'
  OBVIOUS
<1>1. ASSUME NEW r \in Requests, Handler(r) \/ Disconnect(r) PROVE ChatInv'
  BY <1>1, ClaimStep, StreamStep, StreamEndStep DEF Handler
<1>2. CASE Expiry
  BY <1>2, ExpiryStep
<1>3. CASE UNCHANGED vars
  BY <1>3 DEF vars, ChatInv, TypeOK, AdmissionInv, MarkInv, OneExecutionPerKey,
              ExecutionHoldsMark, RunInv, RunsAreClosed, EndInv,
              EndedRequestsKeepMark
<1> QED  BY <1>1, <1>2, <1>3 DEF Next, AllOver

LEMMA ChatInvariant == Spec => []ChatInv
<1> QED  BY ChatInit, ChatNext, PTL DEF Spec

-----------------------------------------------------------------------------
(* What this shows of the endpoint.                                        *)

\* Every variable keeps its kind of value; in particular the day's requests
\* never pass their limit.
THEOREM TypeCorrect == Spec => []TypeOK
<1>1. ChatInv => TypeOK
  BY DEF ChatInv
<1> QED  BY <1>1, ChatInvariant, PTL

\* An Idempotency-Key executes one request at a time and again only after a
\* release, a lapse of its mark or a failure of Redis (services/cache/idempotency.py).
THEOREM OneExecutionPerKeyHolds == Spec => []OneExecutionPerKey
<1>1. ChatInv => OneExecutionPerKey
  BY DEF ChatInv, MarkInv
<1> QED  BY <1>1, ChatInvariant, PTL

\* A request that executes holds its mark while the mark is trustworthy.
THEOREM ExecutionHoldsMarkHolds == Spec => []ExecutionHoldsMark
<1>1. ChatInv => ExecutionHoldsMark
  BY DEF ChatInv, MarkInv
<1> QED  BY <1>1, ChatInvariant, PTL

\* No finished stream leaves a running run (api/chat.py), but for disconnects
\* and a database that refuses the record.
THEOREM RunsAreClosedHolds == Spec => []RunsAreClosed
<1>1. ChatInv => RunsAreClosed
  BY DEF ChatInv, RunInv
<1> QED  BY <1>1, ChatInvariant, PTL

\* A retry finds the mark as its request left it: in progress after a disconnect
\* or a failed admission, else completed (api/chat.py, _wrapped_stream).
THEOREM EndedRequestsKeepMarkHolds == Spec => []EndedRequestsKeepMark
<1>1. ChatInv => EndedRequestsKeepMark
  BY DEF ChatInv, EndInv
<1> QED  BY <1>1, ChatInvariant, PTL
=============================================================================
