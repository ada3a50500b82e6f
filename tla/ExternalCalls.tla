--------------------------- MODULE ExternalCalls ---------------------------
(***************************************************************************)
(* What a turn spends outside the process: the day's quota (services/       *)
(* quota.py), the model gateway with its retries and fallbacks (services/   *)
(* gateway.py, retry.py, llm.py), and the searches on the Delilegal         *)
(* platform with their cache (services/delilegal, services/cache/           *)
(* delilegal.py, services/search.py).                                       *)
(*                                                                          *)
(* Turns run beside each other on the event loop.  Every attempt at a       *)
(* provider is one step: what the code does after the provider's answer,    *)
(* its writes to the operational store included, holds no await.  The       *)
(* writes may fail like the provider may.  A turn calls the model and the    *)
(* platform as its nodes decide, MaxCalls times at most.                    *)
(***************************************************************************)
EXTENDS Integers, FiniteSets, Sequences

CONSTANTS
    Turns,                  \* requests of one subject under way at a time
    Providers,              \* PROVIDERS of services/llm.py
    Primary, FallbackList,  \* LLM_PROVIDER, the names in LLM_FALLBACK_PROVIDERS
    MaxAttempts,            \* RetryPolicy.max_attempts
    RequestLimit, TokenLimit,
    Usage,                  \* tokens one answer costs
    LastDay, MaxCalls, MaxTurns  \* bounds: days, calls of a turn, turns

ASSUME CallsAssumption ==
    /\ Primary \in Providers
    /\ FallbackList \in Seq(STRING)
    /\ IsFiniteSet(Turns)
    /\ {MaxAttempts, RequestLimit, TokenLimit, Usage, LastDay} \subseteq Nat \ {0}
    /\ {MaxCalls, MaxTurns} \subseteq Nat

VARIABLES
    today,   \* _today()
    quota,   \* quota_usage: day -> requests and tokens
    turn,    \* where each turn stands
    begun,   \* turns begun so far
    reply,   \* the cached reply of the platform to the turns' one query
    keys     \* providers whose API key is configured; never changes

vars == <<today, quota, turn, begun, reply, keys>>

NoOne  == 0
Store  == -1
Config == -2

\* 200 replies of the platform: laws, no law, JSON the normaliser refuses
Replies == {"laws", "empty", "odd"}
NoReply == [body |-> "none", ttl |-> FALSE]

\* at: between requests, between calls of a node, in ainvoke, in _post
Idle == [at |-> "idle", left |-> 0, client |-> 0, attempt |-> 0, first |-> NoOne,
         asked |-> {}, raised |-> NoOne, law |-> "none"]

(***************************************************************************)
(* The candidates of a call: the primary, then every known name of the      *)
(* list once.                                                               *)
(***************************************************************************)
_fallback_provider_names(names) ==
    LET kept   == {i \in DOMAIN names : /\ names[i] \in Providers \ {Primary}
                                        /\ \A j \in 1 .. i - 1 : names[j] # names[i]}
        nth(k) == CHOOSE i \in kept : Cardinality({j \in kept : j <= i}) = k
    IN  [k \in 1 .. Cardinality(kept) |-> names[nth(k)]]

\* A client is built with its provider's key; get_llm builds all of them
\* before the first is asked.
_build_chat_client(name) == name \in keys

get_llm == <<Primary>> \o _fallback_provider_names(FallbackList)
Clients == DOMAIN get_llm

(***************************************************************************)
(* consume_quota: one UPSERT that counts the request unless a limit is      *)
(* reached.  A row that does not exist yet is inserted without a look at    *)
(* the limits, which are positive.                                          *)
(***************************************************************************)
\* Variant: the UPSERT looks at the requests only.
ConsumesRequests(row) == row.requests < RequestLimit

Consumes(row) == row.requests < RequestLimit /\ row.tokens < TokenLimit

\* chat.py takes the quota first and looks for a duplicate afterwards.
consume_request(t) ==
    /\ turn[t].at = "idle" /\ begun < MaxTurns
    /\ begun' = begun + 1
    /\ \/ /\ ~Consumes(quota[today])
          /\ UNCHANGED <<quota, turn>>
       \/ /\ Consumes(quota[today])
          /\ quota' = [quota EXCEPT ![today].requests = @ + 1]
          /\ \/ turn' = [turn EXCEPT ![t] = [Idle EXCEPT !.at = "node", !.left = MaxCalls]]
             \/ UNCHANGED turn
    /\ UNCHANGED <<today, reply, keys>>

(***************************************************************************)
(* retry.py and GatewayChatModel.ainvoke.  An attempt ends in an answer, a   *)
(* transient failure (timeout, connection, 5xx) or a final one; the record  *)
(* of it (llm_calls, agent_events) is written, or fails in one of the same  *)
(* two ways.  The error of a record that fails while the provider's error   *)
(* is handled carries that error in its chain.                              *)
(***************************************************************************)
ProviderOutcomes == {"answer", "transient", "final"}
RecordOutcomes   == {"ok", "transient", "final"}

Retryable(answer, record) == answer = "transient" \/ record = "transient"

AttemptsLeft(c) == c.attempt < MaxAttempts

Again(c) == [c EXCEPT !.attempt = @ + 1]

Returns(c, raised) ==
    [c EXCEPT !.at = "node", !.client = 0, !.attempt = 0, !.first = NoOne, !.raised = raised,
              !.asked = IF raised \in Clients THEN @ ELSE {}]

\* Variant: the loop over the clients stops at an error that is final.
NextClientOfTransient(c, answer) ==
    LET first == IF c.first = NoOne THEN c.client ELSE c.first
    IN  IF c.client < Len(get_llm) /\ answer = "transient"
        THEN [c EXCEPT !.client = @ + 1, !.attempt = 1, !.first = first]
        ELSE Returns(c, first)

\* Variant: after the last candidate it is the primary's turn again.
NextClientRound(c, answer) ==
    [c EXCEPT !.client = (@ % Len(get_llm)) + 1, !.attempt = 1]

NextClient(c, answer) ==
    LET first == IF c.first = NoOne THEN c.client ELSE c.first
    IN  IF c.client < Len(get_llm)
        THEN [c EXCEPT !.client = @ + 1, !.attempt = 1, !.first = first]
        ELSE Returns(c, first)

Failed(c, answer, record) ==
    IF Retryable(answer, record) /\ AttemptsLeft(c)
    THEN Again(c)
    ELSE IF record = "ok" THEN NextClient(c, answer)
         ELSE Returns(c, Store)      \* not an LLMError: no fallback

\* The event of a fallback is written outside the retries, and its failure
\* is no LLMError.
Answered(c, announced) == Returns(c, IF c.client = 1 \/ announced THEN NoOne ELSE Store)

\* The usage goes to the day of the answer, not to the day of the request.
add_token_usage == [quota EXCEPT ![today].tokens = @ + Usage]

\* add_token_usage's own failure is swallowed.
Charged(answer, record, counted) ==
    IF answer = "answer" /\ record = "ok" /\ counted THEN add_token_usage ELSE quota

StartCall(t) ==
    /\ turn[t].at = "node" /\ turn[t].left > 0
    /\ LET begins == [Idle EXCEPT !.at = "model", !.left = turn[t].left - 1,
                                  !.client = 1, !.attempt = 1]
       IN  turn' = [turn EXCEPT ![t] = IF \A i \in Clients : _build_chat_client(get_llm[i])
                                       THEN begins ELSE Returns(begins, Config)]
    /\ UNCHANGED <<today, quota, begun, reply, keys>>

ainvoke(t) ==
    /\ turn[t].at = "model"
    /\ \E c \in {[turn[t] EXCEPT !.asked = @ \cup {turn[t].client}]},
          answer \in ProviderOutcomes, record \in RecordOutcomes :
         IF answer = "answer" /\ record = "ok"
         THEN \E counted \in BOOLEAN, announced \in {c.client = 1, TRUE} :
                /\ turn' = [turn EXCEPT ![t] = Answered(c, announced)]
                /\ quota' = Charged(answer, record, counted)
         ELSE /\ turn' = [turn EXCEPT ![t] = Failed(c, answer, record)]
              /\ quota' = Charged(answer, record, TRUE)
    /\ UNCHANGED <<today, begun, reply, keys>>

(***************************************************************************)
(* DelilegalClient._send_once: what the platform does, and what becomes of  *)
(* it: the JSON of a success, or an error that is retried or not.           *)
(***************************************************************************)
Platform == Replies \cup {"null", "no_json", "timeout", "broken", "redirects", "401", "404", "503",
                          "flag_401", "flag_500", "flag"}

_send_once(happens) ==
    CASE happens \in Replies \cup {"null"}                     -> happens
      [] happens \in {"timeout", "broken", "503", "flag_500"}  -> "transient"
      [] OTHER                                                 -> "final"

\* Every reply is read again, from the cache too, and a refused one raises.
normalize_law_response(body) == IF body \in {"laws", "empty"} THEN body ELSE "final"

\* search_law_service tells the node what it found, or whether to try again.
SearchResult(outcome) ==
    CASE outcome = "laws"      -> "found"
      [] outcome = "empty"     -> "no_relevant_result"
      [] outcome = "transient" -> "error_retryable"
      [] OTHER                 -> "error"

Found(c, outcome) ==
    [c EXCEPT !.at = "node", !.attempt = 0,
              !.law = SearchResult(IF outcome = "transient" THEN outcome
                                   ELSE normalize_law_response(outcome))]

Entry(body) == [body |-> body, ttl |-> TRUE]

\* Redis may be degraded: a read is then a miss, a write is skipped.
StartSearch(t) ==
    /\ turn[t].at = "node" /\ turn[t].left > 0
    /\ \E next \in {[Idle EXCEPT !.at = "platform", !.left = turn[t].left - 1, !.attempt = 1]} :
         turn' \in {[turn EXCEPT ![t] = next]}
                   \cup {[turn EXCEPT ![t] = Found(next, r.body)] : r \in {reply} \ {NoReply}}
    /\ UNCHANGED <<today, quota, begun, reply, keys>>

\* set_cached_response skips null, and is given any other JSON before the
\* normaliser sees it.
_post(t) ==
    /\ turn[t].at = "platform"
    /\ \E outcome \in {_send_once(h) : h \in Platform} :
         /\ turn' = [turn EXCEPT ![t] = IF outcome = "transient" /\ AttemptsLeft(@)
                                        THEN Again(@) ELSE Found(@, outcome)]
         /\ reply' \in IF outcome \in Replies THEN {Entry(outcome), reply} ELSE {reply}
    /\ UNCHANGED <<today, quota, begun, keys>>

(***************************************************************************)
(* Nodes handle a failed call or let it end the turn; a disconnect cancels  *)
(* the turn at any await.                                                   *)
(***************************************************************************)
EndTurn(t) ==
    /\ turn[t].at = "node"
    /\ turn' = [turn EXCEPT ![t] = Idle]
    /\ UNCHANGED <<today, quota, begun, reply, keys>>

Disconnect(t) ==
    /\ turn[t].at \in {"model", "platform"}
    /\ turn' = [turn EXCEPT ![t] = Idle]
    /\ UNCHANGED <<today, quota, begun, reply, keys>>

Midnight ==
    /\ today < LastDay
    /\ today' = today + 1
    /\ UNCHANGED <<quota, turn, begun, reply, keys>>

Expire ==
    /\ reply.ttl
    /\ reply' = NoReply
    /\ UNCHANGED <<today, quota, turn, begun, keys>>

Init ==
    /\ today = 1
    /\ quota = [d \in 1..LastDay |-> [requests |-> 0, tokens |-> 0]]
    /\ turn = [t \in Turns |-> Idle]
    /\ begun = 0
    /\ reply = NoReply
    /\ keys \in {Providers, {Primary}}

\* What a turn does on its own.
Proceeds(t) == StartCall(t) \/ ainvoke(t) \/ StartSearch(t) \/ _post(t)

Next ==
    \/ \E t \in Turns : consume_request(t) \/ Proceeds(t) \/ EndTurn(t) \/ Disconnect(t)
    \/ Midnight \/ Expire

Spec == Init /\ [][Next]_vars

\* A turn under way goes on: each await of a provider or of the platform has
\* a timeout, and its nodes are the event loop's.  TTLs run out.
FairSpec == Spec /\ (\A t \in Turns : WF_vars(Proceeds(t)) /\ WF_vars(EndTurn(t)))
                 /\ WF_vars(Expire)

-----------------------------------------------------------------------------

(***************************************************************************)
(* The quota is looked at when a turn begins and spent while it runs, by    *)
(* turns beside each other and past midnight.  The requests of a day still  *)
(* keep to the limit, and its tokens exceed theirs by at most what the       *)
(* turns that can be under way together may spend; and however often the     *)
(* providers are asked again, a call is charged at most once.               *)
(***************************************************************************)
DayIsBounded ==
    \A d \in 1..LastDay :
        /\ quota[d].requests <= RequestLimit
        /\ quota[d].tokens < TokenLimit + Cardinality(Turns) * MaxCalls * Usage

\* The sum of f, counted unit by unit.
Units(f) == UNION {{x} \X (1 .. f[x]) : x \in DOMAIN f}
Total(f) == Cardinality(Units(f))

CallsAreChargedOnce ==
    LET admitted == Total([d \in 1..LastDay |-> quota[d].requests])
        spent    == Total([d \in 1..LastDay |-> quota[d].tokens])
    IN  spent <= Usage * (admitted * MaxCalls - Total([t \in Turns |-> turn[t].left]))

SpendingIsBounded == DayIsBounded /\ CallsAreChargedOnce

(***************************************************************************)
(* A provider's error reaches the node only after every candidate was       *)
(* asked, and it is the primary's; any other failure is the store's, or a   *)
(* missing key's.                                                           *)
(***************************************************************************)
FailureMeansAllAsked ==
    \A t \in Turns : turn[t].at = "node" /\ turn[t].raised \in Clients =>
        turn[t].raised = 1 /\ turn[t].asked = Clients

(***************************************************************************)
(* However the providers, the platform and the store fail, a turn ends:     *)
(* retries and fallbacks come to an end.                                    *)
(***************************************************************************)
TurnsEnd == \A t \in Turns : turn[t].at # "idle" ~> turn[t].at = "idle"
=============================================================================
