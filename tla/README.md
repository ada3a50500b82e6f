# A verification project for lexcore-legal-agent

TLA+ models of the legal-consultation service in `src/`: a FastAPI endpoint that
streams the run of a LangGraph workflow of legal agents, with Redis, PostgreSQL,
a checkpointer, a retrieval index and paid providers around it.  TLC checks the
models on small instances; TLAPS proves most of their safety properties for every
instance.  `PROJECT.json` lists the components, the runs, the
lines every definition stands for, the hazards and the findings; this file is the
way through them.

Paths below are relative to `src/`.

## 1. The system

A user's question is one POST of `/api/chat`.  The handler admits it (burst limit,
daily quota, idempotency mark), streams the answer, and closes its records.  The
stream either replays a cached answer or runs the graph on the thread's
checkpoint.  In the graph the question is put together from what the thread
remembers, classified, perhaps answered with a question, split into a plan, and the
Supervisor dispatches the plan's steps one at a time to specialists, each a small
loop of model call and tool call.  A verifier audits the reports; it can have
single steps repaired, have the whole plan redone, or let the answer be written.
Behind the stream an extraction archives the turn and summarises the thread.

| component | state it keeps | operations | talks to |
|---|---|---|---|
| Plan (`agent/state.py`, `agent/repair.py`) | list of steps with status, merged by step id | merge, settle, reset, insert, reopen | written by planner, Supervisor, verifier, repair router |
| Supervisor (`agent/nodes/supervisor.py`, `routing.py`) | `current_step`, `retry_count`, route | retry, dispatch, finish | reads reports and tool failures |
| Router and planner (`agent/nodes/complexity.py`, `planner.py`) | execution mode, plan | choose a path, normalise a plan | one model call |
| Tool loop (`agent/tool_loop.py`, `evidence_normalizer.py`) | per-step and per-request counters, query signatures, evidence pool | admit, soft stop, reject, run, normalise | specialists' models, search tools |
| Specialists (`agent/agents/*`) | reports | ask for tools, report, raise | tool loop, Supervisor |
| Verifier and repair (`agent/nodes/verifier.py`, `repair.py`) | repair and re-plan counters, targets | accept, repair, re-plan | plan, tool budget |
| Citations and answer (`citation_verifier.py`, `answer.py`, `answer_guard.py`) | checks, citations, the final message | match, audit, draft, rewrite, rebuild | evidence pool, reports |
| Intent, clarification, facts (`agent/nodes/clarification.py`, `agent/agents/fact_analysis_agent.py`) | confirmed facts, rounds, pending question; survive the request | route, ask, resume | checkpoint, answer cache |
| Chat endpoint (`api/chat.py`) | one handler and one stream per request | admit, start, stream, fail, disconnect | everything below |
| Idempotency (`services/cache/idempotency.py`) | mark per key in Redis, TTL | claim, complete, release | Redis |
| Limit and quota (`rate_limit.py`, `services/quota.py`) | window counter in Redis, daily row in PostgreSQL | count, consume, add tokens | Redis, PostgreSQL |
| Answer cache (`services/cache/response.py`) | answer per question and document, TTL | get, set | Redis |
| Redis client (`infrastructure/redis.py`) | circuit breaker, connections | execute, degrade | Redis |
| Runs, conversations, archive (`services/persistence.py`, `infrastructure/repositories/*`) | rows in PostgreSQL | start, finish, ensure, append, delete | PostgreSQL |
| Memory (`services/context_compaction.py`, `memory_extractor.py`, `context_builder.py`) | messages of the checkpoint, archive, summary with its offset | compact, extract, build a prompt | checkpoint, stores, models |
| Gateway (`services/gateway.py`, `retry.py`, `llm.py`) | clients in order | call, retry, fall back, charge | providers, quota |
| Delilegal (`services/delilegal/*`, `services/cache/delilegal.py`) | reply per query, TTL | search, retry, normalise | the platform, Redis |
| Retrieval (`services/rag/*`, `services/search.py`) | vector collection, BM25 index, cache of results | recall, fuse, rerank, degrade | Qdrant, models, Redis |
| Index builder (`services/indexer/builder.py`) | none of its own | count, wipe, create, scan, write | Qdrant, beside a running server |
| Evidence video and tasks (`services/evidence_video.py`, `task_queue.py`) | files, report, tasks in memory | upload, extract, read | worker threads |

What is hard: nested loops whose counters reset one another; channels that merge
(plans by id, reports by step and agent, evidence by key) where a leftover can stand
in for something new; concurrent retries of one request against a mark with a TTL;
operations that time out and were applied all the same; five ways a stream ends;
state of a thread that outlives the request that wrote it, and its copies in
checkpoint, archive and summary, each brought up to date at its own time and by a code
that compares role and text; an index
rebuilt under a running search; fallbacks under retries, each step of which is paid.

What makes each component correct, in a sentence: a plan runs one step at a time and
to its end, and what a repair redoes is redone in the plan's order; a step completes by
its own run; the tool budget of a request holds through every loop; every request
ends, and with an answer if it was worked on; a resumed question is the one that was
asked about; a key executes once while its mark can be trusted; a mark tells how its
request ended and does not outlive its use; a run is closed; what was said is archived
in order; a prompt fits its budget and holds no result without its call;
what an answer cites is held, in force and the thing cited; an index is whole or
empty; a law one source found is not lost by another's failure; spending stays
within what was admitted; a task polled to success has its report.

## 2. The modules

| module | what it is |
|---|---|
| `StepPlan` | the plan as a value and the pure functions that rewrite it |
| `AgentGraph` | one request through the workflow, from the complexity router to the end |
| `RequestContract` | what the workflow promises for a request, without its nodes |
| `AgentGraphProofs` | lemmas about the plan's functions, theorems about the workflow |
| `Clarification` | the turns of threads up to the complexity router: routes, facts, questions, replies |
| `ChatRequest` | concurrent requests around the workflow: admission, marks, cache, run records |
| `RedisServices` | the Redis client with its breaker, and the limit and the mark that stand on it, in time |
| `ContextWindow` | tiers, budgets and the prompt of one model call, as operators |
| `ThreadMemory` | the messages of a thread in checkpoint, archive, summary and prompt |
| `Citations` | evidence, citations and texts of a turn, as operators |
| `GroundedAnswer` | retrieval, reports, the citation audit, a repair and the answer |
| `LegalSearch` | the index, its builders, and searches with their cache |
| `ExternalCalls` | quota, model gateway and the legal platform |
| `BackgroundJobs` | tasks, video extraction, contract report |
| `ClarificationProofs`, `ChatRequestProofs`, `RedisServicesProofs`, `LegalSearchProofs`, `ExternalCallsProofs`, `BackgroundJobsProofs`, `GroundedAnswerProofs` | theorems about the module of that name |
| `MC*` | the TLC instances |

### How the modules fit together

A request is `ChatRequest` around `Clarification` around `AgentGraph`: where one
ends, the next is one step of the other.  `Clarification.Finish` stands for
everything behind the complexity router; `ChatRequest`'s stream for the whole graph.
`AgentGraph` counts evidence and lets audits raise what they like; `GroundedAnswer`
opens exactly that, with the routing cut down to its order.  `ChatRequest` lets Redis
operations fail at any time; `RedisServices` shows where those failures come from and
adds time.  `ThreadMemory` applies `ContextWindow` to every list of messages it
reaches.  A search tool's call inside `AgentGraph` is `LegalSearch` or
`ExternalCalls._post`, and every model call is `ExternalCalls.ainvoke`.

### StepPlan

The code keeps a list and finds steps by `step_id`; the model keeps a function from
ids to steps, and a step's place in the list is its `pos`.  That makes the
difference between the two ways the code orders steps visible: `plan_repair`
computes a list with the added steps at their place, and the reducer
`merge_plan_steps` then keeps known ids where they were and appends the rest.

### AgentGraph

`pc` is the next graph node; each action is a node *with* the conditional edge
behind it, because LangGraph runs them in one superstep.  Variables carry the names
of `AgentState`'s fields where TLA+ allows it; the comments beside them give the
others.  History variables (`executed`, `toolRuns`, `reported`, `ranBefore`) are
read by properties only.  `InitialRoutes` is what the intent router may have left: an
agent, or `final` for a resumed request, which the planner gives no plan.

Choices of the model, that is, data the code gets from outside: what a model
answers, which tools it asks for and with which query, what a search finds, which
repairable issues an audit raises, whether the question counts as simple.

Left out, because no input of production reaches it: the `skipped` status and an
invalid `assigned_agent` (normalised plans have neither), `answer_format_error`
repairs (no audit of this graph raises one), finding a report by agent alone
(reports carry their step's id), and the fallback of `apply_tool_call_budget` when
nothing remains of the request's budget (a soft stop comes first).
`completed_steps` and `remaining_steps` are views of the plan.  A tool node and the
evidence normalizer behind it are one action; the evidence pool is a pair of
counts, bounded as the top-k bounds it.  A specialist may ask for any tool of its
tool node at any time, where the code sometimes binds fewer.

`SilentAgents` names specialists that return no report:
`case_analysis_agent_node` does so when it finds no question text.

### RequestContract

Rounds of work under one tool budget, each followed by a review; a review grants a
bounded number of further rounds; a prepared repair starts only on a budget that is
not spent; answers come from reviews, or straight away to requests that need no
work.  `AgentGraph!ImplementsContract` is the refinement, with `Phase` as mapping; a
request that leaves the graph without an answer was never worked on
(`WorkedRequestsAreAnswered`).

### Clarification

A text is a sequence of messages.  The rules of the code look for keywords, so all
they see of a text is the union of what its messages hold and the sum of their
lengths; `AnalysisIsTotal` states that the rules give every text a result.  The
route is cut down to whether it names an agent, the rating to whether it is high,
because nothing before the complexity router tells more apart.  The fields that
survive a turn (`confirmed_facts`, `clarification_round`, the pending question) are
in `facts`, `asked` and `pending`; a turn may be cut at every node, after which what
the earlier nodes wrote is in the checkpoint.  The cache is shared by all threads
and holds `MaxAnswers` answers at a time (a bound).  The cut of a merged question at
1000 characters is left out.

### ChatRequest

Several requests of one thread asking one question: with the same
`Idempotency-Key` (retries) or without one.  Each request is a small process; the
statements between two awaits that touch shared state are one action.  A Redis
operation comes back `ok`, `not_applied` (breaker open, refused, timed out before it
took effect) or `reply_lost` (applied, but the caller got its default).  The `GET`
that reads the record for the 409 belongs to `Claim`: it decides nothing.  `lapsed`
collects the keys whose mark expired or met a failed operation; the safety of the
others must not depend on luck.  On a disconnect the `finally` clause may or may not
get to close the run: its awaits happen in a cancelled task.

### RedisServices

The client's configuration, its connections and its breaker, used by two requests
of one key and by one coroutine that stands for all the rest.  Time is counted in
ticks and kept as time left: of the rate window, of the mark, of the breaker's
cool-down.  Redis answers or is silent; what was sent to a silent one is applied,
lost, or applied later (`late`).  The synchronous and the asynchronous client are
one, and statistics are left out.  `disturbed` says that a mark ran out under its
owner or that a command on it failed.

### ContextWindow and ThreadMemory

`ContextWindow` translates the tiers, shares and roundings of
`context_builder.py` and the packing of a prompt, in thousands of tokens with the
default values.  Titles of sections are not counted.  `ThreadMemory` follows messages
through their copies: `said` identifies what was said, `id` is what LangGraph gives a
copy, and code without ids compares role and text (`Alike`), as
`_new_messages_for_archive` does; what questions and answers say is a choice from
`Questions` and `Replies`, so that they may repeat one another.  A turn is a process through `_run_event_stream`,
the compaction node, the injection of a document and a video's report, a specialist's
calls and their results, the graph's answer and the extraction in the background.  What
LangGraph saves between two nodes is a step of its own: a response with tool calls is in the
checkpoint (`AdmitToolCalls`) before its results are (`ReturnResults`), and a turn may be
cut, or its process end, in between.  `Environments` says which
worlds a thread lives in: persistent or in-memory checkpoints, overlapping turns,
restarts, compactions on demand, deletion, failing writes, each with its bound.
The profile and the long-term memory of users are left out.

### Citations and GroundedAnswer

An item of evidence has what identifies it (name, number, source), a validity, a
score and its `ref`; a text is a sequence of tokens (a law in brackets, an article,
a case number, a line break, the end of a sentence, a word), so that what the
regular expressions of the code find, and what they miss across a line break or
after escaping, is computed and not assumed.  Lists are described by the places of
their members: what a list holds at some places, in an order (`InOrder`, `At`), is the
one way `Citations` filters, sorts and removes duplicates, and a text gets its sources
by where each token moves (`Moved`).  `GroundedAnswer` runs retrieval rounds,
the reports of statute retrieval and of the reasoning agents, `verify_citations`, a
repair, and the answer with its second attempt and its deterministic fallback.
Wording and scoring are left out; what models write is a choice from `Texts`.

### LegalSearch

A builder (of the starting server, or `--rebuild` from the command line) goes through
`build_index` call by call; a server's search asks the collection once per variant of
its query and then works in memory.  Tool searches take the process's lock, service
searches do not, as in the code.  Scores are constants of the instance; fusion, thresholds
and limits are computed with the code's formulas in integers.  The retrieval cache
holds the query's one entry.

### ExternalCalls

A turn consumes a request of the day's quota, calls the model and the platform as
its nodes decide, and is charged for answers.  Each attempt at a provider with what
the code does behind it up to the next await is one step; every outcome in
`ProviderOutcomes` and every failure of a recording write is a branch.  Clients are
those `get_llm` builds, with fallbacks in order and without duplicates.  Delays
between attempts are left out.

### BackgroundJobs

The event loop's code runs without interruption, an extraction in a worker thread
beside it.  A report file is missing, torn, or holds a status and frames; a restart
forgets tasks and keeps files.  A frame is its difference hash and which file of
that hash it is.

## 3. The runs

| run | instance | shows |
|---|---|---|
| `graph_budget` | production budgets 2/3, plans to 2 steps, 2 queries, 2 calls a response (2.4M states, 30 s) | `RequestToolBudget`, `CompletedByOwnRun`, `NoQueryRepeated`, `TypeOK` |
| `graph_plan` | budgets 1/2, plans to 3 steps, all routes, the case analysis never reports (0.7M, 45 s) | `OneStepAtATime`, `SettledBeforeVerification`, `RunsFollowPlanOrder`, `WorkedRequestsAreAnswered`, `ImplementsContract`, `Terminates` |
| `chat_admission` | 3 requests, 1 key, limit 2, quota 3, failing Redis (1M) | `OneExecutionPerKey`, `ExecutionHoldsMark`, `RunsAreClosed`, `EndedRequestsKeepMark`, `TypeOK` |
| `clarification` | 1 thread, 2 disputes and 2 replies, 2 rounds, cut turns, lost checkpoints (0.4M) | `ResumedQuestionIsWhole`, `ConclusionsAreNotRushed`, `ClarificationEnds` |
| `thread_memory` | 3 turns in a row; 2 turns with a restart, a deletion, or overlapping beside a compaction; two questions that may repeat, a document, a report and tools (5.5M, 180 s) | `OwnTurnIsExtracted`, `ArchiveFollowsThread`, `PromptIsWellFormed` |
| `answer_citations` | 10 items of evidence in 7 batches, 6 texts, 3 rounds, 1 repair, 2 attempts (1.1M, 120 s) | `CitationsStand`, `PassedMeansSupported`, `ModelAnswersAreGrounded`, `TypeOK` |
| `legal_search` | 4 chunks, a server, a rebuild, 2 searches, 2 faults (0.3M) | `IndexIsWhole`, `HitsAreServed`, `PartialAnswersEnd`, `TypeOK` |
| `redis_services` | 2 requests of a key and the rest of the process, 2 connections, a silence (0.1M) | `AdmittedHoldsMark`, `DuplicatesAreRecognised`, `BreakerRecovers`, `AbandonedMarksEnd` |
| `external_calls` | 2 turns at a time, 3 in all, 3 providers, 3 attempts, a midnight (0.2M) | `SpendingIsBounded`, `FailureMeansAllAsked`, `TurnsEnd` |
| `background_jobs` | 2 videos, a contract report, 1 worker thread, a restart (0.4M) | `SuccessIsServed`, `KeptFramesStandForAll`, `TasksEnd` |
| `claim_cached` | `Clarification` with 2 threads | violates `CachedAnswerFits` |
| `offset_compaction` | 2 turns, a compaction in the second | violates `OffsetIsCovered` |

### Why the bounds are enough

- The graph.  Requests are given every route, `final` included.  One repair, one re-plan and one retry are the production values; together
  they give every combination of the four loops.  The request budget is larger than the
  step's and smaller than two steps', so that each can run out before the other.  Three
  steps are the least for a repair to have something before it, something behind it
  and something to insert; two queries are the least for a response to repeat one
  and ask a new one.  In `graph_plan` the case analysis never reports, so that a step
  fails in every plan it is in; in `graph_budget` it does.
- Requests.  A third request is the least for a key to be taken, given back and
  contested.  In `RedisServices` two requests and a third coroutine are the least for
  a late command of one to meet the mark of the other on a breaker opened by neither;
  the rate window is shorter than the mark's TTL and the cool-down no longer than the
  window, as with the production defaults.
- Clarification.  Two rounds are the production value; two disputes of different
  categories are the least for a thread to change its subject, two terse replies the
  least for one of them to be overwritten or swapped.
- Memory.  With one message kept by a compaction, two turns make one happen and three
  make it follow another; the archive's window of four messages is passed in the third
  turn, so that an extraction summarises.  The checkpoint of a turn with tools and a
  document has more messages than the smallest window of a prompt.  A specialist calls
  tools in the first turn, once, so that a cut loop is met by the turns behind it.  Two
  questions are the least for a turn to repeat another or not; all answers say the same,
  which is the harder case for a comparison of texts.  The budgets are
  the production values in thousands of tokens; an override of the evidence's share
  makes the parts add up to more than the prompt, which the shares alone never do.
- Answers.  Room for two laws and one case with ten items to retrieve: everything
  that can be trimmed, overwritten, renumbered or repealed is.  Three rounds put a
  retrieval before a report, between two reports and behind them.
- Search.  One chunk repeats the text of a repealed one, batches hold two of three
  texts, each source ranks differently, and two faults are the least to lose both
  sources, or a builder and a source.
- Calls.  The limit of three requests and two tokens lets the third turn meet a
  spent quota with two under way; the list of fallbacks names the primary, an unknown
  provider and one provider twice.
- Jobs.  Two videos and one worker make one wait; a window of two and films of four
  frames let a frame return after its look-alike left the window.

Queries, requests and questions are interchangeable, hence the symmetry in the safety runs that
use it; no run with liveness uses any.  Deadlock is checked except in
`legal_search`, `external_calls` and `background_jobs`, whose bounds (searches, turns,
uploads) come to an end.

Each property of these runs comes with a mutant: a change of one modelled definition
that a plausible bug would make and that breaks the property on the run's own
instance.

### Findings

- `claim_cached`: the answer of a turn is kept under the turn's bare message
  (`api/chat.py:519`).  When that message was a reply to a clarifying question, its
  answer belongs to the merged question, but every thread that sends the same words
  within the TTL gets it.  Comment and project information promise the contrary
  (`api/chat.py:504`, `PROJECT_INFO.md:764`).
- `offset_compaction`: `msg_count` "is an archive offset, not a count of checkpoint
  deletions" (`context_compaction.py:268-270`, `docs/architecture/memory.md:67`), but a
  compaction raises it to the number of messages removed, some of which are not archived
  yet or never will be.  The rows it passes are in no summary.

### Disagreements

Further sentences of the repository that the code does not keep.  Each is stated as a
property, at the end of its module or beside the one that does hold, and has a
configuration under which TLC finds it violated; they are not among the runs.

- `RepairedEvidenceComesFirst` (`MCAgentGraph_repair.cfg`): a retrieval added by a repair
  goes "in front of the first legal analysis", because new evidence must be analysed anew
  (`agent/repair.py:187-188`); the plan's reducer appends it behind
  (`StepPlan!merge_plan_steps`), and the reopened consultation has run again by then.
- `EndsWithAnswer` (`MCAgentGraph_final.cfg`): a resumed question "is not lost as chitchat"
  (`agent/nodes/supervisor.py:309-310`) and the graph "answers in the end"
  (`docs/report/project-report.md:382`), but the planner clears the plan of a resumed
  request routed to `final` (`AgentGraph!PlannerSkips`, `Clarification!Finish`), and the
  graph ends.  `WorkedRequestsAreAnswered` is what the code keeps.
- `FailureLetsRetry` (`MCChatRequest_failed.cfg`): "failure releases the mark"
  (`services/cache/idempotency.py:5`, `docs/sequences/chat-flow.md:143-144`,
  `api/chat.py:667`), but the stream turns the exception into an event and ends normally,
  and the mark is completed.
- `AskedQuestionIsKept` (`MCClarification_topic.cfg`): a reply is merged with "the original
  question" (`agent/nodes/clarification.py:6`), which a thread remembers once: a second
  dispute's reply resumes the first.  `agent/state.py:388-389` has `{}` written to
  `confirmed_facts` when the subject changes; no node does.
- `CallsAreAnswered` (`MCThreadMemory_calls.cfg`): the window of a prompt is "complete by the
  protocol" (`docs/architecture/memory.md:44`, `services/context_builder.py:367`).  Results
  without calls are dropped (`PromptIsWellFormed`), calls without results are not, and a
  turn cut in its tool loop leaves one in the checkpoint.
- `OffsetIsCovered` without a compaction (`MCThreadMemory_backlog.cfg`): an extraction moves
  the offset over a backlog of which its prompt showed the last 12 messages
  (`memory_extractor.py:134`, 294; one message in the instance).
- `RemovedIsSummarised` (`MCThreadMemory_removed.cfg`): a failed compaction "keeps the messages"
  (`docs/architecture/memory.md:64-65`), but one without a summary, or with one that could
  not be saved, removes them (`SaveCompaction`, `context_compaction.py:314-318`).
- `EndedTurnsAreArchived` (`MCThreadMemory_cached.cfg`): the archive "keeps the complete
  history" (`docs/architecture/memory.md:67-68`); the words of turns answered from the cache
  are not in it.  Nor are those of turns cut off, nor messages that repeat the words at
  the archive's end (see below).
- `OnlyNewIsArchived` (`MCThreadMemory_twice.cfg`): the extractor "handles new messages only"
  (`docs/architecture/memory.md:98`); two that read the archive before either writes
  archive a turn twice.

### Met while modelling

What the code does and a reader may not expect, visible in the definitions named.
First where a comment or document of the repository says otherwise, or says less:

- "Duplicate tasks" are removed from a plan (`agent/nodes/planner.py:159`), but a
  shorter or reordered re-plan leaves steps of the first plan behind it.
- An error of `ensure_conversation` leaves a mark of nobody, beside the comment of
  `api/chat.py:667`.
- "Only exactly the same question" is answered from the cache
  (`services/cache/response.py:3`), but the key ignores the evidence the question is about.
- `recorded_query_signatures` (`agent/tool_loop.py:173`) calls them queries that were
  executed, but those of calls the step's budget rejects are recorded too
  (`SpecialistOverLimit`); a later step asking one is refused as a duplicate.
- `agent/state.py:481` says that a repair resets the signatures; `repair_updates` keeps
  them and lets repeats through by `tool_refresh_allowed`.
- `docs/sequences/chat-flow.md:94-97` lists the key before the quota; a refused duplicate
  is charged (`ConsumeQuota` before `Claim`).
- `clarification_round` is a budget for the thread's whole life.  `ResumedQuestionIsWhole`
  excepts threads that asked about a second subject (`strayed`): see `AskedQuestionIsKept`.
- `services/cache/delilegal.py:11` caches successful replies only; replies the
  normaliser then refuses are cached before it reads them
  (`services/delilegal/client.py:162-163`).
- `docs/refactor/final-gap-analysis.md:77` calls every degradation of retrieval explicit;
  when all sources fail the search reports `no_relevant_result` with success.
- `docs/architecture/rag.md:68` says that a fused score is never held against the
  reranker's threshold; `services/search.py:401-402` does so for its `low_quality` mark.
- The next steps of the deterministic answer are not filtered, though `agent/nodes/answer.py:175`
  promises it for the answer (195-196, 214, 224).

Then what no document speaks of:

- Memory.  A message that repeats the words at the archive's end is taken for them
  and left out of the archive (`memory_extractor.py:210-213`), so `ArchiveFollowsThread`
  asks that the archive shows what was said, as far as role and text tell, in order and
  nothing twice.  Where turns, extractions or compactions overlap (`mixed`) it asks for
  each message of the snapshot only.  A second document is never injected (`nodes/document.py:22-30`).  Deletion
  keeps archive and summary (`api/threads.py:282-291`; `docs/architecture/memory.md:106-107`
  asks for all stores), and a turn under way writes a
  deleted thread's checkpoint again.  Two turns on one checkpoint overwrite one
  another.  A compaction on demand whose messages a turn removed meanwhile ends in an error.
- Prompts.  Only the newest message is shortened, so a very long question leaves the
  window once a tool result follows it, and a long tool call can push its result out.
- Redis.  An exhausted connection pool opens the breaker of a healthy server.  The end
  of a request whose claim was degraded, or whose mark ran out, completes or removes the
  mark of another: neither checks the owner.  `init_redis` returns early when only the
  synchronous client exists.
- Tasks.  A failed extraction leaves its report queued for ever, and a restart forgets
  the task and leaves the report as it was.  A report read while it is written is a 400.
  Missing tools make a task a success.  `_tasks` is never trimmed; an upload whose row
  cannot be saved leaves its file.  A contract report is made in the event loop.
- Index.  A build that died leaves a part of the corpus, which no later start completes
  (`builder.py:61`).  Of two chunks with the same text only the first is stored, so a
  repealed version can shadow the law in force in the collection.  Repealed documents
  take places of the top K (`retriever.py:279-281`).  A rebuild invalidates no cached
  result, and the BM25 index of a running server stays as it was.
- Calls.  A store that fails while a failed call is recorded skips the fallbacks, and one
  that fails behind an answer repeats or loses a paid one (`gateway.py:153-245`).  The
  fallback is asked for the primary's model; one without a key makes `get_llm` raise
  (`llm.py:76-82`).  The first error hides later ones.  Failed attempts' tokens are not
  counted, and usage is charged to the day of the answer.
- Citations.  `ref_id`s are given anew after every retrieval and stale in earlier reports.
  `Conflicts` catches a wrong match that contradicts what is cited, but an absent number
  contradicts nothing: a stale `ref_id` may lead a cited article to a law held without
  its article, and a case cited without a number to any case, whatever its name
  (`citation_verifier.py:149-154`, 211-215).  Hence `PassedMeansSupported` says "does not
  contradict".  Evidence that was overwritten and then trimmed
  survives in an old version, with the number of another.  Cases that differ in their number only are one source of a report
  (`reports.py:27`).  A later retrieval that finds nothing marks
  the evidence insufficient although the pool has some.  A run cut between tools and
  normaliser leaves results that the next turn absorbs.  Laws without a name share one
  label.  A line break hides a citation in a report, which is searched as JSON, and not in
  a draft; sentences split at one can join to an ungrounded citation, which is why the
  deterministic answer is not among the grounded ones.  Failed citations of cases are
  sent to the agent that retrieves laws.
- Clarification.  A turn cut between fact analysis and the question makes the next
  message a reply to a question nobody saw, and one cut behind `fact_merge` makes the
  repeated reply a new question.  Facts of an earlier dispute can make a new one look
  sufficient; resumed texts count twice against the 120 characters.

### Fairness

LangGraph runs the next node as soon as the previous one returned, the event loop runs
every task that can go on, and every model, tool, database and HTTP client has a timeout,
after which the code raises or degrades.  That justifies weak fairness of the steps the
process takes on its own:

| module | weak fairness of | and none of |
|---|---|---|
| `AgentGraph` | `Next` (one request, deterministic control) | what models answer |
| `Clarification` | a thread's `Node` | users, cuts, lost checkpoints: `ClarificationEnds` says that they must not go on for ever |
| `RedisServices` | `Tick`, each coroutine's `Handler` | clients, silences, recoveries, late commands |
| `LegalSearch` | a search's steps, a builder's steps or its end, expiry | starts, faults |
| `ExternalCalls` | a turn's own steps and its end, expiry | new turns, midnight, disconnects |
| `BackgroundJobs` | tasks, threads (going on or raising), collection | uploads, restarts |

`ChatRequest`, `ThreadMemory` and `GroundedAnswer` are checked for safety only and
assume none.

## 4. The proofs

Checked by TLAPS for every value of the constants that satisfies the assumptions of
the modules.  A theorem of the same name as a property with `Holds` behind it says
`Spec => []` that invariant, or that action property.

| module | theorems | inductive invariant |
|---|---|---|
| `AgentGraphProofs` | `TypeCorrect`, `OneStepAtATimeHolds`, `SettledBeforeVerificationHolds` | `ExecutionInv` |
| | `RequestToolBudgetHolds` | `BudgetInv` |
| | `WorkedRequestsAreAnsweredHolds` | `AnswerInv` |
| | `ContractHolds`: the refinement of `RequestContract` | `ContractInv`, `ContractRefined` |
| | `NoQueryRepeatedHolds` | `QueryInv` |
| | `CompletedByOwnRunHolds`, `RunsFollowPlanOrderHolds` | `ReportInv`, `PlaceInv`, `OrderInv` |
| `ChatRequestProofs` | `TypeCorrect`, `OneExecutionPerKeyHolds`, `ExecutionHoldsMarkHolds`, `RunsAreClosedHolds`, `EndedRequestsKeepMarkHolds` | `ChatInv` |
| `RedisServicesProofs` | `AdmittedHoldsMarkHolds`, `DuplicatesAreRecognisedHolds` | `RedisInv` |
| `ExternalCallsProofs` | `SpendingIsBoundedHolds`, `FailureMeansAllAskedHolds` | `CallsInv` |
| `BackgroundJobsProofs` | `SuccessIsServedHolds`, `KeptFramesStandForAllHolds` | `JobsInv` |
| `LegalSearchProofs` | `TypeCorrect`, `IndexIsWholeHolds`, `HitsAreServedHolds` | `SearchInv` |
| `ClarificationProofs` | `ResumedQuestionIsWholeHolds`, `ConclusionsAreNotRushedHolds` | `AskInv` |
| `GroundedAnswerProofs` | `TypeCorrect`, `CitationsStandHolds`, `PassedMeansSupportedHolds`, `ModelAnswersAreGroundedHolds` | `IInv` |

Each inductive invariant was checked by TLC on the instance of the module's run before
it was proved.

### The arguments

**The workflow.**  Types and execution are proved together (`ExecutionInv`): that a
specialist's move has a type at all depends on the Supervisor having dispatched the
current step, and `OneStepAtATime` alone is not inductive, since it says nothing of a
plan in the Supervisor's hands (only the current step may be running) or before its
execution (none is).  The plan's part rests on the module's first lemmas: every
rewriting of a plan yields a plan, a merge of steps without a status into steps
without it has none, and a merge with a non-empty list is not empty.  `BudgetInv`
adds that the calls about to run are those counted but not yet run, and that both
counters are within their budgets wherever calls are granted; `GrantedWithinBudgets`
carries it.  `AnswerInv` says that a route without a plan belongs to a finalised
request or to one that nothing was ever done for.  `ContractInv` bounds the repairs and re-plans, and says that reworked
requests have a plan, so that the graph's early end is the contract's
`AnswerWithoutWork`.  `ContractRefined` maps every action to a step of the contract
or a stutter.

`QueryInv` says that what ran, and what is granted, has its signature taken.
`ReportInv` says that a report the Supervisor may take for the running step is one of
its newest dispatch: where a step is reset, its reports are gone.  That runs follow the
plan is a fact about two orders, the steps' places and their runs.
`PlaceInv` says that what is further on in its life stands further in front
(completed, running, pending, as `Stage` ranks them) and that no place exceeds the
number of steps, so that an appended step comes last; `OrderInv` says that completed steps ran in the order of
their places, and that the running step, once it reported, ran behind all of them.
Neither holds without the other, because a repair resets a step with everything behind
it and the reducer appends what it inserts.

**Requests.**  `ChatInv` adds to the promises of marks that a mark nobody gave back,
and that did not lapse, is there, so that `SET NX` grants it to nobody else; that the
executing requests were granted; that a release is a request's last step; and what the
mark of a request that ended says (`EndInv`), which nobody else may change because nobody
else was granted the key.  `RedisInv`
explains the same promise one level down: a mark is in force as long as it has time
left (`MarkInv`), a request completes or releases only its own (`AdmittedHoldsMark`),
and the record of a completed request outlives the time it was given (`FreshInv`).

**Spending.**  The tokens of a day are bounded by what was charged *and* what the turns
under way may still be charged: `SpendInv` keeps the sum of both, today against the
limit plus the turns under way, overall against the admitted requests.  The sums over
days and turns are `Total`, whose laws (one entry changed, one added) are lemmas.
`CallInv` says that a call has asked all candidates in front of its own and remembers
the primary's error.

**Jobs.**  `StageOf` ties where an extraction stands to what is on disk for it;
`ThinningOf` is the loop invariant of the deduplication: what was kept holds no two
look-alikes within the window, holds frames in the film's order (`OrderBegins`,
`OrderGoesOn`, `OrderEnds`), and everything read so far has one that stands for it.

**Search.**  `IndexPart` covers the builders: an index that lacks a text is being
written by somebody who has the rest to write, or was torn, or is empty and stays so
(`IndexInv`), which needs that one builder's list is not changed by another's wipe
(`TodoInv`).  `CallerPart` follows a search through its variants, fusion, threshold and
rerank (`Sound`), and says that the lock is held by whoever searches (`TurnInv`).

**Clarification.**  `PlaceInv` says where a turn is, and that a question waits only
between its asking and its reply; `QuestionInv` that what a thread which has not
strayed holds as confirmed facts is exactly what it was told, round by round;
`RushInv` that behind the fact analysis the turn holds the decision on this question.

**Answers.**  The module starts with its operators, since nothing can be said of the
evidence before it is known what filtering, ranking and merging do to a list.  Every
place of a finite set has its own rank in a strict order (`InOrderBijection`), hence
what `At` and `Ranked` return is a choice of the list's members, each place once
(`Picks`).  A merge keeps distinct keys distinct, and trimming and numbering do too
(`MergedUniqueKeeps`, `AfterBatchKeeps`), so that `IInv` bounds the evidence, holds each key
once and holds nothing repealed, whatever order it came in.  Whatever `Match` returns is held and
contradicts nothing the citation shows, and without identifiers it *is* what the
citation shows (`MatchFinds`).  From there:

- `CitationsStand` and the checks follow for sources of any age, because no step of
  the argument asks where a source's `ref_id` came from (`SupportedFinds`).
- `PassedMeansSupported` needs that one citation of a label decides for the others
  (`LabelDecides`): that is clear for laws, and for cases it rests on `CaseNumbersAssumption`.
- `ModelAnswersAreGrounded` is about a text nobody audited: the draft with sources and a
  notice put in.  `Moved` keeps the order of the tokens, so every law and article that
  are neighbours in the answer, line breaks aside, were neighbours in the draft
  (`ExtensionCitesNothingNew`), and the draft's citations carry no identifiers.

`IInv` adds to the three that reports hold sources copied from evidence and texts a
model may write, and that the evidence the answer is audited against is still the
state's.

### Assumptions

All are in the modules that declare the constants, and TLC evaluates them in every run.
Those that carry a proof:

- `BudgetAssumption` keeps `MAX_REPAIR_ROUNDS` to 0 or 1, its production value, because
  `plan_repair` numbers added steps from `repair_1` in every round and ids of a plan
  would repeat.
- `SearchAssumption`: scores are integers (the code's floats are scaled), the corpus is a
  list of chunks without repetition, no name is used twice for searches, builders
  and the free lock.
- `ClarificationAssumption`: each category has finitely many dimensions, and
  `BLOCKING_MISSING > 1` (the code asks from 2 missing facts on).  With 1, facts that the
  analysis calls sufficient could be called blocking.
- `CallsAssumption`: finitely many turns; the fallbacks are a list.  `JobsAssumption`: films
  are lists of frames with finitely many bits set.
- `BatchesAssumption`: what tools return has the fields of `LawEvidence` and `CaseEvidence`,
  no number yet, and a case has no validity.  `TextsAssumption`: what models write is a
  sequence of tokens.
- `CaseNumbersAssumption`: a case without a number is not named, nor identified by its
  source, like the number of another.  Numbers have the form of `CASE_NO_RE`
  (`citation_verifier.py:29`), which names and identifiers have not.  Without it two
  citations of one label could be a number and a name, and the audit of the first would
  say nothing of the second.

Induction over lists.  The provers cannot use induction theorems that take an operator
as a parameter.  `LegalSearchProofs` and `ClarificationProofs` therefore state induction
over *sets* of numbers (`Upto`, from the least element that `WFMin` gives every non-empty
set), and show that a function defined by steps exists (`Stepwise`).  The recursive
functions of their modules that sort, filter and join lists are reasoned about that
way: a sort keeps the elements, a filter keeps the order, joining keeps every reply.
`GroundedAnswerProofs` needs no induction but the one behind the rank of a place: its
lists are not computed step by step.

### Model-checked only

- The liveness properties (`Terminates`, `ClarificationEnds`, `PartialAnswersEnd`,
  `BreakerRecovers`, `AbandonedMarksEnd`, `TurnsEnd`, `TasksEnd`): liveness under fairness
  is out of the prover's reach.
- `ThreadMemory` (`OwnTurnIsExtracted`, `ArchiveFollowsThread`, `PromptIsWellFormed`): its definitions compute with `SelectSeq` and the folds of the
  community modules, of which the prover has no definition.
- What `GroundedSentences` and `EvidenceLines` put into the deterministic answer, which is
  not among the grounded ones (see "Met while modelling").
- The properties under "Findings" and "Disagreements", which are violated.

## 5. Plan

What is left, in this order:

1. Proofs about `ThreadMemory` (`OwnTurnIsExtracted`, `ArchiveFollowsThread`), with its
   lists described by places, as those of `Citations` are.
2. A lease (one holder until release or expiry) as the abstract specification of the
   marks, refined by `ChatRequest` and by `RedisServices`.
3. A bound on the supersteps of a request, against the engine's recursion limit.
4. The chunker as a checked operator, and the contract workflow.

### Not modelled, and why

- Profile and long-term memory of users: texts that models rewrite; concurrent
  extractions of one user lose updates (read, wait for the model, write), as they would
  in `ThreadMemory`'s summary.
- Chunk boundaries, and the OpenViking import and clients: pure text processing, and
  HTTP calls whose failures are searches that find nothing.
- The contract workflow over one document: one coroutine without shared state.
- Session and trace caches, metrics and traces: written and hardly read; no behaviour
  depends on them.
- Admin and MCP endpoints: thin handlers over the stores modelled here.
- Scripts, evaluation and the static page: offline, or without state of the service.
- Prompts, wording of answers and the scores of texts: choices of the models above.
