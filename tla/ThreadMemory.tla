---------------------------- MODULE ThreadMemory ----------------------------
(***************************************************************************)
(* What a thread remembers: the messages of its checkpoint, the archive in *)
(* PostgreSQL, the rolling summary with its offset and the session data     *)
(* in Redis, under turns that follow or overlap one another, compaction    *)
(* inside a turn and on demand, the extraction that runs in the background *)
(* after a turn, cached answers, disconnects, deletion of the thread and   *)
(* restarts of the process.                                                *)
(*                                                                         *)
(* A message is said once, by <<turn, place>>; `said` follows it through   *)
(* every copy.  Its `id` is the one add_messages gives the copy, and code  *)
(* that has no ids compares role and text.                                 *)
(***************************************************************************)
EXTENDS ContextWindow

CONSTANTS
    MaxTurns,             \* turns of the thread (bound)
    KEEP_RECENT,          \* messages a compaction keeps
    AUTO_COMPACT,         \* messages above which a turn compacts
    SLIDING_WINDOW_SIZE,  \* newest archived messages that stay unsummarised
    SUMMARY_ITEMS,        \* messages one summary prompt shows (12)
    DocumentTurns,        \* turns that come with an uploaded document
    EvidenceTurns,        \* turns that come with a video's report
    ToolTurns,            \* turns in which a specialist may use its tools
    Questions,            \* what users may say
    Replies,              \* what answers may say
    MessageSizes,         \* how long the messages of each role may be
    OtherParts,           \* how long the other parts of a prompt may be
    Environments          \* the worlds a thread may live in (below)

Turns == 1 .. MaxTurns

\* CHECKPOINT_BACKEND, whether the client posts before the last answer is
\* there, and how often (bounds) it posts, compacts, deletes, the process
\* restarts, the archive cannot be written.
Environment == [backend : {"memory", "postgres"}, overlapping : BOOLEAN, turns : Nat,
                restarts : Nat, compactions : Nat, deletes : Nat, failures : Nat]

ASSUME MemoryAssumption ==
    /\ MaxTurns \in Nat \ {0}
    /\ KEEP_RECENT \in Nat \ {0}
    /\ AUTO_COMPACT \in Nat
    /\ SLIDING_WINDOW_SIZE \in Nat \ {0}
    /\ SUMMARY_ITEMS \in Nat \ {0}
    /\ DocumentTurns \cup EvidenceTurns \cup ToolTurns \subseteq Turns
    /\ Environments \subseteq Environment
    /\ Questions # {} /\ Replies # {}

VARIABLES
    checkpoint,  \* the messages of the thread's latest checkpoint
    archive,     \* the thread's rows of `messages`, by msg_index
    summary,     \* conversation_summaries: what it covers, msg_count
    listed,      \* conversations.status: none, active, deleted
    session,     \* the thread has session metadata in Redis
    pc,          \* where each turn stands, its extraction included
    held,        \* the messages a turn's code has in hand
    seen,        \* what it read of a store and has not used yet
    manual,      \* POST /threads/{id}/compact in flight
    deletion,    \* DELETE /threads/{id} in flight
    env,         \* the world, with what is left of its bounds
    \* History, read by properties only:
    company,     \* turns under way that something else of the thread ran beside
    mixed        \* turns, extractions writing the archive or compactions on
                 \* demand have overlapped

stores  == <<checkpoint, archive, summary, listed, session>>
history == <<company, mixed>>
vars    == <<stores, pc, held, seen, manual, deletion, env, history>>

-----------------------------------------------------------------------------
(* Messages.                                                               *)

Places   == [human |-> 1, document |-> 2, evidence |-> 3, call |-> 4, tool |-> 5, ai |-> 6]
Said(t, role) == <<t, Places[role]>>
NoText == "none"

\* The message a node adds to the state; its id is none of a restored history's.
New(t, role, text) ==
    [id |-> <<t, 0, role>>, said |-> Said(t, role), role |-> role, text |-> text]

\* What _messages_to_dicts keeps: no tool traffic, and of the system messages
\* all but the document.
Archivable(messages) == SelectSeq(messages, LAMBDA m : m.role \in {"human", "ai", "evidence"})

\* Two dicts of the archive are equal.
Alike(a, b) == Len(a) = Len(b) /\ \A i \in DOMAIN a : a[i].role = b[i].role /\ a[i].text = b[i].text

SaidIn(messages) == {messages[i].said : i \in DOMAIN messages}
LastOf(s, n) == SubSeq(s, IF Len(s) > n THEN Len(s) - n + 1 ELSE 1, Len(s))

\* _new_messages_for_archive: what follows the largest overlap of the
\* archive's end with the messages' beginning.
Overlaps(archived, messages) ==
    {k \in 1 .. Len(messages) : k <= Len(archived) /\ Alike(LastOf(archived, k), SubSeq(messages, 1, k))}
AllMessages(archived, messages) == messages  \* variant: no comparison
NewMessages(archived, messages) ==
    LET found == Overlaps(archived, messages)
    IN  IF found = {} THEN messages
        ELSE SubSeq(messages, 1 + CHOOSE k \in found : \A j \in found : j <= k, Len(messages))

\* _compactable_prefix: everything but the recent messages and the document.
PrefixTooLong(messages) ==       \* variant: one message more
    IF Len(messages) <= KEEP_RECENT THEN <<>>
    ELSE SelectSeq(SubSeq(messages, 1, Len(messages) + 1 - KEEP_RECENT), LAMBDA m : m.role # "document")
Compactable(messages) ==
    IF Len(messages) <= KEEP_RECENT THEN <<>>
    ELSE SelectSeq(SubSeq(messages, 1, Len(messages) - KEEP_RECENT), LAMBDA m : m.role # "document")

Without(messages, some) == SelectSeq(messages, LAMBDA m : m \notin ToSet(some))

\* The archive as input of a graph without a checkpoint: fresh ids.
Restored(t, items) == [i \in DOMAIN items |-> [items[i] EXCEPT !.id = <<t, i, items[i].role>>]]

-----------------------------------------------------------------------------
(* What the stores do.                                                     *)

\* ensure_conversation creates a row; the status of a known one, a deleted one
\* too, stays.
EnsureConversation(status) == IF status = "none" THEN "active" ELSE status

\* append_messages numbers the new rows behind the last one.
AppendMessages(rows, items) == rows \o items

\* save_summary replaces text and offset at once.
SavedSummary(covers, offset) == [covers |-> covers, offset |-> offset]

\* touch_session writes the session's fields and renews its TTL.
TouchSession == session' = TRUE

NothingSeen == [archive |-> <<>>, covers |-> {}, offset |-> 0]

Init ==
    /\ env \in Environments
    /\ checkpoint = <<>>
    /\ archive = <<>>
    /\ summary = SavedSummary({}, 0)
    /\ listed = "none"
    /\ session = FALSE
    /\ pc = [t \in Turns |-> "idle"]
    /\ held = [t \in Turns |-> <<>>]
    /\ seen = [t \in Turns |-> NothingSeen]
    /\ manual = [busy |-> FALSE, messages |-> <<>>, covers |-> {}]
    /\ deletion = "none"
    /\ company = {}
    /\ mixed = FALSE

-----------------------------------------------------------------------------
(* A turn: POST /api/chat up to the end of its stream.                     *)

Goto(t, place)    == pc' = [pc EXCEPT ![t] = place]
Hold(t, messages) == held' = [held EXCEPT ![t] = messages]
InGraph  == {"compaction", "compacting", "working", "calling"}
Running  == InGraph \cup {"prepared"}
Unsettled == Running \cup {"streamed"}  \* its messages are in no snapshot yet

\* One saved superstep of the graph: the latest checkpoint is this turn's.
SaveState(t, messages) ==
    /\ Hold(t, messages)
    /\ checkpoint' = messages

\* The client posts its next message: when the last stream has ended, or
\* before.  ensure_conversation leaves the status of a known thread alone;
\* touch_session renews the session data.  Without messages in the
\* checkpoint the archive is loaded to restore them.
Prepare(t) ==
    /\ pc[t] = "idle" /\ t <= env.turns
    /\ \A u \in 1 .. t - 1 : pc[u] # "idle" /\ (env.overlapping \/ pc[u] \notin Running)
    /\ listed' = EnsureConversation(listed)
    /\ TouchSession
    /\ Hold(t, IF checkpoint = <<>> THEN Restored(t, archive) ELSE <<>>)
    /\ LET others == {u \in Turns : pc[u] \in Unsettled}
       IN  /\ company' = company \cup others \cup IF others = {} THEN {} ELSE {t}
           /\ mixed' = (mixed \/ others # {})
    /\ Goto(t, "prepared")
    /\ UNCHANGED <<checkpoint, archive, summary, seen, manual,
                   deletion, env>>

\* A cached answer is streamed without the graph.
AnswerFromCache(t) ==
    /\ pc[t] = "prepared"
    /\ Hold(t, <<>>)
    /\ Goto(t, "replayed")
    /\ UNCHANGED <<stores, seen, manual, deletion, env, history>>

\* astream starts on the latest checkpoint and adds the input to it.
EnterGraph(t) ==
    /\ pc[t] = "prepared"
    /\ \E text \in Questions :
          SaveState(t, checkpoint \o held[t] \o <<New(t, "human", text)>>)
    /\ Goto(t, "compaction")
    /\ UNCHANGED <<archive, summary, listed, session, seen, manual,
                   deletion, env, history>>

\* build_context_status: too many messages, or (any time) too many tokens.
ShouldCompact(messages) == Compactable(messages) # <<>> /\ Len(messages) > AUTO_COMPACT

\* context_compaction_node: reads the summary, then waits for the model.
CompactOrNot(t) ==
    /\ pc[t] = "compaction"
    /\ IF ShouldCompact(held[t])
       THEN /\ seen' = [seen EXCEPT ![t].covers = summary.covers]
            /\ Goto(t, "compacting")
       ELSE /\ seen' = seen
            /\ Goto(t, "working")
    /\ UNCHANGED <<stores, held, manual, deletion, env, history>>

\* _summary_msg_count.
OffsetAfterCompaction(existing, count) == IF existing > count THEN existing ELSE count

\* Once the model has answered, compact_state_context saves the summary if
\* there is one, passes over a failing save, and removes the prefix in any case.
SaveCompaction(prefix, base) ==
    LET covers == base \cup SaidIn(prefix)
    IN  \/ summary' = SavedSummary(covers, OffsetAfterCompaction(summary.offset, Len(prefix)))
        \/ summary' = summary   \* no summary in the payload, or not saved

Compact(t) ==
    /\ pc[t] = "compacting"
    /\ \/ UNCHANGED <<checkpoint, held, summary>>  \* model failed
       \/ LET prefix == Compactable(held[t])
          IN  /\ SaveCompaction(prefix, seen[t].covers)
              /\ SaveState(t, Without(held[t], prefix))
    /\ seen' = [seen EXCEPT ![t] = NothingSeen]
    /\ Goto(t, "working")
    /\ UNCHANGED <<archive, listed, session, manual, deletion, env,
                   company, mixed>>

\* inject_doc_node: a document and a video's report enter the thread once each.
Has(messages, role) == \E i \in DOMAIN messages : messages[i].role = role
Additions(t) ==
    LET Once(turns, role) ==
            IF t \in turns /\ ~Has(held[t], role) THEN <<New(t, role, NoText)>> ELSE <<>>
    IN  Once(DocumentTurns, "document") \o Once(EvidenceTurns, "evidence")
InjectDocument(t) ==
    /\ pc[t] = "working"
    /\ Additions(t) # <<>>
    /\ SaveState(t, held[t] \o Additions(t))
    /\ UNCHANGED <<archive, summary, listed, session, pc, seen, manual,
                   deletion, env, history>>

\* A specialist's response with its admitted calls is saved before any of them
\* runs (once a turn: a bound).
AdmitToolCalls(t) ==
    /\ pc[t] = "working" /\ Additions(t) = <<>> /\ t \in ToolTurns
    /\ Said(t, "call") \notin SaidIn(held[t])
    /\ SaveState(t, Append(held[t], New(t, "call", NoText)))
    /\ Goto(t, "calling")
    /\ UNCHANGED <<archive, summary, listed, session, seen, manual,
                   deletion, env, history>>

\* The tool node adds the results, or tool_limit_observation_node its refusals.
ReturnResults(t) ==
    /\ pc[t] = "calling"
    /\ SaveState(t, Append(held[t], New(t, "tool", NoText)))
    /\ Goto(t, "working")
    /\ UNCHANGED <<archive, summary, listed, session, seen, manual,
                   deletion, env, history>>

\* The answer (or the clarifying question) ends the graph.
Answer(t) ==
    /\ pc[t] = "working" /\ Additions(t) = <<>>
    /\ \E text \in Replies : SaveState(t, Append(held[t], New(t, "ai", text)))
    /\ Goto(t, "streamed")
    /\ UNCHANGED <<archive, summary, listed, session, seen, manual,
                   deletion, env, history>>

\* An exception in the graph is reported in the stream, which ends normally.
\* (The compaction handles its own.)
FailInGraph(t) ==
    /\ pc[t] \in {"working", "calling"}
    /\ Goto(t, "streamed")
    /\ UNCHANGED <<stores, held, seen, manual, deletion, env, history>>

\* The client goes away: the stream and its graph end, nothing is extracted.
Disconnect(t) ==
    /\ pc[t] \in Unsettled \cup {"replayed"}
    /\ Goto(t, "over")
    /\ Hold(t, <<>>)
    /\ seen' = [seen EXCEPT ![t] = NothingSeen]
    /\ company' = company \ {t}
    /\ UNCHANGED <<stores, manual, deletion, env, mixed>>

\* The stream is over: _wrapped_stream takes the thread's latest state, not
\* this turn's, as the extraction's input.
TakeSnapshot(t) ==
    /\ pc[t] \in {"streamed", "replayed"}
    /\ Hold(t, Archivable(checkpoint))
    /\ Goto(t, IF Archivable(checkpoint) = <<>> THEN "over" ELSE "archiving")
    /\ company' = company \ {t}
    /\ UNCHANGED <<stores, seen, manual, deletion, env, mixed>>

-----------------------------------------------------------------------------
(* The extraction after a turn: extract_and_save_memory.                   *)

LoadArchive(t) ==
    /\ pc[t] = "archiving"
    /\ seen' = [seen EXCEPT ![t].archive = archive]
    /\ Goto(t, "appending")
    /\ UNCHANGED <<stores, held, manual, deletion, env, history>>

\* append_messages: one transaction that appends behind the latest index.  A
\* failure is logged and passed over.
AppendNew(t) ==
    /\ pc[t] = "appending"
    /\ \/ /\ archive' = AppendMessages(archive, NewMessages(seen[t].archive, held[t]))
          /\ listed' = EnsureConversation(listed)
          /\ Goto(t, "archived")
          /\ UNCHANGED env
       \/ /\ env.failures > 0
          /\ env' = [env EXCEPT !.failures = @ - 1]
          /\ UNCHANGED <<archive, listed>>
          /\ Goto(t, "unarchived")
    /\ mixed' = (mixed \/ \E u \in Turns \ {t} : pc[u] \in {"archiving", "appending"})
    /\ seen' = [seen EXCEPT ![t] = NothingSeen]
    /\ UNCHANGED <<checkpoint, summary, session, held, manual, deletion, company>>

\* What the summary does not cover yet and the window no longer holds.  The
\* window's token limit asks for a summary too, but then nothing overflows.
Overflow(all, offset) == SubSeq(all, offset + 1, Len(all) - SLIDING_WINDOW_SIZE)

ReadOverflow(t) ==
    /\ pc[t] \in {"archived", "unarchived"}
    /\ Hold(t, <<>>)
    /\ LET overflow == IF Len(archive) > SLIDING_WINDOW_SIZE
                       THEN Overflow(archive, summary.offset) ELSE <<>>
       IN  IF overflow = <<>>
           THEN /\ seen' = seen
                /\ Goto(t, "over")
           ELSE /\ seen' = [seen EXCEPT
                              ![t].covers = summary.covers \cup SaidIn(LastOf(overflow, SUMMARY_ITEMS)),
                              ![t].offset = Len(archive) - SLIDING_WINDOW_SIZE]
                /\ Goto(t, "summarising")
    /\ UNCHANGED <<stores, manual, deletion, env, history>>

\* The model's summary replaces the stored one together with its offset; no
\* answer, an empty one or a failed write leaves it.
SaveSummary(t) ==
    /\ pc[t] = "summarising"
    /\ summary' \in {summary, SavedSummary(seen[t].covers, seen[t].offset)}
    /\ seen' = [seen EXCEPT ![t] = NothingSeen]
    /\ Goto(t, "over")
    /\ UNCHANGED <<checkpoint, archive, listed, session, held, manual,
                   deletion, env, history>>

-----------------------------------------------------------------------------
(* Requests about the thread, and restarts.                                *)

\* _manual_compact_thread reads the state, waits for the model, and updates
\* whatever is the latest state by then; add_messages refuses to remove a
\* message that is not there, and the request ends in an error.
StartManualCompaction ==
    /\ ~manual.busy
    /\ env.compactions > 0
    /\ Compactable(checkpoint) # <<>>
    /\ manual' = [busy |-> TRUE, messages |-> Compactable(checkpoint), covers |-> summary.covers]
    /\ env' = [env EXCEPT !.compactions = @ - 1]
    /\ UNCHANGED <<stores, pc, held, seen, deletion, history>>

FinishManualCompaction ==
    /\ manual.busy
    /\ SaveCompaction(manual.messages, manual.covers)
    /\ checkpoint' = IF ToSet(manual.messages) \subseteq ToSet(checkpoint)
                     THEN Without(checkpoint, manual.messages) ELSE checkpoint
    /\ company' = company \cup {u \in Turns : pc[u] \in Unsettled}
    /\ mixed' = (mixed \/ \E u \in Turns : pc[u] \in Running)
    /\ manual' = [busy |-> FALSE, messages |-> <<>>, covers |-> {}]
    /\ UNCHANGED <<archive, listed, session, pc, held, seen, deletion, env>>

\* remove_thread: the checkpoint, then the status of the conversation, then
\* the session data.  Archive and summary stay.
DeleteCheckpoint ==
    /\ deletion = "none" /\ env.deletes > 0 /\ listed # "none"
    /\ env' = [env EXCEPT !.deletes = @ - 1]
    /\ checkpoint' = <<>>
    /\ company' = company \cup {u \in Turns : pc[u] \in Unsettled}
    /\ deletion' = "row"
    /\ UNCHANGED <<archive, summary, listed, session, pc, held, seen,
                   manual, mixed>>

DeleteRow ==
    /\ deletion = "row"
    /\ listed' = "deleted"
    /\ deletion' = "session"
    /\ UNCHANGED <<checkpoint, archive, summary, session, pc, held, seen,
                   manual, env, history>>

ClearSession ==
    /\ deletion = "session"
    /\ session' = FALSE
    /\ deletion' = "none"
    /\ UNCHANGED <<checkpoint, archive, summary, listed, pc, held, seen,
                   manual, env, history>>

\* The process restarts: turns, extractions and requests in flight are gone,
\* and so are checkpoints kept in memory.
Restart ==
    /\ env.restarts > 0
    /\ env' = [env EXCEPT !.restarts = @ - 1]
    /\ checkpoint' = IF env.backend = "memory" THEN <<>> ELSE checkpoint
    /\ company' = {}
    /\ pc' = [t \in Turns |-> IF pc[t] = "idle" THEN "idle" ELSE "over"]
    /\ held' = [t \in Turns |-> <<>>]
    /\ seen' = [t \in Turns |-> NothingSeen]
    /\ manual' = [busy |-> FALSE, messages |-> <<>>, covers |-> {}]
    /\ deletion' = "none"
    /\ UNCHANGED <<archive, summary, listed, session,
                   mixed>>

Turn(t) ==
    \/ Prepare(t)
    \/ AnswerFromCache(t)
    \/ EnterGraph(t)
    \/ CompactOrNot(t)
    \/ Compact(t)
    \/ InjectDocument(t)
    \/ AdmitToolCalls(t)
    \/ ReturnResults(t)
    \/ Answer(t)
    \/ FailInGraph(t)
    \/ TakeSnapshot(t)
    \/ LoadArchive(t)
    \/ AppendNew(t)
    \/ ReadOverflow(t)
    \/ SaveSummary(t)

AllOver == (\A t \in 1 .. env.turns : pc[t] = "over") /\ ~manual.busy /\ deletion = "none" /\ UNCHANGED vars

Next ==
    \/ \E t \in Turns : Turn(t) \/ Disconnect(t)
    \/ StartManualCompaction \/ FinishManualCompaction
    \/ DeleteCheckpoint \/ DeleteRow \/ ClearSession
    \/ Restart
    \/ AllOver

Spec == Init /\ [][Next]_vars

-----------------------------------------------------------------------------
(* Properties.                                                             *)

Before(a, b) == a[1] < b[1] \/ (a[1] = b[1] /\ a[2] < b[2])

\* A turn that ran alone has its question in the thread's state when its
\* extraction looks: neither its own compaction nor a restored history took it
\* out.  (Turns, compactions and deletions beside it may.)
OwnTurnIsExtracted ==
    \A t \in Turns \ company : pc[t] = "streamed" => Said(t, "human") \in SaidIn(checkpoint)

\* When an extraction has written, the archive shows what it was given, as far
\* as role and text tell: in one piece, unless something else was writing, and
\* then each message somewhere.
Shows(rows, messages) ==
    \E p \in 0 .. Len(rows) : /\ p + Len(messages) <= Len(rows)
                              /\ Alike(SubSeq(rows, p + 1, p + Len(messages)), messages)
SnapshotIsArchived ==
    \A t \in Turns : pc[t] = "archived" =>
        IF mixed THEN \A m \in ToSet(held[t]) : Shows(archive, <<m>>) ELSE Shows(archive, held[t])

\* Without overlapping extractions or turns the archive is the conversation: in
\* order and nothing twice, however often the same words are said, over
\* restarts, restored histories, failed writes, disconnects and compactions.
\* (A message that repeats archived words may be taken for them and left out.)
ArchiveInOrder ==
    mixed \/ \A i, j \in DOMAIN archive : i < j => Before(archive[i].said, archive[j].said)

\* The history as extractions leave it.
ArchiveFollowsThread == SnapshotIsArchived /\ ArchiveInOrder

\* Whatever compactions, restored histories, other turns and cut tool loops made
\* of the thread, however long its parts are and in every tier: the input of a
\* model call fits its budget, and no tool result in it stands without the call
\* it answers.
Prompts(t) ==
    {ModelContext(held[t], size, text, Budget(Tier(text.evidence, 0, rating))) :
        size \in MessageSizes, text \in OtherParts, rating \in {"simple", "complex"}}
Answers(result, call) ==
    result.role = "tool" /\ call.role = "call" /\ call.said[1] = result.said[1]
PromptIsWellFormed ==
    \A t \in Turns : pc[t] = "working" /\ Additions(t) = <<>> => \A prompt \in Prompts(t) :
        /\ prompt.tokens <= prompt.budget
        /\ \A i \in DOMAIN prompt.recent : prompt.recent[i].role = "tool" =>
              i > 1 /\ Answers(prompt.recent[i], prompt.recent[i - 1])

\* What the docs say of the window of recent messages, "complete by the
\* protocol": no call in it stands without its result either.  A turn cut in
\* its tool loop leaves one in the checkpoint.
CallsAreAnswered ==
    \A t \in Turns : pc[t] = "working" /\ Additions(t) = <<>> => \A prompt \in Prompts(t) :
        \A i \in DOMAIN prompt.recent : prompt.recent[i].role = "call" =>
            i < Len(prompt.recent) /\ Answers(prompt.recent[i + 1], prompt.recent[i])

\* What the docs say of msg_count, an offset into the archive: the summary
\* covers what lies before it.
OffsetIsCovered ==
    \A i \in DOMAIN archive : i <= summary.offset => archive[i].said \in summary.covers

\* What the docs say of compaction: it deletes from the thread what the summary
\* holds, and nothing when that failed.
RemovedIsSummarised == SaidIn(archive) \subseteq SaidIn(checkpoint) \cup summary.covers

\* What the docs say of the archive: it keeps the complete history, of every
\* turn whose extraction has written.
EndedTurnsAreArchived ==
    \A t \in Turns : pc[t] = "archived" => Said(t, "human") \in SaidIn(archive)

\* What the docs say of the extractor: it handles new messages only.
OnlyNewIsArchived ==
    \A i, j \in DOMAIN archive : archive[i].said = archive[j].said => i = j
=============================================================================
