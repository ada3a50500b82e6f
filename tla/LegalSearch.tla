---------------------------- MODULE LegalSearch ----------------------------
(***************************************************************************)
(* Search in the local corpus of laws: services/rag, services/indexer/      *)
(* builder.py, the retrieval cache and the callers of the retriever         *)
(* (services/search.py, services/legal_tools.py).                           *)
(*                                                                          *)
(* A builder fills the vector collection in batches, either when a server   *)
(* starts or from the command line with --rebuild, while a running server   *)
(* searches it.  A search asks the collection once per variant of the       *)
(* query, then works on what it has in memory; every source may fail, and   *)
(* the outcome is kept in a cache that all searches of the query share.     *)
(* All searches of the model ask one query with one limit.                  *)
(***************************************************************************)
EXTENDS Integers, SequencesExt

CONSTANTS
    Corpus,           \* chunk_all_laws: the chunks of the law files, in order
    ContentOf,        \* chunk -> its text, which content_hash stands for
    Superseded,       \* chunks of historical or repealed laws
    Enhancements,     \* whether the query is rewritten, and has a HyDE text
    VectorScore,      \* variant -> chunk -> similarity
    KeywordScore,     \* variant -> chunk -> BM25 score, 0 for no common token
    RerankScore,      \* chunk -> score of the cross-encoder for the query
    VECTOR_TOP_K, BM25_TOP_K, FINAL_TOP_K, MIN_RESULTS, RRF_K,
    SCORE_THRESHOLD,  \* scores are counted in units of 1/Unit
    BATCH_SIZE,       \* QDRANT_BATCH_SIZE
    Tools,            \* searches of the agent's tool, under _LOCAL_RAG_LOCK
    Services,         \* searches of legal_tools.py, outside the lock
    Rebuilders,       \* runs of the builder from the command line
    MaxFaults         \* failed calls and killed processes (bound)

Unit     == 1000000
Server   == "server"
Free     == "free"
Variants == {"query", "hyde", "rewritten"}
Chunks   == ToSet(Corpus)

ASSUME SearchAssumption ==
    /\ IsInjective(Corpus) /\ Corpus \in Seq(Chunks)
    /\ Superseded \subseteq Chunks
    /\ Chunks = DOMAIN ContentOf
    /\ {VectorScore, KeywordScore} \subseteq [Variants -> [Chunks -> Int]]
    /\ RerankScore \in [Chunks -> Int]
    /\ {VECTOR_TOP_K, BM25_TOP_K, FINAL_TOP_K, MIN_RESULTS, BATCH_SIZE} \subseteq Nat \ {0}
    /\ {RRF_K, SCORE_THRESHOLD, MaxFaults} \subseteq Nat
    /\ Enhancements \subseteq BOOLEAN \X BOOLEAN
    /\ Tools \cap Services = {} /\ Free \notin Tools /\ Server \notin Rebuilders

VARIABLES
    collection,  \* legal_knowledge: whether it exists, and its points
    builder,     \* by process: where build_index stands, the points to write
    torn,        \* a builder died before it had written all; no wipe since
    keyword,     \* chunks of the BM25 index in memory; <<>> without a server
    search,      \* by caller: one search
    lock,        \* _LOCAL_RAG_LOCK
    cache,       \* the retrieval cache's entry for the query
    faults

vars == <<collection, builder, torn, keyword, search, lock, cache, faults>>

Builders  == Rebuilders \cup {Server}
Searches  == Tools \cup Services
NoEntry   == [results |-> <<>>, reranked |-> FALSE, ttl |-> FALSE]
Hit(doc, score) == [doc |-> doc, score |-> score]
HitsOn(docs) == [doc : docs, score : Int]
HitLists == Seq(HitsOn(Chunks))
Docs(hits) == [i \in DOMAIN hits |-> hits[i].doc]
First(n, seq) == SubSeq(seq, 1, IF Len(seq) < n THEN Len(seq) ELSE n)

IdleSearch == [at |-> "idle", queries |-> <<>>, asked |-> 0, hits |-> <<>>,
               results |-> <<>>, reranked |-> FALSE, found |-> FALSE]
NoBuild    == [at |-> "off", todo |-> <<>>]

Init ==
    /\ collection = [exists |-> FALSE, points |-> {}]
    /\ builder = [b \in Builders |-> NoBuild]
    /\ torn = FALSE
    /\ keyword = <<>>
    /\ search = [s \in Searches |-> IdleSearch]
    /\ lock = Free
    /\ cache = NoEntry
    /\ faults = MaxFaults

-----------------------------------------------------------------------------
(* The algorithms of one search.                                            *)

\* The members of a list that are in keep, in their order
Only(seq, keep) ==
    LET kept[n \in 0..Len(seq)] ==
            IF n = 0 THEN <<>>
            ELSE IF seq[n] \in keep THEN Append(kept[n - 1], seq[n]) ELSE kept[n - 1]
    IN  kept[Len(seq)]

\* sort by score, the highest first: a hit comes behind all that score as much
Insert == [p \in HitLists \X HitsOn(Chunks) |->
    LET hits  == p[1]
        ahead == Cardinality({i \in DOMAIN hits : hits[i].score >= p[2].score})
    IN  SubSeq(hits, 1, ahead) \o <<p[2]>> \o SubSeq(hits, ahead + 1, Len(hits))]
ByScore == [hits \in HitLists |->
    LET sorted[n \in 0..Len(hits)] ==
            IF n = 0 THEN <<>> ELSE Insert[<<sorted[n - 1], hits[n]>>]
    IN  sorted[Len(hits)]]

\* The n best of docs by score; equal scores keep the order of the corpus.
Scored(score) == [k \in DOMAIN Corpus |-> Hit(Corpus[k], score[Corpus[k]])]
Best(n, docs, score) == First(n, ByScore[Only(Scored(score), HitsOn(docs))])

\* query_points over the points there are, at most top_k of them
VectorHits == [q \in Variants \X SUBSET Chunks |-> Best(VECTOR_TOP_K, q[2], VectorScore[q[1]])]

\* BM25Retriever.retrieve: of the best top_k, those with a score
KeywordHits == [variant \in Variants |->
    Only(Best(BM25_TOP_K, Chunks, KeywordScore[variant]), [doc : Chunks, score : Nat \ {0}])]

\* The variants of the query, for the collection and for BM25
SemanticQueries(rewritten, hyde) ==
    (IF hyde THEN <<"hyde", "query">> ELSE <<"query">>) \o (IF rewritten THEN <<"rewritten">> ELSE <<>>)

AllQueries == {SemanticQueries(e[1], e[2]) : e \in Enhancements}

KeywordQueries(queries) == Only(<<"query", "rewritten", "hyde">>, ToSet(queries))

AppendedHits == [h \in HitLists \X HitLists |-> h[1] \o h[2]]   \* mutant: variants repeat a law

\* append_unique_results
Merged == [h \in HitLists \X HitLists |->
    h[1] \o Only(h[2], HitsOn(Chunks \ ToSet(Docs(h[1]))))]

\* _retrieve_source_variants for BM25 when the first n variants are answered
KeywordRecall ==
    [q \in AllQueries \X (0..3) |->
        LET asked == First(q[2], KeywordQueries(q[1]))
            Answered(k) == IF k \in DOMAIN asked THEN KeywordHits[asked[k]] ELSE <<>>
        IN  First(BM25_TOP_K, Merged[<<Merged[<<Answered(1), Answered(2)>>], Answered(3)>>])]

Current == Chunks \ Superseded

\* _drop_superseded, after the truncation
CurrentOf == [hits \in HitLists |-> Only(hits, HitsOn(Current))]

\* reciprocal_rank_fusion_scored; equal scores keep the order of insertion
Reciprocal(hits, doc) ==
    IF doc \in ToSet(Docs(hits))
    THEN Unit \div (RRF_K + CHOOSE i \in DOMAIN hits : hits[i].doc = doc)
    ELSE 0

Rescored(hits, vector, bm25) ==
    [k \in DOMAIN hits |->
        Hit(hits[k].doc, Reciprocal(vector, hits[k].doc) + Reciprocal(bm25, hits[k].doc))]
Fused == [h \in HitLists \X HitLists |-> ByScore[Rescored(Merged[h], h[1], h[2])]]

\* The candidates: fused when both sources have some, else those of the one
Candidates(vector, bm25) ==
    CASE vector # <<>> /\ bm25 # <<>> -> Fused[<<vector, bm25>>]
      [] vector # <<>> /\ bm25 = <<>> -> vector
      [] vector = <<>>                -> bm25

\* Reranker.rerank over the first vector_top_k + bm25_top_k candidates
ByReranker == [docs \in SUBSET Chunks |-> Best(FINAL_TOP_K, docs, RerankScore)]
Reranked(candidates) == ByReranker[ToSet(Docs(First(VECTOR_TOP_K + BM25_TOP_K, candidates)))]

Outcome(candidates, reranker) ==
    IF reranker THEN Reranked(candidates) ELSE First(FINAL_TOP_K, candidates)

AboveThreshold(results, reranked) ==   \* mutant: the threshold may empty it
    Only(results, {h \in ToSet(results) : ~reranked \/ h.score >= SCORE_THRESHOLD})

\* HybridRetriever.retrieve: the threshold cuts a tail, never everything
Kept(results, reranked) ==
    LET kept == Only(results, {h \in ToSet(results) : h.score >= SCORE_THRESHOLD})
    IN  IF ~reranked THEN results
        ELSE IF Len(kept) >= MIN_RESULTS THEN kept
        ELSE First(MIN_RESULTS, results)

\* _local_search_sync: the status of the tool's answer
Status(results) ==
    IF results = <<>> THEN "no_relevant_result"
    ELSE IF results[1].score < SCORE_THRESHOLD THEN "low_quality" ELSE "found"

-----------------------------------------------------------------------------
(* The builder.                                                             *)

Whole == {ContentOf[c] : c \in collection.points} = {ContentOf[c] : c \in Chunks}

\* add_documents: the first chunk of every text, ...
OncePerText ==
    LET Again(i) == \E j \in 1..(i - 1) : ContentOf[Corpus[j]] = ContentOf[Corpus[i]]
    IN  Only(Corpus, {Corpus[i] : i \in {i \in DOMAIN Corpus : ~Again(i)}})

ResumedAfter(existing) ==     \* mutant: goes on after as many as there are
    SubSeq(OncePerText, Cardinality(existing) + 1, Len(OncePerText))

\* ... unless the collection has that text already
Missing(existing) == Only(OncePerText, {c \in Chunks : ContentOf[c] \notin existing})

At(b, phase) == builder[b].at = phase
MoveTo(b, phase) == builder' = [builder EXCEPT ![b].at = phase]

\* initialize_rag makes the collection before it asks for a build
StartServer ==
    /\ At(Server, "off")
    /\ keyword = <<>>
    /\ collection' = [collection EXCEPT !.exists = TRUE]
    /\ MoveTo(Server, "count")
    /\ UNCHANGED <<torn, keyword, search, lock, cache, faults>>

\* python -m services.indexer.builder --rebuild, each run once
StartRebuild(b) ==
    /\ b \in Rebuilders
    /\ At(b, "off")
    /\ MoveTo(b, "wipe")
    /\ UNCHANGED <<collection, torn, keyword, search, lock, cache, faults>>

\* load_or_build_index: an index with a point in it is not built again
CountPoints ==
    /\ At(Server, "count")
    /\ MoveTo(Server, IF collection.points # {} THEN "loaded" ELSE "create")
    /\ UNCHANGED <<collection, torn, keyword, search, lock, cache, faults>>

\* store.delete: the whole collection goes
Wipe(b) ==
    /\ At(b, "wipe")
    /\ collection' = [exists |-> FALSE, points |-> {}]
    /\ torn' = FALSE
    /\ MoveTo(b, "create")
    /\ UNCHANGED <<keyword, search, lock, cache, faults>>

\* initialize: made unless another builder has made it
Create(b) ==
    /\ At(b, "create")
    /\ collection' = [collection EXCEPT !.exists = TRUE]
    /\ MoveTo(b, "scan")
    /\ UNCHANGED <<torn, keyword, search, lock, cache, faults>>

\* _existing_content_hashes
Scan(b) ==
    /\ At(b, "scan")
    /\ builder' = [builder EXCEPT ![b] =
           [at |-> "write", todo |-> Missing({ContentOf[c] : c \in collection.points})]]
    /\ UNCHANGED <<collection, torn, keyword, search, lock, cache, faults>>

\* upsert of one batch; into a collection that is gone it raises
WriteBatch(b) ==
    /\ At(b, "write")
    /\ builder[b].todo # <<>>
    /\ collection.exists
    /\ collection' = [collection EXCEPT !.points = @ \cup ToSet(First(BATCH_SIZE, builder[b].todo))]
    /\ builder' = [builder EXCEPT ![b].todo =
                      SubSeq(@, Len(First(BATCH_SIZE, @)) + 1, Len(@))]
    /\ UNCHANGED <<torn, keyword, search, lock, cache, faults>>

EndBuild(b) ==
    /\ At(b, "write")
    /\ builder[b].todo = <<>>
    /\ MoveTo(b, IF b = Server THEN "loaded" ELSE "done")
    /\ UNCHANGED <<collection, torn, keyword, search, lock, cache, faults>>

\* init_retriever: BM25 over the chunks of the files, and the server is up
BuildKeywordIndex == keyword' = Corpus
InitRetriever ==
    /\ At(Server, "loaded")
    /\ BuildKeywordIndex
    /\ builder' = [builder EXCEPT ![Server] = NoBuild]
    /\ UNCHANGED <<collection, torn, search, lock, cache, faults>>

\* The build raises, because the collection is gone or a call of it fails, or
\* its process is killed.  What it wrote stays.
StopBuild(b) ==
    /\ ~At(b, "off") /\ ~At(b, "done")
    /\ \/ At(b, "write") /\ builder[b].todo # <<>> /\ ~collection.exists /\ UNCHANGED faults
       \/ faults > 0 /\ faults' = faults - 1
    /\ builder' = [builder EXCEPT ![b] = IF b = Server THEN NoBuild ELSE [NoBuild EXCEPT !.at = "done"]]
    /\ torn' = (torn \/ builder[b].at \in {"create", "scan", "write"})
    /\ UNCHANGED <<collection, keyword, search, lock, cache>>

\* The server ends: its searches, its lock and its BM25 index with it.
StopServer ==
    /\ keyword # <<>>
    /\ faults > 0
    /\ faults' = faults - 1
    /\ keyword' = <<>>
    /\ search' = [s \in Searches |-> IdleSearch]
    /\ lock' = Free
    /\ UNCHANGED <<collection, builder, torn, cache>>

-----------------------------------------------------------------------------
(* A search.                                                                *)

Begin(s) == search' = [search EXCEPT ![s].at = "lookup"]

\* search_local_law_service: one at a time, under the lock
BeginToolSearch(s) ==
    /\ s \in Tools
    /\ keyword # <<>>
    /\ search[s].at = "idle"
    /\ lock = Free
    /\ lock' = s
    /\ Begin(s)
    /\ UNCHANGED <<collection, builder, torn, keyword, cache, faults>>

\* risk_assess_service and its neighbours call the retriever directly.
BeginServiceSearch(s) ==
    /\ s \in Services
    /\ keyword # <<>>
    /\ search[s].at = "idle"
    /\ Begin(s)
    /\ UNCHANGED <<collection, builder, torn, keyword, lock, cache, faults>>

\* get_cached_results
CacheHit(s) ==
    /\ search[s].at = "lookup"
    /\ cache # NoEntry
    /\ search' = [search EXCEPT ![s] = [IdleSearch EXCEPT !.at = "done",
                       !.results = cache.results, !.reranked = cache.reranked]]
    /\ UNCHANGED <<collection, builder, torn, keyword, lock, cache, faults>>

\* No entry, or no Redis.  The query is asked as it is when it is precise or
\* when the model that would enhance it fails.
CacheMiss(s) ==
    /\ search[s].at = "lookup"
    /\ \/ cache = NoEntry /\ UNCHANGED faults
       \/ cache # NoEntry /\ faults > 0 /\ faults' = faults - 1
    /\ \E queries \in AllQueries :
          search' = [search EXCEPT ![s].at = "vector", ![s].queries = queries]
    /\ UNCHANGED <<collection, builder, torn, keyword, lock, cache>>

\* _safe_retrieve on the collection for one variant; an absent collection
\* answers with nothing
AskCollection(s) ==
    LET variant == search[s].queries[search[s].asked + 1] IN
    /\ search[s].at = "vector"
    /\ search' = [search EXCEPT
           ![s].hits = Merged[<<@, VectorHits[<<variant, collection.points>>]>>], ![s].asked = @ + 1,
           ![s].at = IF search[s].asked + 1 = Len(search[s].queries) THEN "rank" ELSE "vector"]
    /\ UNCHANGED <<collection, builder, torn, keyword, lock, cache, faults>>

\* The call fails for good: what the earlier variants found is kept.
CollectionFails(s) ==
    /\ search[s].at = "vector"
    /\ faults > 0
    /\ faults' = faults - 1
    /\ search' = [search EXCEPT ![s].at = "rank"]
    /\ UNCHANGED <<collection, builder, torn, keyword, lock, cache>>

\* The rest of _run_pipeline works on the process's own memory: BM25, which
\* may fail after n variants, the fusion, and the reranker, which may fail.
\* found is read by properties only: a source had a current hit.
Rank(s) ==
    /\ search[s].at = "rank"
    /\ UNCHANGED <<collection, builder, torn, keyword, lock, cache>>
    /\ \E bm25Fails, rerankerFails \in BOOLEAN :
          /\ faults' = faults - Cardinality({f \in {1, 2} : <<bm25Fails, rerankerFails>>[f]})
          /\ faults' >= 0
          /\ \E vector \in {CurrentOf[First(VECTOR_TOP_K, search[s].hits)]},
                n \in IF bm25Fails THEN 0..(Len(search[s].queries) - 1) ELSE {Len(search[s].queries)} :
             \E bm25 \in {CurrentOf[KeywordRecall[<<search[s].queries, n>>]]} :
             \E candidates \in {Candidates(vector, bm25)} :
                search' = [search EXCEPT
                     ![s] = [IdleSearch EXCEPT !.at = "store", !.reranked = ~rerankerFails,
                                 !.results = Outcome(candidates, ~rerankerFails),
                                 !.found = vector # <<>> \/ bm25 # <<>>]]

EntryWithoutEnd(s) ==      \* mutant: SET without EX
    [results |-> search[s].results, reranked |-> search[s].reranked, ttl |-> FALSE]

Entry(s) == [results |-> search[s].results, reranked |-> search[s].reranked, ttl |-> TRUE]

\* set_cached_results: whatever was found, by however many sources; nothing is
\* not kept, and a Redis that fails keeps nothing
Store(s) ==
    /\ search[s].at = "store"
    /\ \/ cache' = (IF search[s].results = <<>> THEN cache ELSE Entry(s)) /\ UNCHANGED faults
       \/ faults > 0 /\ faults' = faults - 1 /\ UNCHANGED cache
    /\ search' = [search EXCEPT ![s].at = "done"]
    /\ UNCHANGED <<collection, builder, torn, keyword, lock>>

ExpireEntry ==
    /\ cache.ttl
    /\ cache' = NoEntry
    /\ UNCHANGED <<collection, builder, torn, keyword, search, lock, faults>>

\* The caller has its answer.
Return(s) ==
    /\ search[s].at = "done"
    /\ search' = [search EXCEPT ![s] = IdleSearch]
    /\ lock' = IF lock = s THEN Free ELSE lock
    /\ UNCHANGED <<collection, builder, torn, keyword, cache, faults>>

\* What the caller gets: the tool the results and a status, a service the
\* chunks above the threshold
Answer(s) == IF s \in Tools THEN search[s].results
                            ELSE Kept(search[s].results, search[s].reranked)

BuildStep(b) ==
    Wipe(b) \/ Create(b) \/ Scan(b) \/ WriteBatch(b) \/ EndBuild(b)

SearchStep(s) ==
    \/ CacheHit(s) \/ CacheMiss(s) \/ AskCollection(s)
    \/ Rank(s) \/ Store(s) \/ Return(s)

Next ==
    \/ StartServer \/ CountPoints \/ InitRetriever \/ StopServer \/ ExpireEntry
    \/ \E b \in Builders : StartRebuild(b) \/ BuildStep(b) \/ StopBuild(b)
    \/ \E s \in Searches : BeginToolSearch(s) \/ BeginServiceSearch(s) \/ SearchStep(s) \/ CollectionFails(s)

Spec == Init /\ [][Next]_vars

\* Processes run on, replies come, entries expire.  Nothing has to begin.
FairSpec ==
    /\ Spec
    /\ WF_vars(CountPoints) /\ WF_vars(InitRetriever) /\ WF_vars(ExpireEntry)
    /\ \A b \in Builders : WF_vars(BuildStep(b) \/ StopBuild(b))
    /\ \A s \in Searches : WF_vars(SearchStep(s))

-----------------------------------------------------------------------------
(* Properties.                                                              *)

TypeOK ==
    /\ collection.exists \in BOOLEAN
    /\ collection.points \subseteq Chunks
    /\ ~collection.exists => collection.points = {}
    /\ \A b \in Builders :
          /\ builder[b].at \in {"off", "count", "wipe", "create", "scan", "write", "loaded", "done"}
          /\ builder[b].todo # <<>> => builder[b].at = "write" /\ IsInjective(builder[b].todo)
    /\ keyword \in {<<>>, Corpus}
    /\ \A s \in Searches :
          /\ search[s].at \in {"idle", "lookup", "vector", "rank", "store", "done"}
          /\ search[s].at # "idle" => keyword # <<>>
          /\ s \in Tools => (lock = s) = (search[s].at # "idle")
          /\ IsInjective(Docs(search[s].results))
          /\ Len(search[s].results) <= FINAL_TOP_K
    /\ cache # NoEntry => cache.results # <<>>

\* When no builder is at work and none died while it wrote, the collection
\* holds every text of the corpus or nothing, however a server's own build and
\* rebuilds from the command line were mixed (builder.py:46-110,
\* qdrant_store.py:113-183).
IndexIsWhole ==
    (\A b \in Builders : At(b, "off") \/ At(b, "done")) /\ ~torn
        => Whole \/ collection.points = {}

\* A search in which some source had a current law answers with one: the
\* failure of the other source, of the reranker or low scores do not empty it
\* (retriever.py:398-526, 611-652; docs/architecture/rag.md "任何单一召回或精排组件失败时").
HitsAreServed ==
    \A s \in Searches : search[s].at = "done" /\ search[s].found =>
        /\ Answer(s) # <<>> /\ ToSet(Docs(Answer(s))) \cap Superseded = {}
        /\ s \in Tools => Status(Answer(s)) # "no_relevant_result"

\* What a search finds when no call fails, with these points in the collection
VectorRecall(queries, points) ==
    First(VECTOR_TOP_K, FoldLeft(LAMBDA hits, v : Merged[<<hits, VectorHits[<<v, points>>]>>], <<>>, queries))
FullOutcomes ==
    {<<points, Outcome(Candidates(CurrentOf[VectorRecall(queries, points)],
                                  CurrentOf[KeywordRecall[<<queries, Len(queries)>>]]), TRUE)>>
        : queries \in AllQueries, points \in SUBSET Chunks}

\* An answer that lacks a source, or comes from an index that was being
\* rebuilt, is cached like any other, but not for ever: once nothing fails any
\* more, answers are full again (retriever.py:592-599, cache/retrieval.py:205-228).
PartialAnswersEnd ==
    <>[](\A s \in Searches : search[s].at = "done" => <<collection.points, search[s].results>> \in FullOutcomes)

=============================================================================
