------------------------------ MODULE Citations ------------------------------
(***************************************************************************)
(* Evidence and citations of a turn as data: how retrieved items become    *)
(* bounded evidence, how a citation is matched with it, and which sentences *)
(* of a text survive.  No state; GroundedAnswer runs it.                   *)
(*                                                                         *)
(* A law is <<name, article>>, a case <<name, number>>.  Texts are          *)
(* sequences of tokens: a law's name in brackets, an article, a case        *)
(* number, a line break, the end of a sentence, a word.                     *)
(***************************************************************************)
EXTENDS Naturals, FiniteSets, Sequences, SequencesExt

CONSTANTS
    LAW_TOP_K,       \* EVIDENCE_LAW_TOP_K: laws one normalisation keeps
    CASE_TOP_K,      \* EVIDENCE_CASE_TOP_K
    RETAINED_LAWS,   \* retained_law_top_n: laws the state keeps
    RETAINED_CASES   \* retained_case_top_n

ASSUME CapacityAssumption ==
    {LAW_TOP_K, CASE_TOP_K, RETAINED_LAWS, RETAINED_CASES} \subseteq Nat \ {0}

None == "none"

-----------------------------------------------------------------------------
(* Lists, by the places of their members.                                  *)

\* The places, each behind those that are before it.
InOrder(places, before) ==
    [k \in 1 .. Cardinality(places) |->
        CHOOSE i \in places : Cardinality({j \in places : <<j, i>> \in before}) = k - 1]

Upwards(places) == {p \in places \X places : p[1] < p[2]}
Downwards(places) == {p \in places \X places : p[1] > p[2]}

\* What a list holds at some places, in its order.
At(s, places) == [k \in 1 .. Cardinality(places) |-> s[InOrder(places, Upwards(places))[k]]]
Top(s, n) == SubSeq(s, 1, IF Len(s) < n THEN Len(s) ELSE n)
First(s, places) == Top(At(s, places), 1)

-----------------------------------------------------------------------------
(* Evidence.                                                               *)

\* law_evidence_key, case_evidence_key: by source, else by what is cited.
EvidenceKey(e) ==
    IF e.kind = "law"
    THEN <<IF e.src # None THEN e.src ELSE e.name, e.no>>
    ELSE <<IF e.src # None THEN e.src ELSE IF e.no # None THEN e.no ELSE e.name>>

\* evidence_id is a hash of the identity and the article or case number.
EvidenceId(e) == <<e.kind, IF e.src # None THEN e.src ELSE e.name, e.no>>

\* normalize_law_evidence, normalize_case_evidence and the filters behind
\* them: nothing to identify it by, or a repealed law, is dropped.
Usable(e) == {e.name, e.no, e.src} # {None} /\ e.validity # "invalid"

\* The places of an item's key, and the first place of every key.
PlacesOf(s, e) == {i \in DOMAIN s : EvidenceKey(s[i]) = EvidenceKey(e)}
Firsts(s) == {i \in DOMAIN s : \A j \in PlacesOf(s, s[i]) : i <= j}

\* Python's stable sort by score, highest first.
Ahead(s) ==
    {p \in (DOMAIN s) \X (DOMAIN s) :
        s[p[1]].score > s[p[2]].score \/ (s[p[1]].score = s[p[2]].score /\ p[1] < p[2])}
Ranked(s) == [k \in DOMAIN s |-> s[InOrder(DOMAIN s, Ahead(s))[k]]]

\* _normalize_laws, _normalize_cases: of duplicates the best score stays, at
\* the place of the first.
BestOf(s, e) == s[InOrder(PlacesOf(s, e), Ahead(s))[1]]
KeepBest(s) == At([i \in DOMAIN s |-> BestOf(s, s[i])], Firsts(s))
Normalised(raw, n) == Top(Ranked(KeepBest(At(raw, {i \in DOMAIN raw : Usable(raw[i])}))), n)

\* merge_unique_by: what comes later overwrites the item of its key or is
\* appended, and an empty list on the right clears.  The list on the left is
\* the state's, which holds a key once.
Newest(s, e) == s[InOrder(PlacesOf(s, e), Downwards(DOMAIN s))[1]]
Appended(left, right) == left \o right  \* variant: keys are not compared
MergedUnique(left, right) ==
    LET known == [i \in DOMAIN left |-> IF PlacesOf(right, left[i]) = {} THEN left[i] ELSE Newest(right, left[i])]
        new   == {i \in Firsts(right) : PlacesOf(left, right[i]) = {}}
    IN  IF right = <<>> THEN <<>>
        ELSE known \o At([i \in DOMAIN right |-> Newest(right, right[i])], new)

\* _merge_top_retrieved.
MergedTop(left, right, limit) ==
    LET merged == MergedUnique(left, right)
    IN  IF Len(merged) <= limit THEN merged ELSE Top(Ranked(merged), limit)

\* assign_ref_ids: law_001, law_002, ... in the order of the list.
Numbered(s) == [i \in DOMAIN s |-> [s[i] EXCEPT !.ref = i]]

\* normalize_evidence on one list of the state, and the list's reducer on what
\* it returns; a batch without evidence merges to nothing and changes nothing.
AfterBatch(pool, raw, n, limit) ==
    LET merged == Numbered(MergedTop(pool, Normalised(raw, n), limit))
    IN  IF merged = <<>> THEN pool ELSE MergedTop(pool, merged, limit)

-----------------------------------------------------------------------------
(* Matching a citation with the evidence.                                  *)

\* A citation shows a name and an article or number; as a report's source it
\* carries the identifiers of the evidence it was copied from.
Bare(kind, name, no) == [kind |-> kind, name |-> name, no |-> no, src |-> None, eid |-> <<>>, ref |-> 0]
SourceOf(e) == [kind |-> e.kind, name |-> e.name, no |-> e.no, src |-> e.src, eid |-> EvidenceId(e), ref |-> e.ref]

\* law_label, case_label.
Label(c) ==
    IF c.kind = "law" THEN <<"law", c.name, c.no>>
    ELSE <<"case", IF c.no # None THEN c.no ELSE IF c.name # None THEN c.name ELSE c.src>>

\* ref_id, evidence_id, source: of the evidence with one key the first in the
\* list is the entry of its index (build_evidence_index).
ByIdentifiers(c, pool) ==
    First(pool, {i \in DOMAIN pool : c.ref # 0 /\ pool[i].ref = c.ref})
        \o First(pool, {i \in DOMAIN pool : EvidenceId(pool[i]) = c.eid})
        \o First(pool, {i \in DOMAIN pool :
                 c.src # None /\ pool[i].src = c.src /\ (c.kind = "case" \/ pool[i].no = c.no)})

\* _law_conflicts and match_case's test: what the citation shows is not this.
Conflicts(c, e) ==
    \/ c.kind = "law" /\ None \notin {c.name, e.name} /\ c.name # e.name
    \/ c.no # None /\ (c.kind = "case" \/ e.no # None) /\ c.no # e.no

\* What the citation shows, when no identifier led to it: the article, or the
\* law as a whole; the number of a case, or else its name.
Shows(c, e) ==
    IF c.kind = "law" THEN c.name # None /\ e.name = c.name /\ c.no \in {e.no, None}
    ELSE IF c.no # None THEN e.no = c.no
    ELSE c.name # None /\ e.name = c.name
ByWhatItShows(c, pool) ==
    First(pool, {i \in DOMAIN pool : Shows(c, pool[i]) /\ (c.kind = "law" => pool[i].no = c.no)})
        \o First(pool, {i \in DOMAIN pool : Shows(c, pool[i])})

\* match_law, match_case: the evidence of a citation, or none.
PoolOf(c, laws, cases) == IF c.kind = "law" THEN laws ELSE cases
MatchTrusting(c, laws, cases) ==  \* variant: identifiers are not compared with the text
    LET pool == PoolOf(c, laws, cases)
    IN  Top(ByIdentifiers(c, pool) \o ByWhatItShows(c, pool), 1)
Match(c, laws, cases) ==
    LET pool  == PoolOf(c, laws, cases)
        named == ByIdentifiers(c, pool)
    IN  Top(At(named, {i \in DOMAIN named : ~Conflicts(c, named[i])}) \o ByWhatItShows(c, pool), 1)

Supported(c, laws, cases) ==
    LET found == Match(c, laws, cases) IN found # <<>> /\ found[1].validity # "invalid"

-----------------------------------------------------------------------------
(* Citations in texts.                                                     *)

Law(name)     == <<"law", name>>
Article(no)   == <<"article", no>>
CaseNo(no)    == <<"case", no>>
LineBreak     == <<"line break">>
SentenceEnd   == <<"end">>
Word(w)       == <<"word", w>>

\* LAW_CITATION_RE lets white space stand between a law and its article.
\* report_text escapes line breaks: there the two have to be adjacent.
LawCitations(text, gaps) ==
    {Bare("law", text[p[1]][2], text[p[2]][2]) :
        p \in {p \in (DOMAIN text) \X (DOMAIN text) :
                 /\ p[1] < p[2] /\ text[p[1]][1] = "law" /\ text[p[2]][1] = "article"
                 /\ \A k \in p[1] + 1 .. p[2] - 1 : text[k] \in gaps}}

CaseCitations(text) ==
    {Bare("case", None, text[i][2]) : i \in {i \in DOMAIN text : text[i][1] = "case"}}

CitationsOf(text) == LawCitations(text, {LineBreak}) \cup CaseCitations(text)
EscapedCitationsOf(text) == LawCitations(text, {}) \cup CaseCitations(text)

\* audit_answer_citations.
GroundedAsEscaped(text, laws, cases) ==  \* variant: line breaks hide a citation
    \A c \in EscapedCitationsOf(text) : Match(c, laws, cases) # <<>>
Grounded(text, laws, cases) == \A c \in CitationsOf(text) : Match(c, laws, cases) # <<>>

\* keep_grounded_sentences: split behind ends and line breaks, drop the blank
\* and the ungrounded sentences, join the rest.
Breaks(text) == {0, Len(text)} \cup {i \in DOMAIN text : text[i] \in {SentenceEnd, LineBreak}}
SentenceOf(text, i) ==
    LET from == CHOOSE b \in Breaks(text) : b < i /\ \A c \in Breaks(text) : c < i => c <= b
        to   == CHOOSE b \in Breaks(text) : b >= i /\ \A c \in Breaks(text) : c >= i => b <= c
    IN  SubSeq(text, from + 1, to)
GroundedSentences(text, laws, cases) ==
    LET Keeps(i) == LET sentence == SentenceOf(text, i)
                    IN  ToSet(sentence) # {LineBreak} /\ Grounded(sentence, laws, cases)
        kept == SelectSeq([i \in DOMAIN text |-> i], Keeps)
    IN  [k \in DOMAIN kept |-> text[kept[k]]]

\* _add_inline_sources: a literal citation of the evidence, not yet followed
\* by a source, gets one.
SourceNote == <<"source">>
CitedAt(text, i, laws, cases) ==
    \/ /\ text[i][1] = "article" /\ i > 1 /\ text[i - 1][1] = "law"
       /\ \E k \in DOMAIN laws : laws[k].name = text[i - 1][2] /\ laws[k].no = text[i][2]
    \/ text[i][1] = "case" /\ \E k \in DOMAIN cases : cases[k].no = text[i][2]
Unsourced(text, laws, cases) ==
    {i \in DOMAIN text : CitedAt(text, i, laws, cases) /\ (i = Len(text) \/ text[i + 1] # SourceNote)}

\* Where a token goes when every token in noted gets a source behind it.
Moved(noted, i) == i + Cardinality({j \in noted : j < i})
WithSources(text, laws, cases) ==
    LET noted == Unsourced(text, laws, cases)
    IN  [k \in 1 .. Len(text) + Cardinality(noted) |->
            IF \E i \in DOMAIN text : Moved(noted, i) = k
            THEN text[CHOOSE i \in DOMAIN text : Moved(noted, i) = k] ELSE SourceNote]
=============================================================================
