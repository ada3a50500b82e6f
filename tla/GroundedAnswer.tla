--------------------------- MODULE GroundedAnswer ---------------------------
(***************************************************************************)
(* The way from retrieved evidence to the answer of one turn: tool results *)
(* are normalised into the turn's evidence, the specialists write reports   *)
(* that copy and cite it, the verifier checks every citation, sends the     *)
(* work back once, and the answer generator drafts, audits and, when the    *)
(* model does not stay with the evidence, rebuilds the answer itself.       *)
(* The routing between these nodes is AgentGraph's; here it is cut down to  *)
(* its order.                                                               *)
(***************************************************************************)
EXTENDS Citations, Integers

CONSTANTS
    Batches,              \* evidence the tool results of one round may hold
    Texts,                \* what a model may write in a report or a draft
    NextSteps,            \* what it may write under next_steps
    MaxRounds,            \* bound: retrieval rounds of the turn
    MAX_REPAIR_ROUNDS,
    MAX_ANSWER_ATTEMPTS

ASSUME RoundsAssumption ==
    {MaxRounds, MAX_REPAIR_ROUNDS, MAX_ANSWER_ATTEMPTS} \subseteq Nat

\* LawEvidence and CaseEvidence of a tool's result, not numbered yet.  A case
\* is not repealed.
Evidence ==
    [kind : {"law", "case"}, name : STRING, no : STRING, src : STRING,
     validity : {"effective", "partial", "unknown", "invalid"}, score : Int, ref : Nat]

ASSUME BatchesAssumption ==
    /\ Batches \subseteq Seq(Evidence)
    /\ \A batch \in Batches : \A i \in DOMAIN batch :
          batch[i].ref = 0 /\ (batch[i].kind = "case" => batch[i].validity = "unknown")

ASSUME TextsAssumption == Texts \cup NextSteps \subseteq Seq(Seq(STRING))

\* A case number has a form of its own, CASE_NO_RE: no case without a number
\* is named, or identified by its source, like one.
CaseItems == UNION {{batch[i] : i \in {i \in DOMAIN batch : batch[i].kind = "case"}} : batch \in Batches}
CaseNumbers == {e.no : e \in CaseItems} \cup {c.no : c \in UNION {CaseCitations(t) : t \in Texts \cup NextSteps}}
ASSUME CaseNumbersAssumption ==
    \A e \in CaseItems : e.no = None => {e.name, e.src} \cap CaseNumbers \subseteq {None}

VARIABLES
    phase,         \* "work", "verify", "answer", "done"
    laws,          \* retrieved_laws
    cases,         \* retrieved_cases
    insufficient,  \* evidence_insufficient
    rounds,        \* retrieval rounds so far
    statute,       \* the statute retrieval's report
    reasoning,     \* the legal reasoning's report
    verified,      \* verified_evidence and what verification_result says
    repairs,       \* repair_count
    attempts,      \* drafts of the answer so far
    answer         \* text, listed citations, outcome

evidence == <<laws, cases, insufficient, rounds>>
reports  == <<statute, reasoning>>
vars     == <<phase, evidence, reports, verified, repairs, attempts, answer>>

NoReport    == [written |-> FALSE, sources |-> <<>>, text |-> <<>>, steps |-> <<>>, insufficient |-> FALSE]
NotVerified == [laws |-> <<>>, cases |-> <<>>, checks |-> {}, citations |-> <<>>, issues |-> {}]
NoAnswer    == [text |-> <<>>, citations |-> <<>>, outcome |-> "none"]

Init ==
    /\ phase = "work"
    /\ laws = <<>> /\ cases = <<>>
    /\ insufficient = FALSE
    /\ rounds = 0
    /\ statute = NoReport /\ reasoning = NoReport
    /\ verified = NotVerified
    /\ repairs = 0
    /\ attempts = 0
    /\ answer = NoAnswer

-----------------------------------------------------------------------------
(* Retrieval.                                                              *)

OfKind(batch, kind) == At(batch, {i \in DOMAIN batch : batch[i].kind = kind})

\* normalize_evidence after a round of tools.  Without evidence in this batch
\* the lists stay, and evidence_insufficient follows the batch alone.
NormalizeEvidence ==
    /\ phase = "work" /\ rounds < MaxRounds
    /\ rounds' = rounds + 1
    /\ \E batch \in Batches :
          LET newLaws  == Normalised(OfKind(batch, "law"), LAW_TOP_K)
              newCases == Normalised(OfKind(batch, "case"), CASE_TOP_K)
          IN  /\ laws' = AfterBatch(laws, OfKind(batch, "law"), LAW_TOP_K, RETAINED_LAWS)
              /\ cases' = AfterBatch(cases, OfKind(batch, "case"), CASE_TOP_K, RETAINED_CASES)
              /\ insufficient' = (newLaws = <<>> /\ newCases = <<>> /\ batch = <<>>)
    /\ UNCHANGED <<phase, reports, verified, repairs, attempts, answer>>

-----------------------------------------------------------------------------
(* Reports.                                                                *)

\* normalize_sources: of equal sources the first stays.  The number of a case
\* is not compared.
SameSource(a, b) == <<a.kind, a.src, a.name>> = <<b.kind, b.src, b.name>> /\ (a.kind = "law" => a.no = b.no)
DistinctSources(s) == At(s, {i \in DOMAIN s : \A j \in 1 .. i - 1 : ~SameSource(s[j], s[i])})

Sources(s) == [i \in DOMAIN s |-> SourceOf(s[i])]

\* The statute retrieval reports the laws it finds relevant.
WriteStatuteReport ==
    /\ phase = "work" /\ rounds > 0
    /\ \E relevant \in {laws, Top(laws, 1), <<>>} :
          statute' = [written |-> TRUE, sources |-> DistinctSources(Sources(relevant)), text |-> <<>>,
                      steps |-> <<>>, insufficient |-> relevant = <<>> \/ insufficient]
    /\ UNCHANGED <<phase, evidence, reasoning, verified, repairs, attempts, answer>>

\* _build_legal_agent_report: all evidence and what earlier reports declared,
\* its own of the round before included; the text is the model's.
WriteReasoningReport ==
    /\ phase = "work"
    /\ \E text \in Texts, steps \in NextSteps :
          reasoning' = [written |-> TRUE,
                        sources |-> DistinctSources(Sources(laws \o cases) \o statute.sources \o reasoning.sources),
                        text |-> text, steps |-> steps, insufficient |-> insufficient]
    /\ phase' = "verify"
    /\ UNCHANGED <<evidence, statute, verified, repairs, attempts, answer>>

-----------------------------------------------------------------------------
(* Verification.                                                           *)

Reports == <<statute, reasoning>>

\* What verify_citations audits of a report: its sources, then its text.  One
\* that is not written has neither.
Audited(r) == r.sources \o SetToSeq(EscapedCitationsOf(r.text \o r.steps))
AllAudited == Audited(statute) \o Audited(reasoning)

\* law_citation and case_citation of the final list.
Listed(e) == [eid |-> EvidenceId(e), name |-> e.name, no |-> e.no]

\* bucket.setdefault(evidence_identity(...)): one citation per evidence.
ListAgain(found) == [k \in DOMAIN found |-> Listed(found[k])]  \* variant: one per label
List(found) ==
    At([k \in DOMAIN found |-> Listed(found[k])],
       {k \in DOMAIN found : \A j \in 1 .. k - 1 : EvidenceId(found[j]) # EvidenceId(found[k])})

Issue(type, about, severity) == [type |-> type, about |-> about, severity |-> severity]

\* _CitationAuditor.audit: once per label.
SeenByName(audited, i) ==  \* variant: the article is not part of the label
    \E j \in 1 .. i - 1 : audited[j].name = audited[i].name
Seen(audited, i) == \E j \in 1 .. i - 1 : Label(audited[j]) = Label(audited[i])

Check(c) ==
    LET stands == Supported(c, laws, cases)
    IN  [citation |-> c, verified |-> stands,
         evidence |-> IF stands THEN EvidenceId(Match(c, laws, cases)[1]) ELSE <<>>]

\* Every citation is checked, the evidence of one that stands is listed, and
\* one that does not is a blocking issue.
VerifyCitations ==
    LET audited == AllAudited
        first   == {i \in DOMAIN audited : ~Seen(audited, i)}
        stand   == {i \in first : Supported(audited[i], laws, cases)}
        standing == At(audited, stand)
    IN  [checks |-> {Check(audited[i]) : i \in first},
         citations |-> List([k \in DOMAIN standing |-> Match(standing[k], laws, cases)[1]]),
         issues |-> {Issue("citation_invalid", Label(audited[i]), "blocking") : i \in first \ stand}]

\* _deterministic_audit of the reports' declared sources.
Claim == Word("claim")
DeclaresNothing(r) == \A i \in DOMAIN r.sources : ~Supported(r.sources[i], laws, cases)
SourceIssues ==
    {Issue("retrieval_insufficient", "statute", "blocking") :
        r \in {r \in {statute} : r.written /\ ~r.insufficient /\ DeclaresNothing(r)}}
    \cup {Issue("overconfident", "reasoning", "blocking") :
            r \in {r \in {reasoning} : Claim \in ToSet(r.text) /\ DeclaresNothing(r)}}

\* partially_valid_laws: a risk to point out, nothing to repair.
ValidityWarnings ==
    {Issue("obsolete_law", EvidenceId(e), "warning") : e \in {e \in ToSet(laws) : e.validity = "partial"}}

\* _ground_supplement_notes: a note of the semantic verifier may only cite what
\* the verifier's input says literally: texts of reports, numbers of cases.
SaidLiterally == UNION {EscapedCitationsOf(Reports[i].text \o Reports[i].steps) : i \in DOMAIN Reports}
NoteStays(note) ==
    \A c \in CitationsOf(note) : c \in SaidLiterally \/ \E i \in DOMAIN cases : c = Bare("case", None, cases[i].no)

\* _llm_verification_supplement: the model adds a note, none, or is unavailable.
SemanticIssues ==
    {{}} \cup {{Issue("reasoning_conflict", note, "blocking")} : note \in {n \in Texts : NoteStays(n)}}

\* _VerificationAudit.record: only blocking issues fail the verification.
Blocking(issues) == {issue \in issues : issue.severity # "warning"}

\* _verification_result: what blocks can be repaired while the budget lasts.
NeedsRetry(issues) == Blocking(issues) # {} /\ repairs < MAX_REPAIR_ROUNDS

\* verify_plan_results and verifier_node: a failed verification is repaired
\* while the budget lasts.
Verify ==
    /\ phase = "verify"
    /\ \E found \in {VerifyCitations}, semantic \in SemanticIssues :
          LET issues == found.issues \cup SourceIssues \cup ValidityWarnings \cup semantic
          IN  /\ verified' = [laws |-> At(laws, {i \in DOMAIN laws : laws[i].validity # "invalid"}), cases |-> cases,
                              checks |-> found.checks, citations |-> found.citations, issues |-> issues]
              /\ IF NeedsRetry(issues)
                 THEN phase' = "work" /\ repairs' = repairs + 1
                 ELSE phase' = "answer" /\ UNCHANGED repairs
    /\ UNCHANGED <<evidence, reports, attempts, answer>>

-----------------------------------------------------------------------------
(* The answer.                                                             *)

RiskNotice == <<Word("risk"), SentenceEnd, LineBreak>>
Uncertain  == Blocking(verified.issues) # {}

\* What _generate_answer does with the text it has, and what the node returns.
Finish(text, outcome) ==
    LET sourced == WithSources(text, verified.laws, verified.cases)
    IN  /\ answer' = [text |-> IF Uncertain THEN RiskNotice \o sourced ELSE sourced,
                      citations |-> verified.citations, outcome |-> outcome]
        /\ phase' = "done"

\* A draft of the model, audited against the verified evidence.
Draft ==
    /\ phase = "answer" /\ attempts < MAX_ANSWER_ATTEMPTS
    /\ attempts' = attempts + 1
    /\ \E draft \in Texts \ {<<>>} :
          IF Grounded(draft, verified.laws, verified.cases)
          THEN Finish(draft, IF attempts = 0 THEN "model" ELSE "rewritten")
          ELSE UNCHANGED <<phase, answer>>
    /\ UNCHANGED <<evidence, reports, verified, repairs>>

\* _law_reference_lines, _case_reference_lines; the quoted contents are left out.
EvidenceLines ==
    FlattenSeq([i \in DOMAIN verified.laws |->
                   <<Law(verified.laws[i].name), Article(verified.laws[i].no), SourceNote, LineBreak>>])
        \o FlattenSeq([i \in DOMAIN verified.cases |-> <<CaseNo(verified.cases[i].no), SourceNote, LineBreak>>])

\* _fallback_final_response: the model failed, said nothing, or cited beyond
\* the evidence in every draft.
RebuildAnswer ==
    /\ phase = "answer"
    /\ Finish(GroundedSentences(reasoning.text, verified.laws, verified.cases) \o <<LineBreak>>
                  \o EvidenceLines \o reasoning.steps, "deterministic")
    /\ UNCHANGED <<evidence, reports, verified, repairs, attempts>>

Done == phase = "done" /\ UNCHANGED vars

Next ==
    \/ NormalizeEvidence
    \/ WriteStatuteReport
    \/ WriteReasoningReport
    \/ Verify
    \/ Draft
    \/ RebuildAnswer
    \/ Done

Spec == Init /\ [][Next]_vars

-----------------------------------------------------------------------------
(* Properties.                                                             *)

\* Every variable keeps its kind of value, and the evidence its bounds: the
\* lists never hold more than the context can take, whatever is retrieved.
TypeOK ==
    /\ phase \in {"work", "verify", "answer", "done"}
    /\ Len(laws) <= RETAINED_LAWS /\ Len(cases) <= RETAINED_CASES
    /\ \A s \in {laws, cases} : Cardinality({EvidenceKey(s[i]) : i \in DOMAIN s}) = Len(s)
    /\ insufficient \in BOOLEAN
    /\ rounds \in 0 .. MaxRounds /\ repairs \in 0 .. MAX_REPAIR_ROUNDS
    /\ attempts \in 0 .. MAX_ANSWER_ATTEMPTS
    /\ answer.outcome \in {"none", "model", "rewritten", "deterministic"}

Held == ToSet(laws) \cup ToSet(cases)

\* What the answer lists stands: every citation it lists is evidence of the
\* turn that is in force, once, and a check that passed names evidence that is
\* what the citation shows, also when the report copied the identifiers of an
\* earlier round and the evidence was renumbered since.
CitationsStand ==
    phase \in {"answer", "done"} =>
        /\ \A i \in DOMAIN verified.citations :
              /\ \E e \in Held : EvidenceId(e) = verified.citations[i].eid /\ e.validity # "invalid"
              /\ \A j \in DOMAIN verified.citations : verified.citations[j].eid = verified.citations[i].eid => i = j
        /\ \A check \in verified.checks :
              check.verified => \E e \in Held : EvidenceId(e) = check.evidence /\ ~Conflicts(check.citation, e)

\* Evidence in force that does not contradict what the citation shows.
Supports(e, c) ==
    /\ e.kind = c.kind /\ e.validity # "invalid"
    /\ IF c.kind = "law"
       THEN (None \in {c.name, e.name} \/ e.name = c.name) /\ (None \in {c.no, e.no} \/ e.no = c.no)
       ELSE c.no \in {None, e.no}

\* Passed means supported: when the verifier has no objection, the turn holds,
\* for every source of every report, also of one written before the last
\* retrieval, and for every citation in its text, evidence in force that does
\* not contradict it, although only the first citation of a label is looked up.
PassedMeansSupported ==
    phase \in {"answer", "done"} /\ Blocking(verified.issues) = {} =>
        \A i \in DOMAIN AllAudited : \E e \in Held : Supports(e, AllAudited[i])

\* Some evidence in force is what the citation shows.
Backed(c) ==
    \E e \in Held :
        /\ e.kind = c.kind /\ e.validity # "invalid"
        /\ IF c.kind = "case" /\ c.no # None THEN e.no = c.no
           ELSE e.name = c.name /\ c.no \in {e.no, None}

\* An answer written by the model cites nothing but the turn's evidence, after
\* the sources and the notice have been put in.
ModelAnswersAreGrounded ==
    answer.outcome \in {"model", "rewritten"} => \A c \in CitationsOf(answer.text) : Backed(c)
=============================================================================
