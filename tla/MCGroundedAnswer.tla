-------------------------- MODULE MCGroundedAnswer --------------------------
(***************************************************************************)
(* Instances for TLC: two laws, one of them from two sources and with two  *)
(* scores, one repealed, three cases, one of them without a number; room   *)
(* for two laws and one case.                                              *)
(***************************************************************************)
EXTENDS GroundedAnswer

AnItem(kind, name, no, src, validity, score) ==
    [kind |-> kind, name |-> name, no |-> no, src |-> src, validity |-> validity, score |-> score, ref |-> 0]

Civil     == AnItem("law", "civil", "1", "s1", "effective", 2)
CivilLow  == AnItem("law", "civil", "1", "s1", "effective", 1)
CivilDeli == AnItem("law", "civil", "1", "s2", "unknown", 3)
Labour    == AnItem("law", "labour", "1", None, "partial", 2)
Labour2   == AnItem("law", "labour", "2", None, "unknown", 3)
LabourAll == AnItem("law", "labour", None, "s4", "unknown", 1)
Repealed  == AnItem("law", "old", "1", "s3", "invalid", 3)
CaseA     == AnItem("case", "a v b", "A1", "k1", "unknown", 1)
CaseB     == AnItem("case", "b v c", "B1", None, "unknown", 2)
CaseC     == AnItem("case", "c v d", None, "k3", "unknown", 3)

SomeBatches ==
    {<<>>, <<Civil>>, <<CivilLow, Labour2>>, <<Repealed, Labour, LabourAll>>, <<CivilDeli, Civil, CaseC>>, <<Labour2, CaseA>>, <<CaseB, CaseA>>}

SomeTexts ==
    {<<>>,
     <<Word("w"), SentenceEnd>>,
     <<Law("civil"), Article("1"), Claim, SentenceEnd>>,
     <<Law("labour"), LineBreak, Article("2"), SentenceEnd>>,
     <<Law("old"), Article("1"), SentenceEnd, CaseNo("A1"), Word("w"), SentenceEnd>>,
     <<Claim, CaseNo("B1"), SentenceEnd>>}

SomeSteps == {<<>>, <<Law("old"), Article("1")>>}
=============================================================================
