-------------------------- MODULE MCClarification --------------------------
(* Two disputes and two terse replies, with what the keyword lists of       *)
(* services/legal_analysis.py and agent/clarification.py find in            *)
(* dismissed "公司辞退我，我能赔多少钱？", years "我干了3年",                *)
(* wages "月薪8000元", deposit "房东不退押金，我能拿到多少？".               *)
EXTENDS Clarification

MCWords ==
    [dismissed |-> {<<"labor", 1>>}, deposit |-> {<<"lease", 1>>, <<"lease", 2>>},
     years |-> {}, wages |-> {}]
MCTells ==
    [dismissed |-> {<<"labor", "relation">>},
     years     |-> {<<"labor", "time">>},
     wages     |-> {<<"labor", "amount">>, <<"lease", "amount">>},
     deposit   |-> {<<"lease", "amount">>}]
MCMarks ==
    [dismissed |-> {"own", "demand", "information"}, deposit |-> {"own", "demand", "information"},
     years |-> {"own"}, wages |-> {}]
MCSize == [dismissed |-> 13, years |-> 5, wages |-> 7, deposit |-> 14]
MCCategories == <<"labor", "lease", "contract">>
MCDimensions ==
    [labor    |-> {"relation", "time", "amount", "evidence"},
     lease    |-> {"contract", "amount", "reason", "evidence"},
     contract |-> {"content", "performance", "breach", "evidence"}]
=============================================================================
