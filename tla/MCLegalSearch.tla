--------------------------- MODULE MCLegalSearch ---------------------------
(* Four chunks: b1 is the repealed law that b2 repeats, the best hit of     *)
(* every source; two searches, one rebuild beside the server, two faults.   *)
EXTENDS LegalSearch

MCEnhancements == {<<FALSE, FALSE>>, <<TRUE, TRUE>>}
MCCorpus == <<"a", "b1", "b2", "c">>
MCContentOf == [a |-> "A", b1 |-> "B", b2 |-> "B", c |-> "C"]
MCVectorScore ==
    [query     |-> [a |-> 400000, b1 |-> 900000, b2 |-> 800000, c |-> 200000],
     hyde      |-> [a |-> 300000, b1 |-> 500000, b2 |-> 400000, c |-> 700000],
     rewritten |-> [a |-> 700000, b1 |-> 800000, b2 |-> 600000, c |-> 100000]]
MCKeywordScore ==
    [query     |-> [a |-> 0, b1 |-> 3000000, b2 |-> 2500000, c |-> 0],
     hyde      |-> [a |-> 0, b1 |-> 0, b2 |-> 0, c |-> 1500000],
     rewritten |-> [a |-> 1000000, b1 |-> 0, b2 |-> 0, c |-> 0]]
MCRerankScore == [a |-> 100000, b1 |-> 700000, b2 |-> 200000, c |-> 350000]
=============================================================================
