-------------------------- MODULE MCBackgroundJobs --------------------------
(* Two videos and one contract report with one worker thread and one        *)
(* restart.  The frames: two files of one picture, one that differs from    *)
(* them in a bit, others that differ in more.                                *)
EXTENDS BackgroundJobs

Frame(bits, n) == [bits |-> bits, file |-> n]
a1 == Frame({}, 1)
a2 == Frame({}, 2)
b  == Frame({1}, 1)
c  == Frame({1, 2, 3}, 1)
d1 == Frame({2, 3, 4, 5}, 1)
d2 == Frame({2, 3, 4, 5}, 2)
MCFilms == {<<>>, <<a1, a2>>, <<b, c, a1>>, <<a1, c, d1, a1>>, <<a1, c, d1, b>>, <<a1, c, d1, d2>>}
=============================================================================
