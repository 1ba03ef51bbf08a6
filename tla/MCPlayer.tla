----------------------------- MODULE MCPlayer -----------------------------
(* Player for TLC: a history with a song played twice, a list of favorites *)
(* that shares songs with it, and a recommendation of two searches, one    *)
(* with URLs and one without.                                              *)
EXTENDS Player

CONSTANTS s1, s2, s3

MCSongs == {s1, s2, s3}
Bare(s) == [id |-> s, linked |-> FALSE]
Linked(s) == [id |-> s, linked |-> TRUE]
MCLists == {<<Bare(s1), Bare(s2), Bare(s1), Bare(s3)>>,
            <<Bare(s2), Bare(s3)>>,
            <<Linked(s3), Bare(s1)>>}
==========================================================================
