------------------------------ MODULE MCLyric ------------------------------
(* Two threads, two song ids that share the number 1 and one without a      *)
(* number, room for two of the three in the LRU tier, so that each may be   *)
(* evicted and the order of the two that stay matters.  The threads are     *)
(* interchangeable, and so are the two ids of the row; nothing but safety   *)
(* is checked.                                                              *)
EXTENDS Lyric, TLC
CONSTANTS t1, t2, s1, s2, s3
MCThreads == {t1, t2}
MCSongs == {s1, s2, s3}
MCStoll == [s \in MCSongs |-> IF s = s3 THEN 0 ELSE 1]
MCValues == [form : {"json", "text"}, part : Parts]
Symmetry == Permutations(MCThreads) \cup Permutations({s1, s2})
=============================================================================
