---------------------------- MODULE MCRecommend ----------------------------
(* Four songs with an id, two of them charged for, and one without; an       *)
(* answer is enough with three songs and full with four, the code's 5 and 8. *)
EXTENDS Recommend, TLC
CONSTANTS a, b, c, d, noid
MCSongs == {a, b, c, d, noid}
MCNumbered == {a, b, c, d}
MCCharged == {c, d}
Symmetry == Permutations({a, b}) \cup Permutations({c, d})
=============================================================================
