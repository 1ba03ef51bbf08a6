---------------------------- MODULE MCSession ----------------------------
(* Session for TLC.  Requests and users are interchangeable; only safety   *)
(* is checked, so the symmetry is sound.                                   *)
EXTENDS Session, TLC

CONSTANTS r1, r2, u1, u2, s1

MCRequests == {r1, r2}
MCUsers == {u1, u2}
MCSongs == {s1}
Symmetry == Permutations(MCRequests) \cup Permutations(MCUsers)
==========================================================================
