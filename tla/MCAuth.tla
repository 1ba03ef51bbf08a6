------------------------------- MODULE MCAuth -------------------------------
(* Two threads, two names and two targets, one of which is also a name.     *)
EXTENDS Auth, TLC
CONSTANTS t1, t2, n1, n2, mail, p1, p2, c1
MCThreads == {t1, t2}
MCNames == {n1, n2}
MCTargets == {mail, n2}
MCPasswords == {p1, p2}
MCCodes == {c1}
Symmetry == Permutations(MCThreads) \cup Permutations(MCPasswords)
=============================================================================
