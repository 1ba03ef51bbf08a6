------------------------------ MODULE MCServer ------------------------------
(* Server with two workers and two connections. *)
EXTENDS Server
CONSTANTS w1, w2, c1, c2
MCWorkers == {w1, w2}
MCConns == {c1, c2}
MCTasks == {c1, c2, ListenFd}
=============================================================================
