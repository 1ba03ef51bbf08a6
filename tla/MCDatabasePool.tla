--------------------------- MODULE MCDatabasePool ---------------------------
(* DatabasePool on four workers that share a pool of two, with a third handle value. *)
EXTENDS DatabasePool
CONSTANTS t1, t2, t3, t4, h1, h2, h3
MCThreads == {t1, t2, t3, t4}
MCHandles == {h1, h2, h3}
=============================================================================
