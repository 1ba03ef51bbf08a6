---------------------------- MODULE RecencyCache ----------------------------
(***************************************************************************)
(* What a least-recently-used cache promises, with no list and no          *)
(* iterators: at most Capacity keys with the last value put under each,    *)
(* and the order in which they were last used.  A new key that finds the   *)
(* cache full displaces the key used least recently, and only that one.    *)
(***************************************************************************)
EXTENDS Integers, FiniteSets

CONSTANTS Keys, Values, Capacity

VARIABLES store, \* the cached keys and their values
          older  \* <<k, l>>: k was last used before l

Cached == DOMAIN store
Put1(f, k, v) == [l \in DOMAIN f \cup {k} |-> IF l = k THEN v ELSE f[l]]
Drop(f, S) == [l \in DOMAIN f \ S |-> f[l]]

Fresh(k) == {p \in older : p[1] # k /\ p[2] # k}
              \cup {<<l, k>> : l \in Cached \ {k}}
Without(S) == {p \in older : p[1] \notin S /\ p[2] \notin S}

Oldest == CHOOSE k \in Cached : \A l \in Cached \ {k} : <<k, l>> \in older

Init == store = [k \in {} |-> k] /\ older = {}

Hit(k) == /\ k \in Cached
          /\ older' = Fresh(k)
          /\ UNCHANGED store

Put(k, v) ==
  LET out == IF k \notin Cached /\ Cardinality(Cached) >= Capacity THEN {Oldest} ELSE {}
  IN  /\ store' = Put1(Drop(store, out), k, v)
      /\ older' = {p \in Fresh(k) : p[1] \notin out /\ p[2] \notin out}

Erase(S) == /\ store' = Drop(store, S)
            /\ older' = Without(S)

Next == \/ \E k \in Keys : Hit(k) \/ (\E v \in Values : Put(k, v)) \/ Erase({k})
        \/ Erase(Cached)

Spec == Init /\ [][Next]_<<store, older>>
=============================================================================
