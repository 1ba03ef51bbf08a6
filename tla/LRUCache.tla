------------------------------ MODULE LRUCache ------------------------------
(***************************************************************************)
(* The LRU cache template of src/include/Cache.hpp: a list of key-value    *)
(* nodes, most recently used first, and a map from each key to its node.   *)
(* Every operation holds the mutex throughout and is one step.  An         *)
(* iterator of map_ stands for the node that carries its key.              *)
(***************************************************************************)
EXTENDS Integers, FiniteSets, SequencesExt

CONSTANTS Keys, Values,
          Capacity \* capacity_

\* put on a full cache reads list_.back(): with no capacity there is none.
ASSUME LRUAssumption == Capacity \in Nat \ {0}

VARIABLES list, \* list_
          map   \* the keys of map_

lruVars == <<list, map>>

Node == [key : Keys, value : Values]
ListKeys == {list[i].key : i \in 1..Len(list)}
Pos(k) == CHOOSE i \in 1..Len(list) : list[i].key = k
Find(k) == k \in map
ValueOf(k) == list[Pos(k)].value

LRUTypeOK == list \in Seq(Node) /\ map \subseteq Keys
LRUInit == list = <<>> /\ map = {}

-----------------------------------------------------------------------------
(* Faulty variants, each a bug such code may have; no part of Spec. *)

\* The arguments of emplace_front the wrong way round.
ToFrontSwapped(k, v) == <<[key |-> v, value |-> k]>> \o RemoveAt(list, Pos(k))

\* The node is updated in place, at the position it had.
PutInPlace(k, v) ==
  IF Find(k)
  THEN list' = [list EXCEPT ![Pos(k)] = [key |-> k, value |-> v]] /\ UNCHANGED map
  ELSE /\ list' = <<[key |-> k, value |-> v]>> \o
                    (IF Len(list) >= Capacity THEN Front(list) ELSE list)
       /\ map' = {list'[i].key : i \in 1..Len(list')}

\* The evicted node leaves the list and its key stays in the map.
EvictListOnly(k, v) ==
  IF Find(k)
  THEN list' = <<[key |-> k, value |-> v]>> \o RemoveAt(list, Pos(k)) /\ UNCHANGED map
  ELSE /\ list' = <<[key |-> k, value |-> v]>> \o
                    (IF Len(list) >= Capacity THEN Front(list) ELSE list)
       /\ map' = map \cup {k}

-----------------------------------------------------------------------------
(* splice: the node of k to the front, carrying v. *)
ToFront(k, v) == <<[key |-> k, value |-> v]>> \o RemoveAt(list, Pos(k))

(* get: a hit moves the node to the front and returns its value. *)
Get(k) ==
  IF Find(k) THEN list' = ToFront(k, ValueOf(k)) /\ UNCHANGED map
  ELSE UNCHANGED lruVars

(* put: a known key gets the value and moves to the front; a new key on a   *)
(* full list evicts the last node, from the list and from the map.          *)
Put(k, v) ==
  \/ /\ Find(k)
     /\ list' = ToFront(k, v)
     /\ UNCHANGED map
  \/ /\ ~Find(k) /\ Len(list) >= Capacity
     /\ list' = <<[key |-> k, value |-> v]>> \o Front(list)
     /\ map' = (map \ {Last(list).key}) \cup {k}
  \/ /\ ~Find(k) /\ Len(list) < Capacity
     /\ list' = <<[key |-> k, value |-> v]>> \o list
     /\ map' = map \cup {k}

RemoveKey(k) ==
  IF Find(k) THEN list' = RemoveAt(list, Pos(k)) /\ map' = map \ {k}
  ELSE UNCHANGED lruVars

Clear == list' = <<>> /\ map' = {}

LRUNext == \/ \E k \in Keys : Get(k) \/ RemoveKey(k) \/ (\E v \in Values : Put(k, v))
           \/ Clear

LRUSpec == LRUInit /\ [][LRUNext]_lruVars

-----------------------------------------------------------------------------
(* The two structures agree: the map knows exactly the keys of the list, no *)
(* key has two nodes, and the list never outgrows its capacity.  Otherwise  *)
(* an iterator of the map would dangle.                                     *)
MapMatchesList ==
  /\ map = ListKeys
  /\ \A i, j \in 1..Len(list) : list[i].key = list[j].key => i = j
  /\ Len(list) <= Capacity

(* Only a put of a new key into a full cache displaces another key, and     *)
(* then just one, the last of the list; a hit displaces nothing.            *)
EvictsAtMostOne ==
  [][\A k \in map \ map' : map' = {} \/ map' = map \ {k}
        \/ (Len(list) = Capacity /\ k = Last(list).key /\ Len(list') = Capacity)]_lruVars

(* list_ and map_ implement the recency order: what is cached under each    *)
(* key, and which of two keys was used before the other.                    *)
CacheStore == [k \in ListKeys |-> ValueOf(k)]
CacheOlder == {<<list[p[2]].key, list[p[1]].key>> :
                 p \in {q \in (1..Len(list)) \X (1..Len(list)) : q[1] < q[2]}}
Abstract == INSTANCE RecencyCache WITH store <- CacheStore, older <- CacheOlder
ImplementsRecency == Abstract!Spec
=============================================================================
