-------------------------- MODULE LRUCache_proofs --------------------------
(***************************************************************************)
(* Proofs about LRUCache for any keys, values and capacity.  Put, Get and  *)
(* RemoveKey only put a node in front of the list and take one out of it,  *)
(* so the lemmas say what these two do to the keys of a list.              *)
(***************************************************************************)
EXTENDS LRUCache, TLAPS, SequenceTheorems, FiniteSetTheorems

KeysOf(l) == {l[i].key : i \in 1..Len(l)}
Distinct(l) == \A i, j \in 1..Len(l) : l[i].key = l[j].key => i = j

LRUInv == LRUTypeOK /\ MapMatchesList

(* Moving a node out of a list closes the gap it leaves. *)
LEMMA RemoveAtProperties ==
  ASSUME NEW S, NEW s \in Seq(S), NEW p \in 1..Len(s)
  PROVE  /\ RemoveAt(s, p) \in Seq(S)
         /\ Len(RemoveAt(s, p)) = Len(s) - 1
         /\ \A i \in 1..(Len(s) - 1) :
              RemoveAt(s, p)[i] = IF i < p THEN s[i] ELSE s[i + 1]
<1> DEFINE a == SubSeq(s, 1, p - 1)
           b == SubSeq(s, p + 1, Len(s))
<1>1. Len(s) \in Nat /\ p \in Int /\ 1 <= p /\ p <= Len(s)
  BY LenProperties
<1>2. \A i \in 1..Len(s) : s[i] \in S
  BY ElementOfSeq
<1>3. /\ a \in Seq(S) /\ Len(a) = p - 1
      /\ \A i \in 1..(p - 1) : a[i] = s[i]
  <2>1. \A i \in 1..(p - 1) : s[i] \in S
    BY <1>1, <1>2
  <2>2. /\ a \in Seq(S) /\ Len(a) = IF 1 <= p - 1 THEN p - 1 - 1 + 1 ELSE 0
        /\ \A i \in 1..(p - 1 - 1 + 1) : a[i] = s[1 + i - 1]
    BY <1>1, <2>1, SubSeqProperties
  <2> HIDE DEF a
  <2>3. \A i \in 1..(p - 1) : i \in 1..(p - 1 - 1 + 1) /\ 1 + i - 1 = i
    BY <1>1
  <2> QED BY <1>1, <2>2, <2>3
<1>4. /\ b \in Seq(S) /\ Len(b) = Len(s) - p
      /\ \A i \in 1..(Len(s) - p) : b[i] = s[p + i]
  <2>1. \A i \in (p + 1)..Len(s) : s[i] \in S
    BY <1>1, <1>2
  <2>2. /\ b \in Seq(S)
        /\ Len(b) = IF p + 1 <= Len(s) THEN Len(s) - (p + 1) + 1 ELSE 0
        /\ \A i \in 1..(Len(s) - (p + 1) + 1) : b[i] = s[p + 1 + i - 1]
    BY <1>1, <2>1, SubSeqProperties
  <2> HIDE DEF b
  <2>3. \A i \in 1..(Len(s) - p) :
          i \in 1..(Len(s) - (p + 1) + 1) /\ p + 1 + i - 1 = p + i
    BY <1>1
  <2> QED BY <1>1, <2>2, <2>3
<1>5. RemoveAt(s, p) = a \o b
  BY DEF RemoveAt
<1> HIDE DEF a, b
<1>6. /\ a \o b \in Seq(S) /\ Len(a \o b) = Len(a) + Len(b)
      /\ \A i \in 1..Len(a) + Len(b) :
           (a \o b)[i] = IF i <= Len(a) THEN a[i] ELSE b[i - Len(a)]
  BY <1>3, <1>4, ConcatProperties
<1>7. ASSUME NEW i \in 1..(Len(s) - 1)
      PROVE  (a \o b)[i] = IF i < p THEN s[i] ELSE s[i + 1]
  <2>1. CASE i < p
    <3>1. i \in 1..(p - 1) /\ i <= Len(a) /\ i \in 1..Len(a) + Len(b)
      BY <1>1, <1>3, <1>4, <2>1
    <3> QED BY <1>3, <1>6, <2>1, <3>1
  <2>2. CASE ~(i < p)
    <3>1. /\ i - Len(a) \in 1..(Len(s) - p) /\ ~(i <= Len(a))
          /\ i \in 1..Len(a) + Len(b) /\ p + (i - Len(a)) = i + 1
      BY <1>1, <1>3, <1>4, <2>2
    <3> QED BY <1>4, <1>6, <2>2, <3>1
  <2> QED BY <2>1, <2>2
<1>8. Len(a) + Len(b) = Len(s) - 1
  BY <1>1, <1>3, <1>4
<1> QED BY <1>5, <1>6, <1>7, <1>8

(* A node less: its key is gone and every other key is still there, once. *)
LEMMA RemoveNode ==
  ASSUME NEW l \in Seq(Node), Distinct(l), NEW p \in 1..Len(l)
  PROVE  /\ RemoveAt(l, p) \in Seq(Node)
         /\ Len(RemoveAt(l, p)) = Len(l) - 1
         /\ Distinct(RemoveAt(l, p))
         /\ KeysOf(RemoveAt(l, p)) = KeysOf(l) \ {l[p].key}
<1> DEFINE r == RemoveAt(l, p)
<1>1. Len(l) \in Nat /\ p \in Int /\ 1 <= p /\ p <= Len(l)
  BY LenProperties
<1>2. /\ r \in Seq(Node) /\ Len(r) = Len(l) - 1
      /\ \A i \in 1..(Len(l) - 1) : r[i] = IF i < p THEN l[i] ELSE l[i + 1]
  BY RemoveAtProperties
<1> HIDE DEF r
<1>3. Distinct(r)
  <2> SUFFICES ASSUME NEW i \in 1..(Len(l) - 1), NEW j \in 1..(Len(l) - 1),
                      r[i].key = r[j].key
               PROVE  i = j
    BY <1>2 DEF Distinct
  <2> DEFINE at(k) == IF k < p THEN k ELSE k + 1
  <2>1. /\ at(i) \in 1..Len(l) /\ r[i] = l[at(i)]
        /\ at(j) \in 1..Len(l) /\ r[j] = l[at(j)]
    BY <1>1, <1>2
  <2> HIDE DEF at
  <2>2. at(i) = at(j)
    BY <2>1 DEF Distinct
  <2> QED BY <1>1, <2>2 DEF at
<1>4. KeysOf(r) \subseteq KeysOf(l) \ {l[p].key}
  <2> SUFFICES ASSUME NEW i \in 1..(Len(l) - 1)
               PROVE  r[i].key \in KeysOf(l) \ {l[p].key}
    BY <1>2 DEF KeysOf
  <2> DEFINE j == IF i < p THEN i ELSE i + 1
  <2>1. j \in 1..Len(l) /\ j # p /\ r[i] = l[j]
    BY <1>1, <1>2
  <2> QED BY <2>1 DEF KeysOf, Distinct
<1>5. KeysOf(l) \ {l[p].key} \subseteq KeysOf(r)
  <2> SUFFICES ASSUME NEW j \in 1..Len(l), l[j].key # l[p].key
               PROVE  l[j].key \in KeysOf(r)
    BY DEF KeysOf
  <2> DEFINE i == IF j < p THEN j ELSE j - 1
  <2>1. i \in 1..(Len(l) - 1) /\ r[i] = l[j]
    BY <1>1, <1>2
  <2> QED BY <1>2, <2>1 DEF KeysOf
<1> QED BY <1>2, <1>3, <1>4, <1>5 DEF r

(* A node more, in front, with a key the list does not have. *)
LEMMA AddNode ==
  ASSUME NEW l \in Seq(Node), Distinct(l), NEW n \in Node, n.key \notin KeysOf(l)
  PROVE  /\ <<n>> \o l \in Seq(Node)
         /\ Len(<<n>> \o l) = Len(l) + 1
         /\ Distinct(<<n>> \o l)
         /\ KeysOf(<<n>> \o l) = KeysOf(l) \cup {n.key}
<1> DEFINE one == <<n>>
           r == one \o l
<1>1. Len(l) \in Nat
  BY LenProperties
<1>2. one \in Seq(Node) /\ Len(one) = 1 /\ one[1] = n
  OBVIOUS
<1> HIDE DEF one
<1>3. /\ r \in Seq(Node) /\ Len(r) = Len(one) + Len(l)
      /\ \A i \in 1..Len(one) + Len(l) :
           r[i] = IF i <= Len(one) THEN one[i] ELSE l[i - Len(one)]
  BY <1>2, ConcatProperties
<1> HIDE DEF r
<1>4. Len(r) = Len(l) + 1 /\ r[1] = n /\ \A i \in 1..Len(l) : r[i + 1] = l[i]
  BY <1>1, <1>2, <1>3
<1>5. \A i \in 1..Len(r) : i = 1 \/ (i - 1 \in 1..Len(l) /\ r[i] = l[i - 1])
  BY <1>1, <1>2, <1>3
<1>6. Distinct(r)
  <2> SUFFICES ASSUME NEW i \in 1..Len(r), NEW j \in 1..Len(r),
                      r[i].key = r[j].key, i # j
               PROVE  FALSE
    BY DEF Distinct
  <2>1. CASE i = 1
    <3>1. j - 1 \in 1..Len(l) /\ l[j - 1].key = n.key
      BY <1>4, <1>5, <2>1
    <3> QED BY <3>1 DEF KeysOf
  <2>2. CASE j = 1
    <3>1. i - 1 \in 1..Len(l) /\ l[i - 1].key = n.key
      BY <1>4, <1>5, <2>2
    <3> QED BY <3>1 DEF KeysOf
  <2>3. CASE i # 1 /\ j # 1
    <3>1. /\ i - 1 \in 1..Len(l) /\ j - 1 \in 1..Len(l)
          /\ l[i - 1].key = l[j - 1].key
      BY <1>5, <2>3
    <3>2. i - 1 = j - 1
      BY <3>1 DEF Distinct
    <3> QED BY <1>3, <3>2
  <2> QED BY <2>1, <2>2, <2>3
<1>7. KeysOf(r) \subseteq KeysOf(l) \cup {n.key}
  BY <1>4, <1>5 DEF KeysOf
<1>8. KeysOf(l) \cup {n.key} \subseteq KeysOf(r)
  <2>1. n.key \in KeysOf(r)
    BY <1>1, <1>4 DEF KeysOf
  <2>2. ASSUME NEW i \in 1..Len(l) PROVE l[i].key \in KeysOf(r)
    <3>1. i + 1 \in 1..Len(r) /\ r[i + 1] = l[i]
      BY <1>1, <1>4
    <3> QED BY <3>1 DEF KeysOf
  <2> QED BY <2>1, <2>2 DEF KeysOf
<1> QED BY <1>3, <1>4, <1>6, <1>7, <1>8 DEF one, r

-----------------------------------------------------------------------------
(* The node of a key the map knows is where Pos looks for it. *)
LEMMA PosOfKey ==
  ASSUME LRUInv, NEW k \in map
  PROVE  Pos(k) \in 1..Len(list) /\ list[Pos(k)].key = k
<1>1. \E i \in 1..Len(list) : list[i].key = k
  BY DEF LRUInv, MapMatchesList, ListKeys
<1> QED BY <1>1 DEF Pos

(* What the invariant says in terms of the two operators of the lemmas. *)
LEMMA InvAsKeys ==
  LRUInv <=> /\ list \in Seq(Node) /\ map \subseteq Keys
             /\ map = KeysOf(list) /\ Distinct(list) /\ Len(list) <= Capacity
BY DEF LRUInv, LRUTypeOK, MapMatchesList, ListKeys, KeysOf, Distinct

(* Splicing a known node to the front changes no key. *)
LEMMA ToFrontKeeps ==
  ASSUME LRUInv, NEW k \in map, NEW v \in Values
  PROVE  /\ ToFront(k, v) \in Seq(Node) /\ Distinct(ToFront(k, v))
         /\ Len(ToFront(k, v)) = Len(list) /\ KeysOf(ToFront(k, v)) = map
<1>1. /\ list \in Seq(Node) /\ map \subseteq Keys
      /\ map = KeysOf(list) /\ Distinct(list) /\ Len(list) \in Nat
  BY InvAsKeys, LenProperties
<1>2. Pos(k) \in 1..Len(list) /\ list[Pos(k)].key = k
  BY PosOfKey
<1> DEFINE r == RemoveAt(list, Pos(k))
           n == [key |-> k, value |-> v]
<1>3. /\ r \in Seq(Node) /\ Len(r) = Len(list) - 1
      /\ Distinct(r) /\ KeysOf(r) = map \ {k}
  BY <1>1, <1>2, RemoveNode
<1>4. n \in Node /\ n.key = k
  BY <1>1 DEF Node
<1>5. ToFront(k, v) = <<n>> \o r
  BY DEF ToFront
<1> HIDE DEF r, n
<1>6. /\ <<n>> \o r \in Seq(Node) /\ Len(<<n>> \o r) = Len(r) + 1
      /\ Distinct(<<n>> \o r) /\ KeysOf(<<n>> \o r) = KeysOf(r) \cup {n.key}
  BY <1>3, <1>4, AddNode
<1>7. KeysOf(r) \cup {n.key} = map /\ Len(r) + 1 = Len(list)
  BY <1>1, <1>3, <1>4
<1> QED BY <1>5, <1>6, <1>7

(* Every step keeps the map and the list in agreement. *)
LEMMA LRUStep == LRUInv /\ [LRUNext]_lruVars => LRUInv'
<1> SUFFICES ASSUME LRUInv, [LRUNext]_lruVars PROVE LRUInv'
  OBVIOUS
<1>1. /\ list \in Seq(Node) /\ map \subseteq Keys /\ Len(list) \in Nat
      /\ map = KeysOf(list) /\ Distinct(list) /\ Len(list) <= Capacity
      /\ Capacity \in Nat \ {0}
  BY InvAsKeys, LenProperties, LRUAssumption
<1>2. SUFFICES /\ list' \in Seq(Node) /\ map' \subseteq Keys
               /\ map' = KeysOf(list') /\ Distinct(list') /\ Len(list') <= Capacity
  BY DEF LRUInv, LRUTypeOK, MapMatchesList, ListKeys, KeysOf, Distinct
<1>3. ASSUME NEW k \in Keys, Get(k) PROVE <1>2!1
  <2>1. CASE Find(k)
    <3>1. k \in map /\ Pos(k) \in 1..Len(list)
      BY <2>1, PosOfKey DEF Find
    <3>2. ValueOf(k) \in Values
      <4>1. list[Pos(k)] \in Node
        BY <1>1, <3>1, ElementOfSeq
      <4> QED BY <4>1 DEF ValueOf, Node
    <3>3. list' = ToFront(k, ValueOf(k)) /\ map' = map
      BY <1>3, <2>1 DEF Get
    <3> QED BY <1>1, <3>1, <3>2, <3>3, ToFrontKeeps
  <2>2. CASE ~Find(k)
    BY <1>1, <1>3, <2>2 DEF Get, lruVars
  <2> QED BY <2>1, <2>2
<1>4. ASSUME NEW k \in Keys, NEW v \in Values, Put(k, v) PROVE <1>2!1
  <2> DEFINE n == [key |-> k, value |-> v]
  <2>1. n \in Node /\ n.key = k
    BY DEF Node
  <2>2. CASE Find(k) /\ list' = ToFront(k, v) /\ map' = map
    BY <1>1, <2>2, ToFrontKeeps DEF Find
  <2>3. CASE /\ ~Find(k) /\ Len(list) >= Capacity
             /\ list' = <<n>> \o Front(list)
             /\ map' = (map \ {Last(list).key}) \cup {k}
    <3>1. /\ Front(list) = RemoveAt(list, Len(list)) /\ Last(list) = list[Len(list)]
          /\ Len(list) \in 1..Len(list)
      <4>1. Len(list) \in 1..Len(list)
        BY <1>1, <2>3
      <4>2. SubSeq(list, Len(list) + 1, Len(list)) = <<>>
        BY <1>1, SubSeqEmpty
      <4>3. SubSeq(list, 1, Len(list) - 1) \in Seq(Node)
        <5>1. \A i \in 1..(Len(list) - 1) : list[i] \in Node
          BY <1>1, ElementOfSeq
        <5> QED BY <1>1, <5>1, SubSeqProperties
      <4> QED BY <4>1, <4>2, <4>3, ConcatEmptySeq DEF Front, Last, RemoveAt
    <3> DEFINE f == Front(list)
    <3>2. /\ f \in Seq(Node) /\ Len(f) = Len(list) - 1
          /\ Distinct(f) /\ KeysOf(f) = map \ {Last(list).key}
      BY <1>1, <3>1, RemoveNode
    <3> HIDE DEF n, f
    <3>3. n.key \notin KeysOf(f)
      BY <2>1, <2>3, <3>2 DEF Find
    <3>4. /\ <<n>> \o f \in Seq(Node) /\ Len(<<n>> \o f) = Len(f) + 1
          /\ Distinct(<<n>> \o f) /\ KeysOf(<<n>> \o f) = KeysOf(f) \cup {n.key}
      BY <2>1, <3>2, <3>3, AddNode
    <3> QED BY <1>1, <2>1, <2>3, <3>2, <3>4 DEF f
  <2>4. CASE /\ ~Find(k) /\ Len(list) < Capacity
             /\ list' = <<n>> \o list
             /\ map' = map \cup {k}
    <3> HIDE DEF n
    <3>1. n.key \notin KeysOf(list)
      BY <1>1, <2>1, <2>4 DEF Find
    <3>2. /\ <<n>> \o list \in Seq(Node) /\ Len(<<n>> \o list) = Len(list) + 1
          /\ Distinct(<<n>> \o list)
          /\ KeysOf(<<n>> \o list) = KeysOf(list) \cup {n.key}
      BY <1>1, <2>1, <3>1, AddNode
    <3> QED BY <1>1, <2>1, <2>4, <3>2
  <2> QED BY <1>4, <2>2, <2>3, <2>4 DEF Put
<1>5. ASSUME NEW k \in Keys, RemoveKey(k) PROVE <1>2!1
  <2>1. CASE Find(k)
    <3>1. k \in map /\ Pos(k) \in 1..Len(list) /\ list[Pos(k)].key = k
      BY <2>1, PosOfKey DEF Find
    <3>2. list' = RemoveAt(list, Pos(k)) /\ map' = map \ {k}
      BY <1>5, <2>1 DEF RemoveKey
    <3>3. /\ list' \in Seq(Node) /\ Len(list') = Len(list) - 1
          /\ Distinct(list') /\ KeysOf(list') = map \ {k}
      BY <1>1, <3>1, <3>2, RemoveNode
    <3> QED BY <1>1, <3>2, <3>3
  <2>2. CASE ~Find(k)
    BY <1>1, <1>5, <2>2 DEF RemoveKey, lruVars
  <2> QED BY <2>1, <2>2
<1>6. CASE Clear
  BY <1>1, <1>6, EmptySeq DEF Clear, KeysOf, Distinct
<1>7. CASE UNCHANGED lruVars
  BY <1>1, <1>7 DEF lruVars
<1> QED BY <1>3, <1>4, <1>5, <1>6, <1>7 DEF LRUNext

(* For any keys, values and capacity, in every reachable state the map of   *)
(* Cache.hpp knows exactly the keys of the list, each once, so that no      *)
(* iterator it holds dangles, and the list stays within the capacity.       *)
THEOREM LRUSafety == LRUSpec => [](LRUTypeOK /\ MapMatchesList)
<1>1. LRUInit => LRUInv
  BY LRUAssumption, EmptySeq
     DEF LRUInit, LRUInv, LRUTypeOK, MapMatchesList, ListKeys
<1>2. LRUInv /\ [LRUNext]_lruVars => LRUInv'
  BY LRUStep
<1>3. LRUInv => LRUTypeOK /\ MapMatchesList
  BY DEF LRUInv
<1> QED BY <1>1, <1>2, <1>3, PTL DEF LRUSpec

(* A key that a step drops was erased, cleared or least recently used. *)
Drops(k) ==
  map' = {} \/ map' = map \ {k}
    \/ (Len(list) = Capacity /\ k = Last(list).key /\ Len(list') = Capacity)

LEMMA LRUDrops ==
  ASSUME LRUInv, LRUInv', LRUNext, NEW k \in map \ map'
  PROVE  Drops(k)
<1>1. ASSUME NEW j \in Keys, Get(j) PROVE map' = map
  BY <1>1 DEF Get, lruVars
<1>2. ASSUME NEW j \in Keys, RemoveKey(j) PROVE Drops(k)
  BY <1>2 DEF RemoveKey, lruVars, Drops
<1>3. ASSUME NEW j \in Keys, NEW v \in Values, Put(j, v) PROVE Drops(k)
  <2>1. /\ list \in Seq(Node) /\ Len(list) \in Nat /\ Len(list) <= Capacity
        /\ map \subseteq Keys /\ map = KeysOf(list) /\ Distinct(list)
        /\ Capacity \in Nat \ {0}
    BY InvAsKeys, LenProperties, LRUAssumption
  <2> DEFINE n == [key |-> j, value |-> v]
  <2>2. /\ Len(list) >= Capacity /\ list' = <<n>> \o Front(list)
        /\ map' = (map \ {Last(list).key}) \cup {j}
    BY <1>3 DEF Put
  <2>3. k = Last(list).key /\ Len(list) = Capacity
    BY <2>1, <2>2
  <2>4. Front(list) \in Seq(Node) /\ Len(Front(list)) = Len(list) - 1
    <3>1. \A i \in 1..(Len(list) - 1) : list[i] \in Node
      BY <2>1, ElementOfSeq
    <3>2. /\ SubSeq(list, 1, Len(list) - 1) \in Seq(Node)
          /\ Len(SubSeq(list, 1, Len(list) - 1))
               = IF 1 <= Len(list) - 1 THEN Len(list) - 1 - 1 + 1 ELSE 0
      BY <2>1, <3>1, SubSeqProperties
    <3> QED BY <2>1, <2>3, <3>2 DEF Front
  <2> DEFINE f == Front(list)
             one == <<n>>
  <2>5. one \in Seq(Node) /\ Len(one) = 1
    BY <1>3 DEF Node
  <2> HIDE DEF one
  <2>6. Len(one \o f) = Len(one) + Len(f)
    BY <2>4, <2>5, ConcatProperties
  <2>7. Len(list') = Capacity
    BY <2>1, <2>2, <2>3, <2>4, <2>5, <2>6 DEF one
  <2> QED BY <2>3, <2>7 DEF Drops
<1>4. CASE Clear
  BY <1>4 DEF Clear, Drops
<1> QED BY <1>1, <1>2, <1>3, <1>4 DEF LRUNext, Drops

(* For any keys, values and capacity, a step of Cache.hpp drops a key only  *)
(* when it clears the cache, erases that key or puts a new key into a full  *)
(* cache, and then the least recently used key alone.                       *)
THEOREM LRUEvictions == LRUSpec => EvictsAtMostOne
<1>1. LRUInv /\ LRUInv' /\ [LRUNext]_lruVars
        => [\A k \in map \ map' : Drops(k)]_lruVars
  BY LRUDrops
<1>2. LRUSpec => []LRUInv
  BY LRUSafety, PTL DEF LRUInv
<1> QED BY <1>1, <1>2, PTL DEF LRUSpec, EvictsAtMostOne, Drops

-----------------------------------------------------------------------------
(* The refinement: what a list of nodes stands for in RecencyCache.         *)
ValuesIn(l) == [k \in KeysOf(l) |-> l[CHOOSE i \in 1..Len(l) : l[i].key = k].value]
AgesIn(l) == {<<l[p[2]].key, l[p[1]].key>> :
                p \in {q \in (1..Len(l)) \X (1..Len(l)) : q[1] < q[2]}}

LEMMA ContentsOfList ==
  /\ CacheStore = ValuesIn(list) /\ CacheStore' = ValuesIn(list')
  /\ CacheOlder = AgesIn(list) /\ CacheOlder' = AgesIn(list')
BY DEF CacheStore, CacheOlder, ValuesIn, AgesIn, ListKeys, KeysOf, ValueOf, Pos

(* Each key has one node, so its value is that of any node with the key,    *)
(* and one key is older than another if its node comes later.               *)
LEMMA ValueAt ==
  ASSUME NEW l \in Seq(Node), Distinct(l), NEW i \in 1..Len(l)
  PROVE  l[i].key \in KeysOf(l) /\ ValuesIn(l)[l[i].key] = l[i].value
<1>1. l[i].key \in KeysOf(l)
  BY DEF KeysOf
<1> DEFINE j == CHOOSE j \in 1..Len(l) : l[j].key = l[i].key
<1>2. j \in 1..Len(l) /\ l[j].key = l[i].key
  OBVIOUS
<1>3. j = i
  BY <1>2 DEF Distinct
<1> QED BY <1>1, <1>3 DEF ValuesIn

LEMMA AgeOf ==
  ASSUME NEW l, NEW p
  PROVE  p \in AgesIn(l)
           <=> \E i, j \in 1..Len(l) : i < j /\ p = <<l[j].key, l[i].key>>
<1>1. ASSUME NEW i \in 1..Len(l), NEW j \in 1..Len(l), i < j, p = <<l[j].key, l[i].key>>
      PROVE  p \in AgesIn(l)
  <2> DEFINE q == <<i, j>>
  <2>1. q \in (1..Len(l)) \X (1..Len(l)) /\ q[1] = i /\ q[2] = j
    OBVIOUS
  <2> HIDE DEF q
  <2> QED BY <1>1, <2>1 DEF AgesIn
<1>2. ASSUME p \in AgesIn(l)
      PROVE  \E i, j \in 1..Len(l) : i < j /\ p = <<l[j].key, l[i].key>>
  BY <1>2 DEF AgesIn
<1> QED BY <1>1, <1>2

(* Without one of its nodes a list stands for the same without its key. *)
LEMMA RemoveContents ==
  ASSUME NEW l \in Seq(Node), Distinct(l), NEW p \in 1..Len(l)
  PROVE  /\ \A k \in KeysOf(l) \ {l[p].key} : ValuesIn(RemoveAt(l, p))[k] = ValuesIn(l)[k]
         /\ \A q : q \in AgesIn(RemoveAt(l, p))
                    <=> q \in AgesIn(l) /\ q[1] # l[p].key /\ q[2] # l[p].key
<1> DEFINE r == RemoveAt(l, p)
           from(i) == IF i < p THEN i ELSE i + 1
           to(i) == IF i < p THEN i ELSE i - 1
<1>1. Len(l) \in Nat /\ p \in Int /\ 1 <= p /\ p <= Len(l)
  BY LenProperties
<1>2. /\ r \in Seq(Node) /\ Len(r) = Len(l) - 1
      /\ \A i \in 1..Len(r) : r[i] = l[from(i)]
  BY RemoveAtProperties
<1>3. Distinct(r) /\ KeysOf(r) = KeysOf(l) \ {l[p].key}
  BY RemoveNode
<1> HIDE DEF r
<1>4. \A i \in 1..Len(r) : from(i) \in 1..Len(l) /\ from(i) # p
  BY <1>1, <1>2
<1>5. \A i \in 1..Len(l) : i # p => to(i) \in 1..Len(r) /\ from(to(i)) = i
  BY <1>1, <1>2
<1>6. /\ \A i, j \in 1..Len(r) : i < j => from(i) < from(j)
      /\ \A i, j \in 1..Len(l) : i < j /\ i # p /\ j # p => to(i) < to(j)
  BY <1>1, <1>2
<1> HIDE DEF from, to
<1>7. ASSUME NEW k \in KeysOf(r) PROVE ValuesIn(r)[k] = ValuesIn(l)[k]
  <2>1. PICK i \in 1..Len(r) : r[i].key = k
    BY DEF KeysOf
  <2>2. ValuesIn(r)[k] = r[i].value
    BY <1>2, <1>3, <2>1, ValueAt
  <2>3. ValuesIn(l)[k] = r[i].value
    BY <1>2, <1>4, <2>1, ValueAt
  <2> QED BY <2>2, <2>3
<1>9. ASSUME NEW q \in AgesIn(r)
      PROVE  q \in AgesIn(l) /\ q[1] # l[p].key /\ q[2] # l[p].key
  <2>1. PICK i, j \in 1..Len(r) : i < j /\ q = <<r[j].key, r[i].key>>
    BY AgeOf
  <2>2. /\ from(i) \in 1..Len(l) /\ from(j) \in 1..Len(l) /\ from(i) < from(j)
        /\ q = <<l[from(j)].key, l[from(i)].key>>
    BY <1>2, <1>4, <1>6, <2>1
  <2>3. q[1] # l[p].key /\ q[2] # l[p].key
    BY <1>4, <2>2 DEF Distinct
  <2> QED BY <2>2, <2>3, AgeOf
<1>10. ASSUME NEW q \in AgesIn(l), q[1] # l[p].key, q[2] # l[p].key
       PROVE  q \in AgesIn(r)
  <2>1. PICK i, j \in 1..Len(l) : i < j /\ q = <<l[j].key, l[i].key>>
    BY AgeOf
  <2>2. i # p /\ j # p
    BY <1>10, <2>1
  <2>3. /\ to(i) \in 1..Len(r) /\ to(j) \in 1..Len(r) /\ to(i) < to(j)
        /\ q = <<r[to(j)].key, r[to(i)].key>>
    BY <1>2, <1>5, <1>6, <2>1, <2>2
  <2> QED BY <2>3, AgeOf
<1> QED BY <1>3, <1>7, <1>9, <1>10 DEF r

(* With a node in front it stands for the same and its key, the youngest. *)
LEMMA AddContents ==
  ASSUME NEW l \in Seq(Node), Distinct(l), NEW n \in Node, n.key \notin KeysOf(l)
  PROVE  /\ ValuesIn(<<n>> \o l)[n.key] = n.value
         /\ \A k \in KeysOf(l) : ValuesIn(<<n>> \o l)[k] = ValuesIn(l)[k]
         /\ \A q : q \in AgesIn(<<n>> \o l)
                    <=> q \in AgesIn(l) \/ \E k \in KeysOf(l) : q = <<k, n.key>>
<1> DEFINE one == <<n>>
           r == one \o l
<1>1. Len(l) \in Nat
  BY LenProperties
<1>2. one \in Seq(Node) /\ Len(one) = 1 /\ one[1] = n
  OBVIOUS
<1>3. r \in Seq(Node) /\ Distinct(r) /\ KeysOf(r) = KeysOf(l) \cup {n.key}
  BY AddNode
<1> HIDE DEF one
<1>4. /\ Len(r) = Len(one) + Len(l)
      /\ \A i \in 1..Len(one) + Len(l) :
           r[i] = IF i <= Len(one) THEN one[i] ELSE l[i - Len(one)]
  BY <1>2, ConcatProperties
<1> HIDE DEF r
<1>5. Len(r) = Len(l) + 1 /\ r[1] = n /\ \A i \in 1..Len(l) : r[i + 1] = l[i]
  BY <1>1, <1>2, <1>4
<1>6. \A i \in 1..Len(r) : i = 1 \/ (i - 1 \in 1..Len(l) /\ r[i] = l[i - 1])
  BY <1>1, <1>2, <1>4
<1>7. /\ 1 \in 1..Len(r) /\ \A i \in 1..Len(l) : i + 1 \in 1..Len(r) /\ 1 < i + 1
      /\ \A i, j \in 1..Len(l) : i < j => i + 1 < j + 1
      /\ \A i, j \in 1..Len(r) : i < j => j # 1 /\ (i # 1 => i - 1 < j - 1)
  BY <1>1, <1>5
<1>8. ASSUME NEW k \in KeysOf(r)
      PROVE  ValuesIn(r)[k] = IF k = n.key THEN n.value ELSE ValuesIn(l)[k]
  <2>1. CASE k = n.key
    <3>1. ValuesIn(r)[r[1].key] = r[1].value
      BY <1>3, <1>7, ValueAt
    <3> QED BY <1>5, <2>1, <3>1
  <2>2. CASE k # n.key
    <3>1. PICK i \in 1..Len(l) : l[i].key = k
      BY <1>3, <2>2 DEF KeysOf
    <3>2. ValuesIn(l)[k] = l[i].value
      BY <3>1, ValueAt
    <3>3. i + 1 \in 1..Len(r) /\ r[i + 1] = l[i]
      BY <1>5, <1>7
    <3>4. ValuesIn(r)[r[i + 1].key] = r[i + 1].value
      BY <1>3, <3>3, ValueAt
    <3> QED BY <2>2, <3>1, <3>2, <3>3, <3>4
  <2> QED BY <2>1, <2>2
<1>10. ASSUME NEW q \in AgesIn(r)
       PROVE  q \in AgesIn(l) \/ \E k \in KeysOf(l) : q = <<k, n.key>>
  <2>1. PICK i, j \in 1..Len(r) : i < j /\ q = <<r[j].key, r[i].key>>
    BY AgeOf
  <2>2. j - 1 \in 1..Len(l) /\ r[j] = l[j - 1]
    BY <1>6, <1>7, <2>1
  <2>3. CASE i = 1
    <3>1. q = <<l[j - 1].key, n.key>> /\ l[j - 1].key \in KeysOf(l)
      BY <1>5, <2>1, <2>2, <2>3 DEF KeysOf
    <3> QED BY <3>1
  <2>4. CASE i # 1
    <3>1. /\ i - 1 \in 1..Len(l) /\ r[i] = l[i - 1] /\ i - 1 < j - 1
      BY <1>6, <1>7, <2>1, <2>4
    <3> QED BY <2>1, <2>2, <3>1, AgeOf
  <2> QED BY <2>3, <2>4
<1>11. ASSUME NEW q \in AgesIn(l) PROVE q \in AgesIn(r)
  <2>1. PICK i, j \in 1..Len(l) : i < j /\ q = <<l[j].key, l[i].key>>
    BY AgeOf
  <2>2. /\ i + 1 \in 1..Len(r) /\ j + 1 \in 1..Len(r) /\ i + 1 < j + 1
        /\ q = <<r[j + 1].key, r[i + 1].key>>
    BY <1>5, <1>7, <2>1
  <2> QED BY <2>2, AgeOf
<1>12. ASSUME NEW k \in KeysOf(l) PROVE <<k, n.key>> \in AgesIn(r)
  <2>1. PICK i \in 1..Len(l) : l[i].key = k
    BY DEF KeysOf
  <2>2. 1 \in 1..Len(r) /\ i + 1 \in 1..Len(r) /\ 1 < i + 1
        /\ <<k, n.key>> = <<r[i + 1].key, r[1].key>>
    BY <1>5, <1>7, <2>1
  <2> QED BY <2>2, AgeOf
<1> QED BY <1>3, <1>8, <1>10, <1>11, <1>12 DEF one, r

LEMMA ValuesAreAFunction == ASSUME NEW l PROVE ValuesIn(l) = [k \in KeysOf(l) |-> ValuesIn(l)[k]]
BY DEF ValuesIn

(* As many keys are cached as the list has nodes. *)
LEMMA OneNodeEach ==
  ASSUME NEW l \in Seq(Node), Distinct(l)
  PROVE  Cardinality(KeysOf(l)) = Len(l)
<1> DEFINE f == [i \in 1..Len(l) |-> l[i].key]
<1>1. Len(l) \in Nat
  BY LenProperties
<1>2. f \in Bijection(1..Len(l), KeysOf(l))
  <2>1. \A i \in 1..Len(l) : f[i] \in KeysOf(l)
    BY DEF KeysOf
  <2>2. \A k \in KeysOf(l) : \E i \in 1..Len(l) : f[i] = k
    BY DEF KeysOf
  <2>3. \A i, j \in 1..Len(l) : f[i] = f[j] => i = j
    BY DEF Distinct
  <2> QED BY <2>1, <2>2, <2>3 DEF Bijection, Injection, Surjection, IsInjective
<1> QED BY <1>1, <1>2, FS_CountingElements DEF ExistsBijection

(* The last node carries the oldest key, and no other key is the oldest. *)
LEMMA OldestIsLast ==
  ASSUME NEW l \in Seq(Node), Distinct(l), Len(l) # 0,
         NEW k \in KeysOf(l), \A j \in KeysOf(l) \ {k} : <<k, j>> \in AgesIn(l)
  PROVE  k = l[Len(l)].key
<1>1. Len(l) \in Nat /\ Len(l) \in 1..Len(l)
  BY LenProperties
<1> SUFFICES ASSUME k # l[Len(l)].key PROVE FALSE
  OBVIOUS
<1>2. <<k, l[Len(l)].key>> \in AgesIn(l)
  BY <1>1 DEF KeysOf
<1>3. PICK i, j \in 1..Len(l) : i < j /\ <<k, l[Len(l)].key>> = <<l[j].key, l[i].key>>
  BY <1>2, AgeOf
<1>4. i = Len(l)
  BY <1>1, <1>3 DEF Distinct
<1> QED BY <1>1, <1>3, <1>4

LEMMA LastIsOldest ==
  ASSUME NEW l \in Seq(Node), Distinct(l), Len(l) # 0
  PROVE  /\ l[Len(l)].key \in KeysOf(l)
         /\ \A j \in KeysOf(l) \ {l[Len(l)].key} : <<l[Len(l)].key, j>> \in AgesIn(l)
<1>1. Len(l) \in Nat /\ Len(l) \in 1..Len(l)
  BY LenProperties
<1>2. ASSUME NEW i \in 1..Len(l), i # Len(l)
      PROVE  <<l[Len(l)].key, l[i].key>> \in AgesIn(l)
  BY <1>1, <1>2, AgeOf
<1> QED BY <1>1, <1>2 DEF KeysOf

(* Moving a node to the front with a value is a hit or a put of its key. *)
LEMMA ToFrontRefines ==
  ASSUME LRUInv, NEW k \in map, NEW v \in Values, list' = ToFront(k, v)
  PROVE  /\ CacheStore' = [j \in map |-> IF j = k THEN v ELSE CacheStore[j]]
         /\ CacheOlder' = Abstract!Fresh(k)
         /\ CacheStore[k] = ValueOf(k)
<1>1. /\ list \in Seq(Node) /\ map \subseteq Keys
      /\ map = KeysOf(list) /\ Distinct(list) /\ Len(list) \in Nat
  BY InvAsKeys, LenProperties
<1>2. Pos(k) \in 1..Len(list) /\ list[Pos(k)].key = k
  BY PosOfKey
<1> DEFINE r == RemoveAt(list, Pos(k))
           n == [key |-> k, value |-> v]
<1>3. r \in Seq(Node) /\ Distinct(r) /\ KeysOf(r) = map \ {k}
  BY <1>1, <1>2, RemoveNode
<1>4. n \in Node /\ n.key = k /\ n.value = v
  BY <1>1 DEF Node
<1>5. list' = <<n>> \o r
  BY DEF ToFront
<1>6. /\ \A j \in map \ {k} : ValuesIn(r)[j] = ValuesIn(list)[j]
      /\ \A q : q \in AgesIn(r) <=> q \in AgesIn(list) /\ q[1] # k /\ q[2] # k
  BY <1>1, <1>2, RemoveContents
<1> HIDE DEF r, n
<1>7. /\ ValuesIn(list')[k] = v /\ \A j \in map \ {k} : ValuesIn(list')[j] = ValuesIn(r)[j]
      /\ \A q : q \in AgesIn(list') <=> q \in AgesIn(r) \/ \E j \in map \ {k} : q = <<j, k>>
  BY <1>3, <1>4, <1>5, AddContents
<1>8. KeysOf(list') = map
  <2>1. n.key \notin KeysOf(r)
    BY <1>3, <1>4
  <2>2. KeysOf(<<n>> \o r) = KeysOf(r) \cup {n.key}
    BY <1>3, <1>4, <2>1, AddNode
  <2> QED BY <1>3, <1>4, <1>5, <2>2
<1>9. ValuesIn(list') = [j \in map |-> IF j = k THEN v ELSE ValuesIn(list)[j]]
  <2>1. ValuesIn(list') = [j \in map |-> ValuesIn(list')[j]]
    BY <1>8, ValuesAreAFunction
  <2> QED BY <1>6, <1>7, <2>1
<1>10. DOMAIN CacheStore = map
  BY <1>1, ContentsOfList DEF ValuesIn
<1>11. AgesIn(list') = Abstract!Fresh(k)
  <2>1. \A q : q \in Abstract!Fresh(k) <=> \/ q \in AgesIn(list) /\ q[1] # k /\ q[2] # k
                                         \/ \E j \in map \ {k} : q = <<j, k>>
    BY <1>10, ContentsOfList DEF Abstract!Fresh, Abstract!Cached
  <2> QED BY <1>6, <1>7, <2>1
<1>12. CacheStore[k] = ValueOf(k)
  BY <1>1, <1>2, ValueAt, ContentsOfList DEF ValueOf
<1> QED BY <1>9, <1>11, <1>12, ContentsOfList

(* What the proofs below use of the invariant. *)
LEMMA LRUFacts ==
  ASSUME LRUInv
  PROVE  /\ list \in Seq(Node) /\ map \subseteq Keys /\ Len(list) \in Nat
         /\ map = KeysOf(list) /\ Distinct(list) /\ Len(list) <= Capacity
         /\ Capacity \in Nat \ {0} /\ DOMAIN CacheStore = map
         /\ CacheStore = [j \in map |-> CacheStore[j]]
BY InvAsKeys, LenProperties, LRUAssumption, ContentsOfList DEF ValuesIn

(* A get that finds its key is a hit. *)
LEMMA GetRefines ==
  ASSUME LRUInv, NEW k \in Keys, Get(k), Find(k)
  PROVE  Abstract!Hit(k)
<1>1. k \in map /\ Pos(k) \in 1..Len(list)
  BY PosOfKey DEF Find
<1>2. ValueOf(k) \in Values
  <2>1. list[Pos(k)] \in Node
    BY LRUFacts, <1>1, ElementOfSeq
  <2> QED BY <2>1 DEF ValueOf, Node
<1>3. list' = ToFront(k, ValueOf(k))
  BY DEF Get
<1>4. /\ CacheStore' = [j \in map |-> IF j = k THEN ValueOf(k) ELSE CacheStore[j]]
      /\ CacheOlder' = Abstract!Fresh(k) /\ CacheStore[k] = ValueOf(k)
  BY <1>1, <1>2, <1>3, ToFrontRefines
<1>5. CacheStore' = CacheStore
  <2>1. \A j \in map : CacheStore'[j] = CacheStore[j]
    BY <1>4
  <2> QED BY LRUFacts, <1>4, <2>1
<1> QED BY LRUFacts, <1>1, <1>4, <1>5 DEF Abstract!Hit, Abstract!Cached

(* A put is a put: it displaces the oldest key if the cache is full. *)
LEMMA PutRefines ==
  ASSUME LRUInv, NEW k \in Keys, NEW v \in Values, Put(k, v)
  PROVE  Abstract!Put(k, v)
<1> DEFINE n == [key |-> k, value |-> v]
           out == IF k \notin Abstract!Cached
                     /\ Abstract!Cardinality(Abstract!Cached) >= Capacity
                  THEN {Abstract!Oldest} ELSE {}
<1>1. n \in Node /\ n.key = k /\ n.value = v
  BY DEF Node
<1>2. Abstract!Cached = map /\ Abstract!Cardinality(Abstract!Cached) = Len(list)
  <2>1. \A X : Abstract!Cardinality(X) = Cardinality(X)
    BY DEF Abstract!Cardinality, Cardinality
  <2> QED BY LRUFacts, <2>1, OneNodeEach DEF Abstract!Cached
<1>3. SUFFICES /\ CacheStore' = [j \in (map \ out) \cup {k} |->
                                   IF j = k THEN v ELSE CacheStore[j]]
               /\ CacheOlder' = {p \in Abstract!Fresh(k) : p[1] \notin out /\ p[2] \notin out}
  <2>1. Abstract!Put1(Abstract!Drop(CacheStore, out), k, v)
          = [j \in (map \ out) \cup {k} |-> IF j = k THEN v ELSE CacheStore[j]]
    BY LRUFacts DEF Abstract!Put1, Abstract!Drop
  <2> QED BY <1>3, <2>1 DEF Abstract!Put
<1>4. CASE Find(k) /\ list' = ToFront(k, v)
  <2>1. k \in map /\ out = {}
    BY <1>2, <1>4 DEF Find
  <2>2. /\ CacheStore' = [j \in map |-> IF j = k THEN v ELSE CacheStore[j]]
        /\ CacheOlder' = Abstract!Fresh(k)
    BY <1>4, <2>1, ToFrontRefines
  <2>3. (map \ out) \cup {k} = map
    BY <2>1
  <2> HIDE DEF out
  <2> QED BY <2>1, <2>2, <2>3
<1>5. CASE ~Find(k) /\ Len(list) >= Capacity /\ list' = <<n>> \o Front(list)
  <2> DEFINE last == list[Len(list)].key
             f == Front(list)
  <2>1. Front(list) = RemoveAt(list, Len(list)) /\ Len(list) \in 1..Len(list)
    <3>1. Len(list) \in 1..Len(list)
      BY LRUFacts, <1>5
    <3>2. SubSeq(list, Len(list) + 1, Len(list)) = <<>>
      BY LRUFacts, SubSeqEmpty
    <3>3. SubSeq(list, 1, Len(list) - 1) \in Seq(Node)
      <4>1. \A i \in 1..(Len(list) - 1) : list[i] \in Node
        BY LRUFacts, ElementOfSeq
      <4> QED BY LRUFacts, <4>1, SubSeqProperties
    <3> QED BY <3>1, <3>2, <3>3, ConcatEmptySeq DEF Front, RemoveAt
  <2>2. /\ last \in map /\ \A j \in map \ {last} : <<last, j>> \in CacheOlder
        /\ \A m \in map : (\A j \in map \ {m} : <<m, j>> \in CacheOlder) => m = last
    BY LRUFacts, <1>5, LastIsOldest, OldestIsLast, ContentsOfList
  <2>3. /\ f \in Seq(Node) /\ Distinct(f) /\ KeysOf(f) = map \ {last}
        /\ \A j \in map \ {last} : ValuesIn(f)[j] = ValuesIn(list)[j]
        /\ \A q : q \in AgesIn(f) <=> q \in AgesIn(list) /\ q[1] # last /\ q[2] # last
    BY LRUFacts, <2>1, RemoveNode, RemoveContents, ContentsOfList
  <2> HIDE DEF last
  <2>4. Abstract!Oldest = last
    BY LRUFacts, <2>2 DEF Abstract!Oldest, Abstract!Cached
  <2>5. out = {last} /\ k \notin map
    BY LRUFacts, <1>2, <1>5, <2>4 DEF Find
  <2> HIDE DEF f, n, out
  <2>6. list' = <<n>> \o f /\ n.key \notin KeysOf(f)
    BY <1>1, <1>5, <2>3, <2>5 DEF f
  <2>7. /\ KeysOf(list') = (map \ {last}) \cup {k} /\ ValuesIn(list')[k] = v
        /\ \A j \in map \ {last} : ValuesIn(list')[j] = ValuesIn(f)[j]
        /\ \A q : q \in AgesIn(list')
                   <=> q \in AgesIn(f) \/ \E j \in map \ {last} : q = <<j, k>>
    BY <1>1, <2>3, <2>6, AddContents, AddNode
  <2>8. ValuesIn(list') = [j \in (map \ {last}) \cup {k} |->
                             IF j = k THEN v ELSE ValuesIn(list)[j]]
    <3>1. ValuesIn(list') = [j \in (map \ {last}) \cup {k} |-> ValuesIn(list')[j]]
      BY <2>7, ValuesAreAFunction
    <3> QED BY <2>3, <2>7, <3>1
  <2>9. \A p \in CacheOlder : p[1] # k /\ p[2] # k
    <3> SUFFICES ASSUME NEW p \in AgesIn(list) PROVE p[1] # k /\ p[2] # k
      BY ContentsOfList
    <3>1. PICK i, j \in 1..Len(list) : i < j /\ p = <<list[j].key, list[i].key>>
      BY AgeOf
    <3>2. list[j].key \in map /\ list[i].key \in map
      BY LRUFacts DEF KeysOf
    <3> QED BY <2>5, <3>1, <3>2
  <2>10. AgesIn(list') = {p \in Abstract!Fresh(k) : p[1] \notin {last} /\ p[2] \notin {last}}
    <3>1. Abstract!Fresh(k) = CacheOlder \cup {<<j, k>> : j \in map}
      BY LRUFacts, <2>5, <2>9 DEF Abstract!Fresh, Abstract!Cached
    <3>2. k # last
      BY <2>2, <2>5
    <3> QED BY <2>3, <2>7, <3>1, <3>2, ContentsOfList
  <2> QED BY <2>5, <2>8, <2>10, ContentsOfList
<1>6. CASE ~Find(k) /\ Len(list) < Capacity /\ list' = <<n>> \o list
  <2>1. out = {} /\ k \notin map
    BY LRUFacts, <1>2, <1>6 DEF Find
  <2> HIDE DEF n, out
  <2>2. /\ KeysOf(list') = map \cup {k} /\ ValuesIn(list')[k] = v
        /\ \A j \in map : ValuesIn(list')[j] = ValuesIn(list)[j]
        /\ \A q : q \in AgesIn(list')
                   <=> q \in AgesIn(list) \/ \E j \in map : q = <<j, k>>
    BY LRUFacts, <1>1, <1>6, <2>1, AddContents, AddNode
  <2>6. ValuesIn(list') = [j \in map \cup {k} |-> IF j = k THEN v ELSE ValuesIn(list)[j]]
    <3>1. ValuesIn(list') = [j \in map \cup {k} |-> ValuesIn(list')[j]]
      BY <2>2, ValuesAreAFunction
    <3> QED BY <2>1, <2>2, <3>1
  <2>3. \A p \in CacheOlder : p[1] # k /\ p[2] # k
    <3> SUFFICES ASSUME NEW p \in AgesIn(list) PROVE p[1] # k /\ p[2] # k
      BY ContentsOfList
    <3>1. PICK i, j \in 1..Len(list) : i < j /\ p = <<list[j].key, list[i].key>>
      BY AgeOf
    <3>2. list[j].key \in map /\ list[i].key \in map
      BY LRUFacts DEF KeysOf
    <3> QED BY <2>1, <3>1, <3>2
  <2>4. Abstract!Fresh(k) = CacheOlder \cup {<<j, k>> : j \in map}
    BY LRUFacts, <2>1, <2>3 DEF Abstract!Fresh, Abstract!Cached
  <2>5. (map \ out) \cup {k} = map \cup {k}
    BY <2>1
  <2>7. AgesIn(list') = AgesIn(list) \cup {<<j, k>> : j \in map}
    BY <2>2
  <2>8. \A p \in Abstract!Fresh(k) : p[1] \notin out /\ p[2] \notin out
    BY <2>1
  <2> QED BY <2>4, <2>5, <2>6, <2>7, <2>8, ContentsOfList
<1> QED BY <1>4, <1>5, <1>6 DEF Put

(* What a get and a put leave of the values cached. *)
LEMMA CachedValue ==
  ASSUME LRUInv, NEW k \in ListKeys
  PROVE  k \in Keys /\ k \in map /\ ValueOf(k) \in Values /\ CacheStore[k] = ValueOf(k)
<1>1. k \in map /\ k \in Keys
  BY DEF LRUInv, LRUTypeOK, MapMatchesList
<1>2. Pos(k) \in 1..Len(list)
  BY <1>1, PosOfKey
<1>3. list[Pos(k)] \in Node
  BY <1>2, ElementOfSeq DEF LRUInv, LRUTypeOK
<1> QED BY <1>1, <1>3 DEF ValueOf, Node, CacheStore

LEMMA GetContents ==
  ASSUME LRUInv, NEW k \in Keys, Get(k)
  PROVE  /\ ListKeys' = ListKeys /\ map' = map
         /\ \A j \in ListKeys : ValueOf(j)' = ValueOf(j)
<1>1. CASE Find(k)
  <2>1. CacheStore' = CacheStore
    BY <1>1, GetRefines DEF Abstract!Hit
  <2>2. ListKeys' = ListKeys
    BY <2>1 DEF CacheStore
  <2>3. \A j \in ListKeys : ValueOf(j)' = CacheStore'[j] /\ ValueOf(j) = CacheStore[j]
    BY <2>2 DEF CacheStore
  <2> QED BY <1>1, <2>1, <2>2, <2>3 DEF Get
<1>2. CASE ~Find(k)
  BY <1>2 DEF Get, lruVars, ListKeys, ValueOf, Pos
<1> QED BY <1>1, <1>2

LEMMA PutContents ==
  ASSUME LRUInv, NEW k \in Keys, NEW v \in Values, Put(k, v)
  PROVE  /\ map' \subseteq map \cup {k}
         /\ \A j \in ListKeys' : \/ j = k /\ ValueOf(j)' = v
                                 \/ j # k /\ j \in ListKeys /\ ValueOf(j)' = ValueOf(j)
<1>1. PICK out : CacheStore' = Abstract!Put1(Abstract!Drop(CacheStore, out), k, v)
  BY PutRefines DEF Abstract!Put
<1>2. DOMAIN CacheStore = ListKeys /\ DOMAIN CacheStore' = ListKeys'
  BY DEF CacheStore
<1>3. \A j \in ListKeys' : ValueOf(j)' = CacheStore'[j]
  BY DEF CacheStore
<1>4. \A j \in ListKeys : ValueOf(j) = CacheStore[j]
  BY DEF CacheStore
<1>5. CacheStore' = [j \in (ListKeys \ out) \cup {k} |-> IF j = k THEN v ELSE CacheStore[j]]
  BY <1>1, <1>2 DEF Abstract!Put1, Abstract!Drop
<1>6. \A j \in ListKeys' : \/ j = k /\ ValueOf(j)' = v
                           \/ j # k /\ j \in ListKeys /\ ValueOf(j)' = ValueOf(j)
  <2>1. ListKeys' = (ListKeys \ out) \cup {k}
    BY <1>2, <1>5
  <2> QED BY <1>3, <1>4, <1>5, <2>1
<1>7. map' \subseteq map \cup {k}
  BY DEF Put
<1> QED BY <1>6, <1>7

(* Every step of the list and the map is one of RecencyCache, or none. *)
LEMMA LRURefines ==
  ASSUME LRUInv, [LRUNext]_lruVars
  PROVE  [Abstract!Next]_<<CacheStore, CacheOlder>>
<1>1. CASE UNCHANGED list
  BY <1>1, ContentsOfList
<1>2. ASSUME NEW k \in Keys, RemoveKey(k), Find(k) PROVE Abstract!Erase({k})
  <2>1. k \in map /\ Pos(k) \in 1..Len(list) /\ list[Pos(k)].key = k
    BY <1>2, PosOfKey DEF Find
  <2>2. list' = RemoveAt(list, Pos(k))
    BY <1>2 DEF RemoveKey
  <2>3. KeysOf(list') = map \ {k}
    BY LRUFacts, <2>1, <2>2, RemoveNode
  <2>4. /\ \A j \in map \ {k} : ValuesIn(list')[j] = ValuesIn(list)[j]
        /\ \A q : q \in AgesIn(list') <=> q \in AgesIn(list) /\ q[1] # k /\ q[2] # k
    BY LRUFacts, <2>1, <2>2, RemoveContents
  <2>5. /\ ValuesIn(list') = [j \in map \ {k} |-> ValuesIn(list)[j]]
        /\ AgesIn(list') = {q \in AgesIn(list) : q[1] # k /\ q[2] # k}
    <3>1. ValuesIn(list') = [j \in map \ {k} |-> ValuesIn(list')[j]]
      BY <2>3, ValuesAreAFunction
    <3> QED BY <2>4, <3>1
  <2> QED BY LRUFacts, <2>5, ContentsOfList DEF Abstract!Erase, Abstract!Drop, Abstract!Without
<1>3. CASE Clear
  <2>1. list' = <<>> /\ Len(list') = 0
    BY <1>3, EmptySeq DEF Clear
  <2>2. ValuesIn(list') = [j \in map \ map |-> CacheStore[j]]
    <3>1. KeysOf(list') = {} /\ map \ map = {}
      BY <2>1 DEF KeysOf
    <3> QED BY <3>1 DEF ValuesIn
  <2>3. AgesIn(list') = {}
    BY <2>1, AgeOf
  <2>4. \A q \in CacheOlder : q[1] \in map
    <3> SUFFICES ASSUME NEW q \in AgesIn(list) PROVE q[1] \in map
      BY ContentsOfList
    <3>1. PICK i, j \in 1..Len(list) : i < j /\ q = <<list[j].key, list[i].key>>
      BY AgeOf
    <3> QED BY LRUFacts, <3>1 DEF KeysOf
  <2>5. Abstract!Erase(map)
    BY LRUFacts, <2>2, <2>3, <2>4, ContentsOfList
       DEF Abstract!Erase, Abstract!Drop, Abstract!Without
  <2> QED BY LRUFacts, <2>5 DEF Abstract!Next, Abstract!Cached
<1>4. ASSUME NEW k \in Keys, Get(k) \/ RemoveKey(k), ~Find(k) PROVE UNCHANGED list
  BY <1>4 DEF Get, RemoveKey, lruVars
<1> QED BY <1>1, <1>2, <1>3, <1>4, GetRefines, PutRefines DEF LRUNext, lruVars, Abstract!Next

LEMMA LRUInitRefines == ASSUME LRUInit PROVE Abstract!Init
<1>1. list = <<>> /\ Len(list) = 0
  BY EmptySeq DEF LRUInit
<1>2. KeysOf(list) = {} /\ AgesIn(list) = {}
  BY <1>1, AgeOf DEF KeysOf
<1> QED BY <1>2, ContentsOfList DEF Abstract!Init, ValuesIn

(* For any keys, values and capacity, list_ and map_ of Cache.hpp implement *)
(* a cache that keeps the keys used last: get and put make a key the        *)
(* youngest, and a put into a full cache drops the oldest.                  *)
THEOREM LRUImplementsRecency == LRUSpec => ImplementsRecency
<1>1. LRUInit => Abstract!Init
  BY LRUInitRefines
<1>2. LRUInv /\ [LRUNext]_lruVars => [Abstract!Next]_<<CacheStore, CacheOlder>>
  BY LRURefines
<1>3. LRUSpec => []LRUInv
  BY LRUSafety, PTL DEF LRUInv
<1> QED BY <1>1, <1>2, <1>3, PTL DEF LRUSpec, ImplementsRecency, Abstract!Spec
=============================================================================
