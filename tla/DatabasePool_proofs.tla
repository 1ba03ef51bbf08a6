------------------------ MODULE DatabasePool_proofs ------------------------
(***************************************************************************)
(* Proofs about DatabasePool for any set of workers, any pool size and any *)
(* supply of handles.  The inductive invariant adds to the checked         *)
(* invariants which worker owns the mutex (MutexOwner), which workers have *)
(* a handle in hand (HandleInHand), and what holds before the workers run  *)
(* (Booting).                                                              *)
(***************************************************************************)
EXTENDS DatabasePool, TLAPS, FiniteSetTheorems, SequenceTheorems

MutexOwner == \A t \in Threads : mutex = t <=> pc[t] \in {"ping", "reconnect"}
HandleInHand ==
  \A t \in Threads : conn[t] # NoHandle <=> pc[t] \in {"ping", "reconnect", "using"}
Booting == ~booted => /\ ~initialized
                      /\ Len(pool) <= attempts
                      /\ \A t \in Threads : pc[t] = "idle"

PoolInv == /\ TypeOK /\ MutexOwner /\ HandleInHand /\ Booting
           /\ ExclusiveHandles /\ NoLostWakeup

-----------------------------------------------------------------------------
(* What the two ends of a queue do to the set of its elements. *)
LEMMA AppendFacts ==
  ASSUME NEW S, NEW s \in Seq(S), NEW e \in S
  PROVE  /\ Append(s, e) \in Seq(S)
         /\ Len(Append(s, e)) = Len(s) + 1
         /\ Range(Append(s, e)) = Range(s) \cup {e}
         /\ (e \notin Range(s) /\ \A i, j \in 1..Len(s) : s[i] = s[j] => i = j)
              => \A i, j \in 1..Len(Append(s, e)) :
                   Append(s, e)[i] = Append(s, e)[j] => i = j
<1> DEFINE a == Append(s, e)
<1>1. /\ a \in Seq(S) /\ Len(a) = Len(s) + 1 /\ Len(s) \in Nat
      /\ \A i \in 1..Len(s) : a[i] = s[i]
      /\ a[Len(s) + 1] = e
  BY AppendProperties, LenProperties
<1>2. /\ Range(s) = {s[i] : i \in 1..Len(s)}
      /\ Range(a) = {a[i] : i \in 1..Len(a)}
  BY <1>1, RangeEquality
<1>3. Range(a) = Range(s) \cup {e}
  <2>1. \A i \in 1..Len(a) : i \in 1..Len(s) \/ i = Len(s) + 1
    BY <1>1
  <2>2. \A i \in 1..Len(s) : i \in 1..Len(a)
    BY <1>1
  <2>3. Len(s) + 1 \in 1..Len(a)
    BY <1>1
  <2> HIDE DEF a
  <2> QED  BY <1>1, <1>2, <2>1, <2>2, <2>3
<1>4. ASSUME e \notin Range(s), \A i, j \in 1..Len(s) : s[i] = s[j] => i = j,
             NEW i \in 1..Len(a), NEW j \in 1..Len(a), a[i] = a[j]
      PROVE  i = j
  <2>1. \A k \in 1..Len(s) : s[k] # e
    BY <1>2, <1>4
  <2> HIDE DEF a
  <2> QED  BY <1>1, <1>4, <2>1
<1> QED  BY <1>1, <1>3, <1>4

LEMMA EmptyFacts ==
  ASSUME NEW S
  PROVE  <<>> \in Seq(S) /\ Len(<<>>) = 0 /\ Range(<<>>) = {}
<1>1. <<>> \in Seq(S) /\ Len(<<>>) = 0
  BY EmptySeq
<1>2. Range(<<>>) = {<<>>[i] : i \in 1..Len(<<>>)}
  BY <1>1, RangeEquality
<1>3. 1..Len(<<>>) = {}
  BY <1>1
<1> QED  BY <1>1, <1>2, <1>3

LEMMA TailFacts ==
  ASSUME NEW S, NEW s \in Seq(S), s # <<>>,
         \A i, j \in 1..Len(s) : s[i] = s[j] => i = j
  PROVE  /\ Tail(s) \in Seq(S) /\ Head(s) \in S
         /\ Len(Tail(s)) = Len(s) - 1
         /\ Head(s) \in Range(s)
         /\ Range(Tail(s)) = Range(s) \ {Head(s)}
         /\ \A i, j \in 1..Len(Tail(s)) : Tail(s)[i] = Tail(s)[j] => i = j
<1> DEFINE r == Tail(s)
<1>1. /\ r \in Seq(S) /\ Head(s) \in S /\ Len(r) = Len(s) - 1
      /\ \A i \in 1..Len(r) : r[i] = s[i + 1]
      /\ Head(s) = s[1] /\ Len(s) \in Nat \ {0}
  BY HeadTailProperties, LenProperties, EmptySeq
<1>2. /\ Range(s) = {s[i] : i \in 1..Len(s)}
      /\ Range(r) = {r[i] : i \in 1..Len(r)}
  <2>1. Range(s) = {s[i] : i \in 1..Len(s)}
    BY RangeEquality
  <2> HIDE DEF r
  <2>2. Range(r) = {r[i] : i \in 1..Len(r)}
    BY <1>1, RangeEquality
  <2> QED  BY <2>1, <2>2
<1>3. Range(r) = Range(s) \ {Head(s)}
  <2>1. \A i \in 1..Len(r) : i + 1 \in 1..Len(s) /\ i + 1 # 1
    BY <1>1
  <2>2. \A i \in 1..Len(s) : i # 1 => i - 1 \in 1..Len(r) /\ (i - 1) + 1 = i
    BY <1>1
  <2>3. 1 \in 1..Len(s)
    BY <1>1
  <2> HIDE DEF r
  <2>4. ASSUME NEW x \in Range(r) PROVE x \in Range(s) \ {Head(s)}
    <3> PICK i \in 1..Len(r) : x = r[i]
      BY <1>2
    <3> x = s[i + 1] /\ i + 1 \in 1..Len(s) /\ i + 1 # 1
      BY <1>1, <2>1
    <3> QED  BY <1>1, <1>2, <2>3
  <2>5. ASSUME NEW x \in Range(s) \ {Head(s)} PROVE x \in Range(r)
    <3> PICK i \in 1..Len(s) : x = s[i]
      BY <1>2
    <3> i # 1 /\ i - 1 \in 1..Len(r) /\ (i - 1) + 1 = i
      BY <1>1, <2>2
    <3> x = r[i - 1]
      BY <1>1
    <3> QED  BY <1>2
  <2> QED  BY <2>4, <2>5
<1>4. ASSUME NEW i \in 1..Len(r), NEW j \in 1..Len(r), r[i] = r[j]
      PROVE  i = j
  <2> HIDE DEF r
  <2>1. i + 1 \in 1..Len(s) /\ j + 1 \in 1..Len(s) /\ s[i + 1] = s[j + 1]
    BY <1>1, <1>4
  <2>2. i + 1 = j + 1
    BY <2>1
  <2> QED  BY <2>2, <1>1
<1>5. Head(s) \in Range(s)
  BY <1>1, <1>2
<1> QED  BY <1>1, <1>3, <1>4, <1>5

(* Workers that move into or out of a location change its count by one. *)
LEMMA MoveIn ==
  ASSUME PoolAssumption, TypeOK, NEW t \in Threads, NEW l \in Locations, pc[t] # l
  PROVE  /\ Cardinality(At(l)) \in Nat
         /\ Cardinality(At(l) \cup {t}) = Cardinality(At(l)) + 1
<1>1. IsFiniteSet(At(l))
  BY FS_Subset DEF PoolAssumption, At
<1>2. t \notin At(l)
  BY DEF At
<1> QED  BY <1>1, <1>2, FS_AddElement, FS_CardinalityType

LEMMA MoveOut ==
  ASSUME PoolAssumption, TypeOK, NEW t \in Threads, NEW l \in Locations, pc[t] = l
  PROVE  /\ Cardinality(At(l)) \in Nat
         /\ Cardinality(At(l) \ {t}) = Cardinality(At(l)) - 1
<1>1. IsFiniteSet(At(l))
  BY FS_Subset DEF PoolAssumption, At
<1>2. t \in At(l)
  BY DEF At
<1> QED  BY <1>1, <1>2, FS_RemoveElement, FS_CardinalityType

-----------------------------------------------------------------------------
(* The pool starts empty, with nobody in it. *)
LEMMA InitPoolInv ==
  ASSUME PoolAssumption
  PROVE  Init => PoolInv
<1> SUFFICES ASSUME Init PROVE PoolInv
  OBVIOUS
<1>1. TypeOK
  <2>1. pool \in Seq(Handles)
    BY EmptyFacts DEF Init
  <2>2. attempts \in 0..PoolSize
    BY DEF Init, PoolAssumption
  <2> QED  BY <2>1, <2>2 DEF Init, TypeOK, Locations
<1>2. MutexOwner /\ HandleInHand /\ Booting
  BY DEF PoolAssumption, Init, MutexOwner, HandleInHand, Booting
<1>3. Range(pool) = {}
  BY EmptyFacts DEF Init
<1>4. ExclusiveHandles
  BY <1>3, EmptyFacts DEF Init, ExclusiveHandles, Pooled
<1>5. NoLostWakeup
  BY DEF Init, NoLostWakeup, Waiting, At
<1> QED  BY <1>1, <1>2, <1>4, <1>5 DEF PoolInv

(* Steps that leave the queue and the handles in hand alone keep both apart. *)
LEMMA SameHandles ==
  ASSUME ExclusiveHandles, UNCHANGED <<pool, conn>>
  PROVE  ExclusiveHandles'
BY DEF ExclusiveHandles, Pooled, Held

LEMMA PoolInvStep ==
  ASSUME PoolAssumption, PoolInv, [Next]_vars
  PROVE  PoolInv'
<1> USE DEF PoolInv
<1> USE PoolAssumption
<1>1. CASE Connect
  <2>1. CASE mysqlUp /\ \E h \in Handles \ Open : pool' = Append(pool, h)
    <3> PICK h \in Handles \ Open : pool' = Append(pool, h)
      BY <2>1
    <3>1. /\ pool' \in Seq(Handles) /\ Len(pool') = Len(pool) + 1
          /\ Pooled' = Pooled \cup {h}
          /\ \A i, j \in 1..Len(pool') : pool'[i] = pool'[j] => i = j
      BY AppendFacts DEF TypeOK, ExclusiveHandles, Open, Pooled
    <3>2. Held' = Held
      BY <1>1 DEF Connect, Held
    <3>3. TypeOK'
      BY <1>1, <3>1 DEF Connect, TypeOK, PoolAssumption
    <3>4. MutexOwner' /\ HandleInHand'
      BY <1>1 DEF Connect, MutexOwner, HandleInHand
    <3>5. Booting'
      BY <1>1, <3>1, LenProperties DEF Connect, Booting, TypeOK, PoolAssumption
    <3>6. ExclusiveHandles'
      BY <1>1, <3>1, <3>2 DEF Connect, ExclusiveHandles, Open
    <3>7. NoLostWakeup'
      BY <1>1 DEF Connect, Booting, NoLostWakeup
    <3> QED  BY <3>3, <3>4, <3>5, <3>6, <3>7
  <2>2. CASE ~mysqlUp /\ UNCHANGED pool
    <3>1. TypeOK'
      BY <1>1, <2>2 DEF Connect, TypeOK, PoolAssumption
    <3>2. MutexOwner' /\ HandleInHand'
      BY <1>1 DEF Connect, MutexOwner, HandleInHand
    <3>3. Booting'
      BY <1>1, <2>2, LenProperties DEF Connect, Booting, TypeOK, PoolAssumption
    <3>4. ExclusiveHandles'
      BY <1>1, <2>2, SameHandles DEF Connect
    <3>5. NoLostWakeup'
      BY <1>1 DEF Connect, Booting, NoLostWakeup
    <3> QED  BY <3>1, <3>2, <3>3, <3>4, <3>5
  <2> QED  BY <1>1, <2>1, <2>2 DEF Connect
<1>2. CASE FinishInit
  <2>1. TypeOK' /\ MutexOwner' /\ HandleInHand' /\ Booting'
    BY <1>2 DEF FinishInit, TypeOK, MutexOwner, HandleInHand, Booting
  <2>2. ExclusiveHandles'
    BY <1>2, SameHandles DEF FinishInit
  <2>3. NoLostWakeup'
    BY <1>2 DEF FinishInit, Booting, NoLostWakeup, Waiting, At
  <2> QED  BY <2>1, <2>2, <2>3
<1>3. CASE Close
  <2>1. pool' = <<>> /\ pool' \in Seq(Handles) /\ Pooled' = {}
    BY <1>3, EmptyFacts DEF Close, Pooled
  <2>2. TypeOK' /\ MutexOwner' /\ HandleInHand'
    BY <1>3, <2>1 DEF Close, TypeOK, MutexOwner, HandleInHand
  <2>3. Booting' /\ NoLostWakeup'
    BY <1>3 DEF Close, Booting, NoLostWakeup
  <2>4. ExclusiveHandles'
    BY <1>3, <2>1, EmptyFacts DEF Close, ExclusiveHandles, Held
  <2> QED  BY <2>2, <2>3, <2>4
<1>4. CASE MysqlChanges
  <2>1. TypeOK' /\ MutexOwner' /\ HandleInHand' /\ Booting'
    BY <1>4 DEF MysqlChanges, TypeOK, MutexOwner, HandleInHand, Booting
  <2>2. ExclusiveHandles'
    BY <1>4, SameHandles DEF MysqlChanges
  <2>3. NoLostWakeup'
    BY <1>4 DEF MysqlChanges, NoLostWakeup, Waiting, At
  <2> QED  BY <2>1, <2>2, <2>3
<1>5. ASSUME NEW t \in Threads, Call(t) \/ SpuriousWakeup(t)
      PROVE  PoolInv'
  <2>1. TypeOK' /\ MutexOwner' /\ HandleInHand'
    BY <1>5 DEF Call, SpuriousWakeup, TypeOK, Locations, MutexOwner, HandleInHand
  <2>2. Booting'
    BY <1>5 DEF Call, SpuriousWakeup, Booting
  <2>3. ExclusiveHandles'
    BY <1>5, SameHandles DEF Call, SpuriousWakeup
  <2>4. NoLostWakeup'
    <3>1. /\ pc[t] # "acquire"
          /\ At("acquire")' = At("acquire") \cup {t}
          /\ Waiting' \subseteq Waiting
          /\ Len(pool') = Len(pool) /\ initialized' = initialized
      BY <1>5 DEF Call, SpuriousWakeup, TypeOK, Waiting, At
    <3>2. /\ Cardinality(At("acquire")) \in Nat
          /\ Cardinality(At("acquire") \cup {t}) = Cardinality(At("acquire")) + 1
      BY <3>1, MoveIn DEF Locations
    <3>3. Len(pool) \in Nat
      BY LenProperties DEF TypeOK
    <3>4. Cardinality(At("acquire"))' = Cardinality(At("acquire")) + 1
      BY <3>1, <3>2
    <3> QED  BY <3>1, <3>2, <3>3, <3>4 DEF NoLostWakeup
  <2> QED  BY <2>1, <2>2, <2>3, <2>4
<1>6. ASSUME NEW t \in Threads, Wait(t) \/ FailFast(t)
      PROVE  PoolInv'
  <2>1. TypeOK' /\ MutexOwner' /\ HandleInHand' /\ Booting'
    BY <1>6 DEF Wait, FailFast, TypeOK, Locations, MutexOwner, HandleInHand, Booting
  <2>2. ExclusiveHandles'
    BY <1>6, SameHandles DEF Wait, FailFast
  <2>3. NoLostWakeup'
    <3>1. Len(pool') = 0 \/ ~initialized'
      BY <1>6, EmptyFacts DEF Wait, FailFast
    <3>2. TypeOK'
      BY <2>1
    <3>3. Cardinality(At("acquire")') \in Nat
      BY <3>2, FS_Subset, FS_CardinalityType DEF PoolAssumption, At
    <3> QED  BY <3>1, <3>3 DEF NoLostWakeup
  <2> QED  BY <2>1, <2>2, <2>3
<1>7. ASSUME NEW t \in Threads, Take(t)
      PROVE  PoolInv'
  <2> DEFINE h == Head(pool)
  <2>1. /\ pool' \in Seq(Handles) /\ h \in Handles
        /\ Len(pool') = Len(pool) - 1
        /\ h \in Pooled /\ Pooled' = Pooled \ {h}
        /\ \A i, j \in 1..Len(pool') : pool'[i] = pool'[j] => i = j
    BY <1>7, TailFacts DEF Take, TypeOK, ExclusiveHandles, Pooled
  <2>2. TypeOK'
    BY <1>7, <2>1 DEF Take, TypeOK, Locations
  <2>3. MutexOwner'
    BY <1>7 DEF Take, TypeOK, MutexOwner, PoolAssumption
  <2>4. HandleInHand'
    BY <1>7, <2>1 DEF Take, TypeOK, HandleInHand, PoolAssumption
  <2>5. Booting'
    BY <1>7 DEF Take, Booting
  <2>6. ExclusiveHandles'
    <3>1. conn' = [conn EXCEPT ![t] = h] /\ conn[t] = NoHandle
      BY <1>7 DEF Take, HandleInHand
    <3>2. \A u \in Threads : conn[u] # h
      BY <2>1 DEF ExclusiveHandles, Held
    <3>3. Held' \subseteq Held \cup {h}
      BY <3>1 DEF Held, TypeOK
    <3>4. Pooled' \cap Held' = {}
      BY <2>1, <3>3 DEF ExclusiveHandles
    <3>5. \A u, v \in Threads : conn'[u] = conn'[v] /\ conn'[u] # NoHandle => u = v
      BY <3>1, <3>2 DEF ExclusiveHandles, TypeOK
    <3> QED  BY <2>1, <3>4, <3>5 DEF ExclusiveHandles
  <2>7. NoLostWakeup'
    <3>1. /\ pc[t] = "acquire"
          /\ At("acquire")' = At("acquire") \ {t}
          /\ Waiting' = Waiting /\ initialized' = initialized
      BY <1>7 DEF Take, TypeOK, Waiting, At
    <3>2. /\ Cardinality(At("acquire")) \in Nat
          /\ Cardinality(At("acquire") \ {t}) = Cardinality(At("acquire")) - 1
      BY <3>1, MoveOut DEF Locations
    <3>3. Len(pool) \in Nat
      BY LenProperties DEF TypeOK
    <3>4. Cardinality(At("acquire"))' = Cardinality(At("acquire")) - 1
      BY <3>1, <3>2
    <3> QED  BY <2>1, <3>1, <3>2, <3>3, <3>4 DEF NoLostWakeup
  <2> QED  BY <2>2, <2>3, <2>4, <2>5, <2>6, <2>7
<1>8. ASSUME NEW t \in Threads, Ping(t)
      PROVE  PoolInv'
  <2>1. TypeOK' /\ HandleInHand' /\ Booting'
    BY <1>8 DEF Ping, TypeOK, Locations, HandleInHand, Booting
  <2>2. MutexOwner'
    BY <1>8 DEF Ping, TypeOK, MutexOwner, PoolAssumption
  <2>3. ExclusiveHandles'
    BY <1>8, SameHandles DEF Ping
  <2>4. NoLostWakeup'
    <3>1. /\ At("acquire")' = At("acquire")
          /\ Waiting' = Waiting /\ pool' = pool /\ initialized' = initialized
      BY <1>8 DEF Ping, TypeOK, Waiting, At
    <3> QED  BY <3>1 DEF NoLostWakeup
  <2> QED  BY <2>1, <2>2, <2>3, <2>4
<1>9. ASSUME NEW t \in Threads, Reconnect(t)
      PROVE  PoolInv'
  <2>1. PICK h \in (Handles \ (Open \ {conn[t]})) \cup {NoHandle} :
          /\ conn' = [conn EXCEPT ![t] = h]
          /\ pc' = [pc EXCEPT ![t] = IF h = NoHandle THEN "idle" ELSE "using"]
    BY <1>9 DEF Reconnect, PoolAssumption
  <2>2. pc[t] = "reconnect" /\ mutex' = NoThread /\ mutex = t
        /\ UNCHANGED <<pool, initialized, booted, attempts, mysqlUp>>
    BY <1>9 DEF Reconnect, MutexOwner
  <2>3. TypeOK'
    BY <2>1, <2>2 DEF TypeOK, Locations
  <2>4. MutexOwner'
    BY <2>1, <2>2 DEF TypeOK, MutexOwner, PoolAssumption
  <2>5. HandleInHand'
    BY <2>1, <2>2 DEF TypeOK, HandleInHand, PoolAssumption
  <2>6. Booting'
    BY <2>1, <2>2 DEF Booting
  <2>7. ExclusiveHandles'
    <3>1. conn[t] # NoHandle /\ conn[t] \in Handles
      BY <2>2 DEF HandleInHand, TypeOK
    <3>2. \A u \in Threads : u # t /\ conn[u] # NoHandle => conn[u] # h
      <4> SUFFICES ASSUME NEW u \in Threads, u # t, conn[u] # NoHandle, conn[u] = h
                   PROVE  FALSE
        OBVIOUS
      <4>1. h \in Handles /\ h \in Held
        BY DEF TypeOK, Held
      <4>2. h # conn[t]
        BY DEF ExclusiveHandles
      <4> QED  BY <4>1, <4>2, <2>1 DEF Open, PoolAssumption
    <3>3. h \notin Pooled
      <4>1. conn[t] \notin Pooled
        BY <3>1 DEF ExclusiveHandles, Held
      <4>2. Pooled \subseteq Handles
        BY RangeOfSeq DEF TypeOK, Pooled
      <4> QED  BY <2>1, <4>1, <4>2 DEF Open, PoolAssumption
    <3>4. Held' \subseteq Held \cup {h}
      BY <2>1 DEF Held, TypeOK
    <3>5. Pooled' = Pooled
      BY <2>2 DEF Pooled
    <3>6. Pooled' \cap Held' = {}
      BY <3>3, <3>4, <3>5 DEF ExclusiveHandles
    <3>7. \A u, v \in Threads : conn'[u] = conn'[v] /\ conn'[u] # NoHandle => u = v
      BY <2>1, <3>2 DEF ExclusiveHandles, TypeOK
    <3> QED  BY <2>2, <3>6, <3>7 DEF ExclusiveHandles
  <2>8. NoLostWakeup'
    <3>1. At("acquire")' = At("acquire") /\ Waiting' = Waiting
      BY <2>1, <2>2 DEF TypeOK, Waiting, At
    <3> QED  BY <2>2, <3>1 DEF NoLostWakeup
  <2> QED  BY <2>3, <2>4, <2>5, <2>6, <2>7, <2>8
<1>10. ASSUME NEW t \in Threads, Release(t)
       PROVE  PoolInv'
  <2>1. /\ pc[t] = "using" /\ mutex = NoThread
        /\ pool' = Append(pool, conn[t])
        /\ conn' = [conn EXCEPT ![t] = NoHandle]
        /\ UNCHANGED <<mutex, initialized, booted, attempts, mysqlUp>>
    BY <1>10 DEF Release
  <2>2. conn[t] \in Handles
    BY <2>1 DEF HandleInHand, TypeOK
  <2>3. conn[t] \notin Pooled
    BY <2>2 DEF ExclusiveHandles, Held
  <2>4. /\ pool' \in Seq(Handles) /\ Len(pool') = Len(pool) + 1
        /\ Pooled' = Pooled \cup {conn[t]}
        /\ \A i, j \in 1..Len(pool') : pool'[i] = pool'[j] => i = j
    BY <2>1, <2>2, <2>3, AppendFacts DEF TypeOK, ExclusiveHandles, Pooled
  <2> DEFINE q == [pc EXCEPT ![t] = "idle"]
  <2>5. \/ Waiting = {} /\ pc' = q
        \/ \E u \in Waiting : u # t /\ pc' = [q EXCEPT ![u] = "acquire"]
    BY <1>10, <2>1 DEF Release, NotifyOne, Waiting, At, TypeOK
  <2>6. TypeOK'
    BY <2>1, <2>4, <2>5 DEF TypeOK, Locations, Waiting, At
  <2>7. MutexOwner'
    BY <2>1, <2>5 DEF TypeOK, MutexOwner, PoolAssumption, Waiting, At
  <2>8. HandleInHand'
    BY <2>1, <2>5 DEF TypeOK, HandleInHand, PoolAssumption, Waiting, At
  <2>9. Booting'
    BY <2>1 DEF Booting
  <2>10. ExclusiveHandles'
    <3>1. Held' \subseteq Held \ {conn[t]}
      BY <2>1, <2>2 DEF Held, TypeOK, ExclusiveHandles, PoolAssumption
    <3>2. Pooled' \cap Held' = {}
      BY <3>1, <2>4 DEF ExclusiveHandles
    <3>3. \A u, v \in Threads : conn'[u] = conn'[v] /\ conn'[u] # NoHandle => u = v
      BY <2>1 DEF ExclusiveHandles, TypeOK
    <3> QED  BY <2>4, <3>2, <3>3 DEF ExclusiveHandles
  <2>11. NoLostWakeup'
    <3>1. CASE Waiting = {} /\ pc' = q
      <4> Waiting' = {}
        BY <3>1, <2>1 DEF Waiting, At, TypeOK
      <4> QED  BY DEF NoLostWakeup
    <3>2. ASSUME NEW u \in Waiting, u # t, pc' = [q EXCEPT ![u] = "acquire"]
          PROVE  NoLostWakeup'
      <4>1. /\ pc[u] # "acquire" /\ u \in Threads
            /\ At("acquire")' = At("acquire") \cup {u}
            /\ Waiting # {}
        BY <3>2, <2>1 DEF Waiting, At, TypeOK
      <4>2. /\ Cardinality(At("acquire")) \in Nat
            /\ Cardinality(At("acquire") \cup {u}) = Cardinality(At("acquire")) + 1
        BY <4>1, MoveIn DEF Locations
      <4>3. Len(pool) \in Nat
        BY LenProperties DEF TypeOK
      <4>4. Cardinality(At("acquire"))' = Cardinality(At("acquire")) + 1
        BY <4>1, <4>2
      <4> QED  BY <2>1, <2>4, <4>1, <4>2, <4>3, <4>4 DEF NoLostWakeup
    <3> QED  BY <2>5, <3>1, <3>2
  <2> QED  BY <2>6, <2>7, <2>8, <2>9, <2>10, <2>11
<1>11. CASE UNCHANGED vars
  <2>1. TypeOK' /\ MutexOwner' /\ HandleInHand' /\ Booting'
    BY <1>11 DEF vars, TypeOK, MutexOwner, HandleInHand, Booting
  <2>2. ExclusiveHandles' /\ NoLostWakeup'
    BY <1>11, SameHandles DEF vars, NoLostWakeup, Waiting, At
  <2> QED  BY <2>1, <2>2
<1> QED
  BY <1>1, <1>2, <1>3, <1>4, <1>5, <1>6, <1>7, <1>8, <1>9, <1>10, <1>11 DEF Next, Step

(* For any number of workers and any pool size: handles are well typed and  *)
(* exclusively owned, and no wake-up is lost.                               *)
THEOREM PoolSafety == Spec => [](TypeOK /\ ExclusiveHandles /\ NoLostWakeup)
<1>1. PoolInv => TypeOK /\ ExclusiveHandles /\ NoLostWakeup
  BY DEF PoolInv
<1> QED  BY <1>1, PoolAssumption, InitPoolInv, PoolInvStep, PTL DEF Spec

(* Its parts by name: values have their types,                              *)
THEOREM PoolTypeCorrect == Spec => []TypeOK
<1>1. TypeOK /\ ExclusiveHandles /\ NoLostWakeup => TypeOK
  OBVIOUS
<1> QED  BY <1>1, PoolSafety, PTL

(* and no handle is with two workers, or queued while one of them has it.   *)
THEOREM PoolHandlesExclusive == Spec => []ExclusiveHandles
<1>1. TypeOK /\ ExclusiveHandles /\ NoLostWakeup => ExclusiveHandles
  OBVIOUS
<1> QED  BY <1>1, PoolSafety, PTL

-----------------------------------------------------------------------------
(* The workers with a handle in hand, and how their number changes when one *)
(* of them gets or gives up a handle.                                       *)
Holders == {t \in Threads : conn[t] # NoHandle}

LEMMA HoldersCount ==
  ASSUME PoolAssumption, TypeOK, NEW t \in Threads
  PROVE  /\ Cardinality(Holders) \in Nat
         /\ conn[t] = NoHandle => Cardinality(Holders \cup {t}) = Cardinality(Holders) + 1
         /\ conn[t] # NoHandle => Cardinality(Holders \ {t}) = Cardinality(Holders) - 1
<1>1. IsFiniteSet(Holders)
  BY FS_Subset DEF PoolAssumption, Holders
<1>2. conn[t] = NoHandle => t \notin Holders
  BY DEF Holders
<1>3. conn[t] # NoHandle => t \in Holders
  BY DEF Holders
<1> QED  BY <1>1, <1>2, <1>3, FS_AddElement, FS_RemoveElement, FS_CardinalityType

OnlyLostInOutage ==
  booted => /\ Capacity' <= Capacity
            /\ Capacity' < Capacity =>
                 \/ ~mysqlUp /\ Capacity' = Capacity - 1 /\ mutex # NoThread
                 \/ ~initialized' /\ At("using")' = At("using")

LEMMA CapacityStep ==
  ASSUME PoolAssumption, PoolInv, PoolInv', [Next]_vars
  PROVE  OnlyLostInOutage
<1> SUFFICES ASSUME booted PROVE OnlyLostInOutage
  BY DEF OnlyLostInOutage
<1> USE PoolAssumption
<1>0. /\ TypeOK /\ Len(pool) \in Nat
      /\ Capacity = Len(pool) + Cardinality(Holders)
      /\ Capacity' = Len(pool') + Cardinality(Holders')
  BY LenProperties DEF PoolInv, TypeOK, Capacity, Holders
<1>1. ASSUME UNCHANGED <<pool, conn>>
      PROVE  OnlyLostInOutage
  <2>1. Holders' = Holders
    BY <1>1 DEF Holders
  <2>2. Cardinality(Holders) \in Nat
    BY <1>0, FS_Subset, FS_CardinalityType DEF PoolAssumption, Holders
  <2> QED  BY <1>0, <1>1, <2>1, <2>2 DEF OnlyLostInOutage
<1>2. CASE Close
  <2>1. Holders' = Holders /\ Len(pool') = 0
    BY <1>2, EmptyFacts DEF Close, Holders
  <2>2. Cardinality(Holders) \in Nat
    BY <1>0, FS_Subset, FS_CardinalityType DEF PoolAssumption, Holders
  <2>3. ~initialized' /\ At("using")' = At("using")
    BY <1>2 DEF Close, At
  <2> QED  BY <1>0, <2>1, <2>2, <2>3 DEF OnlyLostInOutage
<1>3. ASSUME NEW t \in Threads, Take(t)
      PROVE  OnlyLostInOutage
  <2>1. Len(pool') = Len(pool) - 1 /\ Head(pool) \in Handles
    BY <1>3, TailFacts DEF Take, PoolInv, TypeOK, ExclusiveHandles
  <2>2. conn[t] = NoHandle /\ conn' = [conn EXCEPT ![t] = Head(pool)]
    BY <1>3 DEF Take, PoolInv, HandleInHand
  <2>3. Holders' = Holders \cup {t}
    BY <1>0, <2>1, <2>2 DEF Holders, TypeOK, PoolAssumption
  <2>4. Cardinality(Holders) \in Nat /\ Cardinality(Holders') = Cardinality(Holders) + 1
    BY <1>0, <2>2, <2>3, HoldersCount
  <2> QED  BY <1>0, <2>1, <2>4 DEF OnlyLostInOutage
<1>4. ASSUME NEW t \in Threads, Reconnect(t)
      PROVE  OnlyLostInOutage
  <2>1. conn[t] # NoHandle /\ mutex # NoThread /\ pool' = pool
    BY <1>4 DEF Reconnect, PoolInv, HandleInHand, MutexOwner, PoolAssumption
  <2>2. CASE \E h \in Handles : conn' = [conn EXCEPT ![t] = h]
    <3>1. Holders' = Holders
      BY <1>0, <2>1, <2>2 DEF Holders, TypeOK, PoolAssumption
    <3>2. Cardinality(Holders) \in Nat
      BY <1>0, HoldersCount
    <3> QED  BY <1>0, <2>1, <3>1, <3>2 DEF OnlyLostInOutage
  <2>3. CASE ~mysqlUp /\ conn' = [conn EXCEPT ![t] = NoHandle]
    <3>1. Holders' = Holders \ {t}
      BY <1>0, <2>3 DEF Holders, TypeOK
    <3>2. Cardinality(Holders) \in Nat /\ Cardinality(Holders') = Cardinality(Holders) - 1
      BY <1>0, <2>1, <3>1, HoldersCount
    <3> QED  BY <1>0, <2>1, <2>3, <3>2 DEF OnlyLostInOutage
  <2> QED  BY <1>4, <2>2, <2>3 DEF Reconnect
<1>5. ASSUME NEW t \in Threads, Release(t)
      PROVE  OnlyLostInOutage
  <2>1. conn[t] \in Handles /\ conn[t] # NoHandle
    BY <1>5 DEF Release, PoolInv, TypeOK, HandleInHand
  <2>2. Len(pool') = Len(pool) + 1 /\ conn' = [conn EXCEPT ![t] = NoHandle]
    BY <1>5, <2>1, AppendFacts DEF Release, PoolInv, TypeOK
  <2>3. Holders' = Holders \ {t}
    BY <1>0, <2>2 DEF Holders, TypeOK
  <2>4. Cardinality(Holders) \in Nat /\ Cardinality(Holders') = Cardinality(Holders) - 1
    BY <1>0, <2>1, <2>3, HoldersCount
  <2> QED  BY <1>0, <2>2, <2>4 DEF OnlyLostInOutage
<1>6. ~Connect
  BY DEF Connect
<1>7. FinishInit \/ MysqlChanges \/ UNCHANGED vars => UNCHANGED <<pool, conn>>
  BY DEF FinishInit, MysqlChanges, vars
<1>8. \A t \in Threads : Call(t) \/ Wait(t) \/ FailFast(t) \/ Ping(t) \/ SpuriousWakeup(t)
        => UNCHANGED <<pool, conn>>
  BY DEF Call, Wait, FailFast, Ping, SpuriousWakeup
<1> QED
  BY <1>1, <1>2, <1>3, <1>4, <1>5, <1>6, <1>7, <1>8 DEF Next, Step

(* After init() the handles the pool owns never grow in number, and shrink  *)
(* only by one failed reconnect while MySQL is away, or in close().         *)
THEOREM PoolShrinksOnlyInOutage == Spec => CapacityOnlyLostInOutage
<1>1. PoolInv /\ PoolInv' /\ [Next]_vars => OnlyLostInOutage
  BY PoolAssumption, CapacityStep
<1>2. OnlyLostInOutage
        => [booted => /\ Capacity' <= Capacity
                      /\ Capacity' < Capacity =>
                           \/ ~mysqlUp /\ Capacity' = Capacity - 1 /\ mutex # NoThread
                           \/ ~initialized' /\ At("using")' = At("using")]_vars
  BY DEF OnlyLostInOutage
<1> QED
  BY <1>1, <1>2, PoolAssumption, InitPoolInv, PoolInvStep, PTL
  DEF Spec, CapacityOnlyLostInOutage

-----------------------------------------------------------------------------
(* The refinement mapping, read off: a queued handle is free, a handle in a *)
(* worker's hand is that worker's, every other handle is closed.            *)
OwnerIs ==
  \A h \in Handles :
    /\ h \in Pooled => Owner[h] = NoHandle
    /\ \A t \in Threads : conn[t] = h <=> Owner[h] = t
    /\ h \notin Open => Owner[h] = NoThread
    /\ h \in Open => Owner[h] # NoThread

LEMMA OwnerFacts == ASSUME PoolAssumption, PoolInv PROVE OwnerIs
BY DEF PoolInv, ExclusiveHandles, OwnerIs, Owner, Open, Held, PoolAssumption

LEMMA OwnerFactsNext == ASSUME PoolAssumption, PoolInv' PROVE OwnerIs'
BY DEF PoolInv, ExclusiveHandles, OwnerIs, Owner, Open, Held, PoolAssumption

(* There are never more open handles than attempts made to open one. *)
LEMMA QueueBound ==
  ASSUME NEW S, NEW s \in Seq(S)
  PROVE  Cardinality(Range(s)) <= Len(s)
<1>1. Len(s) \in Nat /\ Range(s) = {s[i] : i \in 1..Len(s)} /\ s \in [1..Len(s) -> S]
  BY LenProperties, RangeEquality
<1>2. s \in Surjection(1..Len(s), Range(s))
  BY <1>1 DEF Surjection
<1>3. ExistsSurjection(1..Len(s), Range(s))
  BY <1>2 DEF ExistsSurjection
<1> QED  BY <1>1, <1>3, FS_SurjCardinalityBound

LEMMA InitRefines ==
  ASSUME PoolAssumption, Init PROVE Allocator!Init
<1>1. Pooled = {} /\ Held = {}
  BY EmptyFacts DEF Init, Pooled, Held, PoolAssumption
<1>2. Owner = [h \in Handles |-> NoThread]
  BY <1>1 DEF Owner, Held
<1> QED  BY <1>2 DEF Init, Allocator!Init

LEMMA StepRefines ==
  ASSUME PoolAssumption, PoolInv, PoolInv', [Next]_vars
  PROVE  [Allocator!Next]_<<IF ~booted THEN "starting"
                             ELSE IF initialized THEN "serving" ELSE "closed", Owner>>
<1> DEFINE phase == IF ~booted THEN "starting"
                    ELSE IF initialized THEN "serving" ELSE "closed"
<1> USE PoolAssumption
<1>0. OwnerIs /\ OwnerIs'
  BY OwnerFacts, OwnerFactsNext
<1>a. ASSUME NEW g \in Handles, g \in Pooled' <=> g \in Pooled,
             \A u \in Threads : conn'[u] = g <=> conn[u] = g
      PROVE  Owner'[g] = Owner[g]
  <2>1. CASE g \in Pooled
    BY <1>0, <1>a, <2>1 DEF OwnerIs
  <2>2. CASE g \in Held
    <3> PICK u \in Threads : conn[u] = g
      BY <2>2 DEF Held
    <3> QED  BY <1>0, <1>a DEF OwnerIs
  <2>3. CASE g \notin Open
    <3> g \notin Open'
      BY <1>a, <2>3 DEF Open, Held
    <3> QED  BY <1>0, <2>3 DEF OwnerIs
  <2> QED  BY <2>1, <2>2, <2>3 DEF Open
<1>b. Owner = [g \in Handles |-> Owner[g]] /\ Owner' = [g \in Handles |-> Owner'[g]]
  BY DEF Owner
<1>c. ASSUME NEW g \in Handles, g \notin Pooled', \A u \in Threads : conn'[u] # g
      PROVE  Owner'[g] = NoThread
  BY <1>0, <1>c DEF OwnerIs, Open, Held
<1>1. ASSUME UNCHANGED <<pool, conn, booted, initialized>>
      PROVE  UNCHANGED <<phase, Owner>>
  BY <1>1 DEF Owner, Pooled
<1>2. CASE Connect
  <2>1. CASE mysqlUp /\ \E h \in Handles \ Open : pool' = Append(pool, h)
    <3> PICK h \in Handles \ Open : pool' = Append(pool, h)
      BY <2>1
    <3>1. Pooled' = Pooled \cup {h} /\ Held' = Held /\ conn' = conn
      BY <1>2, AppendFacts DEF PoolInv, TypeOK, Pooled, Connect, Held
    <3>2. Owner' = [Owner EXCEPT ![h] = NoHandle]
      BY <3>1 DEF Owner
    <3>3. Held = {}
      BY <1>2 DEF Connect, PoolInv, Booting, HandleInHand, Held
    <3>4. {g \in Handles : Allocator!IsOpen(g)} = Pooled
      BY <1>0, <3>3, RangeOfSeq DEF Allocator!IsOpen, OwnerIs, Open, PoolInv, TypeOK, Pooled
    <3>5. Cardinality(Pooled) < PoolSize
      <4>1. Cardinality(Pooled) <= Len(pool)
        BY QueueBound DEF PoolInv, TypeOK, Pooled
      <4>2. Len(pool) <= attempts /\ attempts < PoolSize
        BY <1>2 DEF Connect, PoolInv, Booting
      <4>3. /\ IsFiniteSet(Pooled)
            /\ Len(pool) \in Nat
        BY FS_Subset, RangeOfSeq, LenProperties DEF PoolInv, TypeOK, Pooled, PoolAssumption
      <4>4. Cardinality(Pooled) \in Nat
        BY <4>3, FS_CardinalityType
      <4> QED  BY <4>1, <4>2, <4>3, <4>4 DEF PoolInv, TypeOK, PoolAssumption
    <3>6. ~Allocator!IsOpen(h)
      BY <1>0 DEF Allocator!IsOpen, OwnerIs
    <3>7. Cardinality({g \in Handles : Allocator!IsOpen(g)}) < PoolSize
      BY <3>4, <3>5
    <3>8. Allocator!Connect(h)
      <4>1. ~booted /\ UNCHANGED phase
        BY <1>2 DEF Connect
      <4>2. \A X : Allocator!Cardinality(X) = Cardinality(X)
        BY DEF Allocator!Cardinality, Cardinality
      <4> QED  BY <3>2, <3>6, <3>7, <4>1, <4>2 DEF Allocator!Connect
    <3> QED  BY <3>8 DEF Allocator!Next
  <2>2. CASE UNCHANGED pool
    BY <1>1, <1>2, <2>2 DEF Connect
  <2> QED  BY <1>2, <2>1, <2>2 DEF Connect
<1>3. CASE FinishInit
  <2>1. (\E h \in Handles : Allocator!IsOpen(h)) <=> pool # <<>>
    <3>1. Held = {}
      BY <1>3 DEF FinishInit, PoolInv, Booting, HandleInHand, Held
    <3>2. Pooled \subseteq Handles
      BY RangeOfSeq DEF PoolInv, TypeOK, Pooled
    <3>3. pool # <<>> <=> Pooled # {}
      BY EmptyFacts, HeadTailProperties, LenProperties, TailFacts
      DEF PoolInv, TypeOK, Pooled, ExclusiveHandles
    <3> QED  BY <1>0, <3>1, <3>2, <3>3 DEF OwnerIs, Open, Allocator!IsOpen
  <2>2. Owner' = Owner
    BY <1>3 DEF FinishInit, Owner, Pooled
  <2>3. Allocator!Serve
    BY <1>3, <2>1, <2>2 DEF FinishInit, Allocator!Serve
  <2> QED  BY <2>3 DEF Allocator!Next
<1>4. CASE Close
  <2>1. Pooled' = {} /\ Held' = Held /\ conn' = conn
    BY <1>4, EmptyFacts DEF Close, Pooled, Held
  <2>2. Owner' = [h \in Handles |-> IF Owner[h] = NoHandle THEN NoThread ELSE Owner[h]]
    <3>1. ASSUME NEW h \in Handles, h \in Pooled
          PROVE  Owner'[h] = NoThread /\ Owner[h] = NoHandle
      BY <1>0, <2>1, <3>1 DEF OwnerIs, Open, PoolInv, ExclusiveHandles
    <3>2. ASSUME NEW h \in Handles, h \notin Pooled
          PROVE  Owner'[h] = Owner[h] /\ Owner[h] # NoHandle
      <4>1. Owner'[h] = Owner[h]
        BY <1>a, <2>1, <3>2
      <4>2. Owner[h] \in Threads \/ Owner[h] = NoThread
        BY <1>0, <3>2 DEF OwnerIs, Open, Held
      <4> QED  BY <4>1, <4>2 DEF PoolAssumption
    <3> QED  BY <1>b, <3>1, <3>2
  <2>3. Allocator!Shutdown
    BY <1>4, <2>2 DEF Close, Allocator!Shutdown, PoolInv, Booting
  <2> QED  BY <2>3 DEF Allocator!Next
<1>5. CASE MysqlChanges
  BY <1>1, <1>5 DEF MysqlChanges
<1>6. ASSUME NEW t \in Threads,
             Call(t) \/ Wait(t) \/ FailFast(t) \/ Ping(t) \/ SpuriousWakeup(t)
      PROVE  UNCHANGED <<phase, Owner>>
  BY <1>1, <1>6 DEF Call, Wait, FailFast, Ping, SpuriousWakeup
<1>7. ASSUME NEW t \in Threads, Take(t)
      PROVE  Allocator!Next
  <2> DEFINE h == Head(pool)
  <2>1. h \in Pooled /\ h \in Handles /\ Pooled' = Pooled \ {h}
    BY <1>7, TailFacts DEF Take, PoolInv, TypeOK, ExclusiveHandles, Pooled
  <2>2. conn[t] = NoHandle /\ conn' = [conn EXCEPT ![t] = h]
    BY <1>7 DEF Take, PoolInv, HandleInHand
  <2>3. \A g \in Handles : Owner[g] # t
    BY <1>0, <2>2 DEF OwnerIs, PoolAssumption
  <2>4. Owner[h] = NoHandle
    BY <1>0, <2>1 DEF OwnerIs
  <2>5. Owner' = [Owner EXCEPT ![h] = t]
    <3>1. Owner'[h] = t
      BY <1>0, <2>1, <2>2 DEF OwnerIs, PoolInv, TypeOK
    <3>2. ASSUME NEW g \in Handles, g # h
          PROVE  Owner'[g] = Owner[g]
      <4>1. g \in Pooled' <=> g \in Pooled
        BY <2>1, <3>2
      <4>2. \A u \in Threads : conn'[u] = g <=> conn[u] = g
        BY <2>2, <3>2 DEF PoolInv, TypeOK, PoolAssumption
      <4> QED  BY <1>a, <4>1, <4>2
    <3> QED  BY <1>b, <3>1, <3>2, <2>1
  <2>6. Allocator!Grant(t, h)
    BY <1>7, <2>1, <2>3, <2>4, <2>5
    DEF Take, Allocator!Grant, Allocator!OwnsNone, PoolInv, Booting
  <2> QED  BY <2>1, <2>6 DEF Allocator!Next
<1>8. ASSUME NEW t \in Threads, Reconnect(t)
      PROVE  Allocator!Next
  <2>1. conn[t] \in Handles /\ Owner[conn[t]] = t /\ conn[t] \notin Pooled
    BY <1>0, <1>8 DEF Reconnect, PoolInv, HandleInHand, TypeOK, OwnerIs, PoolAssumption
  <2>2. UNCHANGED <<pool, booted, initialized>> /\ Pooled' = Pooled
    BY <1>8 DEF Reconnect, Pooled
  <2>3. CASE \E h \in Handles \ (Open \ {conn[t]}) : conn' = [conn EXCEPT ![t] = h]
    <3> PICK h \in Handles \ (Open \ {conn[t]}) : conn' = [conn EXCEPT ![t] = h]
      BY <2>3
    <3>1. h = conn[t] \/ ~Allocator!IsOpen(h)
      BY <1>0 DEF OwnerIs, Allocator!IsOpen
    <3>2. Owner'[h] = t
      BY <1>0 DEF OwnerIs, PoolInv, TypeOK
    <3>3. conn[t] # h => Owner'[conn[t]] = NoThread
      <4>1. \A u \in Threads : u # t => conn[u] # conn[t]
        BY <2>1 DEF PoolInv, ExclusiveHandles, PoolAssumption
      <4> QED  BY <1>c, <2>1, <2>2, <4>1 DEF PoolInv, TypeOK
    <3>4. ASSUME NEW g \in Handles, g # h, g # conn[t]
          PROVE  Owner'[g] = Owner[g]
      <4>1. \A u \in Threads : conn'[u] = g <=> conn[u] = g
        BY <3>4 DEF PoolInv, TypeOK
      <4> QED  BY <1>a, <2>2, <4>1
    <3>5. Owner' = [[Owner EXCEPT ![conn[t]] = NoThread] EXCEPT ![h] = t]
      BY <1>b, <2>1, <3>2, <3>3, <3>4
    <3>6. Allocator!Exchange(t, conn[t], h)
      BY <2>1, <2>2, <3>1, <3>5 DEF Allocator!Exchange
    <3> QED  BY <2>1, <3>6 DEF Allocator!Next
  <2>4. CASE conn' = [conn EXCEPT ![t] = NoHandle]
    <3>1. Owner'[conn[t]] = NoThread
      <4>1. \A u \in Threads : u # t => conn[u] # conn[t]
        BY <2>1 DEF PoolInv, ExclusiveHandles, PoolAssumption
      <4> QED  BY <1>c, <2>1, <2>2, <2>4, <4>1 DEF PoolInv, TypeOK, PoolAssumption
    <3>2. ASSUME NEW g \in Handles, g # conn[t]
          PROVE  Owner'[g] = Owner[g]
      <4>1. \A u \in Threads : conn'[u] = g <=> conn[u] = g
        BY <2>4, <3>2 DEF PoolInv, TypeOK, PoolAssumption
      <4> QED  BY <1>a, <2>2, <4>1
    <3>3. Owner' = [Owner EXCEPT ![conn[t]] = NoThread]
      BY <1>b, <2>1, <3>1, <3>2
    <3>4. Allocator!Lose(t, conn[t])
      BY <2>1, <2>2, <3>3 DEF Allocator!Lose
    <3> QED  BY <2>1, <3>4 DEF Allocator!Next
  <2> QED  BY <1>8, <2>3, <2>4 DEF Reconnect
<1>9. ASSUME NEW t \in Threads, Release(t)
      PROVE  Allocator!Next
  <2>1. conn[t] \in Handles /\ Owner[conn[t]] = t
    BY <1>0, <1>9 DEF Release, PoolInv, HandleInHand, TypeOK, OwnerIs, PoolAssumption
  <2>2. /\ UNCHANGED <<booted, initialized>>
        /\ conn' = [conn EXCEPT ![t] = NoHandle]
        /\ Pooled' = Pooled \cup {conn[t]}
    BY <1>9, <2>1, AppendFacts DEF Release, PoolInv, TypeOK, Pooled
  <2>3. Owner'[conn[t]] = NoHandle
    BY <2>1, <2>2 DEF Owner
  <2>4. ASSUME NEW g \in Handles, g # conn[t]
        PROVE  Owner'[g] = Owner[g]
    <3>1. g \in Pooled' <=> g \in Pooled
      BY <2>2, <2>4
    <3>2. \A u \in Threads : conn'[u] = g <=> conn[u] = g
      BY <2>2, <2>4 DEF PoolInv, TypeOK, PoolAssumption
    <3> QED  BY <1>a, <3>1, <3>2
  <2>5. Owner' = [Owner EXCEPT ![conn[t]] = NoHandle]
    BY <1>b, <2>1, <2>3, <2>4
  <2>6. Allocator!Return(t, conn[t])
    BY <2>1, <2>2, <2>5 DEF Allocator!Return
  <2> QED  BY <2>1, <2>6 DEF Allocator!Next
<1>10. CASE UNCHANGED vars
  BY <1>1, <1>10 DEF vars
<1> QED
  BY <1>2, <1>3, <1>4, <1>5, <1>6, <1>7, <1>8, <1>9, <1>10 DEF Next, Step

(* The queue, mutex and condition variable implement the allocator, for any *)
(* number of workers, any pool size and any pattern of outages.             *)
THEOREM PoolRefinement == Spec => ImplementsAllocator
<1>1. PoolInv /\ PoolInv' /\ [Next]_vars
        => [Allocator!Next]_<<IF ~booted THEN "starting"
                               ELSE IF initialized THEN "serving" ELSE "closed", Owner>>
  BY PoolAssumption, StepRefines
<1>2. Init => Allocator!Init
  BY PoolAssumption, InitRefines
<1> QED
  BY <1>1, <1>2, PoolAssumption, InitPoolInv, PoolInvStep, PTL
  DEF Spec, ImplementsAllocator, Allocator!Spec
=============================================================================
