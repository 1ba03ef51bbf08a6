-------------------------- MODULE Recommend_proofs --------------------------
(***************************************************************************)
(* Proofs about Recommend.tla for any songs, any lists the API may answer  *)
(* with, any intent and any limits: no song is recommended twice, tracks   *)
(* come before top-ups, and a search is linked all or none.  The invariant *)
(* adds how far the search has come when a song is taken (TracksSoFar) and *)
(* what is known of the candidates of the last search (Candidates).        *)
(***************************************************************************)
EXTENDS Recommend, TLAPS, FiniteSetTheorems, SequenceTheorems, WellFoundedInduction

InTracks == {"model", "hint", "track", "pickTrack"}
InKeywords == {"keyword", "pickKeyword"}

(* The songs of a route that searches are there only between requests. *)
Sources == \A i, j \in 1..Len(songs) :
             /\ songs[i].by = "search" => pc = "idle" /\ songs[j].by = "search"
             /\ songs[i].by # "search" => songs[i].batch <= searched

TracksSoFar ==
  pc \in InTracks =>
    /\ searched <= intent.tracks /\ Len(songs) <= searched
    /\ pc \in {"model", "hint"} => searched = 0
    /\ \A i \in 1..Len(songs) : songs[i].by = "track"
    /\ pc = "pickTrack" => /\ Len(songs) < searched
                           /\ \A i \in 1..Len(songs) : songs[i].batch < searched

TopUps == pc \in InKeywords =>
            \A i \in 1..Len(songs) : songs[i].by = "track" => i < Enough

(* A song with a link, or one that is free to play without. *)
Fits(s, l) == s.linked = l /\ (l \/ s.song \notin Charged)

Candidates ==
  pc \in {"pickTrack", "pickKeyword"} =>
    \E l \in BOOLEAN :
      /\ \A i \in 1..Len(found) : Fits(found[i], l)
      /\ \A i \in 1..Len(songs) : songs[i].batch = searched => songs[i].linked = l

RecommendInv == /\ TypeOK /\ Sources /\ TracksSoFar /\ TopUps /\ Candidates
                /\ NoSongTwice /\ TracksThenTopUps /\ LinkedAllOrNone

-----------------------------------------------------------------------------
(* A set of numbers that is not empty has a least one. *)
LEMMA LeastNumber ==
  ASSUME NEW T \in SUBSET Nat, T # {}
  PROVE  \E n \in T : \A m \in T : n <= m
<1> DEFINE R == OpToRel(<, Nat)
<1>1. IsWellFoundedOn(R, Nat)
  BY NatLessThanWellFounded
<1>2. \A x \in Nat, y \in Nat : y < x => <<y, x>> \in R
  BY DEF OpToRel
<1> HIDE DEF R
<1>3. PICK x \in T : \A y \in T : ~(<<y, x>> \in R)
  BY <1>1, WFMin
<1>4. ASSUME NEW m \in T PROVE x <= m
  <2>1. ~(m < x)
    BY <1>2, <1>3
  <2> QED BY <2>1
<1> QED BY <1>4

(* The rising numberings of a set of positions, ... *)
Rising(K) == {order \in [1..Cardinality(K) -> K] :
                \A i, j \in 1..Cardinality(K) : i < j => order[i] < order[j]}

(* ... and with one more position after all of K. *)
Extended(order, n, k) == [i \in 1..n + 1 |-> IF i = n + 1 THEN k ELSE order[i]]

LEMMA RisingExtends ==
  ASSUME NEW m \in Nat, NEW K \in SUBSET (1..m)
  PROVE  /\ Cardinality(K) \in Nat /\ Cardinality(K \cup {m + 1}) = Cardinality(K) + 1
         /\ \A order \in Rising(K) : Extended(order, Cardinality(K), m + 1) \in Rising(K \cup {m + 1})
         /\ \A long \in Rising(K \cup {m + 1}) :
              \E order \in Rising(K) : long = Extended(order, Cardinality(K), m + 1)
<1> DEFINE n == Cardinality(K)
           L == K \cup {m + 1}
<1>0. \A k \in K : k \in Nat /\ 1 <= k /\ k <= m
  OBVIOUS
<1>1. IsFiniteSet(K) /\ m + 1 \notin K
  <2>1. IsFiniteSet(1..m)
    BY FS_Interval
  <2>2. IsFiniteSet(K)
    BY <2>1, FS_Subset
  <2> QED BY <1>0, <2>2
<1>2. n \in Nat /\ IsFiniteSet(L) /\ Cardinality(L) = n + 1
  BY <1>1, FS_AddElement, FS_CardinalityType
<1> HIDE DEF n
<1>3. ASSUME NEW order \in Rising(K) PROVE Extended(order, n, m + 1) \in Rising(L)
  <2> DEFINE e == Extended(order, n, m + 1)
  <2>1. order \in [1..n -> K] /\ \A i, j \in 1..n : i < j => order[i] < order[j]
    BY DEF Rising, n
  <2>2. ASSUME NEW i \in 1..n PROVE order[i] \in K /\ order[i] \in Nat /\ order[i] < m + 1
    <3>1. order[i] \in K
      BY <2>1
    <3>2. order[i] \in Nat /\ order[i] <= m
      BY <1>0, <3>1, Zenon
    <3> QED BY <3>1, <3>2
  <2>3. e \in [1..n + 1 -> L] /\ e[n + 1] = m + 1 /\ \A i \in 1..n : e[i] = order[i]
    BY <1>2, <2>2 DEF Extended
  <2> HIDE DEF e, L
  <2>4. ASSUME NEW i \in 1..n + 1, NEW j \in 1..n + 1, i < j PROVE e[i] < e[j]
    <3>1. i \in 1..n
      BY <1>2, <2>4
    <3>2. CASE j = n + 1
      BY <2>2, <2>3, <3>1, <3>2
    <3>3. CASE j # n + 1
      BY <1>2, <2>1, <2>3, <2>4, <3>1, <3>3
    <3> QED BY <3>2, <3>3
  <2> QED BY <1>2, <2>3, <2>4 DEF Rising, e
<1>4. ASSUME NEW long \in Rising(L)
      PROVE  \E order \in Rising(K) : long = Extended(order, n, m + 1)
  <2>1. long \in [1..n + 1 -> L] /\ \A i, j \in 1..n + 1 : i < j => long[i] < long[j]
    BY <1>2 DEF Rising
  <2>2. ASSUME NEW i \in 1..n + 1
        PROVE  long[i] \in L /\ long[i] \in Nat /\ long[i] <= m + 1
    <3>1. long[i] \in L
      BY <2>1
    <3>2. long[i] \in K => long[i] \in Nat /\ long[i] <= m
      BY <1>0, Zenon
    <3> QED BY <3>1, <3>2
  <2>3. PICK p \in 1..n + 1 : long[p] = m + 1
    <3> SUFFICES ASSUME \A p \in 1..n + 1 : long[p] # m + 1 PROVE FALSE
      OBVIOUS
    <3>1. long \in [1..n + 1 -> K]
      BY <2>1, <2>2
    <3>2. IsFiniteSet(1..n + 1) /\ Cardinality(1..n + 1) = n + 1
      BY <1>2, FS_Interval
    <3>3. Cardinality(K) < Cardinality(1..n + 1)
      BY <1>2, <3>2 DEF n
    <3>4. PICK i, j \in 1..n + 1 : i # j /\ long[i] = long[j]
      BY <1>1, <3>1, <3>2, <3>3, FS_PigeonHole
    <3>5. i < j \/ j < i
      BY <1>2, <3>4
    <3> QED BY <2>1, <2>2, <3>4, <3>5
  <2>4. p = n + 1
    <3> SUFFICES ASSUME p < n + 1 PROVE FALSE
      BY <1>2
    <3>1. long[p] < long[n + 1]
      BY <1>2, <2>1
    <3> QED BY <1>2, <2>2, <2>3, <3>1
  <2> DEFINE order == [i \in 1..n |-> long[i]]
  <2>5. \A i \in 1..n : long[i] \in K
    <3> SUFFICES ASSUME NEW i \in 1..n PROVE long[i] # m + 1
      BY <1>2, <2>2
    <3>1. i \in 1..n + 1 /\ n + 1 \in 1..n + 1 /\ i < n + 1
      BY <1>2
    <3> QED BY <2>1, <2>2, <2>3, <2>4, <3>1
  <2>6. order \in Rising(K)
    <3>1. order \in [1..n -> K]
      BY <2>5
    <3>2. ASSUME NEW i \in 1..n, NEW j \in 1..n, i < j PROVE order[i] < order[j]
      <4>1. i \in 1..n + 1 /\ j \in 1..n + 1
        BY <1>2
      <4> QED BY <2>1, <3>2, <4>1
    <3> QED BY <3>1, <3>2 DEF Rising, n
  <2>7. long = Extended(order, n, m + 1)
    BY <1>2, <2>1, <2>3, <2>4 DEF Extended
  <2> QED BY <2>6, <2>7
<1> QED BY <1>2, <1>3, <1>4 DEF n

(* A song as the filter hands it on. *)
Linked(urls, s) == [song |-> s, linked |-> s \in urls.linked]

(* The filter of an empty list, and of a list with one more song: the two   *)
(* facts that make up the loop of filterPlayableSongs.                      *)
LEMMA FilterNone == ASSUME NEW urls PROVE FilterPlayable(<<>>, urls) = {<<>>}
<1> DEFINE K == {i \in DOMAIN <<>> : Kept(urls, <<>>[i])}
           Out(order, len) == [i \in 1..len |-> Linked(urls, <<>>[order[i]])]
<1>1. K = {} /\ Cardinality(K) = 0 /\ 1..0 = {}
  <2>1. K = {}
    OBVIOUS
  <2> QED BY <2>1, FS_EmptySet
<1>2. FilterPlayable(<<>>, urls) = {Out(order, Cardinality(K)) : order \in Rising(K)}
  BY DEF FilterPlayable, Rising, Linked
<1> HIDE DEF K
<1>3. \A order : Out(order, 0) = <<>>
  <2>1. \A order : DOMAIN Out(order, 0) = {}
    BY <1>1
  <2> QED BY <1>1
<1>4. <<>> \in Rising(K)
  BY <1>1 DEF Rising
<1> QED BY <1>1, <1>2, <1>3, <1>4

LEMMA FilterNext ==
  ASSUME NEW list \in Seq(Songs), NEW s \in Songs, NEW urls
  PROVE  FilterPlayable(Append(list, s), urls) =
           {IF Kept(urls, s) THEN Append(out, Linked(urls, s)) ELSE out :
              out \in FilterPlayable(list, urls)}
<1> DEFINE m == Len(list)
           more == Append(list, s)
           K == {i \in 1..m : Kept(urls, list[i])}
           L == {i \in 1..m + 1 : Kept(urls, more[i])}
           n == Cardinality(K)
           Out(l, order, len) == [i \in 1..len |-> Linked(urls, l[order[i]])]
<1>1. /\ m \in Nat /\ DOMAIN list = 1..m /\ DOMAIN more = 1..m + 1
      /\ \A i \in 1..m : more[i] = list[i] /\ list[i] \in Songs
      /\ more[m + 1] = s
  BY LenProperties, AppendProperties
<1>2. /\ FilterPlayable(list, urls) = {Out(list, order, n) : order \in Rising(K)}
      /\ FilterPlayable(more, urls) = {Out(more, order, Cardinality(L)) : order \in Rising(L)}
  BY <1>1 DEF FilterPlayable, Rising, Linked
<1> HIDE DEF m, more
<1>3. /\ n \in Nat /\ Cardinality(K \cup {m + 1}) = n + 1
      /\ \A order \in Rising(K) : Extended(order, n, m + 1) \in Rising(K \cup {m + 1})
      /\ \A long \in Rising(K \cup {m + 1}) :
           \E order \in Rising(K) : long = Extended(order, n, m + 1)
  BY <1>1, RisingExtends
<1>4. \A order \in Rising(K) : \A i \in 1..n : order[i] \in 1..m
  BY DEF Rising
<1> HIDE DEF K, n
<1>5. ASSUME NEW order \in Rising(K)
      PROVE  Out(more, order, n) = Out(list, order, n)
  BY <1>1, <1>4
<1>6. CASE Kept(urls, s)
  <2>1. L = K \cup {m + 1}
    BY <1>1, <1>6 DEF K
  <2> HIDE DEF L
  <2>2. ASSUME NEW order \in Rising(K)
        PROVE  Out(more, Extended(order, n, m + 1), n + 1)
                 = Append(Out(list, order, n), Linked(urls, s))
    <3> DEFINE T == {Linked(urls, x) : x \in Songs}
               long == Extended(order, n, m + 1)
               a == Out(list, order, n)
               b == Out(more, long, n + 1)
    <3>1. \A i \in 1..n : long[i] = order[i] /\ order[i] \in 1..m
      BY <1>3, <1>4 DEF Extended
    <3>2. long[n + 1] = m + 1
      BY <1>3 DEF Extended
    <3> HIDE DEF long
    <3>3. /\ a \in [1..n -> T] /\ b \in [1..n + 1 -> T] /\ Linked(urls, s) \in T
          /\ \A i \in 1..n : b[i] = a[i]
          /\ b[n + 1] = Linked(urls, s)
      <4>1. \A i \in 1..n : more[long[i]] = list[order[i]] /\ list[order[i]] \in Songs
        BY <1>1, <3>1
      <4>2. more[long[n + 1]] = s
        BY <1>1, <3>2
      <4>3. \A i \in 1..n + 1 : i \in 1..n \/ i = n + 1
        BY <1>3
      <4>4. \A i \in 1..n : i \in 1..n + 1
        BY <1>3
      <4>5. n + 1 \in 1..n + 1
        BY <1>3
      <4> HIDE DEF T
      <4>6. \A x \in Songs : Linked(urls, x) \in T
        BY DEF T
      <4> QED BY <4>1, <4>2, <4>3, <4>4, <4>5, <4>6
    <3> HIDE DEF a, b, T
    <3>4. a \in Seq(T) /\ Len(a) = n /\ b \in Seq(T) /\ Len(b) = n + 1
      BY <1>3, <3>3, SeqDef, LenProperties
    <3>5. Append(a, Linked(urls, s)) = b
      <4>1. /\ Append(a, Linked(urls, s)) \in Seq(T) /\ Len(Append(a, Linked(urls, s))) = n + 1
            /\ \A i \in 1..n : Append(a, Linked(urls, s))[i] = a[i]
            /\ Append(a, Linked(urls, s))[n + 1] = Linked(urls, s)
        BY <3>3, <3>4, AppendProperties
      <4>2. \A i \in 1..n + 1 : Append(a, Linked(urls, s))[i] = b[i]
        BY <1>3, <3>3, <4>1
      <4> QED BY <3>4, <4>1, <4>2, SeqEqual
    <3> QED BY <3>5 DEF a, b, long
  <2> DEFINE image == {Append(out, Linked(urls, s)) : out \in FilterPlayable(list, urls)}
  <2>3. FilterPlayable(more, urls) \subseteq image
    <3>0. Cardinality(L) = n + 1
      BY <1>3, <2>1
    <3> SUFFICES ASSUME NEW long \in Rising(L) PROVE Out(more, long, n + 1) \in image
      <4> HIDE DEF image
      <4> QED BY <1>2, <3>0
    <3>1. PICK order \in Rising(K) : long = Extended(order, n, m + 1)
      BY <1>3, <2>1
    <3> QED BY <1>2, <2>2, <3>1
  <2>4. image \subseteq FilterPlayable(more, urls)
    <3> SUFFICES ASSUME NEW order \in Rising(K)
                 PROVE  Append(Out(list, order, n), Linked(urls, s)) \in FilterPlayable(more, urls)
      BY <1>2
    <3>1. Extended(order, n, m + 1) \in Rising(L) /\ Cardinality(L) = n + 1
      BY <1>3, <2>1
    <3> QED BY <1>2, <2>2, <3>1
  <2> QED BY <1>6, <2>3, <2>4 DEF more
<1>7. CASE ~Kept(urls, s)
  <2>1. L = K
    BY <1>1, <1>7 DEF K
  <2> HIDE DEF L
  <2>2. FilterPlayable(more, urls) = {Out(more, order, n) : order \in Rising(K)}
    BY <1>2, <2>1 DEF n
  <2>3. FilterPlayable(more, urls) = FilterPlayable(list, urls)
    <3>1. FilterPlayable(more, urls) \subseteq FilterPlayable(list, urls)
      BY <1>2, <1>5, <2>2
    <3>2. FilterPlayable(list, urls) \subseteq FilterPlayable(more, urls)
      BY <1>2, <1>5, <2>2
    <3> QED BY <3>1, <3>2
  <2> QED BY <1>7, <2>3 DEF more
<1> QED BY <1>6, <1>7

(* For any list and any answer of the API, FilterPlayable has one value.    *)
LEMMA FilterHasOneValue ==
  ASSUME NEW list \in Seq(Songs), NEW urls
  PROVE  \E out : FilterPlayable(list, urls) = {out}
<1> DEFINE Bad == {k \in Nat : \E l \in Seq(Songs) :
                                 Len(l) = k /\ \A out : FilterPlayable(l, urls) # {out}}
<1>1. Bad = {}
  <2> SUFFICES ASSUME Bad # {} PROVE FALSE
    OBVIOUS
  <2>1. PICK k \in Bad : \A j \in Bad : k <= j
    BY LeastNumber
  <2>2. PICK l \in Seq(Songs) : Len(l) = k /\ \A out : FilterPlayable(l, urls) # {out}
    OBVIOUS
  <2>3. PICK f \in Seq(Songs), s \in Songs : l = Append(f, s)
    <3>1. l # <<>>
      BY <2>2, FilterNone
    <3> QED BY <3>1, SequenceEmptyOrAppend
  <2>4. Len(f) \in Nat /\ k = Len(f) + 1
    BY <2>2, <2>3, AppendProperties, LenProperties
  <2>5. PICK out : FilterPlayable(f, urls) = {out}
    <3>1. Len(f) \notin Bad
      <4> HIDE DEF Bad
      <4> QED BY <2>1, <2>4
    <3> QED BY <2>4, <3>1
  <2>6. FilterPlayable(l, urls) = {IF Kept(urls, s) THEN Append(out, Linked(urls, s)) ELSE out}
    <3>1. FilterPlayable(l, urls) =
            {IF Kept(urls, s) THEN Append(o, Linked(urls, s)) ELSE o : o \in {out}}
      BY <2>3, <2>5, FilterNext
    <3> QED BY <3>1
  <2> QED BY <2>2, <2>6
<1>2. Len(list) \in Nat
  BY LenProperties
<1> QED BY <1>1, <1>2

(* FilterPlayable is what the second loop of filterPlayableSongs computes,  *)
(* for any list and any answer of the API: nothing of an empty list, and    *)
(* one more song, at the end, exactly if the loop's condition keeps it.     *)
THEOREM FilterIsTheLoop ==
  ASSUME NEW list \in Seq(Songs), NEW s \in Songs, NEW urls
  PROVE  /\ FilterPlayable(<<>>, urls) = {<<>>}
         /\ \E out : /\ FilterPlayable(list, urls) = {out}
                    /\ FilterPlayable(Append(list, s), urls) =
                         {IF Kept(urls, s) THEN Append(out, Linked(urls, s)) ELSE out}
<1>1. PICK out : FilterPlayable(list, urls) = {out}
  BY FilterHasOneValue
<1>2. FilterPlayable(Append(list, s), urls) =
        {IF Kept(urls, s) THEN Append(o, Linked(urls, s)) ELSE o : o \in {out}}
  BY <1>1, FilterNext
<1>3. FilterPlayable(Append(list, s), urls) =
        {IF Kept(urls, s) THEN Append(out, Linked(urls, s)) ELSE out}
  BY <1>2
<1> QED BY <1>1, <1>3, FilterNone

(* What the filter leaves of a search is a list of songs, of which all have *)
(* a link or none has and none is charged for.                              *)
LEMMA FilterUniform ==
  ASSUME NEW list \in Lists, NEW urls \in UrlAnswers(list),
         NEW out \in FilterPlayable(list, urls)
  PROVE  out \in Seq(Found) /\ \E l \in BOOLEAN : \A i \in 1..Len(out) : Fits(out[i], l)
<1>1. PICK m \in 0..MaxFound : list \in [1..m -> Songs]
  BY DEF Lists
<1> DEFINE kept == {i \in DOMAIN list : Kept(urls, list[i])}
           n == Cardinality(kept)
           song(s) == [song |-> s, linked |-> s \in urls.linked]
<1>2. m \in Nat /\ kept \in SUBSET (1..m)
  BY <1>1, ApiAssumption
<1>3. n \in Nat
  <2>1. IsFiniteSet(1..m)
    BY <1>2, FS_Interval
  <2>2. IsFiniteSet(kept)
    BY <1>2, <2>1, FS_Subset
  <2> QED  BY <2>2, FS_CardinalityType
<1>4. PICK order \in [1..n -> kept] : out = [i \in 1..n |-> song(list[order[i]])]
  BY DEF FilterPlayable
<1>5. \A i \in 1..n : /\ list[order[i]] \in Songs /\ Kept(urls, list[order[i]])
                      /\ out[i] = song(list[order[i]])
  BY <1>1, <1>4
<1>12. ASSUME NEW i \in 1..n
       PROVE  /\ out[i].song = list[order[i]]
              /\ list[order[i]] \in urls.linked => out[i].linked = TRUE
              /\ list[order[i]] \notin urls.linked => out[i].linked = FALSE
  <2> DEFINE s == list[order[i]]
  <2> HIDE DEF s
  <2>1. out[i] = [song |-> s, linked |-> s \in urls.linked]
    BY <1>5 DEF s
  <2>2. CASE s \in urls.linked
    <3>1. (s \in urls.linked) = TRUE
      BY <2>2
    <3>2. out[i] = [song |-> s, linked |-> TRUE]
      BY <2>1, <3>1
    <3> QED  BY <2>2, <3>2 DEF s
  <2>3. CASE s \notin urls.linked
    <3>1. (s \in urls.linked) = FALSE
      BY <2>3
    <3>2. out[i] = [song |-> s, linked |-> FALSE]
      BY <2>1, <3>1
    <3> QED  BY <2>3, <3>2 DEF s
  <2> QED  BY <2>2, <2>3
<1> HIDE DEF n, kept
<1>6. out \in [1..n -> Found]
  BY <1>4, <1>5 DEF Found
<1>7. out \in Seq(Found) /\ Len(out) = n
  BY <1>3, <1>6, SeqDef, LenProperties
<1>8. urls = NoUrls \/ \E U : urls = [answered |-> TRUE, linked |-> U]
  BY DEF UrlAnswers
<1>9. CASE urls = NoUrls
  <2>1. urls.answered = FALSE /\ urls.linked = {}
    BY <1>9 DEF NoUrls
  <2>2. ASSUME NEW i \in 1..n PROVE Fits(out[i], FALSE)
    <3>1. list[order[i]] \notin Charged
      BY <1>5, <2>1 DEF Kept
    <3> QED  BY <1>12, <2>1, <3>1 DEF Fits
  <2> QED  BY <1>7, <2>2
<1>10. CASE \E U : urls = [answered |-> TRUE, linked |-> U]
  <2>1. urls.answered = TRUE
    BY <1>10
  <2>2. ASSUME NEW i \in 1..n PROVE Fits(out[i], TRUE)
    <3>1. list[order[i]] \in urls.linked
      BY <1>5, <2>1 DEF Kept
    <3> QED  BY <1>12, <3>1 DEF Fits
  <2> QED  BY <1>7, <2>2
<1> QED  BY <1>8, <1>9, <1>10

(* Taking a song that is new. *)
LEMMA AddOne ==
  ASSUME TypeOK, NEW f \in Found, NEW by \in {"track", "keyword"}, Add(f, by)
  PROVE  /\ songs' \in Seq(Entry) /\ Len(songs') = Len(songs) + 1
         /\ \A i \in 1..Len(songs) : songs'[i] = songs[i]
         /\ songs'[Len(songs) + 1] =
              [song |-> f.song, linked |-> f.linked, by |-> by, batch |-> searched]
<1>1. [song |-> f.song, linked |-> f.linked, by |-> by, batch |-> searched] \in Entry
  BY DEF TypeOK, Found, Entry
<1> QED  BY <1>1, AppendProperties DEF Add, TypeOK

(* An intent has as many tracks and keywords as a number says. *)
LEMMA IntentTypes ==
  /\ NoIntent \in Intent
  /\ \A i \in KnowledgeBase : i \in Intent
  /\ \A i \in ModelIntents : i \in Intent
<1>1. NoIntent \in Intent
  BY DEF NoIntent, Intent
<1>2. \A i \in KnowledgeBase : i \in Intent
  <2> DEFINE sizes == {<<7, 3>>, <<4, 3>>, <<5, 2>>, <<3, 2>>, <<3, 1>>}
  <2>1. \A n \in sizes : n[1] \in Nat /\ n[2] \in Nat
    OBVIOUS
  <2> HIDE DEF sizes
  <2>2. \A n \in sizes : [tracks |-> n[1], keywords |-> n[2], summary |-> TRUE] \in Intent
    BY <2>1 DEF Intent
  <2> QED  BY <2>2 DEF KnowledgeBase, sizes
<1>3. \A i \in ModelIntents : i \in Intent
  <2>1. 0..MaxTracks \subseteq Nat /\ 0..MaxKeywords \subseteq Nat
    BY RecommendAssumption
  <2> QED  BY <2>1 DEF ModelIntents, Intent
<1> QED  BY <1>1, <1>2, <1>3

LEMMA RecommendInit == Init => RecommendInv
<1> SUFFICES ASSUME Init PROVE RecommendInv
  OBVIOUS
<1>1. Len(songs) = 0
  BY DEF Init
<1>2. TypeOK
  <2>1. <<>> \in Seq(Found) /\ <<>> \in Seq(Entry)
    BY EmptySeq
  <2> QED  BY <2>1, IntentTypes DEF Init, TypeOK
<1> QED
  BY <1>1, <1>2 DEF Init, RecommendInv, Sources, TracksSoFar, TopUps, Candidates, NoSongTwice,
                    TracksThenTopUps, LinkedAllOrNone, InTracks, InKeywords

LEMMA StartKeepsInv ==
  ASSUME RecommendInv, Ask
  PROVE  RecommendInv'
<1>1. /\ pc' \in {"model", "hint"} /\ intent' \in Intent
      /\ loggedIn' \in BOOLEAN /\ hinted' = FALSE
      /\ searched' = 0 /\ found' = <<>> /\ songs' = <<>>
  <2>1. ASSUME NEW place \in {"model", "hint"}, NEW i \in Intent, Begin(place, i)
        PROVE  /\ pc' \in {"model", "hint"} /\ intent' \in Intent
               /\ loggedIn' \in BOOLEAN /\ hinted' = FALSE
               /\ searched' = 0 /\ found' = <<>> /\ songs' = <<>>
    BY <2>1 DEF Begin
  <2> QED  BY <2>1, IntentTypes DEF Ask
<1>2. Len(songs') = 0
  BY <1>1
<1>3. TypeOK'
  <2>1. <<>> \in Seq(Found) /\ <<>> \in Seq(Entry)
    BY EmptySeq
  <2> QED  BY <1>1, <2>1 DEF TypeOK
<1>4. intent.tracks' \in Nat
  BY <1>1 DEF Intent
<1> QED
  BY <1>1, <1>2, <1>3, <1>4 DEF RecommendInv, Sources, TracksSoFar, TopUps, Candidates,
     NoSongTwice, TracksThenTopUps, LinkedAllOrNone, InTracks, InKeywords

LEMMA RouteKeepsInv ==
  ASSUME RecommendInv, SearchRoute
  PROVE  RecommendInv'
<1>1. PICK list \in Lists : \E urls \in UrlAnswers(list) : \E kept \in FilterPlayable(list, urls) :
        songs' = [i \in 1..Len(kept) |-> [song |-> kept[i].song, linked |-> kept[i].linked,
                                          by |-> "search", batch |-> 1]]
  BY DEF SearchRoute
<1>11. PICK urls \in UrlAnswers(list) : \E kept \in FilterPlayable(list, urls) :
        songs' = [i \in 1..Len(kept) |-> [song |-> kept[i].song, linked |-> kept[i].linked,
                                          by |-> "search", batch |-> 1]]
  BY <1>1
<1>2. PICK kept \in FilterPlayable(list, urls) :
        songs' = [i \in 1..Len(kept) |-> [song |-> kept[i].song, linked |-> kept[i].linked,
                                          by |-> "search", batch |-> 1]]
  BY <1>11
<1>3. PICK l \in BOOLEAN : \A i \in 1..Len(kept) : Fits(kept[i], l)
  BY FilterUniform
<1>4. Len(kept) \in Nat /\ \A i \in 1..Len(kept) : kept[i] \in Found
  BY FilterUniform, LenProperties, ElementOfSeq
<1>5. songs' \in [1..Len(kept) -> Entry]
  BY <1>2, <1>4 DEF Entry, Found
<1>6. songs' \in Seq(Entry) /\ Len(songs') = Len(kept)
  BY <1>4, <1>5, SeqDef, LenProperties
<1>7. \A i \in 1..Len(songs') : songs'[i].by = "search" /\ Fits(songs'[i], l)
  BY <1>2, <1>3, <1>6 DEF Fits
<1>8. pc' = "idle" /\ TypeOK'
  <2>1. <<>> \in Seq(Found)
    BY EmptySeq
  <2> QED  BY <1>6, <2>1, IntentTypes DEF SearchRoute, RecommendInv, TypeOK
<1>9. Sources' /\ TracksSoFar' /\ TopUps' /\ Candidates'
  BY <1>7, <1>8 DEF Sources, TracksSoFar, TopUps, Candidates, InTracks, InKeywords
<1>10. NoSongTwice' /\ TracksThenTopUps' /\ LinkedAllOrNone'
  BY <1>7 DEF NoSongTwice, TracksThenTopUps, LinkedAllOrNone, Fits
<1> QED  BY <1>8, <1>9, <1>10 DEF RecommendInv

(* Before and between the loops, no song is added. *)
LEMMA QuietKeepsInv ==
  ASSUME RecommendInv, AskModel \/ Hint \/ EndTracks \/ EndKeywords \/ UNCHANGED vars
  PROVE  RecommendInv'
<1>1. UNCHANGED <<searched, found, songs>>
  BY DEF AskModel, Hint, EndTracks, EndKeywords, vars
<1>2. TypeOK'
  <2>1. CASE AskModel
    <3>1. intent' \in Intent
      BY <2>1, IntentTypes DEF AskModel
    <3> QED  BY <2>1, <3>1 DEF RecommendInv, TypeOK, AskModel
  <2>2. CASE Hint
    BY <2>2 DEF RecommendInv, TypeOK, Hint
  <2>3. CASE EndTracks \/ EndKeywords \/ UNCHANGED vars
    BY <2>3 DEF RecommendInv, TypeOK, EndTracks, EndKeywords, vars
  <2> QED  BY <2>1, <2>2, <2>3
<1>3. NoSongTwice' /\ LinkedAllOrNone'
  BY <1>1 DEF RecommendInv, NoSongTwice, LinkedAllOrNone
<1>4. Sources'
  BY <1>1 DEF RecommendInv, Sources, AskModel, Hint, EndTracks, EndKeywords, vars
<1>5. Candidates'
  BY <1>1 DEF RecommendInv, Candidates, AskModel, Hint, EndTracks, EndKeywords, vars
<1>6. TracksSoFar' /\ TopUps'
  <2>1. CASE AskModel
    <3>1. intent'.tracks \in Nat /\ Len(songs) = 0
      BY <2>1, IntentTypes, LenProperties DEF AskModel, RecommendInv, TypeOK, TracksSoFar, InTracks, Intent
    <3> QED
      BY <1>1, <2>1, <3>1 DEF AskModel, RecommendInv, TracksSoFar, TopUps, InTracks, InKeywords
  <2>2. CASE Hint
    BY <1>1, <2>2 DEF RecommendInv, TracksSoFar, TopUps, Hint, InTracks, InKeywords
  <2>3. CASE EndTracks
    <3>1. Len(songs) \in Nat /\ Enough \in Nat
      BY LenProperties, RecommendAssumption DEF RecommendInv, TypeOK
    <3> QED
      BY <1>1, <2>3, <3>1 DEF RecommendInv, TracksSoFar, TopUps, EndTracks, InTracks, InKeywords
  <2>4. CASE EndKeywords
    BY <1>1, <2>4 DEF EndKeywords, TracksSoFar, TopUps, InTracks, InKeywords
  <2>5. CASE UNCHANGED vars
    BY <2>5 DEF RecommendInv, vars, TracksSoFar, TopUps
  <2> QED  BY <2>1, <2>2, <2>3, <2>4, <2>5
<1>7. TracksThenTopUps'
  <2>1. CASE UNCHANGED intent
    BY <1>1, <2>1 DEF RecommendInv, TracksThenTopUps
  <2>2. CASE AskModel
    <3>1. Len(songs) = 0
      BY <2>2, LenProperties DEF AskModel, RecommendInv, TypeOK, TracksSoFar, InTracks
    <3> QED  BY <1>1, <3>1 DEF TracksThenTopUps
  <2> QED  BY <2>1, <2>2 DEF Hint, EndTracks, EndKeywords, vars
<1> QED
  BY <1>2, <1>3, <1>4, <1>5, <1>6, <1>7 DEF RecommendInv

(* A search counts one up: no song is of it yet, and what it finds is       *)
(* linked all or none.                                                      *)
LEMMA SearchKeepsInv ==
  ASSUME RecommendInv, SearchTrack \/ SearchKeyword
  PROVE  RecommendInv'
<1>1. /\ searched' = searched + 1 /\ UNCHANGED <<intent, loggedIn, hinted, songs>>
      /\ \E list \in Lists : \E urls \in UrlAnswers(list) : found' \in FilterPlayable(list, urls)
  BY DEF SearchTrack, SearchKeyword, Search
<1>2. PICK l \in BOOLEAN : found' \in Seq(Found) /\ \A i \in 1..Len(found') : Fits(found'[i], l)
  BY <1>1, FilterUniform
<1>3. \/ pc = "track" /\ pc' = "pickTrack" /\ searched < intent.tracks
      \/ pc = "keyword" /\ pc' = "pickKeyword"
  BY DEF SearchTrack, SearchKeyword, Search
<1>4. /\ searched \in Nat /\ intent.tracks \in Nat /\ Len(songs) \in Nat
      /\ \A i \in 1..Len(songs) : songs[i] \in Entry /\ songs[i].batch \in Nat
  <2>1. searched \in Nat /\ intent \in Intent /\ songs \in Seq(Entry)
    BY DEF RecommendInv, TypeOK
  <2>2. Len(songs) \in Nat /\ \A i \in 1..Len(songs) : songs[i] \in Entry
    BY <2>1, LenProperties, ElementOfSeq
  <2> QED  BY <2>1, <2>2 DEF Intent, Entry
<1>5. TypeOK'
  BY <1>1, <1>2, <1>3, <1>4 DEF RecommendInv, TypeOK
<1>6. \A i \in 1..Len(songs) : songs[i].by # "search" /\ songs[i].batch <= searched
  BY <1>3 DEF RecommendInv, Sources
<1>7. Sources'
  BY <1>1, <1>4, <1>6 DEF Sources
<1>8. TracksSoFar' /\ TopUps'
  BY <1>1, <1>3, <1>4, <1>6 DEF RecommendInv, TracksSoFar, TopUps, InTracks, InKeywords
<1>9. Candidates'
  <2>1. \A i \in 1..Len(songs) : songs[i].batch # searched'
    BY <1>1, <1>4, <1>6
  <2> QED  BY <1>1, <1>2, <2>1 DEF Candidates
<1>10. NoSongTwice' /\ TracksThenTopUps' /\ LinkedAllOrNone'
  BY <1>1 DEF RecommendInv, NoSongTwice, TracksThenTopUps, LinkedAllOrNone
<1> QED  BY <1>5, <1>7, <1>8, <1>9, <1>10 DEF RecommendInv

(* Looking at a candidate without taking it, or at none. *)
LEMMA PassKeepsInv ==
  ASSUME RecommendInv, PickTrack \/ PickKeyword, UNCHANGED songs
  PROVE  RecommendInv'
<1>1. /\ UNCHANGED <<intent, loggedIn, hinted, searched>>
      /\ \/ pc = "pickTrack" /\ pc' \in {"track", "pickTrack"}
         \/ pc = "pickKeyword" /\ pc' \in {"keyword", "pickKeyword"}
      /\ \/ found' = <<>>
         \/ found # <<>> /\ found' = Tail(found)
      /\ pc' \in {"pickTrack", "pickKeyword"} => pc' = pc
  BY DEF PickTrack, PickKeyword
<1>2. /\ found' \in Seq(Found)
      /\ \A i \in 1..Len(found') : i + 1 \in 1..Len(found) /\ found'[i] = found[i + 1]
  <2>1. CASE found' = <<>>
    BY <2>1, EmptySeq
  <2>2. CASE found # <<>> /\ found' = Tail(found)
    BY <2>2, HeadTailProperties, LenProperties, EmptySeq DEF RecommendInv, TypeOK
  <2> QED  BY <1>1, <2>1, <2>2
<1>3. TypeOK'
  BY <1>1, <1>2 DEF RecommendInv, TypeOK
<1>4. /\ searched \in Nat /\ Len(songs) \in Nat
  BY LenProperties DEF RecommendInv, TypeOK
<1>5. Sources' /\ TracksSoFar' /\ TopUps'
  BY <1>1, <1>4 DEF RecommendInv, Sources, TracksSoFar, TopUps, InTracks, InKeywords
<1>6. Candidates'
  <2>1. PICK l \in BOOLEAN :
          /\ \A i \in 1..Len(found) : Fits(found[i], l)
          /\ \A i \in 1..Len(songs) : songs[i].batch = searched => songs[i].linked = l
    BY <1>1 DEF RecommendInv, Candidates
  <2>2. \A i \in 1..Len(found') : Fits(found'[i], l)
    BY <1>2, <2>1
  <2> QED  BY <1>1, <2>1, <2>2 DEF Candidates
<1>7. NoSongTwice' /\ TracksThenTopUps' /\ LinkedAllOrNone'
  BY <1>1 DEF RecommendInv, NoSongTwice, TracksThenTopUps, LinkedAllOrNone
<1> QED  BY <1>3, <1>5, <1>6, <1>7 DEF RecommendInv

-----------------------------------------------------------------------------
(* Taking a candidate: what is said of it, by kind of search. *)
TakenAs(by) == /\ found # <<>> /\ IsNew(Head(found).song) /\ Add(Head(found), by)
               /\ UNCHANGED <<intent, loggedIn, hinted, searched>>

LEMMA TakenStep ==
  ASSUME RecommendInv, NEW by \in {"track", "keyword"}, TakenAs(by)
  PROVE  LET n == Len(songs)
             new == songs'[n + 1]
         IN  /\ songs' \in Seq(Entry) /\ Len(songs') = n + 1 /\ n \in Nat
             /\ \A i \in 1..n : songs'[i] = songs[i]
             /\ new.song = Head(found).song /\ new.linked = Head(found).linked
             /\ new.by = by /\ new.batch = searched
<1>1. Head(found) \in Found
  BY HeadTailProperties, EmptySeq DEF RecommendInv, TypeOK, TakenAs
<1>2. TypeOK /\ songs \in Seq(Entry) /\ Add(Head(found), by)
  BY DEF RecommendInv, TypeOK, TakenAs
<1>3. /\ songs' \in Seq(Entry) /\ Len(songs') = Len(songs) + 1
      /\ \A i \in 1..Len(songs) : songs'[i] = songs[i]
      /\ songs'[Len(songs) + 1] =
           [song |-> Head(found).song, linked |-> Head(found).linked, by |-> by,
            batch |-> searched]
  BY <1>1, <1>2, AddOne
<1>4. Len(songs) \in Nat
  BY <1>2, LenProperties
<1> QED  BY <1>3, <1>4

(* It is in no answer yet, and fits the other songs of its search. *)
LEMMA TakenIsNew ==
  ASSUME RecommendInv, NEW by \in {"track", "keyword"}, TakenAs(by),
         pc \in {"pickTrack", "pickKeyword"}
  PROVE  NoSongTwice' /\ LinkedAllOrNone' /\ Sources'
<1>1. Head(found) \in Found /\ Head(found) = found[1] /\ 1 \in 1..Len(found)
  BY HeadTailProperties, LenProperties, EmptySeq DEF RecommendInv, TypeOK, TakenAs
<1> DEFINE n == Len(songs)
           new == songs'[n + 1]
<1>2. /\ songs' \in Seq(Entry) /\ Len(songs') = n + 1 /\ n \in Nat
      /\ \A i \in 1..n : songs'[i] = songs[i]
      /\ new.song = Head(found).song /\ new.linked = Head(found).linked
      /\ new.by = by /\ new.batch = searched
  BY TakenStep
<1>3. PICK l \in BOOLEAN :
        /\ Fits(Head(found), l)
        /\ \A i \in 1..n : songs[i].batch = searched => songs[i].linked = l
  BY <1>1 DEF RecommendInv, Candidates
<1>4. /\ new.song \in Numbered
      /\ \A i \in 1..n : songs[i].song # new.song
  BY <1>2 DEF TakenAs, IsNew, Added
<1>5. \A i \in 1..n : songs[i].by # "search" /\ songs[i].batch <= searched
  BY DEF RecommendInv, Sources
<1>6. searched \in Nat /\ UNCHANGED searched
  BY DEF RecommendInv, TypeOK, TakenAs
<1> HIDE DEF new, n
<1>7. 1..Len(songs') = 1..n \cup {n + 1} /\ songs'[n + 1] = new
  BY <1>2 DEF new
<1>8. NoSongTwice'
  <2>1. \A i, j \in 1..n : /\ songs[i].song \in Numbered
                           /\ songs[i].song = songs[j].song => i = j
    BY <1>5 DEF RecommendInv, NoSongTwice, n
  <2> QED  BY <1>2, <1>4, <1>7, <2>1 DEF NoSongTwice
<1>9. LinkedAllOrNone'
  <2>1. new.linked = l /\ (~l => new.song \notin Charged)
    BY <1>2, <1>3 DEF Fits
  <2>2. \A i, j \in 1..n : songs[i].batch = songs[j].batch =>
          /\ songs[i].linked = songs[j].linked
          /\ ~songs[i].linked => songs[i].song \notin Charged
    BY DEF RecommendInv, LinkedAllOrNone, n
  <2> QED  BY <1>2, <1>3, <1>7, <2>1, <2>2 DEF LinkedAllOrNone
<1>10. Sources'
  <2>1. \A i \in 1..Len(songs') : songs'[i].by # "search" /\ songs'[i].batch <= searched
    BY <1>2, <1>5, <1>6, <1>7
  <2> QED  BY <1>6, <2>1 DEF Sources
<1> QED  BY <1>8, <1>9, <1>10

(* A search for a track gives at most one song, which comes after those of  *)
(* the tracks before it.                                                    *)
LEMMA TrackTaken ==
  ASSUME RecommendInv, TakenAs("track"), pc = "pickTrack", pc' = "track", found' = <<>>
  PROVE  RecommendInv'
<1> DEFINE n == Len(songs)
<1>1. /\ songs' \in Seq(Entry) /\ Len(songs') = n + 1 /\ n \in Nat
      /\ \A i \in 1..n : songs'[i] = songs[i]
      /\ songs'[n + 1].by = "track" /\ songs'[n + 1].batch = searched
  BY TakenStep
<1>2. NoSongTwice' /\ LinkedAllOrNone' /\ Sources'
  BY TakenIsNew
<1>3. /\ searched \in Nat /\ intent.tracks \in Nat
      /\ UNCHANGED <<intent, searched>>
      /\ searched <= intent.tracks /\ n < searched
      /\ \A i \in 1..n : songs[i].by = "track" /\ songs[i].batch < searched
  BY DEF RecommendInv, TypeOK, Intent, TakenAs, TracksSoFar, InTracks
<1> HIDE DEF n
<1>4. 1..Len(songs') = 1..n \cup {n + 1}
  BY <1>1
<1>5. TypeOK'
  <2>1. <<>> \in Seq(Found)
    BY EmptySeq
  <2> QED  BY <1>1, <2>1 DEF RecommendInv, TypeOK, TakenAs
<1>6. \A i \in 1..Len(songs') : songs'[i].by = "track"
  BY <1>1, <1>3, <1>4
<1>7. TracksSoFar' /\ TopUps' /\ Candidates'
  BY <1>1, <1>3, <1>6 DEF TracksSoFar, TopUps, Candidates, InTracks, InKeywords
<1>8. TracksThenTopUps'
  <2>1. /\ \A i \in 1..n : songs[i].batch \in i..intent.tracks
        /\ \A i, j \in 1..n : i < j => songs[i].batch < songs[j].batch
    BY <1>3 DEF RecommendInv, TracksThenTopUps, n
  <2>2. searched \in (n + 1)..intent.tracks
    BY <1>1, <1>3
  <2>3. \A i \in 1..Len(songs') : songs'[i].batch \in i..intent.tracks
    BY <1>1, <1>4, <2>1, <2>2
  <2>4. \A i, j \in 1..Len(songs') : i < j => songs'[i].batch < songs'[j].batch
    BY <1>1, <1>3, <1>4, <2>1
  <2> QED  BY <1>3, <1>6, <2>3, <2>4 DEF TracksThenTopUps
<1> QED  BY <1>2, <1>5, <1>7, <1>8 DEF RecommendInv

(* A song of a keyword comes after those of the tracks, which are too few,  *)
(* and only while there are fewer than Most.                                *)
LEMMA KeywordTaken ==
  ASSUME RecommendInv, TakenAs("keyword"), pc = "pickKeyword", pc' = pc,
         found' = Tail(found), Len(songs) < Most
  PROVE  RecommendInv'
<1> DEFINE n == Len(songs)
<1>1. /\ songs' \in Seq(Entry) /\ Len(songs') = n + 1 /\ n \in Nat
      /\ \A i \in 1..n : songs'[i] = songs[i]
      /\ songs'[n + 1].by = "keyword" /\ songs'[n + 1].batch = searched
      /\ songs'[n + 1].linked = Head(found).linked
  BY TakenStep
<1>2. NoSongTwice' /\ LinkedAllOrNone' /\ Sources'
  BY TakenIsNew
<1>3. /\ UNCHANGED <<intent, searched>> /\ Most \in Nat /\ n < Most
      /\ \A i \in 1..n : songs[i].by = "track" => i < Enough
  BY RecommendAssumption DEF RecommendInv, TakenAs, TopUps, InKeywords
<1>4. /\ found' \in Seq(Found) /\ Head(found) = found[1] /\ 1 \in 1..Len(found)
      /\ \A i \in 1..Len(found') : i + 1 \in 1..Len(found) /\ found'[i] = found[i + 1]
  BY HeadTailProperties, LenProperties, EmptySeq DEF RecommendInv, TypeOK, TakenAs
<1>5. PICK l \in BOOLEAN :
        /\ \A i \in 1..Len(found) : Fits(found[i], l)
        /\ \A i \in 1..n : songs[i].batch = searched => songs[i].linked = l
  BY DEF RecommendInv, Candidates
<1> HIDE DEF n
<1>6. 1..Len(songs') = 1..n \cup {n + 1}
  BY <1>1
<1>7. TypeOK'
  BY <1>1, <1>4 DEF RecommendInv, TypeOK, TakenAs
<1>8. Candidates'
  <2>1. \A i \in 1..Len(found') : Fits(found'[i], l)
    BY <1>4, <1>5
  <2>2. songs'[n + 1].linked = l
    BY <1>1, <1>4, <1>5 DEF Fits
  <2>3. \A i \in 1..Len(songs') : songs'[i].batch = searched => songs'[i].linked = l
    BY <1>1, <1>5, <1>6, <2>2
  <2> QED  BY <1>3, <2>1, <2>3 DEF Candidates
<1>9. \A i \in 1..Len(songs') : songs'[i].by = "track" => i \in 1..n /\ songs[i].by = "track"
  BY <1>1, <1>6
<1>10. TracksSoFar' /\ TopUps'
  BY <1>3, <1>9 DEF TracksSoFar, TopUps, InTracks, InKeywords
<1>11. TracksThenTopUps'
  <2>1. /\ \A i \in 1..n : songs[i].by = "track" => songs[i].batch \in i..intent.tracks
        /\ \A i, j \in 1..n : songs[i].by = "track" /\ songs[j].by = "track" /\ i < j
                               => songs[i].batch < songs[j].batch
        /\ \A i, j \in 1..n : songs[i].by = "track" /\ songs[j].by = "keyword" => i < j
    BY DEF RecommendInv, TracksThenTopUps, n
  <2>2. \A i \in 1..Len(songs') : songs'[i].by = "track" => songs'[i].batch \in i..intent.tracks
    BY <1>1, <1>9, <2>1
  <2>3. \A i, j \in 1..Len(songs') : songs'[i].by = "track" /\ songs'[j].by = "track" /\ i < j
                                     => songs'[i].batch < songs'[j].batch
    BY <1>1, <1>9, <2>1
  <2>4. \A i, j \in 1..Len(songs') : songs'[i].by = "track" /\ songs'[j].by = "keyword" => i < j
    BY <1>1, <1>6, <1>9, <2>1
  <2>5. Len(songs') <= Most /\ \A i \in 1..Len(songs') : songs'[i].by = "track" => i < Enough
    BY <1>1, <1>3, <1>9
  <2> QED  BY <1>3, <2>2, <2>3, <2>4, <2>5 DEF TracksThenTopUps
<1> QED  BY <1>2, <1>7, <1>8, <1>10, <1>11 DEF RecommendInv

LEMMA RecommendInvStep == RecommendInv /\ [Next]_vars => RecommendInv'
<1> SUFFICES ASSUME RecommendInv, [Next]_vars PROVE RecommendInv'
  OBVIOUS
<1>1. CASE PickTrack
  <2>1. CASE UNCHANGED songs
    BY <1>1, <2>1, PassKeepsInv
  <2>2. CASE TakenAs("track") /\ pc = "pickTrack" /\ pc' = "track" /\ found' = <<>>
    BY <2>2, TrackTaken
  <2> QED  BY <1>1, <2>1, <2>2 DEF PickTrack, TakenAs
<1>2. CASE PickKeyword
  <2>1. CASE UNCHANGED songs
    BY <1>2, <2>1, PassKeepsInv
  <2>2. CASE /\ TakenAs("keyword") /\ pc = "pickKeyword" /\ pc' = pc
             /\ found' = Tail(found) /\ ~(Len(songs) >= Most)
    <3>1. Len(songs) \in Nat /\ Most \in Nat
      BY LenProperties, RecommendAssumption DEF RecommendInv, TypeOK
    <3>2. Len(songs) < Most
      BY <2>2, <3>1
    <3> QED  BY <2>2, <3>2, KeywordTaken
  <2> QED  BY <1>2, <2>1, <2>2 DEF PickKeyword, TakenAs
<1>3. CASE SearchTrack \/ SearchKeyword
  BY <1>3, SearchKeepsInv
<1>4. CASE AskModel \/ Hint \/ EndTracks \/ EndKeywords \/ UNCHANGED vars
  BY <1>4, QuietKeepsInv
<1>5. CASE Ask
  BY <1>5, StartKeepsInv
<1>6. CASE SearchRoute
  BY <1>6, RouteKeepsInv
<1> QED  BY <1>1, <1>2, <1>3, <1>4, <1>5, <1>6 DEF Next, Step

LEMMA RecommendIsSafe == Spec => []RecommendInv
  BY RecommendInit, RecommendInvStep, PTL DEF Spec

(* A request is always at a place of the code with an intent, candidates    *)
(* and an answer of their types.                                            *)
THEOREM RecommendTypeCorrect == Spec => []TypeOK
<1>1. RecommendInv => TypeOK
  BY DEF RecommendInv
<1> QED  BY <1>1, RecommendIsSafe, PTL

(* Whatever the searches list and however often, fetchSongsForIntent takes  *)
(* a song once.                                                             *)
THEOREM NoSongIsTakenTwice == Spec => []NoSongTwice
<1>1. RecommendInv => NoSongTwice
  BY DEF RecommendInv
<1> QED  BY <1>1, RecommendIsSafe, PTL

(* For any limits: one song a track, in their order, then top-ups, if there *)
(* were too few, and no more than the limit.                                *)
THEOREM TracksComeFirst == Spec => []TracksThenTopUps
<1>1. RecommendInv => TracksThenTopUps
  BY DEF RecommendInv
<1> QED  BY <1>1, RecommendIsSafe, PTL

(* filterPlayableSongs gives the songs of one search a URL all or none, and *)
(* without URLs lets no song pass that is charged for.                      *)
THEOREM SearchesAreLinkedAllOrNone == Spec => []LinkedAllOrNone
<1>1. RecommendInv => LinkedAllOrNone
  BY DEF RecommendInv
<1> QED  BY <1>1, RecommendIsSafe, PTL
=============================================================================
