---------------------------- MODULE Player_proofs ----------------------------
(***************************************************************************)
(* Proofs about Player.tla for any songs, lists and bounds: as long as the *)
(* calls of a kind do not overlap, the song that plays is where the queue  *)
(* points, and the panel shows its lyric and its heart.                    *)
(***************************************************************************)
EXTENDS Player, TLAPS, SequenceTheorems, WellFoundedInduction

One(s) == [NoCalls EXCEPT ![s] = 1]

(* The only call of these kinds under way is about song s. *)
Alone(s, kinds) ==
  \E k \in kinds : /\ calls[k] = One(s)
                   /\ \A j \in kinds \ {k} : calls[j] = NoCalls

(* Without overlap, the song a URL is waited for, or else the one that      *)
(* plays, is the one the index points at.                                   *)
OneURL ==
  ~mixed["url"] =>
    \/ Quiet(calls, {"url"}) /\ (index # 0 => queue[index].id = current)
    \/ index # 0 /\ Alone(queue[index].id, {"url"})

OneLyric ==
  ~mixed["lyric"] =>
    /\ lyric \in {None, current}
    /\ Quiet(calls, {"lyric"}) \/ (current # None /\ Alone(current, {"lyric"}))

(* A toggle that fails leaves the heart alone, so it has to be right.       *)
OneHeart ==
  ~mixed["heart"] =>
    \/ Quiet(calls, {"check", "toggle"}) /\ heart = current
    \/ /\ current # None /\ Alone(current, {"check", "toggle"})
       /\ calls["toggle"] # NoCalls => heart = current

(* A song plays, or has played, only once the queue has one. *)
Pointed == /\ queue # <<>> => index # 0
           /\ current # None => queue # <<>>
           /\ \A s \in Songs : calls["url"][s] > 0 => queue # <<>>

Parts == {"url", "lyric", "heart"}
Shape == /\ queue \in Seq(Entry) /\ index \in 0..Len(queue)
         /\ {current, lyric, heart} \subseteq Songs \cup {None}
         /\ calls \in [Kinds -> [Songs -> Nat]]
         /\ mixed \in [Parts -> BOOLEAN]
Rest == /\ playable \subseteq Songs /\ mode \in {"order", "single", "random"}
        /\ clicks \in 0..MaxClicks /\ failures \in 0..MaxFailures

PlayerInv == TypeOK /\ Pointed /\ OneURL /\ OneLyric /\ OneHeart

-----------------------------------------------------------------------------
(* A set of numbers that is not empty has a least one. *)
LEMMA LeastNumber ==
  ASSUME NEW T \in SUBSET Nat, T # {}
  PROVE  \E n \in T : \A m \in T : n <= m
<1> DEFINE R == OpToRel(<, Nat)
<1>1. IsWellFoundedOn(R, Nat)
  BY NatLessThanWellFounded
<1>2. \A x \in Nat, y \in Nat : y < x => <<y, x>> \in R
  BY DEF OpToRel
<1> HIDE DEF R
<1>3. PICK x \in T : \A y \in T : ~(<<y, x>> \in R)
  BY <1>1, WFMin
<1>4. ASSUME NEW m \in T PROVE x <= m
  <2>1. ~(m < x)
    BY <1>2, <1>3
  <2> QED BY <2>1
<1> QED BY <1>4

(* findIndex finds the song of a list that is clicked. *)
LEMMA FindIndexFinds ==
  ASSUME NEW list \in Seq(Entry), NEW s, NEW k \in DOMAIN list, list[k].id = s
  PROVE  FindIndex(list, s) \in DOMAIN list /\ list[FindIndex(list, s)].id = s
<1> DEFINE T == {i \in DOMAIN list : list[i].id = s}
<1>1. DOMAIN list = 1..Len(list) /\ Len(list) \in Nat
  BY LenProperties
<1>2. T \in SUBSET Nat /\ T # {}
  BY <1>1
<1>3. \E n \in T : \A m \in T : n <= m
  BY <1>2, LeastNumber
<1>4. \E i \in DOMAIN list :
        list[i].id = s /\ \A j \in DOMAIN list : list[j].id = s => i <= j
  BY <1>3
<1> QED BY <1>4 DEF FindIndex

(* The calls after one more, and after one less. *)
LEMMA CountCalls ==
  ASSUME NEW c \in [Kinds -> [Songs -> Nat]], NEW k \in Kinds, NEW s \in Songs
  PROVE  /\ Call(c, k, s) \in [Kinds -> [Songs -> Nat]]
         /\ \A j \in Kinds \ {k} : Call(c, k, s)[j] = c[j]
         /\ c[k] = NoCalls => Call(c, k, s)[k] = One(s)
BY DEF Call, NoCalls, One

LEMMA CountAnswer ==
  ASSUME NEW c \in [Kinds -> [Songs -> Nat]], NEW k \in Kinds, NEW s \in Songs, c[k][s] > 0
  PROVE  /\ Answered(c, k, s) \in [Kinds -> [Songs -> Nat]]
         /\ \A j \in Kinds \ {k} : Answered(c, k, s)[j] = c[j]
         /\ \A r \in Songs : c[k] = One(r)
                               => r = s /\ Answered(c, k, s)[k] = NoCalls
         /\ c[k] # NoCalls
<1>1. Answered(c, k, s) = [c EXCEPT ![k] = [c[k] EXCEPT ![s] = c[k][s] - 1]]
  BY DEF Answered
<1>2. [c[k] EXCEPT ![s] = c[k][s] - 1] \in [Songs -> Nat]
  OBVIOUS
<1>3. /\ Answered(c, k, s) \in [Kinds -> [Songs -> Nat]]
      /\ \A j \in Kinds \ {k} : Answered(c, k, s)[j] = c[j]
      /\ Answered(c, k, s)[k] = [c[k] EXCEPT ![s] = c[k][s] - 1]
  BY <1>1, <1>2
<1>4. ASSUME NEW r \in Songs, c[k] = One(r)
      PROVE  r = s /\ Answered(c, k, s)[k] = NoCalls
  BY <1>3, <1>4 DEF NoCalls, One
<1>5. c[k] # NoCalls
  BY DEF NoCalls
<1> QED BY <1>3, <1>4, <1>5

-----------------------------------------------------------------------------
(* A song that starts is alone with its lyric and its heart, unless mixed   *)
(* says otherwise; the calls for URLs are left as they are.                 *)
LEMMA Started ==
  ASSUME NEW s \in Songs, NEW c \in [Kinds -> [Songs -> Nat]],
         NEW m \in [Parts -> BOOLEAN], Start(s, c, m)
  PROVE  /\ calls' \in [Kinds -> [Songs -> Nat]] /\ mixed' \in [Parts -> BOOLEAN]
         /\ current' = s /\ lyric' = None /\ heart' = heart
         /\ calls'["url"] = c["url"] /\ mixed'["url"] = m["url"]
         /\ OneLyric' /\ OneHeart'
<1> DEFINE d == Call(c, "lyric", s)
<1>0. "lyric" \in Kinds /\ "check" \in Kinds
  BY DEF Kinds
<1>1. /\ d \in [Kinds -> [Songs -> Nat]]
      /\ \A j \in Kinds \ {"lyric"} : d[j] = c[j]
      /\ c["lyric"] = NoCalls => d["lyric"] = One(s)
  BY <1>0, CountCalls
<1> HIDE DEF d
<1>2. calls' = Call(d, "check", s)
  BY DEF Start, d
<1>3. /\ calls' \in [Kinds -> [Songs -> Nat]]
      /\ \A j \in Kinds \ {"check"} : calls'[j] = d[j]
      /\ d["check"] = NoCalls => calls'["check"] = One(s)
  BY <1>0, <1>1, <1>2, CountCalls
<1>4. /\ mixed' \in [Parts -> BOOLEAN]
      /\ mixed'["url"] = m["url"]
      /\ mixed'["lyric"] = ~Quiet(c, {"lyric"})
      /\ mixed'["heart"] = ~Quiet(c, {"check", "toggle"})
  BY DEF Start, Parts
<1>5. s # None
  BY PlayerAssumption
<1>6. OneLyric'
  <2> SUFFICES ASSUME ~mixed'["lyric"] PROVE Alone(s, {"lyric"})'
    BY <1>5 DEF OneLyric, Start
  <2>1. c["lyric"] = NoCalls
    BY <1>4 DEF Quiet
  <2>2. calls'["lyric"] = One(s)
    BY <2>1, <1>1, <1>3 DEF Kinds
  <2> QED BY <2>2 DEF Alone
<1>7. OneHeart'
  <2> SUFFICES ASSUME ~mixed'["heart"] PROVE Alone(s, {"check", "toggle"})' /\ calls'["toggle"] = NoCalls
    BY <1>5 DEF OneHeart, Start
  <2>1. c["check"] = NoCalls /\ c["toggle"] = NoCalls
    BY <1>4 DEF Quiet
  <2>2. calls'["check"] = One(s) /\ calls'["toggle"] = NoCalls
    BY <2>1, <1>1, <1>3 DEF Kinds
  <2> QED BY <2>2 DEF Alone
<1> QED BY <1>1, <1>3, <1>4, <1>6, <1>7 DEF Start, Kinds

(* Whatever is played, from whatever queue: with a URL in hand it starts,   *)
(* and without one it is the only song whose URL is waited for, unless m    *)
(* says otherwise.                                                          *)
LEMMA Played ==
  ASSUME PlayerInv, NEW e \in Entry, NEW q \in Seq(Entry), NEW i \in 1..Len(q),
         NEW c \in [Kinds -> [Songs -> Nat]], NEW m \in [Parts -> BOOLEAN],
         \A k \in Kinds \ {"url"} : c[k] = calls[k],
         m["lyric"] = mixed["lyric"], m["heart"] = mixed["heart"],
         ~m["url"] => c["url"] = NoCalls /\ q[i].id = e.id,
         PlayMusic(e, q, i, c, m)
  PROVE  Shape' /\ Pointed' /\ OneURL' /\ OneLyric' /\ OneHeart'
<1>1. queue' = q /\ index' = i /\ index' # 0 /\ queue' # <<>> /\ i \in 0..Len(q)
  <2>1. Len(q) \in Nat /\ (q = <<>> => Len(q) = 0)
    BY LenProperties
  <2> QED BY <2>1 DEF PlayMusic
<1>2. e.id \in Songs /\ q[i] \in Entry
  BY ElementOfSeq DEF Entry
<1>3. CASE e.linked
  <2>1. Start(e.id, c, m)
    BY <1>3 DEF PlayMusic
  <2>2. /\ calls' \in [Kinds -> [Songs -> Nat]] /\ mixed' \in [Parts -> BOOLEAN]
        /\ current' = e.id /\ lyric' = None /\ heart' = heart
        /\ calls'["url"] = c["url"] /\ mixed'["url"] = m["url"]
        /\ OneLyric' /\ OneHeart'
    BY <2>1, <1>2, Started
  <2>3. Shape'
    BY <1>1, <1>2, <2>2 DEF Shape, PlayerInv, TypeOK
  <2>4. Pointed'
    BY <1>1 DEF Pointed
  <2>5. OneURL'
    BY <1>1, <2>2 DEF OneURL, Quiet
  <2> QED BY <2>2, <2>3, <2>4, <2>5
<1>4. CASE ~e.linked
  <2>1. calls' = Call(c, "url", e.id) /\ mixed' = m
        /\ current' = current /\ lyric' = lyric /\ heart' = heart
    BY <1>4 DEF PlayMusic, shown
  <2>2. "url" \in Kinds
    BY DEF Kinds
  <2>3. /\ calls' \in [Kinds -> [Songs -> Nat]]
        /\ \A k \in Kinds \ {"url"} : calls'[k] = calls[k]
        /\ c["url"] = NoCalls => calls'["url"] = One(e.id)
    BY <2>1, <2>2, <1>2, CountCalls
  <2>4. Shape'
    BY <1>1, <2>1, <2>3 DEF Shape, PlayerInv, TypeOK
  <2>5. Pointed'
    BY <1>1 DEF Pointed
  <2>6. OneURL'
    BY <1>1, <2>1, <2>3 DEF OneURL, Alone
  <2>7. calls'["lyric"] = calls["lyric"] /\ calls'["check"] = calls["check"]
        /\ calls'["toggle"] = calls["toggle"]
    BY <2>3 DEF Kinds
  <2>8. OneLyric' /\ OneHeart'
    BY <2>1, <2>7 DEF OneLyric, OneHeart, Alone, Quiet, PlayerInv
  <2> QED BY <2>4, <2>5, <2>6, <2>8
<1> QED BY <1>3, <1>4

(* What is selected is where the index points.                              *)
LEMMA Selected ==
  ASSUME PlayerInv, NEW e \in Entry, NEW q \in Seq(Entry), NEW i \in 1..Len(q),
         NEW c \in [Kinds -> [Songs -> Nat]],
         \A k \in Kinds \ {"url"} : c[k] = calls[k],
         q[i].id = e.id, Select(e, q, i, c)
  PROVE  Shape' /\ Pointed' /\ OneURL' /\ OneLyric' /\ OneHeart'
<1> DEFINE m == [mixed EXCEPT !.url = ~Quiet(c, {"url"})]
<1>1. mixed \in [Parts -> BOOLEAN]
  BY DEF PlayerInv, TypeOK, Parts
<1>2. /\ m \in [Parts -> BOOLEAN]
      /\ m["lyric"] = mixed["lyric"] /\ m["heart"] = mixed["heart"]
      /\ ~m["url"] => c["url"] = NoCalls
  BY <1>1 DEF Parts, Quiet
<1>3. PlayMusic(e, q, i, c, m)
  BY DEF Select
<1> HIDE DEF m
<1> QED BY <1>2, <1>3, Played

(* playNext stays in the queue, which has a song. *)
LEMMA PlayedNext ==
  ASSUME PlayerInv, queue # <<>>, NEW c \in [Kinds -> [Songs -> Nat]],
         \A k \in Kinds \ {"url"} : c[k] = calls[k],
         PlayNext(c)
  PROVE  Shape' /\ Pointed' /\ OneURL' /\ OneLyric' /\ OneHeart'
<1>1. queue \in Seq(Entry) /\ index \in 0..Len(queue)
  BY DEF PlayerInv, TypeOK
<1>2. Len(queue) \in Nat \ {0} /\ DOMAIN queue = 1..Len(queue)
  BY <1>1, EmptySeq, LenProperties
<1>3. NextIndex(index) \in DOMAIN queue
  BY <1>1, <1>2 DEF NextIndex
<1>4. PICK i \in DOMAIN queue : Select(queue[i], queue, i, c)
  BY <1>3 DEF PlayNext
<1>5. queue[i] \in Entry
  BY <1>1, <1>2, ElementOfSeq
<1> QED BY <1>1, <1>2, <1>4, <1>5, Selected

-----------------------------------------------------------------------------
(* The invariant is its parts, before a step and after it. *)
LEMMA Arranged ==
  /\ PlayerInv <=> Shape /\ Rest /\ Pointed /\ OneURL /\ OneLyric /\ OneHeart
  /\ PlayerInv' <=> Shape' /\ Rest' /\ Pointed' /\ OneURL' /\ OneLyric' /\ OneHeart'
BY DEF PlayerInv, TypeOK, Shape, Rest, Parts

LEMMA PlayerInitInv == Init => PlayerInv
<1> SUFFICES ASSUME Init PROVE PlayerInv
  OBVIOUS
<1>1. Shape
  BY EmptySeq DEF Init, Shape, NoCalls, Parts
<1>2. Rest
  BY PlayerAssumption DEF Init, Rest
<1>3. Pointed
  <2>1. \A s \in Songs : ~(calls["url"][s] > 0)
    BY DEF Init, NoCalls, Kinds
  <2> QED BY <2>1 DEF Init, Pointed
<1>4. OneURL /\ OneLyric /\ OneHeart
  <2>1. \A k \in Kinds : calls[k] = NoCalls
    BY DEF Init
  <2> QED BY <2>1 DEF Init, OneURL, OneLyric, OneHeart, Quiet, Kinds
<1> QED BY <1>1, <1>2, <1>3, <1>4, Arranged

(* What changes none of the state the invariant is about, the counters and  *)
(* the mode apart, keeps it.                                                *)
LEMMA Idle ==
  ASSUME PlayerInv, UNCHANGED <<queue, index, shown, calls, mixed>>, Rest'
  PROVE  PlayerInv'
BY Arranged DEF shown, Shape, Pointed, OneURL, OneLyric, OneHeart, Alone, Quiet

LEMMA ClicksKeepRest ==
  ASSUME PlayerInv, Click, UNCHANGED <<playable, mode, failures>>
  PROVE  Rest'
BY PlayerAssumption DEF Click, PlayerInv, TypeOK, Rest

LEMMA FailuresKeepRest ==
  ASSUME PlayerInv, UNCHANGED failures \/ Failure, UNCHANGED <<playable, mode, clicks>>
  PROVE  Rest'
BY PlayerAssumption DEF Failure, PlayerInv, TypeOK, Rest

LEMMA ListPlayed ==
  ASSUME PlayerInv, NEW l \in Lists, NEW k \in DOMAIN l, PlayFromList(l, k)
  PROVE  PlayerInv'
<1> DEFINE f == FindIndex(l, l[k].id)
<1>1. l \in Seq(Entry) /\ DOMAIN l = 1..Len(l) /\ l[k] \in Entry
  BY PlayerAssumption, LenProperties, ElementOfSeq
<1>2. f \in 1..Len(l) /\ l[f].id = l[k].id
  BY <1>1, FindIndexFinds
<1>3. Select(l[k], l, f, calls)
  BY DEF PlayFromList
<1>4. Rest'
  BY ClicksKeepRest DEF PlayFromList
<1>5. calls \in [Kinds -> [Songs -> Nat]]
  BY DEF PlayerInv, TypeOK
<1> HIDE DEF f
<1>6. Shape' /\ Pointed' /\ OneURL' /\ OneLyric' /\ OneHeart'
  BY <1>1, <1>2, <1>3, <1>5, Selected
<1> QED BY <1>4, <1>6, Arranged

LEMMA NextClicked ==
  ASSUME PlayerInv, ClickNext
  PROVE  PlayerInv'
<1>1. Rest'
  BY ClicksKeepRest DEF ClickNext
<1>2. CASE queue = <<>>
  BY <1>1, <1>2, Idle DEF ClickNext, PlayNext
<1>3. CASE queue # <<>>
  <2>1. calls \in [Kinds -> [Songs -> Nat]]
    BY DEF PlayerInv, TypeOK
  <2> QED BY <1>1, <1>3, <2>1, PlayedNext, Arranged DEF ClickNext
<1> QED BY <1>2, <1>3

LEMMA PrevPlayed ==
  ASSUME PlayerInv, PlayPrev
  PROVE  PlayerInv'
<1> DEFINE i == PrevIndex(index)
<1>1. queue \in Seq(Entry) /\ index \in 0..Len(queue)
      /\ calls \in [Kinds -> [Songs -> Nat]]
  BY DEF PlayerInv, TypeOK
<1>2. Len(queue) \in Nat \ {0}
  BY <1>1, EmptySeq, LenProperties DEF PlayPrev
<1>3. i \in 1..Len(queue)
  BY <1>1, <1>2 DEF PrevIndex
<1>4. Select(queue[i], queue, i, calls)
  BY DEF PlayPrev
<1>5. queue[i] \in Entry
  BY <1>1, <1>3, ElementOfSeq
<1>6. Rest'
  BY ClicksKeepRest DEF PlayPrev
<1> HIDE DEF i
<1> QED BY <1>1, <1>3, <1>4, <1>5, <1>6, Selected, Arranged

LEMMA QualityChanged ==
  ASSUME PlayerInv, ChangeSoundQuality
  PROVE  PlayerInv'
<1> DEFINE e == [id |-> current, linked |-> FALSE]
           there == \E i \in DOMAIN queue : queue[i].id = current
           q == IF there THEN queue ELSE Append(queue, e)
           i == IF there THEN index ELSE Len(q)
           m == [mixed EXCEPT !.url = @ \/ ~Quiet(calls, {"url"})]
<1>1. queue \in Seq(Entry) /\ index \in 0..Len(queue)
      /\ calls \in [Kinds -> [Songs -> Nat]] /\ mixed \in [Parts -> BOOLEAN]
      /\ current \in Songs /\ queue # <<>> /\ index # 0
  BY DEF PlayerInv, TypeOK, ChangeSoundQuality, Pointed, Parts
<1>2. e \in Entry /\ e.id = current /\ ~e.linked
  BY <1>1 DEF Entry
<1>3. /\ m \in [Parts -> BOOLEAN]
      /\ m["lyric"] = mixed["lyric"] /\ m["heart"] = mixed["heart"]
      /\ ~m["url"] => ~mixed["url"] /\ calls["url"] = NoCalls
  BY <1>1 DEF Parts, Quiet
<1>4. PlayMusic(e, q, i, calls, m)
  BY DEF ChangeSoundQuality
<1>5. Rest'
  BY ClicksKeepRest DEF ChangeSoundQuality
<1>6. ~m["url"] => queue[index].id = current
  <2>1. "url" \in Kinds /\ \A s \in Songs : NoCalls # One(s)
    BY DEF Kinds, NoCalls, One
  <2>2. queue[index] \in Entry
    BY <1>1, LenProperties, ElementOfSeq
  <2> QED BY <1>1, <1>3, <2>1, <2>2 DEF PlayerInv, OneURL, Alone, Entry
<1>7. q \in Seq(Entry) /\ i \in 1..Len(q) /\ (~m["url"] => q[i].id = e.id)
  <2>1. CASE there
    BY <1>1, <1>2, <1>6, <2>1, LenProperties
  <2>2. CASE ~there
    <3>1. q = Append(queue, e) /\ i = Len(q)
      BY <2>2
    <3>2. q \in Seq(Entry) /\ Len(q) = Len(queue) + 1 /\ q[Len(queue) + 1] = e
      BY <1>1, <1>2, <3>1, AppendProperties
    <3> QED BY <1>1, <3>1, <3>2, LenProperties
  <2> QED BY <2>1, <2>2
<1> HIDE DEF e, q, i, m
<1>8. Shape' /\ Pointed' /\ OneURL' /\ OneLyric' /\ OneHeart'
  BY <1>1, <1>2, <1>3, <1>4, <1>7, Played
<1> QED BY <1>5, <1>8, Arranged

(* A call that is not for a URL leaves the queue and its song as they are.  *)
LEMMA QueueLeft ==
  ASSUME PlayerInv, UNCHANGED <<queue, index, current>>,
         calls'["url"] = calls["url"], mixed'["url"] = mixed["url"]
  PROVE  Pointed' /\ OneURL'
BY DEF PlayerInv, Pointed, OneURL, Alone, Quiet

LEMMA LyricLeft ==
  ASSUME PlayerInv, UNCHANGED <<lyric, current>>,
         calls'["lyric"] = calls["lyric"], mixed'["lyric"] = mixed["lyric"]
  PROVE  OneLyric'
BY DEF PlayerInv, OneLyric, Alone, Quiet

LEMMA HeartLeft ==
  ASSUME PlayerInv, UNCHANGED <<heart, current>>,
         calls'["check"] = calls["check"], calls'["toggle"] = calls["toggle"],
         mixed'["heart"] = mixed["heart"]
  PROVE  OneHeart'
BY DEF PlayerInv, OneHeart, Alone, Quiet

LEMMA LikeSent ==
  ASSUME PlayerInv, Like
  PROVE  PlayerInv'
<1>1. /\ calls \in [Kinds -> [Songs -> Nat]] /\ mixed \in [Parts -> BOOLEAN]
      /\ current \in Songs /\ "toggle" \in Kinds
  BY DEF PlayerInv, TypeOK, Like, Parts, Kinds
<1>2. UNCHANGED <<queue, index, mode, current, lyric, heart>>
  BY DEF Like, shown
<1>3. /\ calls' \in [Kinds -> [Songs -> Nat]]
      /\ \A k \in Kinds \ {"toggle"} : calls'[k] = calls[k]
      /\ calls["toggle"] = NoCalls => calls'["toggle"] = One(current)
  BY <1>1, CountCalls DEF Like
<1>4. calls'["url"] = calls["url"] /\ calls'["lyric"] = calls["lyric"]
      /\ calls'["check"] = calls["check"]
  BY <1>3 DEF Kinds
<1>5. /\ mixed' \in [Parts -> BOOLEAN]
      /\ mixed'["url"] = mixed["url"] /\ mixed'["lyric"] = mixed["lyric"]
      /\ ~mixed'["heart"] => ~mixed["heart"] /\ calls["check"] = NoCalls
                                            /\ calls["toggle"] = NoCalls
  BY <1>1 DEF Like, Parts, Quiet
<1>6. Shape' /\ Rest'
  <2>1. Rest'
    BY ClicksKeepRest DEF Like
  <2> QED BY <1>2, <1>3, <1>5, <2>1 DEF Shape, PlayerInv, TypeOK
<1>7. Pointed' /\ OneURL' /\ OneLyric'
  BY <1>2, <1>4, <1>5, QueueLeft, LyricLeft
<1>8. OneHeart'
  <2> SUFFICES ASSUME ~mixed'["heart"]
               PROVE  /\ current # None /\ Alone(current, {"check", "toggle"})'
                      /\ heart = current
    BY <1>2 DEF OneHeart
  <2>1. calls'["toggle"] = One(current) /\ calls'["check"] = NoCalls
    BY <1>3, <1>4, <1>5
  <2>2. heart = current
    <3>1. "toggle" \in Kinds /\ "check" \in Kinds /\ \A s \in Songs : NoCalls # One(s)
      BY DEF Kinds, NoCalls, One
    <3> QED BY <1>1, <1>5, <3>1 DEF PlayerInv, OneHeart, Alone
  <2>3. Alone(current, {"check", "toggle"})'
    BY <1>2, <2>1 DEF Alone
  <2> QED BY <2>2, <2>3 DEF Like
<1> QED BY <1>6, <1>7, <1>8, Arranged

LEMMA UrlAnswered ==
  ASSUME PlayerInv, NEW s \in Songs, UrlAnswer(s)
  PROVE  PlayerInv'
<1> DEFINE c == Answered(calls, "url", s)
<1>1. /\ calls \in [Kinds -> [Songs -> Nat]] /\ mixed \in [Parts -> BOOLEAN]
      /\ queue \in Seq(Entry) /\ index \in 0..Len(queue) /\ "url" \in Kinds
      /\ calls["url"][s] > 0 /\ queue # <<>> /\ index # 0
  BY DEF PlayerInv, TypeOK, UrlAnswer, Pointed, Parts, Kinds
<1>2. /\ c \in [Kinds -> [Songs -> Nat]]
      /\ \A k \in Kinds \ {"url"} : c[k] = calls[k]
      /\ \A r \in Songs : calls["url"] = One(r) => r = s /\ c["url"] = NoCalls
      /\ calls["url"] # NoCalls
  BY <1>1, CountAnswer
<1>3. Rest'
  <2>1. UNCHANGED failures \/ Failure
    BY DEF UrlAnswer
  <2> QED BY <2>1, FailuresKeepRest DEF UrlAnswer
<1>4. CASE PlayNext(c)
  <2> HIDE DEF c
  <2>1. Shape' /\ Pointed' /\ OneURL' /\ OneLyric' /\ OneHeart'
    BY <1>1, <1>2, <1>4, PlayedNext
  <2> QED BY <1>3, <2>1, Arranged
<1>5. CASE Start(s, c, mixed) /\ UNCHANGED <<queue, index>>
  <2> HIDE DEF c
  <2>1. /\ calls' \in [Kinds -> [Songs -> Nat]] /\ mixed' \in [Parts -> BOOLEAN]
        /\ current' = s /\ lyric' = None /\ heart' = heart
        /\ calls'["url"] = c["url"] /\ mixed'["url"] = mixed["url"]
        /\ OneLyric' /\ OneHeart'
    BY <1>1, <1>2, <1>5, Started
  <2>2. Shape'
    BY <1>1, <1>5, <2>1 DEF Shape, PlayerInv, TypeOK
  <2>3. Pointed'
    BY <1>1, <1>5 DEF Pointed
  <2>4. OneURL'
    <3> SUFFICES ASSUME ~mixed["url"]
                 PROVE  c["url"] = NoCalls /\ queue[index].id = s
      BY <1>5, <2>1 DEF OneURL, Quiet
    <3>1. queue[index] \in Entry
      BY <1>1, LenProperties, ElementOfSeq
    <3>2. calls["url"] = One(queue[index].id)
      BY <1>2 DEF PlayerInv, OneURL, Quiet, Alone
    <3>3. queue[index].id \in Songs
      BY <3>1 DEF Entry
    <3> QED BY <1>2, <3>2, <3>3
  <2> QED BY <1>3, <2>1, <2>2, <2>3, <2>4, Arranged
<1> QED BY <1>4, <1>5 DEF UrlAnswer

LEMMA LyricAnswered ==
  ASSUME PlayerInv, NEW s \in Songs, LyricAnswer(s)
  PROVE  PlayerInv'
<1>1. /\ calls \in [Kinds -> [Songs -> Nat]] /\ calls["lyric"][s] > 0
      /\ "lyric" \in Kinds /\ current \in Songs \cup {None}
  BY DEF PlayerInv, TypeOK, LyricAnswer, Kinds
<1>2. /\ calls' \in [Kinds -> [Songs -> Nat]]
      /\ \A k \in Kinds \ {"lyric"} : calls'[k] = calls[k]
      /\ \A r \in Songs : calls["lyric"] = One(r) => r = s /\ calls'["lyric"] = NoCalls
      /\ calls["lyric"] # NoCalls
  BY <1>1, CountAnswer DEF LyricAnswer
<1>3. calls'["url"] = calls["url"] /\ calls'["check"] = calls["check"]
      /\ calls'["toggle"] = calls["toggle"]
  BY <1>2 DEF Kinds
<1>4. UNCHANGED <<queue, index, current, heart, mixed>> /\ lyric' \in {s, None}
  BY DEF LyricAnswer
<1>5. Rest'
  <2>1. UNCHANGED failures \/ Failure
    BY DEF LyricAnswer
  <2> QED BY <2>1, FailuresKeepRest DEF LyricAnswer
<1>6. Shape'
  BY <1>2, <1>4 DEF Shape, PlayerInv, TypeOK, Parts
<1>7. Pointed' /\ OneURL' /\ OneHeart'
  BY <1>3, <1>4, QueueLeft, HeartLeft
<1>8. OneLyric'
  <2> SUFFICES ASSUME ~mixed["lyric"]
               PROVE  lyric' \in {None, current} /\ calls'["lyric"] = NoCalls
    BY <1>4 DEF OneLyric, Quiet
  <2>1. current # None /\ calls["lyric"] = One(current)
    BY <1>2 DEF PlayerInv, OneLyric, Quiet, Alone
  <2> QED BY <1>1, <1>2, <1>4, <2>1
<1> QED BY <1>5, <1>6, <1>7, <1>8, Arranged

(* An answer about the heart, to a check or a toggle.                       *)
LEMMA HeartAnswered ==
  ASSUME PlayerInv, NEW s \in Songs, CheckAnswer(s) \/ ToggleAnswer(s)
  PROVE  PlayerInv'
<1> DEFINE K == {"check", "toggle"}
<1>1. /\ calls \in [Kinds -> [Songs -> Nat]] /\ current \in Songs \cup {None}
      /\ K \subseteq Kinds
  BY DEF PlayerInv, TypeOK, Kinds
<1>2. PICK k \in K : calls[k][s] > 0 /\ calls' = Answered(calls, k, s)
  BY DEF CheckAnswer, ToggleAnswer
<1>3. /\ calls' \in [Kinds -> [Songs -> Nat]]
      /\ \A j \in Kinds \ {k} : calls'[j] = calls[j]
      /\ \A r \in Songs : calls[k] = One(r) => r = s /\ calls'[k] = NoCalls
      /\ calls[k] # NoCalls
  BY <1>1, <1>2, CountAnswer
<1>4. calls'["url"] = calls["url"] /\ calls'["lyric"] = calls["lyric"]
  BY <1>3 DEF Kinds
<1>5. /\ UNCHANGED <<queue, index, current, lyric, mixed>>
      /\ heart' = s \/ (heart' = heart /\ ToggleAnswer(s))
  BY DEF CheckAnswer, ToggleAnswer
<1>6. Rest'
  <2>1. UNCHANGED failures \/ Failure
    BY DEF CheckAnswer, ToggleAnswer
  <2> QED BY <2>1, FailuresKeepRest DEF CheckAnswer, ToggleAnswer
<1>7. Shape'
  BY <1>3, <1>5 DEF Shape, PlayerInv, TypeOK, Parts
<1>8. Pointed' /\ OneURL' /\ OneLyric'
  BY <1>4, <1>5, QueueLeft, LyricLeft
<1>9. OneHeart'
  <2> SUFFICES ASSUME ~mixed["heart"]
               PROVE  heart' = current /\ \A j \in K : calls'[j] = NoCalls
    BY <1>5 DEF OneHeart, Quiet
  <2>1. current # None /\ Alone(current, K) /\ (calls["toggle"] # NoCalls => heart = current)
    BY <1>3 DEF PlayerInv, OneHeart, Quiet
  <2>2. calls[k] = One(current) /\ \A j \in K \ {k} : calls[j] = NoCalls
    BY <1>3, <2>1 DEF Alone
  <2>3. s = current /\ \A j \in K : calls'[j] = NoCalls
    BY <1>1, <1>3, <2>1, <2>2
  <2>4. ASSUME ToggleAnswer(s) PROVE calls["toggle"] # NoCalls
    BY <1>1, <2>4, CountAnswer DEF ToggleAnswer
  <2> QED BY <1>5, <2>1, <2>3, <2>4
<1> QED BY <1>6, <1>7, <1>8, <1>9, Arranged

LEMMA ModeToggled ==
  ASSUME PlayerInv, TogglePlayMode
  PROVE  PlayerInv'
<1>1. Rest'
  BY PlayerAssumption DEF TogglePlayMode, Click, PlayerInv, TypeOK, Rest
<1> QED BY <1>1, Idle DEF TogglePlayMode

LEMMA PlayerStepInv == PlayerInv /\ [Next]_vars => PlayerInv'
<1> SUFFICES ASSUME PlayerInv, [Next]_vars PROVE PlayerInv'
  OBVIOUS
<1>1. ASSUME NEW l \in Lists, NEW k \in DOMAIN l, PlayFromList(l, k) PROVE PlayerInv'
  BY <1>1, ListPlayed
<1>2. CASE ClickNext \/ Ended
  BY <1>2, NextClicked DEF Ended
<1>3. CASE PlayPrev
  BY <1>3, PrevPlayed
<1>4. CASE TogglePlayMode
  BY <1>4, ModeToggled
<1>5. CASE ChangeSoundQuality
  BY <1>5, QualityChanged
<1>6. CASE Like
  BY <1>6, LikeSent
<1>7. ASSUME NEW s \in Songs, Answers(s) PROVE PlayerInv'
  BY <1>7, UrlAnswered, LyricAnswered, HeartAnswered DEF Answers
<1>8. CASE UNCHANGED vars
  <2>1. Rest'
    BY <1>8 DEF vars, PlayerInv, TypeOK, Rest
  <2> QED BY <1>8, <2>1, Idle DEF vars
<1> QED BY <1>1, <1>2, <1>3, <1>4, <1>5, <1>6, <1>7, <1>8 DEF Next

LEMMA PlayerInvariant == Spec => []PlayerInv
BY PlayerInitInv, PlayerStepInv, PTL DEF Spec

-----------------------------------------------------------------------------
(* The state of the player has its types: the index is in the queue. *)
THEOREM PlayerTypeCorrect == Spec => []TypeOK
<1>1. PlayerInv => TypeOK
  BY DEF PlayerInv
<1> QED BY <1>1, PlayerInvariant, PTL

(* playMusic, playNext and the answers for URLs: once none is waited for,   *)
(* the song that plays is the one the queue points at, as long as the calls *)
(* for URLs did not overlap.                                                *)
THEOREM PlayerPlaysWhereItPoints == Spec => []PlaysWhereItPoints
<1>1. PlayerInv => PlaysWhereItPoints
  <2> SUFFICES ASSUME PlayerInv, Quiet(calls, {"url"}), ~mixed["url"], index # 0
               PROVE  queue[index].id = current
    BY DEF PlaysWhereItPoints
  <2>1. \A r \in Songs : NoCalls # One(r)
    BY DEF NoCalls, One
  <2>2. queue[index] \in Entry
    BY LenProperties, ElementOfSeq DEF PlayerInv, TypeOK
  <2> QED BY <2>1, <2>2 DEF PlayerInv, OneURL, Quiet, Alone, Entry
<1> QED BY <1>1, PlayerInvariant, PTL

(* loadLyric, checkFavoriteState and toggleCurrentFavorite: the panel shows *)
(* the lyric and the heart of the song that plays, as long as the calls of  *)
(* each kind did not overlap.                                               *)
THEOREM PlayerPanelFollows == Spec => []PanelFollows
<1>1. PlayerInv => PanelFollows
  <2> SUFFICES ASSUME PlayerInv PROVE PanelFollows
    OBVIOUS
  <2>1. \A r \in Songs : NoCalls # One(r)
    BY DEF NoCalls, One
  <2>2. current \in Songs \cup {None}
    BY DEF PlayerInv, TypeOK
  <2> QED BY <2>1, <2>2 DEF PlayerInv, OneLyric, OneHeart, PanelFollows, Quiet, Alone
<1> QED BY <1>1, PlayerInvariant, PTL
=============================================================================
