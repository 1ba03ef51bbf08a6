---------------------------- MODULE Lyric_proofs ----------------------------
(***************************************************************************)
(* Proofs about Lyric.tla, for any number of threads, any songs and any    *)
(* capacity of the LRU tier: the cache stays coherent under concurrent     *)
(* requests and restarts, what it holds is also in the table, and the two  *)
(* tiers agree.  They rest on the proofs of the LRU cache itself.          *)
(***************************************************************************)
EXTENDS Lyric, LRUCache_proofs

(* What thread t carries from one access of a tier to the next: a text only *)
(* from a row, which stays; a JSON answer only after a read of the table    *)
(* that gave no text, and past the save only with a row or a failed save.   *)
Carries(t) ==
  /\ pc[t] \in {"fill", "save", "put"} => lyric[t] \in Values
  /\ pc[t] \in {"db", "fill", "save"} => song[t] \in Numbered
  /\ pc[t] = "fill" => lyric[t].form = "text" /\ rows[Row(t)] # NoRow
  /\ pc[t] \in {"save", "put"} => lyric[t].form = "json"
  /\ pc[t] = "put" /\ song[t] \in Numbered => rows[Row(t)] # NoRow \/ Row(t) \in saveFailed
  /\ pc[t] # "fill" => rowRead[t] \notin {"whole", "cut"}

(* Of a row that no two threads looked for at once, at most one thread is   *)
(* under way; a lyric it is about to cache is the row's, and when it got no *)
(* text from the row, no id of the row is cached (or that is on record).    *)
LoneAt(n) ==
  /\ \A t, u \in Missing(n) : t = u
  /\ \A t \in Missing(n) :
       /\ pc[t] \in {"api", "fallback", "save"} /\ n \notin overlooked => CachedIds(n) = {}
       /\ pc[t] = "fill" => lyric[t].part = rows[n]
       /\ pc[t] = "put" /\ n \notin saveFailed => lyric[t].part = rows[n]
LoneMiss == \A n \in Numbers \ overlapped : LoneAt(n)

LyricInv == /\ TypeOK /\ MapMatchesList
            /\ \A t \in Threads : Carries(t)
            /\ CachedIsStored /\ LoneMiss /\ TiersAgree

-----------------------------------------------------------------------------
(* An id has a row exactly when it has a number. *)
LEMMA NumberedRow == \A s \in Songs : s \in Numbered <=> Stoll[s] \in Numbers
BY DEF Numbered, Numbers

(* The LRU tier of Lyric is used through the operations of LRUCache only.   *)
LEMMA LyricUsesLRU ==
  ASSUME LyricInv, [Next]_vars
  PROVE  LRUInv /\ [LRUNext]_lruVars
<1>1. LRUInv /\ song \in [Threads -> Songs]
  BY DEF LyricInv, TypeOK, LRUInv
<1> SUFFICES [LRUNext]_lruVars
  BY <1>1
<1>2. ASSUME NEW t \in Threads, Step(t) PROVE [LRUNext]_lruVars
  <2>1. song[t] \in Keys
    BY <1>1, LyricAssumption
  <2>2. CASE LookupLRU(t)
    BY <2>1, <2>2 DEF LookupLRU, LRUNext
  <2>3. CASE Fill(t) \/ PutLyric(t)
    <3>1. lyric[t] \in Values
      BY <2>3 DEF Fill, PutLyric, LyricInv, Carries
    <3> QED BY <2>1, <2>3, <3>1 DEF Fill, PutLyric, LRUNext
  <2>4. CASE LookupDb(t) \/ AskApi(t) \/ Save(t)
    BY <2>4 DEF LookupDb, AskApi, Save
  <2> QED BY <1>2, <2>2, <2>3, <2>4 DEF Step
<1>3. ASSUME NEW t \in Threads, NEW s \in Songs, Ask(t, s) PROVE [LRUNext]_lruVars
  BY <1>3 DEF Ask
<1>4. CASE Restart
  BY <1>4 DEF Restart, LRUNext, Clear
<1>5. CASE UNCHANGED vars
  BY <1>5 DEF vars
<1> QED BY <1>1, <1>2, <1>3, <1>4, <1>5 DEF Next

(* What a thread carries stays good while others act: rows with a text or   *)
(* without one stay, and a save that failed stays so.                       *)
LEMMA OthersCarry ==
  ASSUME LyricInv, NEW t \in Threads,
         \A u \in Threads \ {t} : /\ pc'[u] = pc[u] /\ song'[u] = song[u]
                                  /\ lyric'[u] = lyric[u] /\ rowRead'[u] = rowRead[u],
         \A n \in Numbers : rows[n] # NoRow => rows'[n] # NoRow,
         saveFailed \subseteq saveFailed',
         Carries(t)'
  PROVE  \A u \in Threads : Carries(u)'
<1>1. ASSUME NEW u \in Threads \ {t} PROVE Carries(u)'
  <2>1. Carries(u) /\ song[u] \in Songs
    BY DEF LyricInv, TypeOK
  <2>2. Row(u)' = Row(u) /\ (song[u] \in Numbered <=> Row(u) \in Numbers)
    BY <2>1, NumberedRow DEF Row
  <2>3. pc[u] = "fill" => song[u] \in Numbered
    BY <2>1 DEF Carries
  <2> QED BY <2>1, <2>2, <2>3 DEF Carries
<1> QED BY <1>1

(* A step that changes no cached value, and of the rows only what no cached *)
(* id of a row that is sure to agree depends on.                            *)
LEMMA CacheKept ==
  ASSUME LyricInv, ListKeys' = ListKeys, \A s \in ListKeys : ValueOf(s)' = ValueOf(s),
         \A n \in Numbers : rows[n] # NoRow => rows'[n] # NoRow,
         saveFailed \subseteq saveFailed', MayDiffer \subseteq MayDiffer',
         \A n \in Numbers \ MayDiffer' : CachedIds(n) # {} => rows'[n] = rows[n]
  PROVE  CachedIsStored' /\ TiersAgree'
<1>1. ASSUME NEW s \in ListKeys' \cap Numbered
      PROVE  /\ rows'[Stoll[s]] # NoRow
                \/ (Stoll[s] \in saveFailed' /\ ValueOf(s)'.form = "json")
             /\ Stoll[s] \notin MayDiffer' => ValueOf(s)'.part = rows'[Stoll[s]]
  <2> DEFINE n == Stoll[s]
  <2>1. s \in ListKeys /\ s \in Songs /\ n \in Numbers /\ ValueOf(s)' = ValueOf(s)
    BY <1>1, NumberedRow DEF Numbered
  <2>2. rows[n] # NoRow \/ (n \in saveFailed /\ ValueOf(s).form = "json")
    BY <1>1, <2>1 DEF LyricInv, CachedIsStored
  <2>3. n \notin MayDiffer => ValueOf(s).part = rows[n]
    BY <1>1, <2>1 DEF LyricInv, TiersAgree
  <2>4. s \in CachedIds(n)
    BY <2>1 DEF CachedIds
  <2> HIDE DEF n
  <2>5. rows'[n] # NoRow \/ (n \in saveFailed' /\ ValueOf(s)'.form = "json")
    BY <2>1, <2>2
  <2>6. n \notin MayDiffer' => ValueOf(s)'.part = rows'[n]
    BY <2>1, <2>3, <2>4
  <2> QED BY <2>5, <2>6 DEF n
<1> QED BY <1>1 DEF CachedIsStored, TiersAgree

(* A step that leaves both tiers, what they hold and what is known of it    *)
(* alone.                                                                   *)
LEMMA TiersUntouched ==
  ASSUME LyricInv, UNCHANGED <<list, rows, saveFailed, overlapped>>,
         overlooked \subseteq overlooked'
  PROVE  /\ CachedIsStored' /\ TiersAgree'
         /\ \A n : CachedIds(n)' = CachedIds(n)
<1>1. ListKeys' = ListKeys /\ \A s : ValueOf(s)' = ValueOf(s)
  BY DEF ListKeys, ValueOf, Pos
<1>2. MayDiffer \subseteq MayDiffer'
  BY DEF MayDiffer
<1>3. CachedIsStored' /\ TiersAgree'
  BY <1>1, <1>2, CacheKept
<1> QED BY <1>1, <1>3 DEF CachedIds

(* One lemma for each step of getSongLyric. *)
LEMMA AskStep == ASSUME LyricInv, NEW t \in Threads, NEW s \in Songs, Ask(t, s) PROVE LyricInv'
<1>1. LRUInv' /\ TypeOK
  BY LyricUsesLRU, LRUStep DEF Next, LyricInv
<1>2. TypeOK'
  BY <1>1 DEF Ask, Goto, Carry, TypeOK, LRUInv, Steps, history
<1>3. /\ pc[t] = "idle" /\ pc'[t] = "lru" /\ rowRead' = rowRead
      /\ \A u \in Threads \ {t} : /\ pc'[u] = pc[u] /\ song'[u] = song[u]
                                  /\ lyric'[u] = lyric[u]
      /\ UNCHANGED <<list, map, rows, saveFailed, overlapped, overlooked>>
  BY <1>1 DEF Ask, Goto, Carry, TypeOK, lruVars, history
<1>4. Carries(t)'
  BY <1>3 DEF LyricInv, Carries
<1>5. \A u \in Threads : Carries(u)'
  BY <1>3, <1>4, OthersCarry
<1>6. CachedIsStored' /\ TiersAgree' /\ \A n : CachedIds(n)' = CachedIds(n)
  BY <1>3, TiersUntouched
<1>7. \A n : Missing(n)' = Missing(n) /\ t \notin Missing(n)
  BY <1>3 DEF Missing, Row
<1>8. LoneMiss'
  <2> SUFFICES ASSUME NEW n \in Numbers \ overlapped PROVE LoneAt(n)'
    BY <1>3 DEF LoneMiss
  <2>1. LoneAt(n) /\ \A u \in Missing(n) : pc'[u] = pc[u] /\ lyric'[u] = lyric[u]
    BY <1>3, <1>7 DEF LyricInv, LoneMiss, Missing
  <2> QED BY <1>3, <1>6, <1>7, <2>1 DEF LoneAt
<1> QED BY <1>1, <1>2, <1>5, <1>6, <1>8 DEF LyricInv, LRUInv

LEMMA LookupLRUStep == ASSUME LyricInv, NEW t \in Threads, LookupLRU(t) PROVE LyricInv'
<1> DEFINE s == song[t]
<1>1. LRUInv /\ LRUInv' /\ TypeOK /\ s \in Songs
  BY LyricUsesLRU, LRUStep DEF Next, Step, LyricInv, TypeOK
<1>2. /\ ListKeys' = ListKeys /\ map' = map
      /\ \A j \in ListKeys : ValueOf(j)' = ValueOf(j)
  BY <1>1, LyricAssumption, GetContents DEF LookupLRU
<1>3. /\ pc[t] = "lru" /\ UNCHANGED <<song, rows, saveFailed, overlooked>>
      /\ \A u \in Threads \ {t} : /\ pc'[u] = pc[u] /\ lyric'[u] = lyric[u]
                                  /\ rowRead'[u] = rowRead[u]
      /\ overlapped \subseteq overlapped'
  BY <1>1 DEF LookupLRU, Answer, Goto, Carry, TypeOK
<1>4. MayDiffer \subseteq MayDiffer' /\ \A n : CachedIds(n)' = CachedIds(n)
  BY <1>2, <1>3 DEF MayDiffer, CachedIds
<1>5. CachedIsStored' /\ TiersAgree'
  BY <1>2, <1>3, <1>4, CacheKept
<1>6. ASSUME NEW n \in Numbers \ overlapped, Missing(n)' = Missing(n)
      PROVE  LoneAt(n)'
  <2>1. LoneAt(n) /\ \A u \in Missing(n) : pc'[u] = pc[u] /\ lyric'[u] = lyric[u]
    BY <1>3 DEF LyricInv, LoneMiss, Missing
  <2> QED BY <1>3, <1>4, <1>6, <2>1 DEF LoneAt
<1>7. CASE Find(s) /\ Answer(t, "lru") /\ Carry(t, ValueOf(s)) /\ UNCHANGED overlapped
  <2>1. s \in ListKeys /\ ValueOf(s) \in Values
    BY <1>1, <1>7, CachedValue DEF Find, LRUInv, MapMatchesList
  <2>2. TypeOK'
    BY <1>1, <1>3, <1>7, <2>1 DEF Answer, Goto, Carry, TypeOK, LRUInv, Steps
  <2>3. pc'[t] = "idle" /\ rowRead'[t] = "failed"
    BY <1>1, <1>7 DEF Answer, Goto, TypeOK
  <2>4. Carries(t)'
    BY <2>3 DEF Carries
  <2>5. \A u \in Threads : Carries(u)'
    BY <1>3, <2>4, OthersCarry
  <2>6. \A n \in Numbers : Missing(n)' = Missing(n)
    BY <1>3, <2>3 DEF Missing, Row
  <2>7. LoneMiss'
    BY <1>6, <1>7, <2>6 DEF LoneMiss
  <2> QED BY <1>1, <1>5, <2>2, <2>5, <2>7 DEF LyricInv, LRUInv
<1>8. CASE /\ ~Find(s) /\ Goto(t, IF s \in Numbered THEN "db" ELSE "api")
           /\ overlapped' = overlapped \cup {n \in {Row(t)} \cap Numbers : Missing(n) # {}}
           /\ UNCHANGED <<lyric, tier, rowRead>>
  <2>1. TypeOK'
    BY <1>1, <1>3, <1>8 DEF Goto, TypeOK, LRUInv, Steps
  <2>2. pc'[t] = IF s \in Numbered THEN "db" ELSE "api"
    BY <1>1, <1>8 DEF Goto, TypeOK
  <2>3. Carries(t)'
    BY <1>3, <1>8, <2>2 DEF LyricInv, Carries
  <2>4. \A u \in Threads : Carries(u)'
    BY <1>3, <2>3, OthersCarry
  <2>5. ASSUME NEW n \in Numbers \ overlapped'
        PROVE  LoneAt(n)'
    <3>1. CASE n = Row(t)
      <4>1. Missing(n) = {} /\ s \in Numbered
        BY <1>1, <1>8, <2>5, <3>1, NumberedRow DEF Row
      <4>2. Missing(n)' \subseteq {t}
        BY <1>3, <4>1 DEF Missing, Row
      <4> QED BY <2>2, <4>1, <4>2 DEF LoneAt
    <3>2. CASE n # Row(t)
      <4>1. Missing(n)' = Missing(n)
        BY <1>3, <3>2 DEF Missing, Row
      <4> QED BY <1>3, <1>6, <2>5, <4>1
    <3> QED BY <3>1, <3>2
  <2>6. LoneMiss'
    BY <2>5 DEF LoneMiss
  <2> QED BY <1>1, <1>5, <2>1, <2>4, <2>6 DEF LyricInv, LRUInv
<1> QED BY <1>7, <1>8 DEF LookupLRU

(* Beyond its miss a thread changes the two tiers for its own row only, so  *)
(* it is left to see what it carries itself.                                *)
LEMMA LoneKept ==
  ASSUME LyricInv, NEW t \in Threads, pc[t] \notin {"idle", "lru"},
         \A u \in Threads \ {t} : pc'[u] = pc[u] /\ lyric'[u] = lyric[u],
         UNCHANGED <<song, overlapped>>,
         saveFailed \subseteq saveFailed', overlooked \subseteq overlooked',
         \A n \in Numbers \ {Row(t)} : /\ CachedIds(n)' \subseteq CachedIds(n)
                                       /\ rows'[n] = rows[n],
         \/ pc'[t] = "idle"
         \/ Row(t) \in Numbers \ overlapped =>
              /\ pc'[t] \in {"api", "fallback", "save"} /\ Row(t) \notin overlooked'
                   => CachedIds(Row(t))' = {}
              /\ pc'[t] = "fill" => lyric'[t].part = rows'[Row(t)]
              /\ pc'[t] = "put" /\ Row(t) \notin saveFailed' => lyric'[t].part = rows'[Row(t)]
  PROVE  LoneMiss'
<1> SUFFICES ASSUME NEW n \in Numbers \ overlapped PROVE LoneAt(n)'
  BY DEF LoneMiss
<1>1. LoneAt(n) /\ Row(t)' = Row(t)
  BY DEF LyricInv, LoneMiss, Row
<1>2. Missing(n)' \subseteq Missing(n)
  BY DEF Missing, Row
<1>3. CASE n = Row(t)
  <2>1. t \in Missing(n)
    BY <1>3 DEF Missing
  <2>2. Missing(n)' \subseteq {t}
    BY <1>1, <1>2, <2>1 DEF LoneAt
  <2>3. pc'[t] = "idle" => t \notin Missing(n)'
    BY DEF Missing
  <2>4. CASE pc'[t] = "idle"
    <3>1. Missing(n)' = {}
      BY <2>2, <2>3, <2>4
    <3> QED BY <3>1 DEF LoneAt
  <2>5. CASE pc'[t] # "idle"
    <3>1. /\ pc'[t] \in {"api", "fallback", "save"} /\ n \notin overlooked'
               => CachedIds(n)' = {}
          /\ pc'[t] = "fill" => lyric'[t].part = rows'[n]
          /\ pc'[t] = "put" /\ n \notin saveFailed' => lyric'[t].part = rows'[n]
      BY <1>1, <1>3, <2>5
    <3> QED BY <2>2, <3>1 DEF LoneAt
  <2> QED BY <2>4, <2>5
<1>4. CASE n # Row(t)
  <2>1. \A u \in Missing(n)' : u \in Threads \ {t}
    BY <1>4 DEF Missing, Row
  <2> QED BY <1>1, <1>2, <1>4, <2>1 DEF LoneAt
<1> QED BY <1>3, <1>4

LEMMA LookupDbStep == ASSUME LyricInv, NEW t \in Threads, LookupDb(t) PROVE LyricInv'
<1> DEFINE s == song[t]
           n == Row(t)
<1>1. LRUInv' /\ TypeOK /\ s \in Songs /\ Carries(t)
  BY LyricUsesLRU, LRUStep DEF Next, Step, LyricInv, TypeOK
<1>2. /\ pc[t] = "db" /\ s \in Numbered /\ n \in Numbers
      /\ UNCHANGED <<list, map, song, rows, saveFailed, overlapped>>
      /\ \A u \in Threads \ {t} : /\ pc'[u] = pc[u] /\ lyric'[u] = lyric[u]
                                  /\ rowRead'[u] = rowRead[u]
  BY <1>1, NumberedRow DEF LookupDb, Goto, Carry, TypeOK, lruVars, Carries, Row
<1>3. PICK r \in {rows[n], "failed"} :
        /\ rowRead' = [rowRead EXCEPT ![t] = r]
        /\ \/ /\ r \in {"whole", "cut"}
              /\ Carry(t, [form |-> "text", part |-> r]) /\ Goto(t, "fill")
              /\ UNCHANGED overlooked
           \/ /\ r \notin {"whole", "cut"}
              /\ Goto(t, "api") /\ UNCHANGED lyric
              /\ overlooked' = overlooked \cup {m \in {n} : CachedIds(m) # {}}
  BY DEF LookupDb
<1>4. r \in Parts \cup {NoRow, "failed"}
  BY <1>1, <1>2 DEF TypeOK
<1>5. overlooked \subseteq overlooked'
  BY <1>3
<1>6. CachedIsStored' /\ TiersAgree' /\ \A m : CachedIds(m)' = CachedIds(m)
  BY <1>2, <1>5, TiersUntouched
<1>7. CASE /\ r \in {"whole", "cut"}
           /\ Carry(t, [form |-> "text", part |-> r]) /\ Goto(t, "fill")
           /\ UNCHANGED overlooked
  <2> DEFINE v == [form |-> "text", part |-> r]
  <2>1. v \in Values /\ v.form = "text" /\ v.part = r
    BY <1>7, LyricAssumption DEF Parts
  <2>2. r = rows[n] /\ r # NoRow
    BY <1>7 DEF NoRow
  <2> HIDE DEF v
  <2>3. lyric' = [lyric EXCEPT ![t] = v] /\ pc' = [pc EXCEPT ![t] = "fill"]
    BY <1>7 DEF Carry, Goto, v
  <2>4. TypeOK'
    BY <1>1, <1>2, <1>3, <1>4, <1>7, <2>1, <2>3 DEF LookupDb, TypeOK, LRUInv, Steps
  <2>5. pc'[t] = "fill" /\ lyric'[t] = v
    BY <1>1, <2>3 DEF TypeOK
  <2>6. Carries(t)'
    BY <1>2, <2>1, <2>2, <2>5 DEF Carries, Row
  <2>7. \A u \in Threads : Carries(u)'
    BY <1>2, <2>6, OthersCarry
  <2>8. LoneMiss'
    BY <1>2, <1>5, <1>6, <2>1, <2>2, <2>5, LoneKept
  <2> QED BY <1>1, <1>6, <2>4, <2>7, <2>8 DEF LyricInv, LRUInv
<1>8. CASE /\ r \notin {"whole", "cut"}
           /\ Goto(t, "api") /\ UNCHANGED lyric
           /\ overlooked' = overlooked \cup {m \in {n} : CachedIds(m) # {}}
  <2>1. overlooked' \subseteq Numbers
    BY <1>1, <1>2, <1>8 DEF TypeOK
  <2>2. TypeOK'
    BY <1>1, <1>2, <1>3, <1>4, <1>8, <2>1 DEF LookupDb, Goto, TypeOK, LRUInv, Steps
  <2>3. pc'[t] = "api" /\ rowRead'[t] = r
    BY <1>1, <1>3, <1>8 DEF Goto, TypeOK
  <2>4. Carries(t)'
    BY <1>8, <2>3 DEF Carries
  <2>5. \A u \in Threads : Carries(u)'
    BY <1>2, <2>4, OthersCarry
  <2>6. n \notin overlooked' => CachedIds(n)' = {}
    <3>1. n' = n
      BY <1>2 DEF Row
    <3>2. CachedIds(n) # {} => n \in overlooked'
      BY <1>8
    <3> QED BY <1>6, <3>1, <3>2
  <2>7. LoneMiss'
    BY <1>2, <1>5, <1>6, <2>3, <2>6, LoneKept
  <2> QED BY <1>1, <1>6, <2>2, <2>5, <2>7 DEF LyricInv, LRUInv
<1> QED BY <1>3, <1>7, <1>8

(* The two steps that put a lyric into the LRU tier. *)
LEMMA FillStep == ASSUME LyricInv, NEW t \in Threads, Fill(t) \/ PutLyric(t) PROVE LyricInv'
<1> DEFINE s == song[t]
<1>1. LRUInv /\ LRUInv' /\ TypeOK /\ s \in Songs /\ s \in Keys /\ Carries(t)
  BY LyricUsesLRU, LRUStep, LyricAssumption DEF Next, Step, LyricInv, TypeOK
<1>2. /\ pc[t] \in {"fill", "put"} /\ lyric[t] \in Values /\ Put(s, lyric[t])
      /\ UNCHANGED <<song, lyric, rows, saveFailed, overlapped, overlooked>>
  BY <1>1 DEF Fill, PutLyric, Carries, history
<1>3. /\ pc' = [pc EXCEPT ![t] = "idle"] /\ rowRead' = [rowRead EXCEPT ![t] = "failed"]
      /\ \E from \in {"db", "api"} : tier' = [tier EXCEPT ![t] = from]
  BY DEF Fill, PutLyric, Answer, Goto
<1>4. \A j \in ListKeys' : \/ j = s /\ ValueOf(j)' = lyric[t]
                           \/ j # s /\ j \in ListKeys /\ ValueOf(j)' = ValueOf(j)
  BY <1>1, <1>2, PutContents
<1>5. TypeOK'
  BY <1>1, <1>2, <1>3 DEF TypeOK, LRUInv, Steps
<1>6. /\ pc'[t] = "idle" /\ rowRead'[t] = "failed"
      /\ \A u \in Threads \ {t} : pc'[u] = pc[u] /\ rowRead'[u] = rowRead[u]
  BY <1>1, <1>3 DEF TypeOK
<1>7. Carries(t)'
  BY <1>6 DEF Carries
<1>8. \A u \in Threads : Carries(u)'
  BY <1>2, <1>6, <1>7, OthersCarry
<1>9. \A n \in Numbers \ {Row(t)} : CachedIds(n)' \subseteq CachedIds(n)
  BY <1>4 DEF CachedIds, Row
<1>10. LoneMiss'
  BY <1>2, <1>6, <1>9, LoneKept
<1>11. CachedIsStored'
  <2> SUFFICES ASSUME NEW j \in ListKeys' \cap Numbered
               PROVE  \/ rows[Stoll[j]] # NoRow
                      \/ Stoll[j] \in saveFailed /\ ValueOf(j)'.form = "json"
    BY <1>2 DEF CachedIsStored
  <2>1. CASE j = s
    <3>1. ValueOf(j)' = lyric[t]
      BY <1>4, <2>1
    <3> QED BY <1>1, <1>2, <2>1, <3>1 DEF Carries, Row
  <2>2. CASE j # s
    <3>1. j \in ListKeys /\ ValueOf(j)' = ValueOf(j)
      BY <1>4, <2>2
    <3> QED BY <3>1 DEF LyricInv, CachedIsStored
  <2> QED BY <2>1, <2>2
<1>12. TiersAgree'
  <2> SUFFICES ASSUME NEW j \in ListKeys' \cap Numbered, Stoll[j] \notin MayDiffer
               PROVE  ValueOf(j)'.part = rows[Stoll[j]]
    BY <1>2 DEF TiersAgree, MayDiffer
  <2>1. CASE j = s
    <3>1. ValueOf(j)' = lyric[t] /\ Row(t) \in Numbers /\ t \in Missing(Row(t))
      BY <1>1, <1>2, <1>4, <2>1, NumberedRow DEF Missing, Row
    <3>2. Row(t) \notin saveFailed \cup overlapped
      BY <2>1 DEF MayDiffer, Row
    <3>3. lyric[t].part = rows[Row(t)]
      BY <1>2, <3>1, <3>2 DEF LyricInv, LoneMiss, LoneAt
    <3> QED BY <2>1, <3>1, <3>3 DEF Row
  <2>2. CASE j # s
    <3>1. j \in ListKeys /\ ValueOf(j)' = ValueOf(j)
      BY <1>4, <2>2
    <3> QED BY <3>1 DEF LyricInv, TiersAgree
  <2> QED BY <2>1, <2>2
<1> QED BY <1>1, <1>5, <1>8, <1>10, <1>11, <1>12 DEF LyricInv, LRUInv

LEMMA AskApiStep == ASSUME LyricInv, NEW t \in Threads, AskApi(t) PROVE LyricInv'
<1> DEFINE s == song[t]
<1>1. LRUInv' /\ TypeOK /\ s \in Songs /\ Carries(t)
  BY LyricUsesLRU, LRUStep DEF Next, Step, LyricInv, TypeOK
<1>2. /\ pc[t] \in {"api", "fallback"} /\ rowRead[t] \notin {"whole", "cut"}
      /\ UNCHANGED <<list, map, song, rows, saveFailed, overlapped, overlooked>>
  BY <1>1 DEF AskApi, lruVars, Carries, history
<1>3. CachedIsStored' /\ TiersAgree' /\ \A n : CachedIds(n)' = CachedIds(n)
  BY <1>2, TiersUntouched
<1>4. Row(t) \in Numbers \ (overlapped \cup overlooked) => CachedIds(Row(t)) = {}
  <2>1. t \in Missing(Row(t))
    BY <1>2 DEF Missing
  <2> QED BY <1>2, <2>1 DEF LyricInv, LoneMiss, LoneAt
<1>5. ASSUME NEW l \in {"fallback", "idle", "save", "put"},
             pc' = [pc EXCEPT ![t] = l],
             \A u \in Threads \ {t} : lyric'[u] = lyric[u] /\ rowRead'[u] = rowRead[u],
             rowRead'[t] \in {rowRead[t], "failed"},
             l \in {"save", "put"} => lyric'[t] \in Values /\ lyric'[t].form = "json",
             l = "save" <=> s \in Numbered /\ l \in {"save", "put"}
      PROVE  (\A u \in Threads : Carries(u)') /\ LoneMiss'
  <2>1. pc'[t] = l /\ \A u \in Threads \ {t} : pc'[u] = pc[u]
    BY <1>1, <1>5 DEF TypeOK
  <2>2. Carries(t)'
    BY <1>2, <1>5, <2>1 DEF Carries
  <2>3. \A u \in Threads : Carries(u)'
    BY <1>2, <1>5, <2>1, <2>2, OthersCarry
  <2>4. pc'[t] = "put" => Row(t) \notin Numbers
    BY <1>1, <1>5, <2>1, NumberedRow DEF Row
  <2>5. Row(t) \in Numbers \ overlapped /\ Row(t) \notin overlooked => CachedIds(Row(t))' = {}
    BY <1>2, <1>3, <1>4 DEF Row
  <2>6. pc'[t] # "fill" /\ \A n : CachedIds(n)' \subseteq CachedIds(n)
    BY <1>3, <2>1
  <2>7. LoneMiss'
    BY <1>2, <1>5, <2>1, <2>4, <2>5, <2>6, LoneKept
  <2> QED BY <2>3, <2>7
<1>6. CASE pc[t] = "api" /\ Goto(t, "fallback") /\ UNCHANGED <<lyric, tier, rowRead>>
  <2>1. TypeOK'
    BY <1>1, <1>2, <1>6 DEF Goto, TypeOK, LRUInv, Steps
  <2>2. (\A u \in Threads : Carries(u)') /\ LoneMiss'
    BY <1>5, <1>6 DEF Goto
  <2> QED BY <1>1, <1>3, <2>1, <2>2 DEF LyricInv, LRUInv
<1>7. ASSUME NEW a \in ApiAnswers, Carry(t, a),
             IF a = NoLyric THEN Answer(t, "api")
             ELSE /\ Goto(t, IF s \in Numbered THEN "save" ELSE "put")
                  /\ UNCHANGED <<tier, rowRead>>
      PROVE  LyricInv'
  <2>1. a \in Values \cup {NoLyric} /\ (a # NoLyric => a \in Values /\ a.form = "json")
    BY LyricAssumption DEF ApiAnswers
  <2>2. lyric' = [lyric EXCEPT ![t] = a]
    BY <1>7 DEF Carry
  <2>3. lyric'[t] = a /\ \A u \in Threads \ {t} : lyric'[u] = lyric[u]
    BY <1>1, <2>2 DEF TypeOK
  <2>4. CASE a = NoLyric /\ Answer(t, "api")
    <3>1. TypeOK'
      BY <1>1, <1>2, <2>1, <2>2, <2>4 DEF Answer, Goto, TypeOK, LRUInv, Steps
    <3>2. /\ pc' = [pc EXCEPT ![t] = "idle"] /\ rowRead'[t] = "failed"
          /\ \A u \in Threads \ {t} : rowRead'[u] = rowRead[u]
      BY <1>1, <2>4 DEF Answer, Goto, TypeOK
    <3>3. (\A u \in Threads : Carries(u)') /\ LoneMiss'
      BY <1>5, <2>3, <3>2
    <3> QED BY <1>1, <1>3, <3>1, <3>3 DEF LyricInv, LRUInv
  <2>5. CASE a # NoLyric
    <3> DEFINE l == IF s \in Numbered THEN "save" ELSE "put"
    <3>1. pc' = [pc EXCEPT ![t] = l] /\ UNCHANGED <<tier, rowRead>>
      BY <1>7, <2>5 DEF Goto
    <3>2. l \in {"save", "put"} /\ (l = "save" <=> s \in Numbered)
      OBVIOUS
    <3> HIDE DEF l
    <3>3. TypeOK'
      BY <1>1, <1>2, <2>1, <2>2, <3>1, <3>2 DEF TypeOK, LRUInv, Steps
    <3>4. (\A u \in Threads : Carries(u)') /\ LoneMiss'
      BY <1>5, <2>1, <2>3, <2>5, <3>1, <3>2
    <3> QED BY <1>1, <1>3, <3>3, <3>4 DEF LyricInv, LRUInv
  <2> QED BY <1>7, <2>4, <2>5
<1> QED BY <1>6, <1>7 DEF AskApi

LEMMA SaveStep == ASSUME LyricInv, NEW t \in Threads, Save(t) PROVE LyricInv'
<1> DEFINE s == song[t]
           n == Row(t)
<1>1. LRUInv /\ LRUInv' /\ TypeOK /\ s \in Songs /\ Carries(t)
  BY LyricUsesLRU, LRUStep DEF Next, Step, LyricInv, TypeOK
<1>2. /\ pc[t] = "save" /\ n \in Numbers /\ pc' = [pc EXCEPT ![t] = "put"]
      /\ lyric[t] \in Values /\ lyric[t].form = "json" /\ lyric[t].part \in Parts
      /\ UNCHANGED <<list, map, song, lyric, tier, rowRead, overlapped, overlooked>>
  BY <1>1, LyricAssumption, NumberedRow DEF Save, Goto, lruVars, Carries, Row
<1>3. pc'[t] = "put" /\ \A u \in Threads \ {t} : pc'[u] = pc[u]
  BY <1>1, <1>2 DEF TypeOK
<1>4. /\ rows' \in [Numbers -> Parts \cup {NoRow}] /\ saveFailed' \subseteq Numbers
      /\ saveFailed \subseteq saveFailed' /\ \A m \in Numbers \ {n} : rows'[m] = rows[m]
      /\ \/ rows'[n] = lyric[t].part
         \/ rows' = rows /\ n \in saveFailed'
  BY <1>1, <1>2 DEF Save, TypeOK
<1>5. \A m \in Numbers : rows[m] # NoRow => rows'[m] # NoRow
  BY <1>2, <1>4 DEF Parts, NoRow
<1>6. TypeOK'
  BY <1>1, <1>2, <1>4 DEF TypeOK, LRUInv, Steps
<1>7. Carries(t)'
  <2>1. rows'[n] # NoRow \/ n \in saveFailed'
    BY <1>2, <1>4 DEF Parts, NoRow
  <2> QED BY <1>1, <1>2, <1>3, <2>1 DEF Carries, Row
<1>8. \A u \in Threads : Carries(u)'
  BY <1>2, <1>3, <1>4, <1>5, <1>7, OthersCarry
<1>9. /\ ListKeys' = ListKeys /\ \A j : ValueOf(j)' = ValueOf(j)
      /\ \A m : CachedIds(m)' = CachedIds(m)
  BY <1>2 DEF ListKeys, ValueOf, Pos, CachedIds
<1>10. LoneMiss'
  BY <1>2, <1>3, <1>4, <1>9, LoneKept
<1>11. CachedIsStored' /\ TiersAgree'
  <2>1. n \notin overlapped \cup overlooked => CachedIds(n) = {}
    <3>1. t \in Missing(n)
      BY <1>2 DEF Missing
    <3> QED BY <1>2, <3>1 DEF LyricInv, LoneMiss, LoneAt
  <2>2. MayDiffer \subseteq MayDiffer' /\ overlapped \cup overlooked \subseteq MayDiffer'
    BY <1>2, <1>4 DEF MayDiffer
  <2>3. \A m \in Numbers \ MayDiffer' : CachedIds(m) # {} => rows'[m] = rows[m]
    BY <1>4, <2>1, <2>2
  <2> QED BY <1>4, <1>5, <1>9, <2>2, <2>3, CacheKept
<1> QED BY <1>1, <1>6, <1>8, <1>10, <1>11 DEF LyricInv, LRUInv

LEMMA RestartStep == ASSUME LyricInv, Restart PROVE LyricInv'
<1>1. LRUInv' /\ TypeOK
  BY LyricUsesLRU, LRUStep DEF Next, LyricInv
<1>2. TypeOK'
  BY <1>1 DEF Restart, TypeOK, LRUInv, Steps
<1>3. /\ \A t \in Threads : pc'[t] = "idle" /\ rowRead'[t] = "failed"
      /\ ListKeys' = {}
  BY <1>1, EmptySeq DEF Restart, TypeOK, LRUInv, MapMatchesList
<1>4. LoneMiss'
  BY <1>3 DEF LoneMiss, LoneAt, Missing
<1> QED BY <1>1, <1>2, <1>3, <1>4
        DEF LyricInv, LRUInv, Carries, CachedIsStored, TiersAgree

-----------------------------------------------------------------------------
LEMMA LyricStart == Init => LyricInv
<1> SUFFICES ASSUME Init PROVE LyricInv
  OBVIOUS
<1>1. LRUInit /\ list = <<>> /\ Len(list) = 0 /\ map = {}
  BY EmptySeq DEF Init, Started, LRUInit
<1>2. LRUTypeOK /\ MapMatchesList /\ ListKeys = {}
  BY <1>1, LRUAssumption, EmptySeq DEF LRUTypeOK, MapMatchesList, ListKeys
<1>3. TypeOK
  BY <1>2 DEF Init, Started, TypeOK, Steps
<1> QED BY <1>2, <1>3
        DEF Init, Started, LyricInv, Carries, CachedIsStored, TiersAgree, LoneMiss, LoneAt, Missing

LEMMA LyricStep == LyricInv /\ [Next]_vars => LyricInv'
<1> SUFFICES ASSUME LyricInv, [Next]_vars PROVE LyricInv'
  OBVIOUS
<1>1. CASE UNCHANGED vars
  <2>1. LRUInv'
    BY LyricUsesLRU, LRUStep
  <2>2. TypeOK'
    BY <1>1 DEF vars, lruVars, history, LyricInv, TypeOK, LRUTypeOK
  <2>3. \A t \in Threads : Carries(t)'
    BY <1>1 DEF vars, history, LyricInv, Carries, Row
  <2>4. CachedIsStored' /\ TiersAgree' /\ \A n : CachedIds(n)' = CachedIds(n)
    BY <1>1, TiersUntouched DEF vars, lruVars, history
  <2>5. LoneMiss'
    BY <1>1, <2>4 DEF vars, history, LyricInv, LoneMiss, LoneAt, Missing, Row
  <2> QED BY <2>1, <2>2, <2>3, <2>4, <2>5 DEF LyricInv, LRUInv
<1> QED BY <1>1, AskStep, LookupLRUStep, LookupDbStep, FillStep, AskApiStep, SaveStep,
           RestartStep DEF Next, Step

LEMMA LyricInvariant == Spec => []LyricInv
BY LyricStart, LyricStep, PTL DEF Spec

(* For any instance the variables keep their types. *)
THEOREM LyricTypeCorrect == Spec => []TypeOK
BY LyricInvariant, PTL DEF LyricInv

(* For any number of requests and any restarts, list_ and map_ of the LRU   *)
(* tier agree.                                                              *)
THEOREM LyricCacheCoherent == Spec => []MapMatchesList
BY LyricInvariant, PTL DEF LyricInv

(* For whatever the LRU tier holds of a numbered song lyrics_cache has a    *)
(* row, unless a save of that row failed.                                   *)
THEOREM LyricsCachedAreStored == Spec => []CachedIsStored
BY LyricInvariant, PTL DEF LyricInv

(* For any songs, any number of which may share a row, the LRU tier and     *)
(* lyrics_cache hold the same lyric of every row of which no save failed,   *)
(* for which no two requests looked at once, and which no request failed to *)
(* read while it was cached under another id.                               *)
THEOREM LyricTiersAgree == Spec => []TiersAgree
BY LyricInvariant, PTL DEF LyricInv

(* Every lyric a client is given, from either tier or fresh from the API,   *)
(* is the one in lyrics_cache at that moment, for any number of requests    *)
(* and of ids that share a row, with the same three exceptions.             *)
THEOREM ClientsAreToldWhatIsStored == Spec => AnswersAreStored
<1> DEFINE P(t) == /\ pc[t] # "idle" /\ pc'[t] = "idle" /\ lyric'[t] # NoLyric
                   /\ Row(t) \in Numbers \ MayDiffer
                   => lyric'[t].part = rows[Row(t)]
<1>1. ASSUME LyricInv, Next, NEW t \in Threads PROVE P(t)
  <2> SUFFICES ASSUME pc[t] # "idle", pc'[t] = "idle", lyric'[t] # NoLyric,
                      Row(t) \in Numbers \ MayDiffer
               PROVE  lyric'[t].part = rows[Row(t)]
    OBVIOUS
  <2>0. LRUInv /\ TypeOK /\ song[t] \in Songs /\ song[t] \in Keys /\ Carries(t)
    BY <1>1, LyricUsesLRU, LyricAssumption DEF LyricInv, TypeOK
  <2>1. Step(t)
    <3>1. ASSUME NEW u \in Threads, Step(u) PROVE u = t
      <4>1. u # t => pc'[t] = pc[t]
        BY <2>0, <3>1 DEF Step, LookupLRU, LookupDb, Fill, AskApi, Save, PutLyric, Answer, Goto,
                          TypeOK
      <4> QED BY <4>1
    <3>2. ASSUME NEW u \in Threads, NEW s \in Songs, Ask(u, s) PROVE FALSE
      BY <2>0, <3>2 DEF Ask, Goto, TypeOK
    <3>3. ~Restart
      BY <2>0 DEF Restart, TypeOK
    <3> QED BY <1>1, <3>1, <3>2, <3>3 DEF Next
  <2>2. CASE LookupLRU(t)
    <3>1. Find(song[t]) /\ Carry(t, ValueOf(song[t]))
      BY <2>0, <2>2 DEF LookupLRU, Goto, TypeOK
    <3>2. song[t] \in ListKeys
      BY <1>1, <3>1 DEF Find, LyricInv, MapMatchesList
    <3>3. lyric'[t] = ValueOf(song[t])
      BY <2>0, <3>1 DEF Carry, TypeOK
    <3>4. song[t] \in ListKeys \cap Numbered /\ Stoll[song[t]] \notin MayDiffer
      BY <2>0, <3>2, NumberedRow DEF Row
    <3> QED BY <1>1, <3>3, <3>4 DEF LyricInv, TiersAgree, Row
  <2>3. CASE Fill(t) \/ PutLyric(t)
    <3>1. pc[t] \in {"fill", "put"} /\ lyric' = lyric
      BY <2>3 DEF Fill, PutLyric
    <3>2. t \in Missing(Row(t)) /\ Row(t) \in Numbers \ (saveFailed \cup overlapped)
      BY <3>1 DEF Missing, MayDiffer
    <3> QED BY <1>1, <3>1, <3>2 DEF LyricInv, LoneMiss, LoneAt
  <2>4. CASE LookupDb(t) \/ Save(t)
    BY <2>0, <2>4 DEF LookupDb, Save, Goto, TypeOK
  <2>5. CASE AskApi(t)
    <3>1. PICK a \in ApiAnswers :
            /\ Carry(t, a)
            /\ a # NoLyric => Goto(t, IF song[t] \in Numbered THEN "save" ELSE "put")
      BY <2>0, <2>5 DEF AskApi, Goto, TypeOK
    <3>2. lyric'[t] = a
      BY <2>0, <3>1 DEF Carry, TypeOK
    <3> QED BY <2>0, <3>1, <3>2 DEF Goto, TypeOK
  <2> QED BY <2>1, <2>2, <2>3, <2>4, <2>5 DEF Step
<1>2. ASSUME LyricInv, [Next]_vars PROVE [\A t \in Threads : P(t)]_vars
  BY <1>1, <1>2
<1> QED BY <1>2, LyricInvariant, PTL DEF Spec, AnswersAreStored

(* Used by concurrent requests and emptied by restarts, the LRU tier is     *)
(* still the cache of RecencyCache: it evicts the key used least recently   *)
(* and no other.                                                            *)
THEOREM LyricRefinesRecency == Spec => ImplementsRecency
<1>1. LyricInv /\ [Next]_vars => [Abstract!Next]_<<CacheStore, CacheOlder>>
  BY LyricUsesLRU, LRURefines
<1>2. Init => Abstract!Init
  BY LRUInitRefines DEF Init, Started
<1> QED BY <1>1, <1>2, LyricInvariant, PTL DEF Spec, ImplementsRecency, Abstract!Spec

(* A lyric leaves the LRU tier only at a restart, or displaced by another   *)
(* put into the full tier, as the one used least recently.                  *)
THEOREM LyricEvictions == Spec => EvictsAtMostOne
<1>1. LyricInv /\ LyricInv' /\ [Next]_vars => [\A k \in map \ map' : Drops(k)]_lruVars
  BY LyricUsesLRU, LRUStep, LRUDrops
<1> QED BY <1>1, LyricInvariant, PTL DEF Spec, EvictsAtMostOne, Drops

(* No request that has read a text from lyrics_cache ever replaces it: only *)
(* one whose read failed, or came before the text did, saves over it.       *)
THEOREM RowsReplacedOnlyUnseen == Spec => RowReplacedOnlyUnseen
<1> DEFINE P == \A n \in Numbers : rows[n] \in {"whole", "cut"} /\ rows'[n] # rows[n]
                  => \E t \in Threads : /\ pc[t] = "save" /\ Row(t) = n
                                        /\ rowRead[t] \notin {"whole", "cut"}
<1>1. ASSUME LyricInv, Next PROVE P
  <2>1. ASSUME UNCHANGED rows PROVE P
    BY <2>1
  <2>2. ASSUME NEW t \in Threads, Save(t) PROVE P
    <3>1. pc[t] = "save" /\ rowRead[t] \notin {"whole", "cut"}
      BY <1>1, <2>2 DEF Save, LyricInv, Carries
    <3>2. \A n \in Numbers \ {Row(t)} : rows'[n] = rows[n]
      BY <1>1, <2>2 DEF Save, LyricInv, TypeOK
    <3> QED BY <3>1, <3>2
  <2> QED BY <1>1, <2>1, <2>2 DEF Next, Step, Ask, LookupLRU, LookupDb, Fill, AskApi, PutLyric,
                                  Restart
<1>2. LyricInv /\ [Next]_vars => [P]_vars
  BY <1>1
<1> QED BY <1>2, LyricInvariant, PTL DEF Spec, RowReplacedOnlyUnseen
=============================================================================
