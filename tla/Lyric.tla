------------------------------- MODULE Lyric -------------------------------
(***************************************************************************)
(* GET /api/song/lyric: MusicService::getSongLyric (src/src/MusicService   *)
(* .cpp) reads through two tiers, the LRU cache of LRUCache.tla and the    *)
(* table lyrics_cache, to the music API.  Worker threads run it side by    *)
(* side, each access to a tier being one step; the process may be killed   *)
(* between any two, which loses the LRU tier and keeps the table.          *)
(*                                                                         *)
(* A lyric is told apart by its form, the JSON answer of the API or the    *)
(* bare LRC text of the table, and by how much of it there is: whole, cut  *)
(* (httpGet returns what had arrived at its timeout, and the lenient       *)
(* json::parse closes what is open) or empty.  An empty song_id is turned  *)
(* away with 400 before any of this and is not in Songs.                   *)
(*                                                                         *)
(* The LRU tier is keyed by the song_id as it was sent, the table by what  *)
(* std::stoll makes of it: "123", "0123" and "123abc" are three keys of    *)
(* the one and share a row of the other.                                   *)
(***************************************************************************)
EXTENDS LRUCache

CONSTANTS Threads,
          Songs, \* the song_id strings that are asked for
          Stoll  \* what std::stoll makes of each: a positive number, or 0 for
                 \* anything else

Parts == {"whole", "cut", "empty"}
NoRow == "no row"
NoLyric == [form |-> "none", part |-> "empty"] \* an answer with no lrc.lyric

ASSUME LyricAssumption == /\ Keys = Songs /\ Stoll \in [Songs -> Nat]
                          /\ Values = [form : {"json", "text"}, part : Parts]

VARIABLES pc, song,   \* of each thread inside getSongLyric
          lyric,      \* the lyric it carries, and its answer once it is idle again
          tier,       \* the tier its answer came from
          rows,       \* lyrics_cache
          rowRead,    \* history: what the thread's read of the table gave it
          \* history since the start, of the numbers of rows:
          saveFailed, \* a save of the row failed
          overlapped, \* two threads looked for the row at once
          overlooked  \* a thread got no text from the row while the LRU tier held
                      \* it under some id

history == <<saveFailed, overlapped, overlooked>>
vars == <<lruVars, pc, song, lyric, tier, rows, rowRead, history>>

(* Only an id with a positive number has a row. *)
Numbered == {s \in Songs : Stoll[s] # 0}
Numbers == {Stoll[s] : s \in Numbered}
Row(t) == Stoll[song[t]]
CachedIds(n) == {s \in ListKeys : Stoll[s] = n}

Steps == {"idle", "lru", "db", "fill", "api", "fallback", "save", "put"}

TypeOK == /\ LRUTypeOK
          /\ pc \in [Threads -> Steps] /\ song \in [Threads -> Songs]
          /\ lyric \in [Threads -> Values \cup {NoLyric}]
          /\ tier \in [Threads -> {"none", "lru", "db", "api"}]
          /\ rows \in [Numbers -> Parts \cup {NoRow}]
          /\ rowRead \in [Threads -> Parts \cup {NoRow, "failed"}]
          /\ saveFailed \subseteq Numbers /\ overlapped \subseteq Numbers
          /\ overlooked \subseteq Numbers

Started == /\ LRUInit
           /\ pc = [t \in Threads |-> "idle"] /\ song \in [Threads -> Songs]
           /\ lyric = [t \in Threads |-> NoLyric] /\ tier = [t \in Threads |-> "none"]
           /\ rowRead = [t \in Threads |-> "failed"]
           /\ saveFailed = {} /\ overlapped = {} /\ overlooked = {}
Init == Started /\ rows = [n \in Numbers |-> NoRow]

Goto(t, l) == pc' = [pc EXCEPT ![t] = l]
Carry(t, v) == lyric' = [lyric EXCEPT ![t] = v]
Answer(t, from) == /\ Goto(t, "idle") /\ tier' = [tier EXCEPT ![t] = from]
                   /\ rowRead' = [rowRead EXCEPT ![t] = "failed"]

(* What httpGet followed by json::parse can come back with. *)
ApiAnswers == [form : {"json"}, part : Parts] \cup {NoLyric}

-----------------------------------------------------------------------------
(* Faulty variants, each a bug such code may have; no part of Spec. *)

\* The answer is cached whether or not it has a lyric.
CacheAnyAnswer(t) ==
  /\ pc[t] = "api"
  /\ \E a \in ApiAnswers : Carry(t, a)
  /\ Goto(t, "put")
  /\ UNCHANGED <<lruVars, song, tier, rows, rowRead, history>>

\* The LRU tier is filled and the table forgotten.
CacheOnly(t) == pc[t] = "save" /\ Put(song[t], lyric[t]) /\ Goto(t, "idle")
                /\ UNCHANGED <<song, lyric, tier, rows, rowRead, history>>

\* INSERT IGNORE in place of REPLACE.
InsertIgnore(t) ==
  /\ pc[t] = "save"
  /\ rows' = IF rows[Row(t)] = NoRow THEN [rows EXCEPT ![Row(t)] = lyric[t].part] ELSE rows
  /\ Goto(t, "put")
  /\ UNCHANGED <<lruVars, song, lyric, tier, rowRead, history>>

\* A cut answer is cached but not thought worth a row.
SaveWholeOnly(t) ==
  /\ pc[t] = "save" /\ Goto(t, "put")
  /\ rows' = IF lyric[t].part = "whole" THEN [rows EXCEPT ![Row(t)] = "whole"] ELSE rows
  /\ UNCHANGED <<lruVars, song, lyric, tier, rowRead, history>>

\* No return after the LRU tier is filled from the table.
FillAndGoOn(t) ==
  /\ pc[t] = "fill" /\ Put(song[t], lyric[t]) /\ Goto(t, "api")
  /\ UNCHANGED <<song, lyric, tier, rows, rowRead, history>>

-----------------------------------------------------------------------------
Ask(t, s) == /\ pc[t] = "idle"
             /\ Goto(t, "lru") /\ song' = [song EXCEPT ![t] = s]
             /\ Carry(t, NoLyric) /\ tier' = [tier EXCEPT ![t] = "none"]
             /\ UNCHANGED <<lruVars, rows, rowRead, history>>

(* The threads that look for row n past the LRU tier, under whichever id. *)
Missing(n) == {t \in Threads : Row(t) = n /\ pc[t] \notin {"idle", "lru"}}

(* 1. getCachedLyric; a miss goes on to the table, or past it. *)
LookupLRU(t) ==
  /\ pc[t] = "lru" /\ Get(song[t])
  /\ \/ /\ Find(song[t])
        /\ Answer(t, "lru") /\ Carry(t, ValueOf(song[t]))
        /\ UNCHANGED overlapped
     \/ /\ ~Find(song[t])
        /\ Goto(t, IF song[t] \in Numbered THEN "db" ELSE "api")
        /\ overlapped' = overlapped \cup {n \in {Row(t)} \cap Numbers : Missing(n) # {}}
        /\ UNCHANGED <<lyric, tier, rowRead>>
  /\ UNCHANGED <<song, rows, saveFailed, overlooked>>

(* 2. getLyricFromDb: no connection, a failed query, no row and an empty    *)
(* text all go on to the API.                                               *)
LookupDb(t) ==
  /\ pc[t] = "db"
  /\ \E r \in {rows[Row(t)], "failed"} :
       /\ rowRead' = [rowRead EXCEPT ![t] = r]
       /\ \/ /\ r \in {"whole", "cut"}
             /\ Carry(t, [form |-> "text", part |-> r]) /\ Goto(t, "fill")
             /\ UNCHANGED overlooked
          \/ /\ r \notin {"whole", "cut"}
             /\ Goto(t, "api") /\ UNCHANGED lyric
             /\ overlooked' = overlooked \cup {n \in {Row(t)} : CachedIds(n) # {}}
  /\ UNCHANGED <<lruVars, song, tier, rows, saveFailed, overlapped>>

(* The text of the row goes to the LRU tier and, parsed, to the client. *)
Fill(t) == /\ pc[t] = "fill" /\ Put(song[t], lyric[t])
           /\ Answer(t, "db")
           /\ UNCHANGED <<song, lyric, rows, history>>

(* 3. ApiProxy::getSongLyric: an empty reply sends it to the second URL,    *)
(* and an empty one from there parses to null; only an answer with a lyric  *)
(* is stored.                                                               *)
AskApi(t) ==
  /\ pc[t] \in {"api", "fallback"}
  /\ \/ pc[t] = "api" /\ Goto(t, "fallback") /\ UNCHANGED <<lyric, tier, rowRead>>
     \/ \E a \in ApiAnswers :
          /\ Carry(t, a)
          /\ IF a = NoLyric THEN Answer(t, "api")
             ELSE /\ Goto(t, IF song[t] \in Numbered THEN "save" ELSE "put")
                  /\ UNCHANGED <<tier, rowRead>>
  /\ UNCHANGED <<lruVars, song, rows, history>>

(* saveLyricToDb replaces the row; nobody looks at its result. *)
Save(t) ==
  /\ pc[t] = "save" /\ Goto(t, "put")
  /\ \/ rows' = [rows EXCEPT ![Row(t)] = lyric[t].part] /\ UNCHANGED saveFailed
     \/ saveFailed' = saveFailed \cup {Row(t)} /\ UNCHANGED rows
  /\ UNCHANGED <<lruVars, song, lyric, tier, rowRead, overlapped, overlooked>>

PutLyric(t) == /\ pc[t] = "put" /\ Put(song[t], lyric[t])
               /\ Answer(t, "api")
               /\ UNCHANGED <<song, lyric, rows, history>>

(* The process is killed and started again. *)
Restart == /\ list' = <<>> /\ map' = {}
           /\ pc' = [t \in Threads |-> "idle"] /\ lyric' = [t \in Threads |-> NoLyric]
           /\ tier' = [t \in Threads |-> "none"] /\ rowRead' = [t \in Threads |-> "failed"]
           /\ saveFailed' = {} /\ overlapped' = {} /\ overlooked' = {}
           /\ UNCHANGED <<song, rows>>

Step(t) == LookupLRU(t) \/ LookupDb(t) \/ Fill(t) \/ AskApi(t) \/ Save(t) \/ PutLyric(t)

Next == \/ \E t \in Threads : Step(t) \/ (\E s \in Songs : Ask(t, s))
        \/ Restart

Spec == Init /\ [][Next]_vars

-----------------------------------------------------------------------------
(* What the LRU tier holds of a numbered song is no more than a copy: there *)
(* is a row for it, so that a restart costs no call of the API, unless a    *)
(* save of that row failed.  A bare text can only have come from a row.     *)
CachedIsStored ==
  \A s \in ListKeys \cap Numbered :
    rows[Stoll[s]] # NoRow \/ (Stoll[s] \in saveFailed /\ ValueOf(s).form = "json")

(* How the two tiers can come to hold different lyrics: the save failed, or *)
(* two requests for a row overlapped, or one for another id of a cached row *)
(* went to the API because it got no text from the table.                   *)
MayDiffer == saveFailed \cup overlapped \cup overlooked

(* In no other way: else the two tiers hold the same lyric under every id   *)
(* of a row, however often it was evicted, found empty or fetched again.    *)
TiersAgree ==
  \A s \in ListKeys \cap Numbered :
    Stoll[s] \notin MayDiffer => ValueOf(s).part = rows[Stoll[s]]

(* Whichever tier a request ends in, its client is told what the table      *)
(* holds at that moment, unless the tiers of that row may differ.           *)
AnswersAreStored ==
  [][\A t \in Threads :
       /\ pc[t] # "idle" /\ pc'[t] = "idle" /\ lyric'[t] # NoLyric
       /\ Row(t) \in Numbers \ MayDiffer
       => lyric'[t].part = rows[Row(t)]]_vars

(* A row with a text is only ever replaced by a request that did not see    *)
(* it: its read had failed, or was made before the text was there.          *)
RowReplacedOnlyUnseen ==
  [][\A n \in Numbers : rows[n] \in {"whole", "cut"} /\ rows'[n] # rows[n]
       => \E t \in Threads : /\ pc[t] = "save" /\ Row(t) = n
                             /\ rowRead[t] \notin {"whole", "cut"}]_vars

(* A tier that holds the lyric answers with it in the shape the API has and *)
(* the player reads, lrc.lyric: README.md documents the route as one lookup *)
(* through LRU, MySQL and API.                                              *)
EveryTierYieldsTheLyric ==
  \A t \in Threads : tier[t] \in {"lru", "db"} => lyric[t].form = "json"
=============================================================================
