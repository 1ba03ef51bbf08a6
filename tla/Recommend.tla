----------------------------- MODULE Recommend -----------------------------
(***************************************************************************)
(* POST /api/agent/recommend: AgentService::generateRecommendation         *)
(* (src/src/AgentService.cpp), which asks a language model or the built-in *)
(* knowledge base for tracks and keywords and looks them up through        *)
(* ApiProxy::searchSongs.  Beside it GET /api/song/search and GET          *)
(* /api/playlist/detail, which hand on what the filter leaves.  A request  *)
(* shares nothing with others but the table of preferences, which it only  *)
(* reads: one worker is modelled, one request after the other.             *)
(*                                                                         *)
(* What a track is called, the tags, the reasons and the match scores are  *)
(* left out; an intent is how many tracks and keywords it has and whether  *)
(* it has a summary.                                                       *)
(***************************************************************************)
EXTENDS ApiProxy

CONSTANTS MaxTracks, MaxKeywords, \* bounds: what a language model lists
          Enough, Most   \* 5 and 8 in fetchSongsForIntent

ASSUME RecommendAssumption == {MaxTracks, MaxKeywords, Enough, Most} \subseteq Nat
                              /\ Enough <= Most

VARIABLES pc,        \* where the request is
          intent,    \* intent
          loggedIn,  \* user_id > 0
          hinted,    \* user_history_hint is not empty
          searched,  \* tracks, then keywords, already searched for
          found,     \* the candidates of the last search still to be looked at
          songs      \* final_songs, and with each the search it came from

vars == <<pc, intent, loggedIn, hinted, searched, found, songs>>

Intent == [tracks : Nat, keywords : Nat, summary : BOOLEAN]
Entry == [song : Songs, linked : BOOLEAN, by : {"track", "keyword", "search"}, batch : Nat]
NoIntent == [tracks |-> 0, keywords |-> 0, summary |-> FALSE]

TypeOK == /\ pc \in {"idle", "model", "hint", "track", "pickTrack", "keyword", "pickKeyword"}
          /\ intent \in Intent
          /\ loggedIn \in BOOLEAN /\ hinted \in BOOLEAN
          /\ searched \in Nat
          /\ found \in Seq(Found) /\ songs \in Seq(Entry)

Init == /\ pc = "idle" /\ intent = NoIntent
        /\ loggedIn = FALSE /\ hinted = FALSE
        /\ searched = 0
        /\ found = <<>> /\ songs = <<>>

(* added_ids, and an id that is new to it; IsNewHere is a faulty variant    *)
(* that compares ids within one search only.                                *)
Added == {songs[i].song : i \in 1..Len(songs)}
IsNewHere(s) == s \in Numbered
IsNew(s) == s \in Numbered /\ s \notin Added

Add(f, by) == songs' = Append(songs, [song |-> f.song, linked |-> f.linked, by |-> by,
                                      batch |-> searched])

-----------------------------------------------------------------------------
(* Faulty variants, each a bug such code may have; no part of Spec. *)

\* No break after the first match: every candidate of a track is taken.
PickAllOfTrack ==
  /\ pc = "pickTrack"
  /\ \/ found = <<>> /\ pc' = "track" /\ UNCHANGED <<found, songs>>
     \/ /\ found # <<>> /\ found' = Tail(found) /\ UNCHANGED pc
        /\ IF IsNew(Head(found).song) THEN Add(Head(found), "track") ELSE UNCHANGED songs
  /\ UNCHANGED <<intent, loggedIn, hinted, searched>>

\* The best match is the first of the list, looked at whether there is one or
\* not: operator[] beyond the end of an array gives null.
PickFirst ==
  /\ pc = "pickTrack" /\ pc' = "track" /\ found' = <<>>
  /\ IF found = <<>> THEN Add([song |-> "null", linked |-> FALSE], "track")
     ELSE IF IsNew(Head(found).song) THEN Add(Head(found), "track")
     ELSE UNCHANGED songs
  /\ UNCHANGED <<intent, loggedIn, hinted, searched>>

-----------------------------------------------------------------------------
(* analyzeWithKnowledgeBase: tracks and keywords of its six topics, and what *)
(* it has for a prompt that names none.                                     *)
KnowledgeBase ==
  {[tracks |-> n[1], keywords |-> n[2], summary |-> TRUE] :
     n \in {<<7, 3>>, <<4, 3>>, <<5, 2>>, <<3, 2>>, <<3, 1>>}}

(* An intent of the model, of which a part may be missing.                  *)
ModelIntents == [tracks : 0..MaxTracks, keywords : 0..MaxKeywords, summary : BOOLEAN]

(* generateRecommendation: the model is asked only if it is enabled and has *)
(* a key.                                                                   *)
Begin(place, i) ==
  /\ pc = "idle" /\ pc' = place
  /\ intent' = i /\ loggedIn' \in BOOLEAN /\ hinted' = FALSE
  /\ searched' = 0 /\ found' = <<>> /\ songs' = <<>>

Ask == Begin("model", NoIntent) \/ (\E i \in KnowledgeBase : Begin("hint", i))

(* analyzeWithLLM: an answer that parses and has tracks or a summary is the *)
(* intent; a failed call, an exception, or an answer with neither falls     *)
(* back to the knowledge base.                                              *)
AskModel ==
  /\ pc = "model" /\ pc' = "hint"
  /\ intent' \in {i \in ModelIntents : i.tracks > 0 \/ i.summary} \cup KnowledgeBase
  /\ UNCHANGED <<loggedIn, hinted, searched, found, songs>>

(* getUserPreference: no connection, a failed query and no row give none.   *)
Hint == /\ pc = "hint" /\ pc' = "track"
        /\ hinted' \in {FALSE, loggedIn}
        /\ UNCHANGED <<intent, loggedIn, searched, found, songs>>

(* ApiProxy::searchSongs. *)
Search(next) ==
  /\ \E list \in Lists : \E urls \in UrlAnswers(list) : found' \in FilterPlayable(list, urls)
  /\ searched' = searched + 1
  /\ pc' = next
  /\ UNCHANGED <<intent, loggedIn, hinted, songs>>

(* fetchSongsForIntent, its first loop: one search for each track, ...      *)
SearchTrack == pc = "track" /\ searched < intent.tracks /\ Search("pickTrack")

(* ... of which the first song that is new is taken.                        *)
PickTrack ==
  /\ pc = "pickTrack"
  /\ \/ found = <<>> /\ pc' = "track" /\ UNCHANGED <<found, songs>>
     \/ /\ found # <<>> /\ IsNew(Head(found).song)
        /\ Add(Head(found), "track")
        /\ found' = <<>> /\ pc' = "track"
     \/ /\ found # <<>> /\ ~IsNew(Head(found).song)
        /\ found' = Tail(found) /\ UNCHANGED <<pc, songs>>
  /\ UNCHANGED <<intent, loggedIn, hinted, searched>>

EndTracks ==
  /\ pc = "track" /\ searched >= intent.tracks
  /\ pc' = IF Len(songs) < Enough THEN "keyword" ELSE "idle"
  /\ UNCHANGED <<intent, loggedIn, hinted, searched, found, songs>>

(* Its second loop: every new song of each keyword, until there are Most.   *)
SearchKeyword ==
  /\ pc = "keyword" /\ searched - intent.tracks < intent.keywords /\ Len(songs) < Most
  /\ Search("pickKeyword")

PickKeyword ==
  /\ pc = "pickKeyword"
  /\ IF found = <<>> \/ Len(songs) >= Most
     THEN found' = <<>> /\ pc' = "keyword" /\ UNCHANGED songs
     ELSE /\ found' = Tail(found) /\ UNCHANGED pc
          /\ IF IsNew(Head(found).song) THEN Add(Head(found), "keyword") ELSE UNCHANGED songs
  /\ UNCHANGED <<intent, loggedIn, hinted, searched>>

EndKeywords ==
  /\ pc = "keyword"
  /\ searched - intent.tracks >= intent.keywords \/ Len(songs) >= Most
  /\ pc' = "idle"
  /\ UNCHANGED <<intent, loggedIn, hinted, searched, found, songs>>

(* The two routes that answer with the filtered list itself. *)
SearchRoute ==
  /\ pc = "idle"
  /\ \E list \in Lists : \E urls \in UrlAnswers(list) : \E kept \in FilterPlayable(list, urls) :
       songs' = [i \in 1..Len(kept) |-> [song |-> kept[i].song, linked |-> kept[i].linked,
                                         by |-> "search", batch |-> 1]]
  /\ intent' = NoIntent /\ hinted' = FALSE /\ loggedIn' = FALSE
  /\ searched' = 0 /\ found' = <<>> /\ UNCHANGED pc

Step == \/ AskModel \/ Hint \/ SearchTrack \/ PickTrack \/ EndTracks
        \/ SearchKeyword \/ PickKeyword \/ EndKeywords
Next == Ask \/ SearchRoute \/ Step

Spec == Init /\ [][Next]_vars

-----------------------------------------------------------------------------
(* No song is recommended twice, though every search may list the same      *)
(* ones, and each can be asked for by its id.                               *)
NoSongTwice ==
  \A i, j \in 1..Len(songs) :
    songs[i].by # "search" =>
      /\ songs[i].song \in Numbered
      /\ songs[i].song = songs[j].song => i = j

(* The songs of the intent's tracks come first, one a track and in their    *)
(* order; keywords only fill up an answer that is short, and never beyond   *)
(* Most.                                                                    *)
TracksThenTopUps ==
  LET ByTrack == {i \in 1..Len(songs) : songs[i].by = "track"}
      ByKeyword == {i \in 1..Len(songs) : songs[i].by = "keyword"}
  IN  /\ \A i \in ByTrack : songs[i].batch \in i..intent.tracks
      /\ \A i, j \in ByTrack : i < j => songs[i].batch < songs[j].batch
      /\ \A i \in ByTrack, j \in ByKeyword : i < j
      /\ ByKeyword # {} => Len(songs) <= Most /\ \A i \in ByTrack : i < Enough

(* Songs of one search were filtered with one batch of URLs: all of them    *)
(* have a link, or the batch was empty, none has, and none is charged for.  *)
LinkedAllOrNone ==
  \A i, j \in 1..Len(songs) :
    songs[i].batch = songs[j].batch =>
      /\ songs[i].linked = songs[j].linked
      /\ ~songs[i].linked => songs[i].song \notin Charged
=============================================================================
