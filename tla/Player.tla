------------------------------ MODULE Player ------------------------------
(***************************************************************************)
(* The player of src/web/js/app.js: the queue, the song that plays and     *)
(* what the panel shows of it, for a user who is signed in.  playMusic     *)
(* waits for a URL, the lyric and the heart are waited for side by side,   *)
(* and an answer acts on whatever the player has come to by then.  Only    *)
(* how many calls of a kind are under way for a song matters, not which.   *)
(***************************************************************************)
EXTENDS Integers, Sequences, FiniteSets

CONSTANTS Songs,
          Lists,       \* the lists on the page
          MaxClicks,   \* bound: what the user does, ends of songs included
          MaxFailures, \* bound: calls that fail, of those that can succeed
          None

\* A song of a list or of the queue: linked if it has a play_url.
Entry == [id : Songs, linked : BOOLEAN]

ASSUME PlayerAssumption == /\ None \notin Songs /\ Lists \subseteq Seq(Entry)
                           /\ MaxClicks \in Nat /\ MaxFailures \in Nat

VARIABLES playable, \* the songs for which the API has a URL
          queue,    \* playQueue
          index,    \* currentQueueIndex + 1
          mode,     \* playMode
          current,  \* currentSong
          lyric,    \* the song of rawLyrics, None for no lyric
          heart,    \* the song isCurrentSongFav was set for
          calls,    \* of each kind and song: how many are under way
          mixed,    \* history: calls that overlapped, of each part of the state
          clicks, failures

shown == <<current, lyric, heart>>
vars == <<playable, queue, index, mode, shown, calls, mixed, clicks, failures>>

Kinds == {"url", "lyric", "check", "toggle"}

TypeOK == /\ playable \subseteq Songs
          /\ queue \in Seq(Entry) /\ index \in 0..Len(queue)
          /\ mode \in {"order", "single", "random"}
          /\ {current, lyric, heart} \subseteq Songs \cup {None}
          /\ calls \in [Kinds -> [Songs -> Nat]]
          /\ mixed \in [{"url", "lyric", "heart"} -> BOOLEAN]
          /\ clicks \in 0..MaxClicks /\ failures \in 0..MaxFailures

NoCalls == [s \in Songs |-> 0]
Init == /\ playable \in SUBSET Songs
        /\ queue = <<>> /\ index = 0 /\ mode = "order"
        /\ current = None /\ lyric = None /\ heart = None
        /\ calls = [k \in Kinds |-> NoCalls]
        /\ mixed = [part \in {"url", "lyric", "heart"} |-> FALSE]
        /\ clicks = 0 /\ failures = 0

Click == clicks < MaxClicks /\ clicks' = clicks + 1
Call(c, kind, s) == [c EXCEPT ![kind][s] = @ + 1]
Answered(c, kind, s) == [c EXCEPT ![kind][s] = @ - 1]
Quiet(c, kinds) == \A k \in kinds : c[k] = NoCalls

-----------------------------------------------------------------------------
(* Faulty variants, each a bug such code may have; no part of Spec. *)

\* The index stays where it was in the list before.
KeptIndex(list, s) == index

\* The queue starts with the list, whichever song was chosen.
FirstIndex(list, s) == 1

\* It does not move on.
SameIndex(i) == IF i = 0 THEN 1 ELSE i

\* The lyric of the song before stays until the new one comes.
StartKeepsLyric(s, c, m) ==
  /\ current' = s /\ UNCHANGED <<lyric, heart>>
  /\ calls' = Call(Call(c, "lyric", s), "check", s)
  /\ mixed' = [m EXCEPT !.lyric = ~Quiet(c, {"lyric"}),
                        !.heart = ~Quiet(c, {"check", "toggle"})]

-----------------------------------------------------------------------------
(* The end of playMusic, with a URL: the song is the current one; loadLyric *)
(* empties the lyric and asks for it, checkFavoriteState asks for the heart.*)
Start(s, c, m) ==
  /\ current' = s /\ lyric' = None /\ UNCHANGED heart
  /\ calls' = Call(Call(c, "lyric", s), "check", s)
  /\ mixed' = [m EXCEPT !.lyric = ~Quiet(c, {"lyric"}),
                        !.heart = ~Quiet(c, {"check", "toggle"})]

(* playMusic of e, with the queue q and its index i; c are the other calls  *)
(* under way.  With no URL in hand it asks for one.                         *)
PlayMusic(e, q, i, c, m) ==
  /\ queue' = q /\ index' = i
  /\ IF e.linked
     THEN Start(e.id, c, m)
     ELSE calls' = Call(c, "url", e.id) /\ mixed' = m /\ UNCHANGED shown

\* A song and its index are chosen: this sets them right again.
Select(e, q, i, c) == PlayMusic(e, q, i, c, [mixed EXCEPT !.url = ~Quiet(c, {"url"})])

FindIndex(list, s) == CHOOSE i \in DOMAIN list :
                        list[i].id = s /\ \A j \in DOMAIN list : list[j].id = s => i <= j
NextIndex(i) == (i % Len(queue)) + 1
PrevIndex(i) == IF i <= 1 THEN Len(queue) ELSE i - 1

PlayFromList(l, i) ==
  /\ Click /\ Select(l[i], l, FindIndex(l, l[i].id), calls)
  /\ UNCHANGED <<playable, mode, failures>>

\* playNext, when c are the calls under way.
PlayNext(c) ==
  IF queue = <<>>
  THEN calls' = c /\ UNCHANGED <<queue, index, shown, mixed>>
  ELSE \E i \in IF mode = "random" THEN DOMAIN queue ELSE {NextIndex(index)} :
         Select(queue[i], queue, i, c)

ClickNext == Click /\ PlayNext(calls) /\ UNCHANGED <<playable, mode, failures>>

(* The audio element comes to its end; "single" plays the same URL again.   *)
Ended == current # None /\ mode # "single" /\ ClickNext

PlayPrev == /\ Click /\ queue # <<>>
            /\ LET i == PrevIndex(index) IN Select(queue[i], queue, i, calls)
            /\ UNCHANGED <<playable, mode, failures>>

TogglePlayMode ==
  /\ Click
  /\ mode' = CASE mode = "order" -> "single" [] mode = "single" -> "random"
               [] mode = "random" -> "order"
  /\ UNCHANGED <<playable, queue, index, shown, calls, mixed, failures>>

(* changeSoundQuality plays currentSong, which has no play_url; it enters   *)
(* the queue only if it is not there, and the index stays if it is.         *)
ChangeSoundQuality ==
  /\ Click /\ current # None
  /\ LET e == [id |-> current, linked |-> FALSE]
         there == \E i \in DOMAIN queue : queue[i].id = current
         q == IF there THEN queue ELSE Append(queue, e)
     IN  PlayMusic(e, q, IF there THEN index ELSE Len(q), calls,
                   [mixed EXCEPT !.url = @ \/ ~Quiet(calls, {"url"})])
  /\ UNCHANGED <<playable, mode, failures>>

(* toggleCurrentFavorite of the current song. *)
Like == /\ Click /\ current # None
        /\ calls' = Call(calls, "toggle", current)
        /\ mixed' = [mixed EXCEPT !.heart = @ \/ ~Quiet(calls, {"check", "toggle"})]
        /\ UNCHANGED <<playable, queue, index, mode, shown, failures>>

-----------------------------------------------------------------------------
Failure == failures < MaxFailures /\ failures' = failures + 1

\* Without a URL the next song is played, next to what the index is by now.
UrlAnswer(s) ==
  /\ calls["url"][s] > 0
  /\ LET c == Answered(calls, "url", s)
     IN  \/ s \in playable /\ Start(s, c, mixed) /\ UNCHANGED <<queue, index, failures>>
         \/ s \notin playable /\ PlayNext(c) /\ UNCHANGED failures
         \/ s \in playable /\ Failure /\ PlayNext(c)
  /\ UNCHANGED <<playable, mode, clicks>>

(* A failure shows one line that says so. *)
LyricAnswer(s) ==
  /\ calls["lyric"][s] > 0 /\ calls' = Answered(calls, "lyric", s)
  /\ \/ lyric' = s /\ UNCHANGED failures
     \/ lyric' = None /\ Failure
  /\ UNCHANGED <<playable, queue, index, mode, current, heart, mixed, clicks>>

(* A check that fails clears the heart: that, too, is about its song. *)
CheckAnswer(s) ==
  /\ calls["check"][s] > 0 /\ calls' = Answered(calls, "check", s) /\ heart' = s
  /\ UNCHANGED <<playable, queue, index, mode, current, lyric, mixed, clicks, failures>>

(* The answer to a toggle sets the heart, whatever song is the current one. *)
ToggleAnswer(s) ==
  /\ calls["toggle"][s] > 0 /\ calls' = Answered(calls, "toggle", s)
  /\ \/ heart' = s /\ UNCHANGED failures
     \/ UNCHANGED heart /\ Failure
  /\ UNCHANGED <<playable, queue, index, mode, current, lyric, mixed, clicks>>

Answers(s) == UrlAnswer(s) \/ LyricAnswer(s) \/ CheckAnswer(s) \/ ToggleAnswer(s)

Next == \/ \E l \in Lists : \E i \in DOMAIN l : PlayFromList(l, i)
        \/ ClickNext \/ Ended \/ PlayPrev \/ TogglePlayMode \/ ChangeSoundQuality \/ Like
        \/ \E s \in Songs : Answers(s)

(* Every call is answered, or fails by its timeout. *)
Fairness == \A s \in Songs : WF_vars(UrlAnswer(s))
Spec == Init /\ [][Next]_vars /\ Fairness

-----------------------------------------------------------------------------
(* When no URL is waited for, the song that plays is the one the queue      *)
(* points at, so that the next one is next to it; unless calls for URLs     *)
(* overlapped and nothing was chosen since.                                 *)
PlaysWhereItPoints ==
  Quiet(calls, {"url"}) /\ ~mixed["url"] /\ index # 0 => queue[index].id = current

(* The panel never shows the lyric of another song, nor, once the calls     *)
(* about it are answered, another's heart; unless such calls overlapped.    *)
PanelFollows ==
  /\ ~mixed["lyric"] => lyric \in {None, current}
  /\ ~mixed["heart"] /\ Quiet(calls, {"check", "toggle"}) => heart = current

(* Skipping songs without a URL comes to an end, however many calls do so   *)
(* side by side: if the queue has a song that plays and its order is not    *)
(* random, the player gets to stop waiting for URLs.                        *)
SkippingEnds ==
  <>[](mode # "random" /\ \E i \in DOMAIN queue : queue[i].id \in playable)
    => []<>Quiet(calls, {"url"})
=============================================================================
