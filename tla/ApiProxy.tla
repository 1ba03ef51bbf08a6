------------------------------ MODULE ApiProxy ------------------------------
(***************************************************************************)
(* What src/src/ApiProxy.cpp makes of the music API's answers to a search, *)
(* a playlist and a batch of URLs.  The API is outside the program: it may *)
(* answer with any list, with an answer cut at the timeout, or not at all, *)
(* and an empty reply sends the proxy to a second URL.  A song is its id.  *)
(***************************************************************************)
EXTENDS Integers, Sequences, FiniteSets, Functions

CONSTANTS Songs,    \* what the API may list
          Numbered, \* those with an id above 0
          Charged,  \* those with fee = 1
          MaxFound  \* bound: songs in one answer

ASSUME ApiAssumption == /\ Numbered \subseteq Songs /\ Charged \subseteq Songs
                        /\ MaxFound \in Nat

(* A song of an answer, with play_url or without. *)
Found == [song : Songs, linked : BOOLEAN]
Lists == UNION {[1..n -> Songs] : n \in 0..MaxFound}

NoUrls == [answered |-> FALSE, linked |-> {}]

-----------------------------------------------------------------------------
(* Faulty variants, each a bug such code may have; used by no other operator. *)

\* A song the batch does not mention is kept as if nothing had been answered.
KeptUnmentioned(urls, s) == s \in urls.linked \/ s \notin Charged

-----------------------------------------------------------------------------
(* batchGetSongUrls: only positive ids are asked for, and with none of them *)
(* the batch is empty; has_urls_response needs a non-empty array.  What it has  *)
(* for an id that was not asked for, 0 included, counts like the rest.      *)
UrlAnswers(list) ==
  {NoUrls} \cup
  (IF Range(list) \cap Numbered = {} THEN {}
   ELSE {[answered |-> TRUE, linked |-> U] : U \in SUBSET Range(list)})

(* The condition of filterPlayableSongs' second loop: a usable URL, or no   *)
(* URL for any song and a fee other than 1.                                 *)
Kept(urls, s) == s \in urls.linked \/ (~urls.answered /\ s \notin Charged)

(* filterPlayableSongs: the songs that are kept, in their order.  The one    *)
(* rising numbering of their positions is order.                            *)
FilterPlayable(list, urls) ==
  LET kept == {i \in DOMAIN list : Kept(urls, list[i])}
      n == Cardinality(kept)
      rising == {order \in [1..n -> kept] : \A i, j \in 1..n : i < j => order[i] < order[j]}
      song(s) == [song |-> s, linked |-> s \in urls.linked]
  IN  {[i \in 1..n |-> song(list[order[i]])] : order \in rising}
=============================================================================
