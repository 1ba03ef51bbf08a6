------------------------------ MODULE Library ------------------------------
(***************************************************************************)
(* The server's side of a signed-in user: the token check of               *)
(* HttpRequest::parse (src/src/Http.cpp), the routes for favorites and     *)
(* play history (src/src/Router.cpp, src/src/MusicService.cpp) and their   *)
(* queries (src/src/Database.cpp).  Requests are served side by side; each *)
(* query is one step and may fail, for want of a connection or by itself.  *)
(* Auth.tla has login and refresh in detail: here they are one step each,  *)
(* and Lapse stands for the expiry of a token or its loss in a restart.    *)
(***************************************************************************)
EXTENDS Integers, FiniteSets

CONSTANTS Requests, \* requests that may be under way at once
          Users, Songs,
          MaxTokens, \* bound: how often tokens are issued
          None

Token == [user : Users, kind : {"access", "refresh"}, n : 1..MaxTokens]

ASSUME LibraryAssumption == None \notin Users \cup Token /\ MaxTokens \in Nat

VARIABLES valid,   \* tokens CacheManager accepts
          issued,  \* how often tokens were issued
          fav,     \* rows of favorites: the songs of each user
          plays,   \* of whom play_history has rows
          at,      \* where the server is with each request
          ask,     \* what it asks
          as,      \* req.user_id
          reply,   \* the answer
          writes,  \* history: how often it wrote to a table, retries included
          trouble  \* history: what came between the two queries of a toggle

libVars == <<valid, issued, fav, plays, at, ask, as, reply, writes, trouble>>

NeedUser == {"toggle", "check", "favorites", "record", "history"}
Ops == NeedUser \cup {"login", "refresh"}
Ask == [op : Ops, song : Songs, user : Users \cup {None}, token : Token \cup {None}]
\* code: 200, HTTP status 401, or 200 with another code in the body
Reply == [code : {"none", "ok", "unauthorized", "refused"}, owner : Users \cup {None},
          token : Token \cup {None}, fav : BOOLEAN]
NoReply == [code |-> "none", owner |-> None, token |-> None, fav |-> FALSE]

LibTypeOK == /\ valid \subseteq Token /\ issued \in 0..MaxTokens
             /\ fav \in [Users -> SUBSET Songs] /\ plays \subseteq Users
             /\ at \in [Requests -> {"none", "arrived", "query", "write", "answered"}]
             /\ ask \in [Requests -> Ask \cup {None}]
             /\ as \in [Requests -> Users \cup {None}]
             /\ reply \in [Requests -> Reply]
             /\ writes \in [Requests -> 0..2]
             /\ trouble \in [Requests -> SUBSET {"failed", "overtaken"}]

(* Rows earlier runs may have left; no token survives a restart. *)
LibInit == /\ valid = {} /\ issued = 0
           /\ fav \in [Users -> SUBSET Songs] /\ plays \in {{}, Users}
           /\ at = [r \in Requests |-> "none"] /\ ask = [r \in Requests |-> None]
           /\ as = [r \in Requests |-> None] /\ reply = [r \in Requests |-> NoReply]
           /\ writes = [r \in Requests |-> 0] /\ trouble = [r \in Requests |-> {}]

Goto(r, l) == at' = [at EXCEPT ![r] = l]
Answer(r, a) == /\ Goto(r, "answered") /\ reply' = [reply EXCEPT ![r] = a]
                /\ ask' = [ask EXCEPT ![r] = None] /\ as' = [as EXCEPT ![r] = None]
Ok(r) == [NoReply EXCEPT !.code = "ok", !.owner = as[r]]
Op(r, op, place) == at[r] = place /\ ask[r].op = op

-----------------------------------------------------------------------------
(* Faulty variants, each a bug such code may have; no part of Spec. *)

\* The two branches swapped.
ToggleSwapped(r) ==
  LET u == as[r]
      s == ask[r].song
      was == reply[r].fav
  IN  /\ Op(r, "toggle", "write")
      /\ fav' = [fav EXCEPT ![u] = IF was THEN @ \cup {s} ELSE @ \ {s}]
      /\ writes' = [writes EXCEPT ![r] = @ + 1]
      /\ UNCHANGED trouble
      /\ Answer(r, [Ok(r) EXCEPT !.fav = ~was])
      /\ UNCHANGED <<valid, issued, plays>>

-----------------------------------------------------------------------------
(* validateToken and validateRefreshToken. *)
Accepted(t, kind) == t \in valid /\ t.kind = kind

(* HttpRequest::parse and Router::dispatch: a route that needs a user       *)
(* answers 401 to a token validateToken does not know.                      *)
Receive(r) ==
  /\ at[r] = "arrived" /\ ask[r].op \in NeedUser
  /\ \/ /\ Accepted(ask[r].token, "access")
        /\ as' = [as EXCEPT ![r] = ask[r].token.user]
        /\ Goto(r, "query") /\ UNCHANGED <<ask, reply>>
     \/ /\ ~Accepted(ask[r].token, "access")
        /\ Answer(r, [NoReply EXCEPT !.code = "unauthorized"])
  /\ UNCHANGED <<valid, issued, fav, plays, writes, trouble>>

Issue(r, u, kinds) ==
  /\ issued < MaxTokens /\ issued' = issued + 1
  /\ valid' = valid \cup [user : {u}, kind : kinds, n : {issued'}]
  /\ Answer(r, [NoReply EXCEPT !.code = "ok", !.owner = u,
                               !.token = [user |-> u, kind |-> "access", n |-> issued']])
  /\ UNCHANGED <<fav, plays, writes, trouble>>

Refuse(r) == /\ Answer(r, [NoReply EXCEPT !.code = "refused"])
             /\ UNCHANGED <<valid, issued, fav, plays, writes, trouble>>

Login(r) == Op(r, "login", "arrived") /\ (Refuse(r) \/ Issue(r, ask[r].user, {"access", "refresh"}))

(* A refused refresh has HTTP status 200. *)
Refresh(r) ==
  /\ Op(r, "refresh", "arrived")
  /\ IF Accepted(ask[r].token, "refresh") THEN Issue(r, ask[r].token.user, {"access"})
     ELSE Refuse(r)

(* toggleFavorite: isFavorite, whose failure is a no, ... *)
ToggleCheck(r) ==
  /\ Op(r, "toggle", "query")
  /\ \/ /\ reply' = [reply EXCEPT ![r].fav = ask[r].song \in fav[as[r]]]
        /\ trouble' = [trouble EXCEPT ![r] = {}]
     \/ /\ reply' = [reply EXCEPT ![r].fav = FALSE]
        /\ trouble' = [trouble EXCEPT ![r] = {"failed"}]
  /\ Goto(r, "write")
  /\ UNCHANGED <<valid, issued, fav, plays, ask, as, writes>>

(* ... then removeFavorite, or addFavorite, which leaves a row that is      *)
(* there; nobody looks at their results.                                    *)
Undone(r, q) == /\ at[q] = "write" /\ q # r /\ as[q] = as[r] /\ ask[q].op = "toggle"
                /\ ask[q].song = ask[r].song
ToggleWrite(r) ==
  LET u == as[r]
      s == ask[r].song
      was == reply[r].fav
  IN  /\ Op(r, "toggle", "write")
      /\ \/ /\ fav' = [fav EXCEPT ![u] = IF was THEN @ \ {s} ELSE @ \cup {s}]
            /\ writes' = [writes EXCEPT ![r] = @ + 1]
            /\ trouble' = [q \in Requests |->
                             IF Undone(r, q) THEN trouble[q] \cup {"overtaken"} ELSE trouble[q]]
         \/ /\ trouble' = [trouble EXCEPT ![r] = @ \cup {"failed"}]
            /\ UNCHANGED <<fav, writes>>
      /\ Answer(r, [Ok(r) EXCEPT !.fav = ~was])
      /\ UNCHANGED <<valid, issued, plays>>

(* A query for rows, which finds none if it fails.  Of a list only matters  *)
(* whose rows it shows, None if it is empty.                                *)
QueryRows(r, op, rows) ==
  /\ Op(r, op, "query")
  /\ \E seen \in BOOLEAN :
       /\ seen => rows
       /\ Answer(r, [Ok(r) EXCEPT !.owner = IF seen THEN as[r] ELSE None, !.fav = seen])
  /\ UNCHANGED <<valid, issued, fav, plays, writes, trouble>>

CheckFavorite(r) == QueryRows(r, "check", ask[r].song \in fav[as[r]])
GetFavorites(r) == QueryRows(r, "favorites", fav[as[r]] # {})
GetHistory(r) == QueryRows(r, "history", as[r] \in plays)

(* recordHistory adds a row each time. *)
RecordHistory(r) ==
  /\ Op(r, "record", "query")
  /\ \/ /\ plays' = plays \cup {as[r]}
        /\ writes' = [writes EXCEPT ![r] = @ + 1]
        /\ Answer(r, Ok(r))
     \/ Answer(r, [NoReply EXCEPT !.code = "refused"]) /\ UNCHANGED <<plays, writes>>
  /\ UNCHANGED <<valid, issued, fav, trouble>>

Lapse(t) == /\ valid' = valid \ {t}
            /\ UNCHANGED <<issued, fav, plays, at, ask, as, reply, writes, trouble>>

Serve(r) == \/ Receive(r) \/ Login(r) \/ Refresh(r) \/ ToggleCheck(r) \/ ToggleWrite(r)
            \/ CheckFavorite(r) \/ GetFavorites(r) \/ GetHistory(r) \/ RecordHistory(r)

-----------------------------------------------------------------------------
(* A toggle turns its row over, unless one of its queries failed or another *)
(* toggle of the row wrote between its two queries; and what it answers is  *)
(* what it left in the table, unless one of its queries failed.             *)
ToggleTurnsOver ==
  [][\A r \in Requests : Op(r, "toggle", "write") /\ at'[r] = "answered" =>
       LET was == ask[r].song \in fav[as[r]]
           is == ask[r].song \in fav'[as[r]]
       IN  /\ (is <=> ~was) \/ trouble'[r] # {}
           /\ (is <=> reply'[r].fav) \/ "failed" \in trouble'[r]]_libVars
=============================================================================
