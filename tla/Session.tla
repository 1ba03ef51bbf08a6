------------------------------ MODULE Session ------------------------------
(***************************************************************************)
(* The browser's side of a session: the interceptors of src/web/js/api.js  *)
(* and, of src/web/js/app.js, login, logout, favorites and history, on top *)
(* of the server of Library.tla.  One page sends requests and handles      *)
(* their answers in any order; a request or its answer may be lost, and    *)
(* the user may log out, in, or reload the page while some are under way.  *)
(* Users play and like the one current song, or one of a list.             *)
(***************************************************************************)
EXTENDS Library

CONSTANT MaxClicks \* bound: what the user does

ASSUME SessionAssumption == Songs # {} /\ MaxClicks \in Nat

VARIABLES page,    \* currentUser
          store,   \* localStorage: demo_player_token, _refresh_token and _user
          shown,   \* whose rows favoritesList, historyList and isCurrentSongFav show
          client,  \* what the page does about each request
          goal,    \* originalRequest: its operation and song
          again,   \* it has been sent again after a refresh
          crossed, \* history: the session changed with requests under way
          clicks

pageVars == <<page, store, shown, client, goal, again, crossed, clicks>>
vars == <<libVars, pageVars>>

NoStore == [token |-> None, refresh |-> None, user |-> None]
NothingShown == [favorites |-> None, history |-> None, heart |-> None]
User == Users \cup {None}

TypeOK == /\ LibTypeOK
          /\ page \in User
          /\ store \in [token : Token \cup {None}, refresh : Token \cup {None}, user : User]
          /\ shown \in [favorites : User, history : User, heart : User]
          /\ client \in [Requests -> {"free", "waiting", "refreshing"}]
          /\ goal \in [Requests -> [op : Ops, song : Songs] \cup {None}]
          /\ again \in [Requests -> BOOLEAN]
          /\ crossed \in BOOLEAN /\ clicks \in 0..MaxClicks

Init == /\ LibInit
        /\ page = None /\ store = NoStore /\ shown = NothingShown
        /\ client = [r \in Requests |-> "free"] /\ goal = [r \in Requests |-> None]
        /\ again = [r \in Requests |-> FALSE]
        /\ crossed = FALSE /\ clicks = 0

InFlight(r) == client[r] # "free"
Free(r) == ~InFlight(r) /\ at[r] = "none"
Click == clicks < MaxClicks /\ clicks' = clicks + 1
Others(r) == \E q \in Requests \ {r} : InFlight(q)

Want(op, s) == [op |-> op, song |-> s]
AnySong == CHOOSE s \in Songs : TRUE
Loads(r, q) == [p \in {r, q} |-> Want(IF p = r THEN "favorites" ELSE "history", AnySong)]

(* The request interceptor: f gives the requests to send, with an operation *)
(* and a song; each takes the token that is stored now.  The page goes on   *)
(* waiting for the others as rest says.                                     *)
Message(m, u, token) == [op |-> m.op, song |-> m.song, user |-> u, token |-> token]
Send(f, u, token, rest) ==
  LET set(fresh, old) == [r \in Requests |-> IF r \in DOMAIN f THEN fresh ELSE old[r]]
  IN  /\ at' = set("arrived", at) /\ as' = set(None, as) /\ reply' = set(NoReply, reply)
      /\ ask' = [r \in Requests |-> IF r \in DOMAIN f THEN Message(f[r], u, token) ELSE ask[r]]
      /\ writes' = set(0, writes) /\ trouble' = set({}, trouble)
      /\ client' = set("waiting", rest)
      /\ goal' = [r \in Requests |-> IF r \in DOMAIN f THEN f[r]
                                     ELSE IF rest[r] = "free" THEN None ELSE goal[r]]
      /\ again' = [r \in Requests |-> again[r] /\ r \notin DOMAIN f /\ rest[r] # "free"]
      /\ UNCHANGED <<valid, issued, fav, plays>>

(* The same request once more, with another token. *)
Resend(r, m, token) ==
  /\ at' = [at EXCEPT ![r] = "arrived"] /\ ask' = [ask EXCEPT ![r] = Message(m, None, token)]
  /\ as' = [as EXCEPT ![r] = None] /\ reply' = [reply EXCEPT ![r] = NoReply]
  /\ UNCHANGED <<valid, issued, fav, plays, writes, trouble>>

(* The request of slot r is over, and the server has nothing more to do.    *)
Forget(r) == /\ at' = [at EXCEPT ![r] = "none"]
             /\ ask' = [ask EXCEPT ![r] = None] /\ as' = [as EXCEPT ![r] = None]
             /\ reply' = [reply EXCEPT ![r] = NoReply]
             /\ writes' = [writes EXCEPT ![r] = 0]
             /\ trouble' = [trouble EXCEPT ![r] = {}]
             /\ UNCHANGED <<valid, issued, fav, plays>>
Close(r) == /\ client' = [client EXCEPT ![r] = "free"]
            /\ goal' = [goal EXCEPT ![r] = None] /\ again' = [again EXCEPT ![r] = FALSE]

(* What the caller of a request that failed shows. *)
Rejected(r) == IF goal[r].op = "check" THEN [shown EXCEPT !.heart = None] ELSE shown

-----------------------------------------------------------------------------
(* Faulty variants, each a bug such code may have; no part of Spec. *)

\* Two values under each other's keys.
StoredSwapped(t) == [token |-> t.user, refresh |-> [t EXCEPT !.kind = "refresh"], user |-> t]

\* Logging out forgets who it was, and leaves the tokens.
LogoutKeepsTokens ==
  /\ Click /\ page # None
  /\ page' = None /\ store' = [store EXCEPT !.user = None] /\ shown' = NothingShown
  /\ crossed' = \E r \in Requests : InFlight(r)
  /\ UNCHANGED <<libVars, client, goal, again>>

\* It leaves the list of favorites on the page.
LogoutKeepsLists ==
  /\ Click /\ page # None
  /\ page' = None /\ store' = NoStore
  /\ shown' = [shown EXCEPT !.history = None, !.heart = None]
  /\ crossed' = \E r \in Requests : InFlight(r)
  /\ UNCHANGED <<libVars, client, goal, again>>

\* A request whose answer is lost is sent again.
FailAndResend(r) ==
  /\ client[r] = "waiting" /\ ~again[r] /\ at[r] = "answered"
  /\ Resend(r, goal[r], store.token) /\ again' = [again EXCEPT ![r] = TRUE]
  /\ UNCHANGED <<page, store, shown, client, goal, crossed, clicks>>

-----------------------------------------------------------------------------
(* What the user does.  The login form is there only while nobody is        *)
(* logged in.                                                               *)
SubmitLogin(r, u) ==
  /\ Click /\ page = None /\ Free(r)
  /\ Send([q \in {r} |-> Want("login", AnySong)], u, None, client)
  /\ UNCHANGED <<page, store, shown, crossed>>

Logout ==
  /\ Click /\ page # None
  /\ page' = None /\ store' = NoStore /\ shown' = NothingShown
  /\ crossed' = \E r \in Requests : InFlight(r)
  /\ UNCHANGED <<libVars, client, goal, again>>

(* toggleCurrentFavorite. *)
Like(r, s) ==
  /\ Click /\ page # None /\ Free(r)
  /\ Send([q \in {r} |-> Want("toggle", s)], None, store.token, client)
  /\ UNCHANGED <<page, store, shown, crossed>>

(* The end of playMusic: checkFavoriteState and recordHistory. *)
Play(r, q, s) ==
  /\ Click /\ page # None /\ Free(r) /\ Free(q) /\ r # q
  /\ Send([p \in {r, q} |-> Want(IF p = r THEN "check" ELSE "record", s)], None, store.token,
          client)
  /\ UNCHANGED <<page, store, shown, crossed>>

(* The page is loaded again: checkLocalAuth.  Nobody waits any more for     *)
(* what was under way.                                                      *)
Reload(r, q) ==
  /\ Click /\ Free(r) /\ Free(q) /\ r # q
  /\ page' = store.user /\ shown' = NothingShown
  /\ Send(IF store.user # None THEN Loads(r, q) ELSE [p \in {} |-> Want("check", AnySong)],
          None, store.token, [p \in Requests |-> "free"])
  /\ UNCHANGED <<store, crossed>>

-----------------------------------------------------------------------------
(* Answers.                                                                 *)
Done(r) == client[r] = "waiting" /\ at[r] = "answered"

(* A retried request resolves to the whole response, in which the callers   *)
(* find neither a code nor data.                                            *)
Usable(r) == reply[r].code = "ok" /\ ~again[r]

(* What a login stores. *)
Stored(t) == [token |-> t, refresh |-> [t EXCEPT !.kind = "refresh"], user |-> t.user]

(* handleAuthSubmit. *)
LoginAnswered(r, q) ==
  /\ Done(r) /\ goal[r].op = "login"
  /\ \/ /\ Usable(r) /\ r # q /\ Free(q)
        /\ LET t == reply[r].token
           IN  /\ page' = t.user
               /\ store' = Stored(t)
               /\ Send(Loads(r, q), None, t, client)
        /\ crossed' = (crossed \/ Others(r))
     \/ /\ ~Usable(r) /\ q = r /\ Forget(r) /\ Close(r)
        /\ UNCHANGED <<page, store, crossed>>
  /\ UNCHANGED <<shown, clicks>>

(* toggleCurrentFavorite: the heart, if the song is the current one, then   *)
(* the list.                                                                *)
ToggleAnswered(r) ==
  /\ Done(r) /\ goal[r].op = "toggle" /\ Usable(r)
  /\ \/ shown' = [shown EXCEPT !.heart = IF reply[r].fav THEN reply[r].owner ELSE None]
     \/ UNCHANGED shown
  /\ IF page # None
     THEN Send([p \in {r} |-> Want("favorites", AnySong)], None, store.token, client)
     ELSE Forget(r) /\ Close(r)
  /\ UNCHANGED <<page, store, crossed, clicks>>

(* loadFavorites and loadHistory show what came, checkFavoriteState also    *)
(* what did not: any other answer to it clears the heart.                   *)
ReadAnswered(r) ==
  /\ Done(r) /\ goal[r].op \in {"check", "favorites", "history"}
  /\ reply[r].code = "unauthorized" => again[r]
  /\ shown' = CASE goal[r].op = "check" ->
                     [shown EXCEPT !.heart = IF Usable(r) /\ reply[r].fav THEN reply[r].owner
                                             ELSE None]
                [] Usable(r) /\ goal[r].op = "favorites" ->
                     [shown EXCEPT !.favorites = reply[r].owner]
                [] Usable(r) /\ goal[r].op = "history" ->
                     [shown EXCEPT !.history = reply[r].owner]
                [] OTHER -> shown
  /\ Forget(r) /\ Close(r)
  /\ UNCHANGED <<page, store, crossed, clicks>>

(* Nobody looks at the answer of recordHistory, nor at one of a toggle that *)
(* was sent again or refused.                                               *)
OtherAnswered(r) ==
  /\ Done(r) /\ goal[r].op \in {"record", "toggle"}
  /\ reply[r].code = "unauthorized" => again[r]
  /\ goal[r].op = "toggle" => ~Usable(r)
  /\ Forget(r) /\ Close(r)
  /\ UNCHANGED <<page, store, shown, crossed, clicks>>

(* The response interceptor.  A first 401: refresh, if there is a token     *)
(* for that; otherwise the caller's promise is rejected.                    *)
Unauthorized(r) ==
  /\ Done(r) /\ reply[r].code = "unauthorized" /\ ~again[r]
  /\ IF store.refresh # None
     THEN /\ Resend(r, Want("refresh", goal[r].song), store.refresh)
          /\ client' = [client EXCEPT ![r] = "refreshing"]
          /\ UNCHANGED <<goal, again, shown>>
     ELSE Forget(r) /\ Close(r) /\ shown' = Rejected(r)
  /\ UNCHANGED <<page, store, crossed, clicks>>

(* The new token is stored, whoever is logged in by now, and the request is *)
(* sent again with it; a refusal changes nothing and rejects.               *)
Refreshed(r) ==
  /\ client[r] = "refreshing" /\ at[r] = "answered"
  /\ \/ /\ reply[r].code = "ok"
        /\ store' = [store EXCEPT !.token = reply[r].token]
        /\ Resend(r, goal[r], reply[r].token)
        /\ again' = [again EXCEPT ![r] = TRUE]
        /\ client' = [client EXCEPT ![r] = "waiting"]
        /\ UNCHANGED <<goal, shown>>
     \/ /\ reply[r].code # "ok"
        /\ Forget(r) /\ Close(r) /\ shown' = Rejected(r)
        /\ UNCHANGED store
  /\ UNCHANGED <<page, crossed, clicks>>

(* The connection breaks, or the ten seconds of apiClient have passed; the  *)
(* refresh, a plain axios.post, has no such limit and fails only by the     *)
(* former.  Perhaps the request never arrived or its answer is lost,        *)
(* perhaps the server goes on with it: the same in both cases.  Only a      *)
(* refresh that fails clears the storage.                                   *)
Fail(r) ==
  /\ InFlight(r)
  /\ \/ at[r] \in {"arrived", "answered"} /\ Forget(r)
     \/ at[r] # "answered" /\ UNCHANGED libVars
  /\ Close(r) /\ shown' = Rejected(r)
  /\ IF client[r] = "refreshing"
     THEN store' = NoStore /\ crossed' = (crossed \/ Others(r))
     ELSE UNCHANGED <<store, crossed>>
  /\ UNCHANGED <<page, clicks>>

-----------------------------------------------------------------------------
Browser(r) == \/ \E q \in Requests : LoginAnswered(r, q)
              \/ ToggleAnswered(r) \/ ReadAnswered(r) \/ OtherAnswered(r)
              \/ Unauthorized(r) \/ Refreshed(r) \/ Fail(r)

(* The server; an answer nobody waits for any more is dropped.              *)
Backend(r) ==
  /\ \/ Serve(r)
     \/ at[r] = "answered" /\ ~InFlight(r) /\ Forget(r)
  /\ UNCHANGED pageVars

Clicked ==
  \/ Logout
  \/ \E r \in Requests, u \in Users : SubmitLogin(r, u)
  \/ \E r \in Requests, s \in Songs : Like(r, s)
  \/ \E r, q \in Requests : Reload(r, q)
  \/ \E r, q \in Requests, s \in Songs : Play(r, q, s)

Next == \/ Clicked
        \/ \E r \in Requests : Browser(r) \/ Backend(r)
        \/ \E t \in valid : Lapse(t) /\ UNCHANGED pageVars

Spec == Init /\ [][Next]_vars

-----------------------------------------------------------------------------
(* A click writes at most once, however often its request is sent: it is    *)
(* sent again only after an answer that says nothing was done.              *)
OneEffectPerClick == \A r \in Requests : writes[r] <= 1

(* The tokens in the storage are of the user whose name is stored with      *)
(* them, so that a page loaded again speaks for the user it shows; unless   *)
(* the session changed while requests were under way.                       *)
TokenIsOfUser ==
  ~crossed => \A t \in {store.token, store.refresh} \ {None} : t.user = store.user

(* Favorites, history and heart on the page are those of the user it shows, *)
(* nobody's after logout; with the same exception.                          *)
ShownIsOwn == ~crossed => \A part \in DOMAIN shown : shown[part] \in {None, page}
=============================================================================
