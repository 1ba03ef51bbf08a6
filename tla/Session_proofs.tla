--------------------------- MODULE Session_proofs ---------------------------
(***************************************************************************)
(* Proofs about Session for any users, songs, requests and bounds.         *)
(* The inductive invariant adds to the checked ones what each request is   *)
(* at its place in the server and on the page (Request), and in whose name *)
(* it speaks while the session has not changed under it (Speaks).          *)
(***************************************************************************)
EXTENDS Session, TLAPS

Goal == [op : Ops \ {"refresh"}, song : Songs]
AtServer == {"arrived", "query", "write"}

Request(r) ==
  /\ at[r] \in AtServer => ask[r] \in Ask
  /\ at[r] = "arrived" /\ ask[r].op = "login" => ask[r].user \in Users
  /\ at[r] \in {"query", "write"} => as[r] \in Users /\ ask[r].op \in NeedUser
  /\ at[r] = "write" => ask[r].op = "toggle"
  /\ writes[r] # 0 => /\ writes[r] = 1 /\ at[r] = "answered" /\ reply[r].code = "ok"
                      /\ client[r] # "refreshing"
  /\ InFlight(r) => goal[r] \in Goal /\ at[r] # "none"
  /\ client[r] = "waiting" /\ at[r] \in AtServer => ask[r].op = goal[r].op
  /\ client[r] = "waiting" /\ at[r] = "answered" /\ goal[r].op = "login" =>
       /\ reply[r].code # "unauthorized"
       /\ reply[r].code = "ok" => reply[r].token \in Token
  /\ client[r] = "refreshing" =>
       /\ goal[r].op # "login" /\ at[r] \in {"arrived", "answered"}
       /\ at[r] = "arrived" => ask[r].op = "refresh"
       /\ at[r] = "answered" /\ reply[r].code = "ok" => reply[r].token \in Token

Requested == \A r \in Requests : Request(r)

(* The user a token speaks for, if it is a token. *)
Of(t, u) == t # None => t.user = u

Speaks(r) ==
  /\ goal[r].op = "login" => page = None
  /\ goal[r].op # "login" =>
       /\ at[r] = "arrived" => Of(ask[r].token, page)
       /\ at[r] \in {"query", "write"} => as[r] = page
       /\ at[r] = "answered" => reply[r].owner \in {None, page} /\ Of(reply[r].token, page)
  /\ client[r] = "refreshing" => store.user = page

Speaking(r) == InFlight(r) => Speaks(r)

OwnStore == /\ store.user \in {None, page}
            /\ Of(store.token, store.user) /\ Of(store.refresh, store.user)
OwnShown == /\ shown.favorites \in {None, page} /\ shown.history \in {None, page}
            /\ shown.heart \in {None, page}
Own == ~crossed => OwnStore /\ OwnShown /\ \A r \in Requests : Speaking(r)

SessionInv == TypeOK /\ Requested /\ Own

-----------------------------------------------------------------------------
(* What a request keeps when a step does not touch it, *)
Same(q) == /\ at'[q] = at[q] /\ ask'[q] = ask[q] /\ as'[q] = as[q]
           /\ reply'[q] = reply[q] /\ writes'[q] = writes[q]

Stays(q) == /\ Same(q) /\ client'[q] = client[q]
            /\ client[q] # "free" => goal'[q] = goal[q]

LEMMA RequestStays ==
  ASSUME NEW q \in Requests, Request(q), Stays(q)
  PROVE  Request(q)'
BY DEF Request, Same, Stays, InFlight

(* when the page stops waiting for it, *)
LEMMA RequestFreed ==
  ASSUME NEW q \in Requests, Request(q), Same(q), client'[q] = "free"
  PROVE  Request(q)'
BY DEF Request, Same, InFlight

(* when its slot is empty, *)
LEMMA RequestGone ==
  ASSUME NEW q \in Requests, at'[q] = "none", writes'[q] = 0, client'[q] = "free"
  PROVE  Request(q)'
BY DEF Request, InFlight, AtServer

(* and when it is sent. *)
LEMMA RequestSent ==
  ASSUME NEW q \in Requests, at'[q] = "arrived", ask'[q] \in Ask,
         client'[q] = "waiting", goal'[q] \in Goal, ask'[q].op = goal'[q].op,
         ask'[q].op = "login" => ask'[q].user \in Users, writes'[q] = 0
  PROVE  Request(q)'
BY DEF Request, InFlight, AtServer

Sent(f, u, token, rest) ==
  /\ \A p \in DOMAIN f : /\ at'[p] = "arrived" /\ ask'[p] = Message(f[p], u, token)
                         /\ ask'[p] \in Ask /\ ask'[p].op = f[p].op
                         /\ ask'[p].token = token /\ ask'[p].user = u
                         /\ writes'[p] = 0 /\ client'[p] = "waiting" /\ goal'[p] = f[p]
  /\ \A p \in Requests \ DOMAIN f :
       /\ Same(p) /\ client'[p] = rest[p]
       /\ rest[p] # "free" => goal'[p] = goal[p]

SentTypes == /\ LibTypeOK'
             /\ client' \in [Requests -> {"free", "waiting", "refreshing"}]
             /\ goal' \in [Requests -> [op : Ops, song : Songs] \cup {None}]
             /\ again' \in [Requests -> BOOLEAN]

LEMMA SendFacts ==
  ASSUME TypeOK, NEW f, DOMAIN f \subseteq Requests, \A p \in DOMAIN f : f[p] \in Goal,
         NEW u \in User, NEW token \in Token \cup {None},
         NEW rest \in [Requests -> {"free", "waiting", "refreshing"}],
         Send(f, u, token, rest)
  PROVE  Sent(f, u, token, rest) /\ SentTypes
<1>1. \A p \in DOMAIN f : /\ Message(f[p], u, token) \in Ask
                          /\ Message(f[p], u, token).op = f[p].op
                          /\ Message(f[p], u, token).token = token
                          /\ Message(f[p], u, token).user = u
  BY DEF Message, Ask, Goal, User
<1>2. Sent(f, u, token, rest)
  BY <1>1 DEF Send, Sent, Same
<1>3. LibTypeOK'
  <2>1. NoReply \in Reply
    BY DEF NoReply, Reply
  <2>2. at' \in [Requests -> {"none", "arrived", "query", "write", "answered"}]
    BY DEF Send, TypeOK, LibTypeOK
  <2>3. ask' \in [Requests -> Ask \cup {None}]
    BY <1>1 DEF Send, TypeOK, LibTypeOK
  <2>4. as' \in [Requests -> Users \cup {None}] /\ reply' \in [Requests -> Reply]
    BY <2>1 DEF Send, TypeOK, LibTypeOK
  <2>5. writes' \in [Requests -> 0..2]
    BY DEF Send, TypeOK, LibTypeOK
  <2>6. trouble' \in [Requests -> SUBSET {"failed", "overtaken"}]
    BY DEF Send, TypeOK, LibTypeOK
  <2> QED  BY <2>2, <2>3, <2>4, <2>5, <2>6 DEF Send, TypeOK, LibTypeOK
<1>4. /\ client' \in [Requests -> {"free", "waiting", "refreshing"}]
      /\ goal' \in [Requests -> [op : Ops, song : Songs] \cup {None}]
  BY DEF Send, TypeOK, Goal
<1>5. again' \in [Requests -> BOOLEAN]
  BY DEF Send, TypeOK
<1> QED  BY <1>2, <1>3, <1>4, <1>5 DEF SentTypes

(* Emptying a slot, and sending its request once more. *)
LEMMA ForgetFacts ==
  ASSUME TypeOK, NEW r \in Requests, Forget(r)
  PROVE  /\ LibTypeOK' /\ at'[r] = "none" /\ writes'[r] = 0
         /\ \A q \in Requests : q # r => Same(q)
<1>1. NoReply \in Reply
  BY DEF NoReply, Reply
<1>2. LibTypeOK'
  <2>1. /\ at' \in [Requests -> {"none", "arrived", "query", "write", "answered"}]
        /\ ask' \in [Requests -> Ask \cup {None}] /\ as' \in [Requests -> Users \cup {None}]
    BY DEF Forget, TypeOK, LibTypeOK
  <2>2. reply' \in [Requests -> Reply] /\ writes' \in [Requests -> 0..2]
    BY <1>1 DEF Forget, TypeOK, LibTypeOK
  <2>3. trouble' \in [Requests -> SUBSET {"failed", "overtaken"}]
    BY DEF Forget, TypeOK, LibTypeOK
  <2> QED  BY <2>1, <2>2, <2>3 DEF Forget, TypeOK, LibTypeOK
<1>3. /\ at'[r] = "none" /\ writes'[r] = 0
      /\ \A q \in Requests : q # r => Same(q)
  BY DEF Forget, TypeOK, LibTypeOK, Same
<1> QED  BY <1>2, <1>3

LEMMA ResendFacts ==
  ASSUME TypeOK, NEW r \in Requests, NEW m \in [op : Ops, song : Songs],
         NEW token \in Token \cup {None}, Resend(r, m, token)
  PROVE  /\ LibTypeOK' /\ at'[r] = "arrived" /\ writes'[r] = writes[r]
         /\ ask'[r] \in Ask /\ ask'[r].op = m.op /\ ask'[r].token = token
         /\ \A q \in Requests : q # r => Same(q)
<1>1. NoReply \in Reply
  BY DEF NoReply, Reply
<1>2. /\ Message(m, None, token) \in Ask
      /\ Message(m, None, token).op = m.op /\ Message(m, None, token).token = token
  BY DEF Message, Ask
<1> QED  BY <1>1, <1>2 DEF Resend, TypeOK, LibTypeOK, Same

-----------------------------------------------------------------------------
(* A step of the server on a request: values keep their types, the other    *)
(* requests are left alone, and this one stays what it is and speaks in the *)
(* same name.                                                               *)
Served(r) == /\ LibTypeOK'
             /\ \A q \in Requests : q # r => Same(q)
             /\ Request(r)'
             /\ Speaking(r) => Speaking(r)'

LEMMA AnswerFacts ==
  ASSUME TypeOK, NEW r \in Requests, NEW a \in Reply, Answer(r, a)
  PROVE  /\ at' \in [Requests -> {"none", "arrived", "query", "write", "answered"}]
         /\ ask' \in [Requests -> Ask \cup {None}]
         /\ as' \in [Requests -> Users \cup {None}]
         /\ reply' \in [Requests -> Reply]
         /\ at'[r] = "answered" /\ reply'[r] = a
         /\ \A q \in Requests : q # r => /\ at'[q] = at[q] /\ ask'[q] = ask[q]
                                         /\ as'[q] = as[q] /\ reply'[q] = reply[q]
BY DEF Answer, Goto, TypeOK, LibTypeOK

(* An answer that changes nothing else. *)
LEMMA PlainAnswerFacts ==
  ASSUME TypeOK, NEW r \in Requests, NEW a \in Reply, Answer(r, a),
         UNCHANGED <<valid, issued, fav, plays, writes, trouble>>
  PROVE  /\ LibTypeOK' /\ at'[r] = "answered" /\ reply'[r] = a
         /\ \A q \in Requests : q # r => Same(q)
<1>1. LibTypeOK'
  BY AnswerFacts DEF TypeOK, LibTypeOK
<1> QED  BY <1>1, AnswerFacts DEF Same

LEMMA ReceiveServes ==
  ASSUME LibraryAssumption, TypeOK, NEW r \in Requests, Request(r), Receive(r),
         UNCHANGED pageVars
  PROVE  Served(r)
<1>1. CASE Accepted(ask[r].token, "access")
  <2>1. /\ as' = [as EXCEPT ![r] = ask[r].token.user]
        /\ at' = [at EXCEPT ![r] = "query"] /\ UNCHANGED <<ask, reply, writes>>
        /\ UNCHANGED <<valid, issued, fav, plays, trouble>>
    BY <1>1 DEF Receive, Goto, Answer
  <2>2. /\ ask[r].token \in Token /\ ask[r].token.user \in Users
        /\ ask[r].token # None
    BY <1>1 DEF Accepted, TypeOK, LibTypeOK, Token, LibraryAssumption
  <2>3. LibTypeOK' /\ \A q \in Requests : q # r => Same(q)
    BY <2>1, <2>2 DEF TypeOK, LibTypeOK, Same
  <2>4. Request(r)'
    BY <2>1, <2>2, UNCHANGED pageVars
    DEF Receive, NeedUser, Request, InFlight, AtServer, TypeOK, LibTypeOK, pageVars
  <2>5. Speaking(r) => Speaking(r)'
    BY <2>1, <2>2, UNCHANGED pageVars
    DEF Receive, Speaking, Speaks, InFlight, Of, TypeOK, LibTypeOK, pageVars
  <2> QED  BY <2>3, <2>4, <2>5 DEF Served
<1>2. CASE ~Accepted(ask[r].token, "access")
  <2> DEFINE a == [NoReply EXCEPT !.code = "unauthorized"]
  <2>1. Answer(r, a) /\ UNCHANGED <<valid, issued, fav, plays, writes, trouble>>
    BY <1>2 DEF Receive
  <2>2. a \in Reply /\ a.code = "unauthorized" /\ a.owner = None /\ a.token = None
    BY DEF NoReply, Reply
  <2>3. /\ LibTypeOK' /\ at'[r] = "answered" /\ reply'[r] = a
        /\ \A q \in Requests : q # r => Same(q)
    <3> HIDE DEF a
    <3> QED  BY <2>1, <2>2, PlainAnswerFacts
  <2>4. Request(r)'
    BY <2>1, <2>2, <2>3, UNCHANGED pageVars
    DEF Receive, NeedUser, Request, InFlight, AtServer, pageVars
  <2>5. Speaking(r) => Speaking(r)'
    BY <2>2, <2>3, UNCHANGED pageVars DEF Speaking, Speaks, InFlight, Of, pageVars
  <2> QED  BY <2>3, <2>4, <2>5 DEF Served
<1> QED  BY <1>1, <1>2

LEMMA IssueFacts ==
  ASSUME LibraryAssumption, TypeOK, NEW r \in Requests, NEW u \in Users,
         NEW kinds \in SUBSET {"access", "refresh"}, Issue(r, u, kinds)
  PROVE  /\ LibTypeOK' /\ at'[r] = "answered" /\ reply'[r].owner = u
         /\ reply'[r].token \in Token /\ reply'[r].token.user = u
         /\ reply'[r].code = "ok" /\ UNCHANGED writes
         /\ \A q \in Requests : q # r => Same(q)
<1>1. issued' = issued + 1 /\ issued' \in 1..MaxTokens /\ issued' \in 0..MaxTokens
  BY DEF Issue, TypeOK, LibTypeOK, LibraryAssumption
<1>2. PICK n \in 1..MaxTokens : n = issued'
  BY <1>1
<1> DEFINE t == [user |-> u, kind |-> "access", n |-> n]
           a == [NoReply EXCEPT !.code = "ok", !.owner = u, !.token = t]
<1>3. t \in Token /\ t.user = u /\ [user : {u}, kind : kinds, n : {n}] \subseteq Token
  BY DEF Token
<1>4. a \in Reply /\ a.owner = u /\ a.token = t /\ a.code = "ok"
  BY <1>3 DEF NoReply, Reply
<1>5. Answer(r, a) /\ UNCHANGED <<fav, plays, writes, trouble>>
      /\ valid' = valid \cup [user : {u}, kind : kinds, n : {n}]
  BY <1>2 DEF Issue
<1> HIDE DEF a
<1>6. /\ at'[r] = "answered" /\ reply'[r] = a
      /\ \A q \in Requests : q # r => Same(q)
  <2>1. at'[r] = "answered" /\ reply'[r] = a
    BY <1>4, <1>5, AnswerFacts
  <2>2. ASSUME NEW q \in Requests, q # r PROVE Same(q)
    <3>1. /\ at'[q] = at[q] /\ ask'[q] = ask[q]
          /\ as'[q] = as[q] /\ reply'[q] = reply[q]
      BY <1>4, <1>5, <2>2, AnswerFacts
    <3> QED  BY <1>5, <3>1 DEF Same
  <2> QED  BY <2>1, <2>2
<1>7. LibTypeOK'
  BY <1>1, <1>3, <1>4, <1>5, AnswerFacts DEF TypeOK, LibTypeOK
<1> QED  BY <1>3, <1>4, <1>5, <1>6, <1>7

LEMMA RefuseFacts ==
  ASSUME TypeOK, NEW r \in Requests, Refuse(r)
  PROVE  /\ LibTypeOK' /\ at'[r] = "answered" /\ reply'[r].owner = None
         /\ reply'[r].token = None
         /\ reply'[r].code = "refused" /\ UNCHANGED writes
         /\ \A q \in Requests : q # r => Same(q)
<1> DEFINE a == [NoReply EXCEPT !.code = "refused"]
<1>1. a \in Reply /\ a.code = "refused" /\ a.owner = None /\ a.token = None
  BY DEF NoReply, Reply
<1>2. Answer(r, a) /\ UNCHANGED <<valid, issued, fav, plays, writes, trouble>>
  BY DEF Refuse
<1>3. /\ at'[r] = "answered" /\ reply'[r] = a
      /\ LibTypeOK' /\ \A q \in Requests : q # r => Same(q)
  <2> HIDE DEF a
  <2> QED  BY <1>1, <1>2, PlainAnswerFacts
<1> QED  BY <1>1, <1>2, <1>3

LEMMA LoginServes ==
  ASSUME LibraryAssumption, TypeOK, NEW r \in Requests, Request(r), Login(r),
         UNCHANGED pageVars
  PROVE  Served(r)
<1>1. at[r] = "arrived" /\ ask[r].op = "login" /\ ask[r].user \in Users
  BY DEF Login, Op, Request
<1>2. /\ LibTypeOK' /\ at'[r] = "answered" /\ UNCHANGED writes
      /\ reply'[r].code \in {"ok", "refused"}
      /\ reply'[r].code = "ok" => reply'[r].token \in Token
      /\ \A q \in Requests : q # r => Same(q)
  BY <1>1, IssueFacts, RefuseFacts DEF Login
<1>3. Request(r)'
  BY <1>1, <1>2, UNCHANGED pageVars DEF Request, InFlight, AtServer, pageVars
<1>4. InFlight(r) => goal[r].op = "login" /\ client[r] = "waiting"
  BY <1>1 DEF Request, InFlight, TypeOK, AtServer
<1>5. Speaking(r) => Speaking(r)'
  BY <1>4, UNCHANGED pageVars DEF Speaking, Speaks, InFlight, pageVars
<1> QED  BY <1>2, <1>3, <1>5 DEF Served

LEMMA RefreshServes ==
  ASSUME LibraryAssumption, TypeOK, NEW r \in Requests, Request(r), Refresh(r),
         UNCHANGED pageVars
  PROVE  Served(r)
<1>1. at[r] = "arrived" /\ ask[r].op = "refresh"
  BY DEF Refresh, Op
<1>2. CASE Accepted(ask[r].token, "refresh")
  <2>1. ask[r].token \in Token /\ ask[r].token.user \in Users /\ ask[r].token # None
    BY <1>2 DEF Accepted, TypeOK, LibTypeOK, Token, LibraryAssumption
  <2>2. Issue(r, ask[r].token.user, {"access"})
    BY <1>2 DEF Refresh
  <2>3. /\ LibTypeOK' /\ at'[r] = "answered" /\ reply'[r].owner = ask[r].token.user
        /\ reply'[r].token \in Token /\ reply'[r].token.user = ask[r].token.user
        /\ reply'[r].code = "ok" /\ UNCHANGED writes
        /\ \A q \in Requests : q # r => Same(q)
    BY <2>1, <2>2, IssueFacts
  <2>4. Request(r)'
    BY <1>1, <2>3, UNCHANGED pageVars DEF Request, InFlight, AtServer, pageVars
  <2>5. Speaking(r) => Speaking(r)'
    BY <1>1, <2>1, <2>3, UNCHANGED pageVars DEF Speaking, Speaks, InFlight, Of, pageVars
  <2> QED  BY <2>3, <2>4, <2>5 DEF Served
<1>3. CASE ~Accepted(ask[r].token, "refresh")
  <2>1. /\ LibTypeOK' /\ at'[r] = "answered" /\ reply'[r].owner = None
        /\ reply'[r].token = None
        /\ reply'[r].code = "refused" /\ UNCHANGED writes
        /\ \A q \in Requests : q # r => Same(q)
    BY <1>3, RefuseFacts DEF Refresh
  <2>2. Request(r)'
    BY <1>1, <2>1, UNCHANGED pageVars DEF Request, InFlight, AtServer, pageVars
  <2>3. Speaking(r) => Speaking(r)'
    BY <2>1, UNCHANGED pageVars DEF Speaking, Speaks, InFlight, Of, pageVars
  <2> QED  BY <2>1, <2>2, <2>3 DEF Served
<1> QED  BY <1>2, <1>3

LEMMA ToggleCheckServes ==
  ASSUME TypeOK, NEW r \in Requests, Request(r), ToggleCheck(r), UNCHANGED pageVars
  PROVE  Served(r)
<1> DEFINE was == ask[r].song \in fav[as[r]]
<1>1. /\ at[r] = "query" /\ ask[r].op = "toggle" /\ at' = [at EXCEPT ![r] = "write"]
      /\ UNCHANGED <<valid, issued, fav, plays, ask, as, writes>>
      /\ \/ trouble' = [trouble EXCEPT ![r] = {}]
         \/ trouble' = [trouble EXCEPT ![r] = {"failed"}]
      /\ \/ reply' = [reply EXCEPT ![r].fav = was]
         \/ reply' = [reply EXCEPT ![r].fav = FALSE]
  BY DEF ToggleCheck, Op, Goto
<1>2. reply' \in [Requests -> Reply] /\ \A q \in Requests : q # r => reply'[q] = reply[q]
  <2>1. was \in BOOLEAN /\ FALSE \in BOOLEAN
    OBVIOUS
  <2>2. ASSUME NEW b \in BOOLEAN PROVE [reply[r] EXCEPT !.fav = b] \in Reply
    <3>1. reply[r] \in Reply
      BY DEF TypeOK, LibTypeOK
    <3> QED  BY <3>1 DEF Reply
  <2> HIDE DEF was
  <2>3. \E x \in Reply : reply' = [reply EXCEPT ![r] = x]
    BY <1>1, <2>1, <2>2
  <2> QED  BY <2>3 DEF TypeOK, LibTypeOK
<1>3. trouble' \in [Requests -> SUBSET {"failed", "overtaken"}]
  BY <1>1 DEF TypeOK, LibTypeOK
<1>4. LibTypeOK'
  BY <1>1, <1>2, <1>3 DEF TypeOK, LibTypeOK
<1>5. \A q \in Requests : q # r => Same(q)
  BY <1>1, <1>2 DEF Same, TypeOK, LibTypeOK
<1>6. Request(r)'
  BY <1>1, <1>2, UNCHANGED pageVars
  DEF Request, InFlight, AtServer, pageVars, TypeOK, LibTypeOK
<1>7. Speaking(r) => Speaking(r)'
  BY <1>1, UNCHANGED pageVars DEF Speaking, Speaks, InFlight, pageVars, TypeOK, LibTypeOK
<1> QED  BY <1>4, <1>5, <1>6, <1>7 DEF Served

(* An answer to a read or a write, in the name of the request. *)
LEMMA OkFacts ==
  ASSUME TypeOK, NEW r \in Requests, Request(r), at[r] \in {"query", "write"}
  PROVE  /\ \A b \in BOOLEAN : [Ok(r) EXCEPT !.fav = b] \in Reply
         /\ \A b : /\ [Ok(r) EXCEPT !.fav = b].owner = as[r]
                   /\ [Ok(r) EXCEPT !.fav = b].token = None
                   /\ [Ok(r) EXCEPT !.fav = b].code = "ok"
                   /\ [Ok(r) EXCEPT !.fav = b].fav = b
         /\ Ok(r) \in Reply /\ Ok(r).owner = as[r] /\ Ok(r).token = None /\ Ok(r).code = "ok"
BY DEF Ok, NoReply, Reply, Request

(* The last answer of a request that needs a user. *)
LEMMA AnsweredServes ==
  ASSUME TypeOK, NEW r \in Requests, Request(r), at[r] \in {"query", "write"},
         UNCHANGED pageVars, LibTypeOK', at'[r] = "answered",
         reply'[r].owner \in {as[r], None}, reply'[r].token = None,
         reply'[r].code \in {"ok", "refused"},
         writes'[r] = writes[r] \/ (reply'[r].code = "ok" /\ writes'[r] = writes[r] + 1),
         \A q \in Requests : q # r => Same(q)
  PROVE  Served(r)
<1>1. /\ writes[r] = 0 /\ ask[r].op # "login" /\ client[r] # "refreshing"
      /\ InFlight(r) => goal[r] \in Goal /\ goal[r].op # "login"
  BY DEF Request, NeedUser, InFlight, AtServer, TypeOK
<1>a. Request(r)'
  BY <1>1, UNCHANGED pageVars DEF Request, InFlight, AtServer, pageVars
<1>2. Speaking(r) => Speaking(r)'
  BY <1>1, UNCHANGED pageVars DEF Speaking, Speaks, InFlight, Of, pageVars
<1> QED  BY <1>a, <1>2 DEF Served

LEMMA ToggleWriteServes ==
  ASSUME TypeOK, NEW r \in Requests, Request(r), ToggleWrite(r), UNCHANGED pageVars
  PROVE  Served(r)
<1> DEFINE a == [Ok(r) EXCEPT !.fav = ~reply[r].fav]
<1>1. /\ at[r] = "write" /\ ask[r] \in Ask /\ as[r] \in Users /\ writes[r] = 0
  BY DEF ToggleWrite, Op, Request, AtServer
<1>2. a \in Reply /\ a.owner = as[r] /\ a.token = None /\ a.code = "ok"
  BY <1>1, OkFacts DEF TypeOK, LibTypeOK, Reply
<1>3. Answer(r, a) /\ UNCHANGED <<valid, issued, plays>>
  BY DEF ToggleWrite
<1>a. /\ \/ UNCHANGED fav
         \/ fav' = [fav EXCEPT ![as[r]] = @ \ {ask[r].song}]
         \/ fav' = [fav EXCEPT ![as[r]] = @ \cup {ask[r].song}]
      /\ UNCHANGED writes \/ writes' = [writes EXCEPT ![r] = @ + 1]
  BY DEF ToggleWrite
<1>b. trouble' \in [Requests -> SUBSET {"failed", "overtaken"}]
  <2>1. CASE trouble' = [q \in Requests |-> IF Undone(r, q) THEN trouble[q] \cup {"overtaken"}
                                            ELSE trouble[q]]
    <3> HIDE DEF Undone
    <3> QED  BY <2>1 DEF TypeOK, LibTypeOK
  <2>2. CASE trouble' = [trouble EXCEPT ![r] = @ \cup {"failed"}]
    <3>1. trouble[r] \cup {"failed"} \in SUBSET {"failed", "overtaken"}
      BY DEF TypeOK, LibTypeOK
    <3> QED  BY <2>2, <3>1 DEF TypeOK, LibTypeOK
  <2> QED  BY <2>1, <2>2 DEF ToggleWrite
<1>4. fav' \in [Users -> SUBSET Songs]
  <2>1. ask[r].song \in Songs
    BY <1>1 DEF Ask
  <2>2. \E rows \in SUBSET Songs : fav' = [fav EXCEPT ![as[r]] = rows]
    <3>1. fav[as[r]] \in SUBSET Songs /\ fav = [fav EXCEPT ![as[r]] = @]
      BY <1>1 DEF TypeOK, LibTypeOK
    <3> QED  BY <1>a, <2>1, <3>1
  <2> QED  BY <2>2 DEF TypeOK, LibTypeOK
<1>5. /\ writes' \in [Requests -> 0..2] /\ writes'[r] \in {writes[r], writes[r] + 1}
      /\ \A q \in Requests : q # r => writes'[q] = writes[q]
  BY <1>1, <1>a DEF TypeOK, LibTypeOK
<1>6. /\ at' \in [Requests -> {"none", "arrived", "query", "write", "answered"}]
      /\ ask' \in [Requests -> Ask \cup {None}]
      /\ as' \in [Requests -> Users \cup {None}] /\ reply' \in [Requests -> Reply]
      /\ at'[r] = "answered"
      /\ reply'[r].owner = as[r] /\ reply'[r].token = None /\ reply'[r].code = "ok"
      /\ \A q \in Requests : q # r => /\ at'[q] = at[q] /\ ask'[q] = ask[q]
                                      /\ as'[q] = as[q] /\ reply'[q] = reply[q]
  BY <1>2, <1>3 DEF Answer, Goto, TypeOK, LibTypeOK
<1>7. LibTypeOK'
  BY <1>3, <1>b, <1>4, <1>5, <1>6 DEF TypeOK, LibTypeOK
<1>8. \A q \in Requests : q # r => Same(q)
  BY <1>5, <1>6 DEF Same
<1> HIDE DEF a
<1>9. at[r] \in {"query", "write"} /\ reply'[r].owner \in {as[r], None}
  BY <1>1, <1>6
<1>10. /\ reply'[r].code \in {"ok", "refused"}
       /\ writes'[r] = writes[r] \/ (reply'[r].code = "ok" /\ writes'[r] = writes[r] + 1)
  BY <1>5, <1>6
<1> QED  BY <1>6, <1>7, <1>8, <1>9, <1>10, AnsweredServes

LEMMA QueryServes ==
  ASSUME TypeOK, NEW r \in Requests, Request(r), UNCHANGED pageVars,
         CheckFavorite(r) \/ GetFavorites(r) \/ GetHistory(r)
  PROVE  Served(r)
<1> USE DEF CheckFavorite, GetFavorites, GetHistory, QueryRows
<1>1. at[r] = "query" /\ as[r] \in Users
  BY DEF Op, Request
<1>2. PICK seen \in BOOLEAN :
        /\ Answer(r, [Ok(r) EXCEPT !.owner = IF seen THEN as[r] ELSE None, !.fav = seen])
        /\ UNCHANGED <<valid, issued, fav, plays, writes, trouble>>
  OBVIOUS
<1> DEFINE a == [Ok(r) EXCEPT !.owner = IF seen THEN as[r] ELSE None, !.fav = seen]
<1>3. a \in Reply /\ a.owner \in {as[r], None} /\ a.token = None /\ a.code = "ok"
  BY <1>1 DEF Ok, NoReply, Reply
<1>4. Answer(r, a) /\ UNCHANGED <<valid, issued, fav, plays, writes, trouble>>
  BY <1>2
<1> HIDE DEF CheckFavorite, GetFavorites, GetHistory, QueryRows
<1>5. /\ at' \in [Requests -> {"none", "arrived", "query", "write", "answered"}]
      /\ ask' \in [Requests -> Ask \cup {None}]
      /\ as' \in [Requests -> Users \cup {None}] /\ reply' \in [Requests -> Reply]
      /\ at'[r] = "answered"
      /\ reply'[r].owner \in {as[r], None} /\ reply'[r].token = None /\ reply'[r].code = "ok"
      /\ \A q \in Requests : q # r => /\ at'[q] = at[q] /\ ask'[q] = ask[q]
                                      /\ as'[q] = as[q] /\ reply'[q] = reply[q]
  BY <1>3, <1>4 DEF Answer, Goto, TypeOK, LibTypeOK
<1>6. LibTypeOK' /\ \A q \in Requests : q # r => Same(q)
  BY <1>4, <1>5 DEF TypeOK, LibTypeOK, Same
<1> HIDE DEF a
<1>7. at[r] \in {"query", "write"} /\ reply'[r].code \in {"ok", "refused"}
  BY <1>1, <1>5
<1> QED  BY <1>4, <1>5, <1>6, <1>7, AnsweredServes

LEMMA RecordServes ==
  ASSUME TypeOK, NEW r \in Requests, Request(r), RecordHistory(r), UNCHANGED pageVars
  PROVE  Served(r)
<1>1. at[r] = "query" /\ as[r] \in Users /\ writes[r] = 0
  BY DEF RecordHistory, Op, Request
<1>2. \E a \in Reply : /\ Answer(r, a) /\ a.owner \in {as[r], None} /\ a.token = None
                       /\ \/ a.code = "ok" /\ writes' = [writes EXCEPT ![r] = @ + 1]
                          \/ a.code = "refused" /\ UNCHANGED writes
  <2>1. Ok(r) \in Reply /\ Ok(r).owner = as[r] /\ Ok(r).token = None /\ Ok(r).code = "ok"
    BY <1>1, OkFacts
  <2>2. /\ [NoReply EXCEPT !.code = "refused"] \in Reply
        /\ [NoReply EXCEPT !.code = "refused"].owner = None
        /\ [NoReply EXCEPT !.code = "refused"].token = None
        /\ [NoReply EXCEPT !.code = "refused"].code = "refused"
    BY DEF NoReply, Reply
  <2> QED  BY <2>1, <2>2 DEF RecordHistory
<1>3. PICK a \in Reply : /\ Answer(r, a) /\ a.owner \in {as[r], None} /\ a.token = None
                         /\ \/ a.code = "ok" /\ writes' = [writes EXCEPT ![r] = @ + 1]
                            \/ a.code = "refused" /\ UNCHANGED writes
  BY <1>2
<1>4. plays' \subseteq Users /\ UNCHANGED <<valid, issued, fav, trouble>>
  BY <1>1 DEF RecordHistory, TypeOK, LibTypeOK
<1>5. /\ writes' \in [Requests -> 0..2]
      /\ writes'[r] = writes[r] \/ (a.code = "ok" /\ writes'[r] = writes[r] + 1)
      /\ \A q \in Requests : q # r => writes'[q] = writes[q]
  BY <1>1, <1>3 DEF TypeOK, LibTypeOK
<1>6. LibTypeOK' /\ at'[r] = "answered" /\ reply'[r] = a
  BY <1>3, <1>4, <1>5, AnswerFacts DEF TypeOK, LibTypeOK
<1>7. \A q \in Requests : q # r => Same(q)
  BY <1>3, <1>5, AnswerFacts DEF Same
<1> QED  BY <1>1, <1>3, <1>5, <1>6, <1>7, AnsweredServes

LEMMA ServeFacts ==
  ASSUME LibraryAssumption, TypeOK, NEW r \in Requests, Request(r), Serve(r),
         UNCHANGED pageVars
  PROVE  Served(r)
BY ReceiveServes, LoginServes, RefreshServes, ToggleCheckServes, ToggleWriteServes,
   QueryServes, RecordServes DEF Serve

-----------------------------------------------------------------------------
(* In whose name the untouched requests and the new ones speak. *)
LEMMA SpeakingStays ==
  ASSUME NEW q \in Requests, Speaking(q), Stays(q), page' = page,
         client[q] = "refreshing" => store'.user = store.user
  PROVE  Speaking(q)'
BY DEF Speaking, Speaks, InFlight, Same, Stays, Of

LEMMA SpeakingSent ==
  ASSUME NEW f, NEW u, NEW token, NEW rest, Sent(f, u, token, rest), NEW p \in DOMAIN f,
         f[p].op = "login" => page' = None, f[p].op # "login" => Of(token, page')
  PROVE  Speaking(p)'
BY DEF Sent, Speaking, Speaks, InFlight, Of

(* Tokens in the storage speak for the user on the page. *)
LEMMA StoreIsOfPage ==
  ASSUME LibraryAssumption, TypeOK, Own, ~crossed
  PROVE  /\ Of(store.token, page) /\ Of(store.refresh, page)
         /\ store.token # None \/ store.refresh # None => store.user = page
<1>1. /\ store.token # None => store.token.user \in Users
      /\ store.refresh # None => store.refresh.user \in Users
  BY DEF TypeOK, Token
<1> QED  BY <1>1 DEF Own, OwnStore, Of, LibraryAssumption

(* Closing a request, and sending some, leave the others alone. *)
LEMMA CloseFacts ==
  ASSUME TypeOK, Requested, NEW r \in Requests, Forget(r), Close(r)
  PROVE  /\ SentTypes /\ Requested' /\ client'[r] = "free"
         /\ \A q \in Requests : q # r => Stays(q)
<1>1. /\ LibTypeOK' /\ at'[r] = "none" /\ writes'[r] = 0
      /\ \A q \in Requests : q # r => Same(q)
  BY ForgetFacts
<1>2. /\ client' = [client EXCEPT ![r] = "free"] /\ goal' = [goal EXCEPT ![r] = None]
      /\ again' = [again EXCEPT ![r] = FALSE]
  BY DEF Close
<1>3. SentTypes
  BY <1>1, <1>2 DEF SentTypes, TypeOK
<1>4. client'[r] = "free" /\ \A q \in Requests : q # r => Stays(q)
  BY <1>1, <1>2 DEF Stays, TypeOK
<1>5. Requested'
  BY <1>1, <1>4, RequestStays, RequestGone DEF Requested
<1> QED  BY <1>3, <1>4, <1>5

LEMMA SendKeeps ==
  ASSUME TypeOK, Requested, NEW f, DOMAIN f \subseteq Requests,
         \A p \in DOMAIN f : f[p] \in Goal,
         NEW u \in User, NEW token \in Token \cup {None},
         NEW rest \in [Requests -> {"free", "waiting", "refreshing"}],
         \A p \in Requests : rest[p] \in {client[p], "free"},
         \A p \in DOMAIN f : f[p].op = "login" => u \in Users,
         Send(f, u, token, rest)
  PROVE  /\ SentTypes /\ Requested' /\ Sent(f, u, token, rest)
         /\ \A q \in Requests \ DOMAIN f : \/ Stays(q)
                                           \/ rest[q] = "free" /\ client'[q] = "free"
<1>1. Sent(f, u, token, rest) /\ SentTypes
  BY SendFacts
<1>2. \A q \in Requests \ DOMAIN f : \/ Stays(q)
                                     \/ rest[q] = "free" /\ client'[q] = "free"
  BY <1>1 DEF Sent, Stays
<1>3. ASSUME NEW q \in Requests \ DOMAIN f PROVE Request(q)'
  <2>1. CASE Stays(q)
    BY <2>1, RequestStays DEF Requested
  <2>2. CASE client'[q] = "free"
    BY <1>1, <2>2, RequestFreed DEF Requested, Sent
  <2> QED  BY <1>2, <2>1, <2>2
<1>4. ASSUME NEW q \in DOMAIN f PROVE Request(q)'
  BY <1>1, RequestSent DEF Sent
<1>5. Requested'
  BY <1>3, <1>4 DEF Requested
<1> QED  BY <1>1, <1>2, <1>5

-----------------------------------------------------------------------------
(* Clicks. *)
LEMMA SubmitLoginKeeps ==
  ASSUME SessionAssumption, SessionInv, NEW r \in Requests, NEW u \in Users, SubmitLogin(r, u)
  PROVE  SessionInv'
<1> DEFINE f == [q \in {r} |-> Want("login", AnySong)]
<1>1. DOMAIN f = {r} /\ f[r] \in Goal /\ f[r].op = "login"
  BY DEF Want, AnySong, Goal, Ops, SessionAssumption
<1>2. /\ Send(f, u, None, client) /\ UNCHANGED <<page, store, shown, crossed>>
      /\ page = None /\ clicks' \in 0..MaxClicks
  BY DEF SubmitLogin, Click, SessionInv, TypeOK, SessionAssumption
<1> HIDE DEF f
<1>3. /\ SentTypes /\ Requested' /\ Sent(f, u, None, client)
      /\ \A q \in Requests \ {r} : Stays(q) \/ client'[q] = "free"
  <2>1. u \in User /\ None \in Token \cup {None} /\ TypeOK /\ Requested
        /\ client \in [Requests -> {"free", "waiting", "refreshing"}]
    BY DEF SessionInv, TypeOK, User
  <2>2. DOMAIN f \subseteq Requests /\ \A p \in DOMAIN f : f[p] \in Goal
    BY <1>1
  <2> QED  BY <1>1, <1>2, <2>1, <2>2, SendKeeps
<1>4. TypeOK'
  BY <1>2, <1>3 DEF SessionInv, TypeOK, SentTypes
<1>5. Own'
  <2> SUFFICES ASSUME ~crossed PROVE OwnStore' /\ OwnShown' /\ \A q \in Requests : Speaking(q)'
    BY <1>2 DEF Own
  <2>1. OwnStore' /\ OwnShown'
    BY <1>2 DEF SessionInv, Own, OwnStore, OwnShown, Of
  <2>2. Speaking(r)'
    BY <1>1, <1>2, <1>3, SpeakingSent
  <2>3. ASSUME NEW q \in Requests \ {r} PROVE Speaking(q)'
    <3>1. CASE Stays(q)
      BY <1>2, <3>1, SpeakingStays DEF SessionInv, Own
    <3>2. CASE client'[q] = "free"
      BY <3>2 DEF Speaking, InFlight
    <3> QED  BY <1>3, <3>1, <3>2
  <2> QED  BY <2>1, <2>2, <2>3
<1> QED  BY <1>3, <1>4, <1>5 DEF SessionInv

LEMMA LogoutKeeps ==
  ASSUME SessionAssumption, SessionInv, Logout
  PROVE  SessionInv'
<1>1. /\ page' = None /\ store' = NoStore /\ shown' = NothingShown
      /\ crossed' = (\E r \in Requests : InFlight(r)) /\ clicks' \in 0..MaxClicks
      /\ UNCHANGED <<libVars, client, goal, again>>
  BY DEF Logout, Click, SessionInv, TypeOK, SessionAssumption
<1>2. crossed' \in BOOLEAN
  BY <1>1, Zenon
<1>3. TypeOK'
  <2>1. LibTypeOK'
    BY <1>1 DEF SessionInv, TypeOK, LibTypeOK, libVars
  <2> QED  BY <1>1, <1>2, <2>1 DEF SessionInv, TypeOK, NoStore, NothingShown, User
<1>4. Requested'
  <2>1. \A q \in Requests : Stays(q)
    BY <1>1 DEF Stays, Same, libVars
  <2> QED  BY <2>1, RequestStays DEF SessionInv, Requested
<1>5. Own'
  <2> SUFFICES ASSUME ~crossed' PROVE OwnStore' /\ OwnShown' /\ \A q \in Requests : Speaking(q)'
    BY DEF Own
  <2>1. \A q \in Requests : ~InFlight(q)'
    BY <1>1 DEF InFlight
  <2> QED  BY <1>1, <2>1 DEF OwnStore, OwnShown, Of, NoStore, NothingShown, Speaking
<1> QED  BY <1>3, <1>4, <1>5 DEF SessionInv

(* Requests that are sent with the stored token while page and storage stay *)
(* as they are. *)
LEMMA SendingKeeps ==
  ASSUME LibraryAssumption, SessionInv, NEW f, DOMAIN f \subseteq Requests,
         \A p \in DOMAIN f : f[p] \in Goal /\ f[p].op # "login",
         Send(f, None, store.token, client), UNCHANGED <<page, store, crossed>>,
         shown' \in [favorites : User, history : User, heart : User],
         ~crossed => OwnShown', clicks' \in 0..MaxClicks
  PROVE  SessionInv'
<1>1. /\ SentTypes /\ Requested' /\ Sent(f, None, store.token, client)
      /\ \A q \in Requests \ DOMAIN f : Stays(q) \/ client'[q] = "free"
  BY SendKeeps DEF SessionInv, TypeOK, User
<1>2. TypeOK'
  BY <1>1 DEF SessionInv, TypeOK, SentTypes
<1>3. Own'
  <2> SUFFICES ASSUME ~crossed PROVE OwnStore' /\ OwnShown' /\ \A q \in Requests : Speaking(q)'
    BY DEF Own
  <2>1. OwnStore' /\ Of(store.token, page')
    BY StoreIsOfPage DEF SessionInv, Own, OwnStore, Of
  <2>2. ASSUME NEW q \in DOMAIN f PROVE Speaking(q)'
    BY <1>1, <2>1, SpeakingSent
  <2>3. ASSUME NEW q \in Requests \ DOMAIN f PROVE Speaking(q)'
    <3>1. CASE Stays(q)
      BY <3>1, SpeakingStays DEF SessionInv, Own
    <3>2. CASE client'[q] = "free"
      BY <3>2 DEF Speaking, InFlight
    <3> QED  BY <1>1, <3>1, <3>2
  <2> QED  BY <2>1, <2>2, <2>3
<1> QED  BY <1>1, <1>2, <1>3 DEF SessionInv

LEMMA LikeKeeps ==
  ASSUME LibraryAssumption, SessionAssumption, SessionInv,
         NEW r \in Requests, NEW s \in Songs, Like(r, s)
  PROVE  SessionInv'
<1> DEFINE f == [q \in {r} |-> Want("toggle", s)]
<1>1. DOMAIN f = {r} /\ f[r] \in Goal /\ f[r].op # "login"
  BY DEF Want, Goal, Ops, NeedUser
<1>2. /\ Send(f, None, store.token, client) /\ UNCHANGED <<page, store, shown, crossed>>
      /\ clicks' \in 0..MaxClicks
  BY DEF Like, Click, SessionInv, TypeOK, SessionAssumption
<1>3. /\ shown' \in [favorites : User, history : User, heart : User]
      /\ ~crossed => OwnShown'
  BY <1>2 DEF SessionInv, TypeOK, Own, OwnShown
<1> HIDE DEF f
<1> QED  BY <1>1, <1>2, <1>3, SendingKeeps

LEMMA PlayKeeps ==
  ASSUME LibraryAssumption, SessionAssumption, SessionInv,
         NEW r \in Requests, NEW q \in Requests, NEW s \in Songs, Play(r, q, s)
  PROVE  SessionInv'
<1> DEFINE f == [p \in {r, q} |-> Want(IF p = r THEN "check" ELSE "record", s)]
<1>1. DOMAIN f = {r, q} /\ \A p \in {r, q} : f[p] \in Goal /\ f[p].op # "login"
  BY DEF Want, Goal, Ops, NeedUser
<1>2. /\ Send(f, None, store.token, client) /\ UNCHANGED <<page, store, shown, crossed>>
      /\ clicks' \in 0..MaxClicks
  BY DEF Play, Click, SessionInv, TypeOK, SessionAssumption
<1>3. /\ shown' \in [favorites : User, history : User, heart : User]
      /\ ~crossed => OwnShown'
  BY <1>2 DEF SessionInv, TypeOK, Own, OwnShown
<1> HIDE DEF f
<1> QED  BY <1>1, <1>2, <1>3, SendingKeeps

LEMMA ReloadKeeps ==
  ASSUME LibraryAssumption, SessionAssumption, SessionInv,
         NEW r \in Requests, NEW q \in Requests, Reload(r, q)
  PROVE  SessionInv'
<1> DEFINE f == IF store.user # None THEN Loads(r, q)
                ELSE [p \in {} |-> Want("check", AnySong)]
           rest == [p \in Requests |-> "free"]
<1>1. DOMAIN f \subseteq Requests /\ \A p \in DOMAIN f : f[p] \in Goal /\ f[p].op # "login"
  BY DEF Loads, Want, AnySong, Goal, Ops, NeedUser, SessionAssumption
<1>2. /\ Send(f, None, store.token, rest) /\ UNCHANGED <<store, crossed>>
      /\ page' = store.user /\ shown' = NothingShown /\ clicks' \in 0..MaxClicks
  BY DEF Reload, Click, SessionInv, TypeOK, SessionAssumption
<1>3. /\ rest \in [Requests -> {"free", "waiting", "refreshing"}]
      /\ \A p \in Requests : rest[p] = "free"
  OBVIOUS
<1> HIDE DEF f, rest
<1>4. /\ SentTypes /\ Requested' /\ Sent(f, None, store.token, rest)
  BY <1>1, <1>2, <1>3, SendKeeps DEF SessionInv, TypeOK, User
<1>5. TypeOK'
  BY <1>2, <1>4 DEF SessionInv, TypeOK, SentTypes, NothingShown, User
<1>6. Own'
  <2> SUFFICES ASSUME ~crossed PROVE OwnStore' /\ OwnShown' /\ \A p \in Requests : Speaking(p)'
    BY <1>2 DEF Own
  <2>1. OwnStore' /\ OwnShown' /\ Of(store.token, page')
    BY <1>2 DEF SessionInv, Own, OwnStore, OwnShown, Of, NothingShown
  <2>2. ASSUME NEW p \in DOMAIN f PROVE Speaking(p)'
    BY <1>1, <1>4, <2>1, SpeakingSent
  <2>3. ASSUME NEW p \in Requests \ DOMAIN f PROVE Speaking(p)'
    BY <1>3, <1>4 DEF Sent, Speaking, InFlight
  <2> QED  BY <2>1, <2>2, <2>3
<1> QED  BY <1>4, <1>5, <1>6 DEF SessionInv

-----------------------------------------------------------------------------
(* Answers.  A request that is closed while page and storage stay as they   *)
(* are: only what is shown may change.                                      *)
LEMMA ClosingKeeps ==
  ASSUME SessionInv, NEW r \in Requests, Forget(r), Close(r),
         UNCHANGED <<page, store, crossed, clicks>>,
         shown' \in [favorites : User, history : User, heart : User],
         ~crossed => OwnShown'
  PROVE  SessionInv'
<1>1. /\ SentTypes /\ Requested' /\ client'[r] = "free"
      /\ \A q \in Requests : q # r => Stays(q)
  BY CloseFacts DEF SessionInv
<1>2. TypeOK'
  BY <1>1 DEF SessionInv, TypeOK, SentTypes
<1>3. Own'
  <2> SUFFICES ASSUME ~crossed PROVE OwnStore' /\ OwnShown' /\ \A q \in Requests : Speaking(q)'
    BY DEF Own
  <2>1. OwnStore'
    BY DEF SessionInv, Own, OwnStore, Of
  <2>2. Speaking(r)'
    BY <1>1 DEF Speaking, InFlight
  <2>3. ASSUME NEW q \in Requests, q # r PROVE Speaking(q)'
    BY <1>1, <2>3, SpeakingStays DEF SessionInv, Own
  <2> QED  BY <2>1, <2>2, <2>3
<1> QED  BY <1>1, <1>2, <1>3 DEF SessionInv

(* The heart goes out, or shows what an answer says of its owner. *)
LEMMA HeartFacts ==
  ASSUME SessionInv, NEW u \in User, shown' = [shown EXCEPT !.heart = u],
         ~crossed => u \in {None, page}, page' = page
  PROVE  /\ shown' \in [favorites : User, history : User, heart : User]
         /\ ~crossed => OwnShown'
BY DEF SessionInv, TypeOK, Own, OwnShown

LEMMA RejectedFacts ==
  ASSUME SessionInv, NEW r \in Requests, shown' = Rejected(r), page' = page
  PROVE  /\ shown' \in [favorites : User, history : User, heart : User]
         /\ ~crossed => OwnShown'
<1>1. None \in User
  BY DEF User
<1>2. CASE goal[r].op = "check"
  BY <1>1, <1>2, HeartFacts DEF Rejected
<1>3. CASE goal[r].op # "check"
  BY <1>3 DEF Rejected, SessionInv, TypeOK, Own, OwnShown
<1> QED  BY <1>2, <1>3

(* The owner of an answer. *)
LEMMA OwnerFacts ==
  ASSUME SessionInv, NEW r \in Requests, Done(r), goal[r].op # "login"
  PROVE  reply[r].owner \in User /\ (~crossed => reply[r].owner \in {None, page})
<1>1. reply[r] \in Reply
  BY DEF SessionInv, TypeOK, LibTypeOK
<1> QED  BY <1>1 DEF Reply, User, Done, SessionInv, Own, Speaking, Speaks, InFlight

LEMMA LoginAnsweredKeeps ==
  ASSUME LibraryAssumption, SessionAssumption, SessionInv,
         NEW r \in Requests, NEW q \in Requests, LoginAnswered(r, q)
  PROVE  SessionInv'
<1>1. Done(r) /\ goal[r].op = "login" /\ UNCHANGED <<shown, clicks>>
  BY DEF LoginAnswered
<1>2. CASE /\ Usable(r) /\ r # q /\ Free(q)
           /\ page' = reply[r].token.user /\ store' = Stored(reply[r].token)
           /\ Send(Loads(r, q), None, reply[r].token, client)
           /\ crossed' = (crossed \/ Others(r))
  <2> DEFINE t == reply[r].token
  <2>1. t \in Token /\ t.user \in Users
    BY <1>1, <1>2 DEF SessionInv, Requested, Request, Done, Usable, Token
  <2>2. /\ DOMAIN Loads(r, q) = {r, q}
        /\ \A p \in DOMAIN Loads(r, q) : Loads(r, q)[p] \in Goal /\ Loads(r, q)[p].op # "login"
    BY DEF Loads, Want, AnySong, Goal, Ops, NeedUser, SessionAssumption
  <2>3. /\ SentTypes /\ Requested' /\ Sent(Loads(r, q), None, t, client)
        /\ \A p \in Requests \ {r, q} : Stays(p) \/ client'[p] = "free"
    BY <1>2, <2>1, <2>2, SendKeeps DEF SessionInv, TypeOK, User
  <2>4. Stored(t) \in [token : Token \cup {None}, refresh : Token \cup {None}, user : User]
        /\ Stored(t).user = t.user /\ Stored(t).token = t /\ Stored(t).refresh.user = t.user
    BY <2>1 DEF Stored, Token, User
  <2>5. crossed' \in BOOLEAN
    BY <1>2, Zenon
  <2>6. TypeOK'
    BY <1>1, <1>2, <2>1, <2>3, <2>4, <2>5 DEF SessionInv, TypeOK, SentTypes, User
  <2>7. Own'
    <3> SUFFICES ASSUME ~crossed' PROVE OwnStore' /\ OwnShown' /\ \A p \in Requests : Speaking(p)'
      BY DEF Own
    <3>1. ~crossed /\ \A p \in Requests \ {r} : ~InFlight(p)
      BY <1>2 DEF Others
    <3>2. page = None
      BY <1>1, <3>1 DEF SessionInv, Own, Speaking, Speaks, InFlight, Done
    <3>3. OwnStore'
      BY <1>2, <2>4 DEF OwnStore, Of
    <3>4. OwnShown'
      BY <1>1, <3>1, <3>2 DEF SessionInv, Own, OwnShown
    <3>5. Of(t, page')
      BY <1>2 DEF Of
    <3>6. ASSUME NEW p \in {r, q} PROVE Speaking(p)'
      BY <2>2, <2>3, <3>5, SpeakingSent
    <3>7. ASSUME NEW p \in Requests \ {r, q} PROVE Speaking(p)'
      BY <2>3, <3>1 DEF Stays, Speaking, InFlight
    <3> QED  BY <3>3, <3>4, <3>6, <3>7
  <2> QED  BY <2>3, <2>6, <2>7 DEF SessionInv
<1>3. CASE Forget(r) /\ Close(r) /\ UNCHANGED <<page, store, crossed>>
  BY <1>1, <1>3, ClosingKeeps DEF SessionInv, TypeOK, Own, OwnShown
<1> QED  BY <1>2, <1>3 DEF LoginAnswered

LEMMA ToggleAnsweredKeeps ==
  ASSUME LibraryAssumption, SessionAssumption, SessionInv,
         NEW r \in Requests, ToggleAnswered(r)
  PROVE  SessionInv'
<1>1. /\ Done(r) /\ goal[r].op = "toggle" /\ UNCHANGED <<page, store, crossed, clicks>>
      /\ clicks' \in 0..MaxClicks
  BY DEF ToggleAnswered, SessionInv, TypeOK
<1>2. /\ shown' \in [favorites : User, history : User, heart : User]
      /\ ~crossed => OwnShown'
  <2>1. CASE UNCHANGED shown
    BY <1>1, <2>1 DEF SessionInv, TypeOK, Own, OwnShown
  <2>2. CASE shown' = [shown EXCEPT !.heart = IF reply[r].fav THEN reply[r].owner ELSE None]
    BY <1>1, <2>2, OwnerFacts, HeartFacts DEF User
  <2> QED  BY <2>1, <2>2 DEF ToggleAnswered
<1>3. CASE Send([p \in {r} |-> Want("favorites", AnySong)], None, store.token, client)
  <2> DEFINE f == [p \in {r} |-> Want("favorites", AnySong)]
  <2>1. DOMAIN f = {r} /\ f[r] \in Goal /\ f[r].op # "login"
    BY DEF Want, AnySong, Goal, Ops, NeedUser, SessionAssumption
  <2>2. Send(f, None, store.token, client)
    BY <1>3
  <2> HIDE DEF f
  <2> QED  BY <1>1, <1>2, <2>1, <2>2, SendingKeeps
<1>4. CASE Forget(r) /\ Close(r)
  BY <1>1, <1>2, <1>4, ClosingKeeps
<1> QED  BY <1>3, <1>4 DEF ToggleAnswered

LEMMA ReadAnsweredKeeps ==
  ASSUME SessionInv, NEW r \in Requests, ReadAnswered(r)
  PROVE  SessionInv'
<1>1. /\ Done(r) /\ goal[r].op # "login" /\ UNCHANGED <<page, store, crossed, clicks>>
      /\ Forget(r) /\ Close(r)
  BY DEF ReadAnswered
<1>2. reply[r].owner \in User /\ None \in User /\ (~crossed => reply[r].owner \in {None, page})
  BY <1>1, OwnerFacts DEF User
<1>3. \E u \in {None, reply[r].owner} : \/ shown' = [shown EXCEPT !.heart = u]
                                        \/ shown' = [shown EXCEPT !.favorites = u]
                                        \/ shown' = [shown EXCEPT !.history = u]
                                        \/ shown' = shown
  BY DEF ReadAnswered
<1>4. /\ shown' \in [favorites : User, history : User, heart : User]
      /\ ~crossed => OwnShown'
  BY <1>1, <1>2, <1>3 DEF SessionInv, TypeOK, Own, OwnShown
<1> QED  BY <1>1, <1>4, ClosingKeeps

LEMMA OtherAnsweredKeeps ==
  ASSUME SessionInv, NEW r \in Requests, OtherAnswered(r)
  PROVE  SessionInv'
BY ClosingKeeps DEF OtherAnswered, SessionInv, TypeOK, Own, OwnShown

LEMMA UnauthorizedKeeps ==
  ASSUME LibraryAssumption, SessionAssumption, SessionInv, NEW r \in Requests, Unauthorized(r)
  PROVE  SessionInv'
<1>1. /\ Done(r) /\ reply[r].code = "unauthorized" /\ ~again[r]
      /\ UNCHANGED <<page, store, crossed, clicks>>
  BY DEF Unauthorized
<1>2. /\ goal[r] \in Goal /\ goal[r].op # "login" /\ writes[r] = 0
      /\ client[r] = "waiting" /\ InFlight(r)
  BY <1>1 DEF SessionInv, Requested, Request, Done, InFlight
<1>3. CASE /\ store.refresh # None /\ Resend(r, Want("refresh", goal[r].song), store.refresh)
           /\ client' = [client EXCEPT ![r] = "refreshing"]
           /\ UNCHANGED <<goal, again, shown>>
  <2> DEFINE m == Want("refresh", goal[r].song)
  <2>1. /\ m \in [op : Ops, song : Songs] /\ m.op = "refresh"
        /\ store.refresh \in Token \cup {None}
    BY <1>2 DEF Want, Goal, Ops, SessionInv, TypeOK
  <2> HIDE DEF m
  <2>2. /\ LibTypeOK' /\ at'[r] = "arrived" /\ writes'[r] = writes[r]
        /\ ask'[r] \in Ask /\ ask'[r].op = "refresh" /\ ask'[r].token = store.refresh
        /\ \A q \in Requests : q # r => Same(q)
    BY <1>3, <2>1, ResendFacts DEF SessionInv, m
  <2>3. client'[r] = "refreshing" /\ \A q \in Requests : q # r => Stays(q)
    BY <1>3, <2>2 DEF Stays, SessionInv, TypeOK
  <2>4. TypeOK'
    BY <1>1, <1>3, <2>2 DEF SessionInv, TypeOK
  <2>5. Request(r)'
    BY <1>2, <1>3, <2>2, <2>3 DEF Request, InFlight, AtServer
  <2>6. Requested'
    BY <2>3, <2>5, RequestStays DEF SessionInv, Requested
  <2>7. Own'
    <3> SUFFICES ASSUME ~crossed PROVE OwnStore' /\ OwnShown' /\ \A q \in Requests : Speaking(q)'
      BY <1>1 DEF Own
    <3>1. OwnStore' /\ OwnShown'
      BY <1>1, <1>3 DEF SessionInv, Own, OwnStore, OwnShown, Of
    <3>2. Of(store.refresh, page) /\ store.user = page
      BY <1>3, StoreIsOfPage DEF SessionInv
    <3>3. Speaking(r)'
      BY <1>1, <1>2, <1>3, <2>2, <2>3, <3>2 DEF Speaking, Speaks, Of
    <3>4. ASSUME NEW q \in Requests, q # r PROVE Speaking(q)'
      BY <1>1, <2>3, <3>4, SpeakingStays DEF SessionInv, Own
    <3> QED  BY <3>1, <3>3, <3>4
  <2> QED  BY <2>4, <2>6, <2>7 DEF SessionInv
<1>4. CASE Forget(r) /\ Close(r) /\ shown' = Rejected(r)
  BY <1>1, <1>4, RejectedFacts, ClosingKeeps
<1> QED  BY <1>3, <1>4 DEF Unauthorized

LEMMA RefreshedKeeps ==
  ASSUME LibraryAssumption, SessionAssumption, SessionInv, NEW r \in Requests, Refreshed(r)
  PROVE  SessionInv'
<1>1. /\ client[r] = "refreshing" /\ at[r] = "answered" /\ InFlight(r)
      /\ UNCHANGED <<page, crossed, clicks>>
  BY DEF Refreshed, InFlight
<1>2. CASE /\ reply[r].code = "ok" /\ store' = [store EXCEPT !.token = reply[r].token]
           /\ Resend(r, goal[r], reply[r].token) /\ again' = [again EXCEPT ![r] = TRUE]
           /\ client' = [client EXCEPT ![r] = "waiting"] /\ UNCHANGED <<goal, shown>>
  <2>1. /\ goal[r] \in Goal /\ goal[r].op # "login" /\ writes[r] = 0
        /\ goal[r] \in [op : Ops, song : Songs] /\ reply[r].token \in Token
    BY <1>1, <1>2 DEF SessionInv, Requested, Request, Goal
  <2>2. /\ LibTypeOK' /\ at'[r] = "arrived" /\ writes'[r] = writes[r]
        /\ ask'[r] \in Ask /\ ask'[r].op = goal[r].op /\ ask'[r].token = reply[r].token
        /\ \A q \in Requests : q # r => Same(q)
    BY <1>2, <2>1, ResendFacts DEF SessionInv
  <2>3. client'[r] = "waiting" /\ \A q \in Requests : q # r => Stays(q)
    BY <1>2, <2>2 DEF Stays, SessionInv, TypeOK
  <2>4. TypeOK'
    BY <1>1, <1>2, <2>1, <2>2 DEF SessionInv, TypeOK
  <2>5. Requested'
    BY <1>2, <2>1, <2>2, <2>3, RequestStays, RequestSent DEF SessionInv, Requested, Goal
  <2>6. Own'
    <3> SUFFICES ASSUME ~crossed PROVE OwnStore' /\ OwnShown' /\ \A q \in Requests : Speaking(q)'
      BY <1>1 DEF Own
    <3>1. /\ store.user = page /\ Of(reply[r].token, page)
          /\ OwnStore /\ OwnShown /\ \A q \in Requests : Speaking(q)
      BY <1>1, <2>1 DEF SessionInv, Own, Speaking, Speaks
    <3>2. /\ store'.user = store.user /\ store'.token = reply[r].token
          /\ store'.refresh = store.refresh
      BY <1>2 DEF SessionInv, TypeOK
    <3>3. OwnStore'
      BY <1>1, <3>1, <3>2 DEF OwnStore, Of
    <3>4. OwnShown'
      BY <1>1, <1>2, <3>1 DEF OwnShown
    <3>5. Speaking(r)'
      BY <1>1, <1>2, <2>1, <2>2, <2>3, <3>1, <3>2 DEF Speaking, Speaks, Of
    <3>6. ASSUME NEW q \in Requests, q # r PROVE Speaking(q)'
      BY <1>1, <2>3, <3>1, <3>2, <3>6, SpeakingStays
    <3> QED  BY <3>3, <3>4, <3>5, <3>6
  <2> QED  BY <2>4, <2>5, <2>6 DEF SessionInv
<1>3. CASE Forget(r) /\ Close(r) /\ shown' = Rejected(r) /\ UNCHANGED store
  BY <1>1, <1>3, RejectedFacts, ClosingKeeps
<1> QED  BY <1>2, <1>3 DEF Refreshed

LEMMA FailKeeps ==
  ASSUME SessionInv, NEW r \in Requests, Fail(r)
  PROVE  SessionInv'
<1>1. /\ InFlight(r) /\ Close(r) /\ shown' = Rejected(r) /\ UNCHANGED <<page, clicks>>
      /\ \/ client[r] = "refreshing" /\ store' = NoStore /\ crossed' = (crossed \/ Others(r))
         \/ UNCHANGED <<store, crossed>>
  BY DEF Fail
<1>2. /\ shown' \in [favorites : User, history : User, heart : User]
      /\ ~crossed => OwnShown'
  BY <1>1, RejectedFacts
<1>3. /\ SentTypes /\ Requested' /\ client'[r] = "free"
      /\ \A q \in Requests : q # r => Stays(q)
  <2>1. CASE Forget(r)
    BY <1>1, <2>1, CloseFacts DEF SessionInv
  <2>2. CASE UNCHANGED libVars
    <3>1. /\ client' = [client EXCEPT ![r] = "free"] /\ goal' = [goal EXCEPT ![r] = None]
          /\ again' = [again EXCEPT ![r] = FALSE] /\ \A q \in Requests : Same(q)
      BY <1>1, <2>2 DEF Close, Same, libVars
    <3>2. client'[r] = "free" /\ \A q \in Requests : q # r => Stays(q)
      BY <3>1 DEF SessionInv, TypeOK, Stays
    <3>3. LibTypeOK'
      BY <2>2 DEF libVars, SessionInv, TypeOK, LibTypeOK
    <3>4. SentTypes
      BY <3>1, <3>3 DEF SentTypes, SessionInv, TypeOK
    <3>5. Requested'
      BY <3>1, <3>2, RequestStays, RequestFreed DEF SessionInv, Requested
    <3> QED  BY <3>2, <3>4, <3>5
  <2> QED  BY <2>1, <2>2 DEF Fail
<1>4. crossed' \in BOOLEAN /\ (~crossed' => ~crossed)
  <2>1. (crossed \/ Others(r)) \in BOOLEAN /\ crossed \in BOOLEAN
    BY Zenon DEF SessionInv, TypeOK
  <2> QED  BY <1>1, <2>1
<1>5. TypeOK'
  BY <1>1, <1>2, <1>3, <1>4 DEF SessionInv, TypeOK, SentTypes, NoStore, User
<1>6. Own'
  <2> SUFFICES ASSUME ~crossed' PROVE OwnStore' /\ OwnShown' /\ \A q \in Requests : Speaking(q)'
    BY DEF Own
  <2>1. Speaking(r)'
    BY <1>3 DEF Speaking, InFlight
  <2>2. OwnShown'
    BY <1>2, <1>4
  <2>3. CASE store' = NoStore /\ crossed' = (crossed \/ Others(r))
    <3>1. \A q \in Requests : q # r => ~InFlight(q)
      BY <2>3 DEF Others
    <3>2. \A q \in Requests : q # r => Speaking(q)'
      BY <1>3, <3>1 DEF Stays, Speaking, InFlight
    <3>3. OwnStore'
      BY <2>3 DEF OwnStore, Of, NoStore
    <3> QED  BY <2>1, <2>2, <3>2, <3>3
  <2>4. CASE UNCHANGED <<store, crossed>>
    <3>1. OwnStore'
      BY <1>1, <1>4, <2>4 DEF SessionInv, Own, OwnStore, Of
    <3>2. ASSUME NEW q \in Requests, q # r PROVE Speaking(q)'
      BY <1>1, <1>3, <1>4, <2>4, <3>2, SpeakingStays DEF SessionInv, Own
    <3> QED  BY <2>1, <2>2, <3>1, <3>2
  <2> QED  BY <1>1, <2>3, <2>4
<1> QED  BY <1>3, <1>5, <1>6 DEF SessionInv

-----------------------------------------------------------------------------
(* The server. *)
LEMMA BackendKeeps ==
  ASSUME LibraryAssumption, SessionInv, NEW r \in Requests, Backend(r)
  PROVE  SessionInv'
<1>1. UNCHANGED pageVars
  BY DEF Backend
<1>2. /\ LibTypeOK' /\ \A q \in Requests : q # r => Same(q)
      /\ Request(r)' /\ (Speaking(r) => Speaking(r)')
  <2>1. CASE Serve(r)
    BY <1>1, <2>1, ServeFacts DEF Served, SessionInv, Requested
  <2>2. CASE ~InFlight(r) /\ Forget(r)
    BY <1>1, <2>2, ForgetFacts, RequestGone DEF SessionInv, InFlight, Speaking, pageVars
  <2> QED  BY <2>1, <2>2 DEF Backend
<1>3. \A q \in Requests : q # r => Stays(q)
  BY <1>1, <1>2 DEF Stays, pageVars
<1>4. TypeOK'
  BY <1>1, <1>2 DEF SessionInv, TypeOK, pageVars
<1>5. Requested'
  BY <1>2, <1>3, RequestStays DEF SessionInv, Requested
<1>6. Own'
  <2> SUFFICES ASSUME ~crossed PROVE OwnStore' /\ OwnShown' /\ \A q \in Requests : Speaking(q)'
    BY <1>1 DEF Own, pageVars
  <2>1. OwnStore' /\ OwnShown'
    BY <1>1 DEF SessionInv, Own, OwnStore, OwnShown, Of, pageVars
  <2>2. ASSUME NEW q \in Requests, q # r PROVE Speaking(q)'
    BY <1>1, <1>3, <2>2, SpeakingStays DEF SessionInv, Own, pageVars
  <2> QED  BY <1>2, <2>1, <2>2 DEF SessionInv, Own
<1> QED  BY <1>4, <1>5, <1>6 DEF SessionInv

(* Steps that touch no request. *)
LEMMA QuietKeeps ==
  ASSUME SessionInv, UNCHANGED pageVars, LibTypeOK', \A q \in Requests : Same(q)
  PROVE  SessionInv'
<1>1. \A q \in Requests : Stays(q)
  BY DEF Stays, pageVars
<1>2. TypeOK'
  BY DEF SessionInv, TypeOK, pageVars
<1>3. Requested'
  BY <1>1, RequestStays DEF SessionInv, Requested
<1>4. Own'
  <2> SUFFICES ASSUME ~crossed PROVE OwnStore' /\ OwnShown' /\ \A q \in Requests : Speaking(q)'
    BY DEF Own, pageVars
  <2>1. OwnStore' /\ OwnShown'
    BY DEF SessionInv, Own, OwnStore, OwnShown, Of, pageVars
  <2>2. ASSUME NEW q \in Requests PROVE Speaking(q)'
    BY <1>1, SpeakingStays DEF SessionInv, Own, pageVars
  <2> QED  BY <2>1, <2>2
<1> QED  BY <1>2, <1>3, <1>4 DEF SessionInv

LEMMA SessionInvInit ==
  ASSUME LibraryAssumption, SessionAssumption, Init
  PROVE  SessionInv
<1>1. LibTypeOK
  <2>1. NoReply \in Reply
    BY DEF NoReply, Reply
  <2> QED  BY <2>1 DEF Init, LibInit, LibTypeOK, LibraryAssumption
<1>2. TypeOK
  <2>1. /\ page \in User /\ NothingShown \in [favorites : User, history : User, heart : User]
        /\ NoStore \in [token : Token \cup {None}, refresh : Token \cup {None}, user : User]
    BY DEF Init, NoStore, NothingShown, User
  <2>2. /\ client \in [Requests -> {"free", "waiting", "refreshing"}]
        /\ goal \in [Requests -> [op : Ops, song : Songs] \cup {None}]
        /\ again \in [Requests -> BOOLEAN]
    BY DEF Init
  <2>3. crossed \in BOOLEAN
    BY DEF Init
  <2>4. clicks = 0 /\ MaxClicks \in Nat
    BY SessionAssumption DEF Init
  <2>5. clicks \in 0..MaxClicks
    BY <2>4
  <2> QED  BY <1>1, <2>1, <2>2, <2>3, <2>5 DEF Init, TypeOK
<1>3. Requested
  BY DEF Init, LibInit, Requested, Request, InFlight, AtServer
<1>4. Own
  BY DEF Init, Own, OwnStore, OwnShown, Of, NoStore, NothingShown, Speaking, InFlight
<1> QED  BY <1>2, <1>3, <1>4 DEF SessionInv

LEMMA SessionInvStep ==
  ASSUME LibraryAssumption, SessionAssumption, SessionInv, [Next]_vars
  PROVE  SessionInv'
<1>1. ASSUME Clicked PROVE SessionInv'
  BY <1>1, SubmitLoginKeeps, LogoutKeeps, LikeKeeps, PlayKeeps, ReloadKeeps DEF Clicked
<1>2. ASSUME NEW r \in Requests, Browser(r) PROVE SessionInv'
  BY <1>2, LoginAnsweredKeeps, ToggleAnsweredKeeps, ReadAnsweredKeeps, OtherAnsweredKeeps,
     UnauthorizedKeeps, RefreshedKeeps, FailKeeps DEF Browser
<1>3. ASSUME NEW t \in valid, Lapse(t), UNCHANGED pageVars PROVE SessionInv'
  <2>1. LibTypeOK' /\ \A q \in Requests : Same(q)
    BY <1>3 DEF Lapse, SessionInv, TypeOK, LibTypeOK, Same
  <2> QED  BY <1>3, <2>1, QuietKeeps
<1>4. CASE UNCHANGED vars
  <2>1. LibTypeOK' /\ UNCHANGED pageVars /\ \A q \in Requests : Same(q)
    BY <1>4 DEF vars, libVars, SessionInv, TypeOK, LibTypeOK, Same
  <2> QED  BY <2>1, QuietKeeps
<1> QED  BY <1>1, <1>2, <1>3, <1>4, BackendKeeps DEF Next

LEMMA SessionInvHolds == Spec => []SessionInv
<1>1. Init => SessionInv
  BY LibraryAssumption, SessionAssumption, SessionInvInit
<1>2. SessionInv /\ [Next]_vars => SessionInv'
  BY LibraryAssumption, SessionAssumption, SessionInvStep
<1> QED  BY <1>1, <1>2, PTL DEF Spec

(* Every value of page, storage, requests and server has its type.          *)
THEOREM SessionTypeCorrect == Spec => []TypeOK
<1>1. SessionInv => TypeOK
  BY DEF SessionInv
<1> QED  BY <1>1, SessionInvHolds, PTL

(* However often the interceptor sends a request, it writes once at most.   *)
THEOREM ClicksWriteOnce == Spec => []OneEffectPerClick
<1>1. SessionInv => OneEffectPerClick
  <2>1. SessionInv => \A r \in Requests : writes[r] = 0 \/ writes[r] = 1
    BY DEF SessionInv, Requested, Request
  <2> QED  BY <2>1 DEF OneEffectPerClick
<1> QED  BY <1>1, SessionInvHolds, PTL

(* The stored tokens speak for the stored user, unless a login, a logout or *)
(* a failed refresh came while requests were under way.                     *)
THEOREM StoredTokensAreOwn == Spec => []TokenIsOfUser
<1>1. SessionInv => TokenIsOfUser
  BY DEF SessionInv, Own, OwnStore, Of, TokenIsOfUser
<1> QED  BY <1>1, SessionInvHolds, PTL

(* The page shows the rows of the user it names, or none; with the same     *)
(* exception.                                                               *)
THEOREM PageShowsItsUser == Spec => []ShownIsOwn
<1>1. SessionInv => ShownIsOwn
  BY DEF SessionInv, TypeOK, Own, OwnShown, ShownIsOwn
<1> QED  BY <1>1, SessionInvHolds, PTL

-----------------------------------------------------------------------------
(* ToggleTurnsOver needs one more invariant: between its two queries a      *)
(* toggle that nothing came in between of knows its row.                    *)
Seen(r) == at[r] = "write" /\ trouble[r] = {} =>
             (reply[r].fav <=> ask[r].song \in fav[as[r]])
RowsSeen == \A r \in Requests : Seen(r)

Quiet(p) == /\ at'[p] = at[p] /\ ask'[p] = ask[p] /\ as'[p] = as[p]
            /\ reply'[p] = reply[p] /\ trouble'[p] = trouble[p]

(* The page changes no row, and takes no request to a place in the server   *)
(* but its beginning and its end.                                           *)
PageStep == UNCHANGED fav /\ \A p \in Requests : Quiet(p) \/ at'[p] \in {"none", "arrived"}

LEMMA SendQuiet ==
  ASSUME NEW f, NEW u, NEW token, NEW rest, Send(f, u, token, rest)
  PROVE  PageStep
BY DEF Send, PageStep, Quiet

LEMMA ForgetQuiet ==
  ASSUME TypeOK, NEW r \in Requests, Forget(r)
  PROVE  PageStep
BY DEF Forget, PageStep, Quiet, TypeOK, LibTypeOK

LEMMA ResendQuiet ==
  ASSUME TypeOK, NEW r \in Requests, NEW m, NEW token, Resend(r, m, token)
  PROVE  PageStep
BY DEF Resend, PageStep, Quiet, TypeOK, LibTypeOK

LEMMA StillQuiet ==
  ASSUME UNCHANGED libVars
  PROVE  PageStep
BY DEF libVars, PageStep, Quiet

LEMMA PageIsQuiet ==
  ASSUME TypeOK, Clicked \/ \E r \in Requests : Browser(r)
  PROVE  PageStep
<1>1. CASE Clicked
  BY <1>1, SendQuiet, StillQuiet DEF Clicked, Logout, SubmitLogin, Like, Reload, Play
<1>2. ASSUME NEW r \in Requests, Browser(r) PROVE PageStep
  <2>1. ASSUME NEW q \in Requests, LoginAnswered(r, q) PROVE PageStep
    BY <2>1, SendQuiet, ForgetQuiet DEF LoginAnswered
  <2>2. CASE ToggleAnswered(r) \/ ReadAnswered(r) \/ OtherAnswered(r)
    BY <2>2, SendQuiet, ForgetQuiet DEF ToggleAnswered, ReadAnswered, OtherAnswered
  <2>3. CASE Unauthorized(r) \/ Refreshed(r)
    BY <2>3, ResendQuiet, ForgetQuiet DEF Unauthorized, Refreshed
  <2>4. CASE Fail(r)
    BY <2>4, ForgetQuiet, StillQuiet DEF Fail
  <2> QED  BY <1>2, <2>1, <2>2, <2>3, <2>4 DEF Browser
<1> QED  BY <1>1, <1>2

(* Of the server's steps only the second query of a toggle changes a row.   *)
LEMMA ServeIsQuiet ==
  ASSUME TypeOK, NEW r \in Requests, Serve(r), ~ToggleWrite(r), ~ToggleCheck(r)
  PROVE  /\ UNCHANGED fav /\ at[r] # "write" /\ at'[r] \in {"query", "answered"}
         /\ \A p \in Requests : p # r => Quiet(p)
<1>1. /\ UNCHANGED <<fav, trouble>> /\ at[r] \in {"arrived", "query"}
      /\ \/ \E a : Answer(r, a)
         \/ \E u : at' = [at EXCEPT ![r] = "query"] /\ as' = [as EXCEPT ![r] = u]
                   /\ UNCHANGED <<ask, reply>>
  BY DEF Serve, Receive, Login, Refresh, Refuse, Issue, Op, Goto,
         CheckFavorite, GetFavorites, GetHistory, QueryRows, RecordHistory
<1>2. CASE \E a : Answer(r, a)
  BY <1>1, <1>2 DEF Answer, Goto, Quiet, TypeOK, LibTypeOK
<1>3. CASE \E u : at' = [at EXCEPT ![r] = "query"] /\ as' = [as EXCEPT ![r] = u]
                  /\ UNCHANGED <<ask, reply>>
  BY <1>1, <1>3 DEF Quiet, TypeOK, LibTypeOK
<1> QED  BY <1>1, <1>2, <1>3

LEMMA ToggleCheckSees ==
  ASSUME TypeOK, NEW r \in Requests, ToggleCheck(r)
  PROVE  /\ UNCHANGED fav /\ at[r] # "write" /\ at'[r] = "write" /\ Seen(r)'
         /\ \A p \in Requests : p # r => Quiet(p)
<1>1. /\ at[r] = "query" /\ at' = [at EXCEPT ![r] = "write"]
      /\ UNCHANGED <<fav, ask, as>>
      /\ \/ /\ reply' = [reply EXCEPT ![r].fav = ask[r].song \in fav[as[r]]]
            /\ trouble' = [trouble EXCEPT ![r] = {}]
         \/ /\ reply' = [reply EXCEPT ![r].fav = FALSE]
            /\ trouble' = [trouble EXCEPT ![r] = {"failed"}]
  BY DEF ToggleCheck, Op, Goto
<1>2. \A p \in Requests : p # r => Quiet(p)
  BY <1>1 DEF Quiet, TypeOK, LibTypeOK
<1>3. Seen(r)'
  <2>1. reply[r] \in Reply /\ r \in DOMAIN reply
    BY DEF TypeOK, LibTypeOK
  <2>2. CASE reply' = [reply EXCEPT ![r].fav = ask[r].song \in fav[as[r]]]
    <3>1. reply'[r].fav <=> ask[r].song \in fav[as[r]]
      BY <2>1, <2>2 DEF Reply
    <3> QED  BY <1>1, <3>1 DEF Seen
  <2>3. CASE trouble' = [trouble EXCEPT ![r] = {"failed"}]
    BY <2>3 DEF Seen, TypeOK, LibTypeOK
  <2> QED  BY <1>1, <2>2, <2>3
<1> QED  BY <1>1, <1>2, <1>3 DEF TypeOK, LibTypeOK

(* That query: what it leaves in its own row, and of the others.            *)
Turned(r) == LET was == ask[r].song \in fav[as[r]]
                 is == ask[r].song \in fav'[as[r]]
             IN  /\ (is <=> ~was) \/ trouble'[r] # {}
                 /\ (is <=> reply'[r].fav) \/ "failed" \in trouble'[r]

LEMMA ToggleWriteTurns ==
  ASSUME TypeOK, Requested, RowsSeen, NEW r \in Requests, ToggleWrite(r)
  PROVE  /\ Turned(r) /\ at'[r] = "answered"
         /\ \A p \in Requests : p # r => Seen(p)' /\ at'[p] = at[p]
<1> DEFINE u == as[r]
           s == ask[r].song
           in == s \in fav[u]
           isIn == s \in fav'[u]
<1>1. /\ at[r] = "write" /\ ask[r] \in Ask /\ u \in Users /\ s \in Songs
  BY DEF ToggleWrite, Op, Requested, Request, AtServer, Ask
<1>2. Answer(r, [Ok(r) EXCEPT !.fav = ~reply[r].fav])
  BY DEF ToggleWrite
<1>3. /\ at'[r] = "answered"
      /\ \A p \in Requests : p # r => /\ at'[p] = at[p] /\ ask'[p] = ask[p]
                                      /\ as'[p] = as[p] /\ reply'[p] = reply[p]
  BY <1>2 DEF Answer, Goto, TypeOK, LibTypeOK
<1>4. reply'[r].fav <=> ~reply[r].fav
  BY <1>2 DEF Answer, Ok, NoReply, TypeOK, LibTypeOK
<1>5. CASE /\ fav' = [fav EXCEPT ![u] = IF reply[r].fav THEN @ \ {s} ELSE @ \cup {s}]
           /\ trouble' = [q \in Requests |-> IF Undone(r, q) THEN trouble[q] \cup {"overtaken"}
                                             ELSE trouble[q]]
  <2>1. isIn <=> ~reply[r].fav
    BY <1>1, <1>5 DEF TypeOK, LibTypeOK
  <2>2. trouble'[r] = trouble[r]
    BY <1>5 DEF Undone
  <2>3. trouble'[r] = {} => (in <=> reply[r].fav)
    BY <1>1, <2>2 DEF RowsSeen, Seen
  <2>4. Turned(r)
    <3>1. trouble'[r] # {} \/ (isIn <=> ~in)
      BY <2>1, <2>3
    <3>2. isIn <=> reply'[r].fav
      BY <2>1, <1>4
    <3> QED  BY <3>1, <3>2 DEF Turned
  <2>5. ASSUME NEW p \in Requests, p # r PROVE Seen(p)'
    <3> SUFFICES ASSUME at[p] = "write", trouble'[p] = {}
                 PROVE  reply[p].fav <=> ask[p].song \in fav'[as[p]]
      BY <1>3, <2>5 DEF Seen
    <3>1. trouble[p] = {} /\ ~Undone(r, p)
      BY <1>5
    <3>2. ask[p].op = "toggle" /\ as[p] \in Users
      BY DEF Requested, Request
    <3>3. as[p] # as[r] \/ ask[p].song # ask[r].song
      BY <2>5, <3>1, <3>2 DEF Undone
    <3>4. ask[p].song \in fav'[as[p]] <=> ask[p].song \in fav[as[p]]
      BY <1>1, <1>5, <3>2, <3>3 DEF TypeOK, LibTypeOK
    <3> QED  BY <3>1, <3>4 DEF RowsSeen, Seen
  <2> QED  BY <1>3, <2>4, <2>5
<1>6. CASE trouble' = [trouble EXCEPT ![r] = @ \cup {"failed"}] /\ UNCHANGED fav
  <2>1. "failed" \in trouble'[r] /\ \A p \in Requests : p # r => trouble'[p] = trouble[p]
    BY <1>6 DEF TypeOK, LibTypeOK
  <2>2. Turned(r)
    BY <2>1, Zenon DEF Turned
  <2>3. \A p \in Requests : p # r => Seen(p)'
    BY <1>3, <1>6, <2>1 DEF RowsSeen, Seen
  <2> QED  BY <1>3, <2>2, <2>3
<1> QED  BY <1>5, <1>6 DEF ToggleWrite

TogglesTurn ==
  \A r \in Requests : Op(r, "toggle", "write") /\ at'[r] = "answered" => Turned(r)

LEMMA QuietSees ==
  ASSUME RowsSeen, UNCHANGED fav, NEW p \in Requests, Quiet(p)
  PROVE  Seen(p)'
BY DEF RowsSeen, Seen, Quiet

LEMMA RowsStep ==
  ASSUME SessionInv, RowsSeen, [Next]_vars
  PROVE  RowsSeen' /\ TogglesTurn
<1> USE DEF SessionInv
<1>1. ASSUME PageStep PROVE RowsSeen' /\ TogglesTurn
  <2>1. ASSUME NEW p \in Requests PROVE Seen(p)'
    <3>1. CASE Quiet(p)
      BY <1>1, <3>1, QuietSees DEF PageStep
    <3>2. CASE at'[p] \in {"none", "arrived"}
      BY <3>2 DEF Seen
    <3> QED  BY <1>1, <3>1, <3>2 DEF PageStep
  <2>2. \A p \in Requests : at[p] = "write" => at'[p] # "answered"
    BY <1>1 DEF PageStep, Quiet
  <2> QED  BY <2>1, <2>2 DEF RowsSeen, TogglesTurn, Op
<1>2. ASSUME NEW r \in Requests, Serve(r) PROVE RowsSeen' /\ TogglesTurn
  <2>1. CASE ToggleWrite(r)
    <3>1. /\ Turned(r) /\ at'[r] = "answered"
          /\ \A p \in Requests : p # r => Seen(p)' /\ at'[p] = at[p]
      BY <2>1, ToggleWriteTurns
    <3>2. RowsSeen'
      BY <3>1 DEF RowsSeen, Seen
    <3> QED  BY <3>1, <3>2 DEF TogglesTurn, Op
  <2>2. CASE ToggleCheck(r)
    <3>1. /\ UNCHANGED fav /\ at[r] # "write" /\ Seen(r)'
          /\ \A p \in Requests : p # r => Quiet(p)
      BY <2>2, ToggleCheckSees
    <3>2. RowsSeen'
      BY <3>1, QuietSees DEF RowsSeen
    <3> QED  BY <3>1, <3>2 DEF TogglesTurn, Op, Quiet
  <2>3. CASE ~ToggleWrite(r) /\ ~ToggleCheck(r)
    <3>1. /\ UNCHANGED fav /\ at[r] # "write" /\ at'[r] # "write"
          /\ \A p \in Requests : p # r => Quiet(p)
      BY <1>2, <2>3, ServeIsQuiet
    <3>2. RowsSeen'
      BY <3>1, QuietSees DEF RowsSeen, Seen
    <3> QED  BY <3>1, <3>2 DEF TogglesTurn, Op, Quiet
  <2> QED  BY <2>1, <2>2, <2>3
<1>3. ASSUME NEW r \in Requests, Backend(r) PROVE RowsSeen' /\ TogglesTurn
  BY <1>1, <1>2, <1>3, ForgetQuiet DEF Backend
<1>4. CASE Clicked \/ \E r \in Requests : Browser(r)
  BY <1>1, <1>4, PageIsQuiet
<1>5. ASSUME NEW t \in valid, Lapse(t) PROVE RowsSeen' /\ TogglesTurn
  <2>1. PageStep
    BY <1>5 DEF Lapse, PageStep, Quiet
  <2> QED  BY <1>1, <2>1
<1>6. CASE UNCHANGED vars
  <2>1. PageStep
    BY <1>6, StillQuiet DEF vars
  <2> QED  BY <1>1, <2>1
<1> QED  BY <1>3, <1>4, <1>5, <1>6 DEF Next

(* A toggle turns its row over and answers what it left, for any number of  *)
(* requests side by side, unless one of its queries failed or another       *)
(* toggle of the row came in between.                                       *)
THEOREM TogglesTurnOver == Spec => ToggleTurnsOver
<1>1. Init => RowsSeen
  BY DEF Init, LibInit, RowsSeen, Seen
<1>2. SessionInv /\ RowsSeen /\ [Next]_vars => RowsSeen' /\ TogglesTurn
  BY RowsStep
<1>3. TogglesTurn =>
        [\A r \in Requests : Op(r, "toggle", "write") /\ at'[r] = "answered" =>
           LET was == ask[r].song \in fav[as[r]]
               is == ask[r].song \in fav'[as[r]]
           IN  /\ (is <=> ~was) \/ trouble'[r] # {}
               /\ (is <=> reply'[r].fav) \/ "failed" \in trouble'[r]]_libVars
  BY DEF TogglesTurn, Turned
<1> QED  BY <1>1, <1>2, <1>3, SessionInvHolds, PTL DEF Spec, ToggleTurnsOver
=============================================================================
